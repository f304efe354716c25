---------------------------- MODULE ContractsGen ----------------------------
(***************************************************************************)
(* The contract generator packages/migration/gen/contracts.go.  For every  *)
(* scenario, main calls generate: loadSources walks the scenario's source  *)
(* directories, loadSource splits every .sim file into "// +prop " lines   *)
(* (TOML metadata) and source lines, the contracts are sorted by name, and *)
(* the html/template contractsTemplate writes one VALUES row per contract  *)
(* into a Go raw string literal.  When the migration runs, that literal is *)
(* formatted by fmt.Sprintf and executed as SQL, so escape has to undo     *)
(* three readers: Go's raw literal, Sprintf's verbs and SQL's quotes.      *)
(*                                                                         *)
(* Text is a sequence of tokens: the characters the three readers treat    *)
(* specially are tokens of their own, and a token of any other text is     *)
(* one string.  A line's "// +prop " prefix is its prop field.             *)
(***************************************************************************)
EXTENDS Integers, Sequences, SequencesExt, Functions

CONSTANTS
    Scenarios,  \* the scenarios slice: [source, ecosystem, owner]
    Dirs,       \* the source directories the scenarios name
    Trees,      \* the possible trees: [Dirs -> the files Walk visits, in order]
    Args,       \* Args[i]: the arguments Sprintf gets for scenario i's SQL
    NameOrder   \* the characters of file names, in byte order

Ext == ".sim"

\* The backquote and the double quote characters, as tokens.
BackQuote == "backquote"
DoubleQuote == "double quote"

\* The text backquote, " + ", double quote, backquote, double quote, " + ",
\* backquote: how escape writes a backquote inside a raw string literal.
BQ == <<BackQuote, " ", "+", " ", DoubleQuote, BackQuote, DoubleQuote, " ", "+", " ", BackQuote>>

VARIABLES
    tree,     \* the files under each source directory
    sc,       \* the scenario main is at
    di, fi,   \* the directory of the scenario and the file Walk is at
    sources,  \* the contracts loadSources has collected
    out,      \* out[i].rows: the VALUES rows written for scenario i;
              \* out[i].files: the file of each row
    status    \* "load", "done", or "panic" (main panics on an error)

vars == <<tree, sc, di, fi, sources, out, status>>

\* strings.Replace(s, c, r, -1) for a one-character c.
ReplaceChar(s, c, r) == FlattenSeq([i \in DOMAIN s |-> IF s[i] = c THEN r ELSE <<s[i]>>])

\* Mutant: the percent sign is not doubled.
escapeNoPercent(data) ==
    ReplaceChar(ReplaceChar(data, "'", <<"'", "'">>), BackQuote, BQ)

\* escape: % for Sprintf, ' for SQL, ` for the raw string literal.
escape(data) ==
    ReplaceChar(ReplaceChar(ReplaceChar(data, "%", <<"%", "%">>), "'", <<"'", "'">>),
                BackQuote, BQ)

\* html/template escapes a string (not template.HTML) in text context.
HtmlChar(c) ==
    CASE c = "'" -> <<"&#39;">> [] c = DoubleQuote -> <<"&#34;">> [] c = "&" -> <<"&amp;">>
      [] c = "+" -> <<"&#43;">> [] c = "<" -> <<"&lt;">> [] c = ">" -> <<"&gt;">>
      [] OTHER -> <<c>>
Html(s) == FlattenSeq([i \in DOMAIN s |-> HtmlChar(s[i])])

\* The meta a file's prop lines give, and the source text of its other lines.
PropLines(f) == SelectSeq(f.lines, LAMBDA l : l.prop # "none")
DataOf(f) == FlattenSeq([i \in DOMAIN SelectSeq(f.lines, LAMBDA l : l.prop = "none") |->
                 SelectSeq(f.lines, LAMBDA l : l.prop = "none")[i].text \o <<"\n">>])
\* toml.Unmarshal fails on a key defined twice.
TomlOK(f) == IsInjective([i \in DOMAIN PropLines(f) |-> PropLines(f)[i].prop])
Meta(f, key) == LET p == SelectSeq(PropLines(f), LAMBDA l : l.prop = key)
                IN IF p = <<>> THEN <<>> ELSE p[1].text

\* loadSource: the contract of a file.  file is kept for the properties.
loadSource(f) ==
    [name |-> f.name, source |-> escape(DataOf(f)),
     conditions |-> escape(Meta(f, "Conditions")), appid |-> Meta(f, "AppID"),
     file |-> f]

\* sort.Slice by Name: not stable, so equal names come in any order.
RECURSIVE NameLess(_, _)
NameLess(a, b) ==
    IF a = <<>> \/ b = <<>> THEN a = <<>> /\ b # <<>>
    ELSE IF Head(a) = Head(b) THEN NameLess(Tail(a), Tail(b))
    ELSE \E i, j \in DOMAIN NameOrder :
           i < j /\ NameOrder[i] = Head(a) /\ NameOrder[j] = Head(b)
SortedByName(s) ==
    {t \in {[i \in DOMAIN s |-> s[p[i]]] :
              p \in {q \in [DOMAIN s -> DOMAIN s] : IsInjective(q)}} :
        \A i \in 1..(Len(t) - 1) : ~NameLess(t[i + 1].name, t[i].name)}

\* One row of contractsTemplate, with ";" after the last and "," otherwise.
Row(s, c, sep) ==
    <<"\n", "\t", "(next_id(", "'", "1_contracts", "'", ")", ",", " ", "'">>
    \o Html(c.name) \o <<"'", ",", " ", "'">> \o c.source
    \o <<"'", ",", " ", "'">> \o c.conditions \o <<"'", ",", " ", "'">> \o Html(c.appid)
    \o <<"'">> \o (IF s.owner # <<>> THEN <<",", " ">> \o Html(s.owner) ELSE <<>>)
    \o <<",", " ", "'">> \o Html(s.ecosystem) \o <<"'", ")", sep>>

Render(s, cs) == [i \in DOMAIN cs |-> Row(s, cs[i], IF i = Len(cs) THEN ";" ELSE ",")]

Scenario == Scenarios[sc]
WalkFiles == tree[Scenario.source[di]]

Init ==
    /\ tree \in Trees
    /\ sc = 1 /\ di = 1 /\ fi = 1
    /\ sources = <<>>
    /\ out = <<>>
    /\ status = "load"

\* The filepath.Walk callback of loadSources for the next file.
WalkFile ==
    LET f == WalkFiles[fi] IN
    /\ status = "load"
    /\ fi <= Len(WalkFiles)
    /\ \/ /\ f.ext # Ext
          /\ fi' = fi + 1
          /\ UNCHANGED <<sources, status>>
       \/ /\ f.ext = Ext /\ ~TomlOK(f)
          /\ status' = "panic"
          /\ UNCHANGED <<sources, fi>>
       \/ /\ f.ext = Ext /\ TomlOK(f)
          /\ sources' = Append(sources, loadSource(f))
          /\ fi' = fi + 1
          /\ UNCHANGED status
    /\ UNCHANGED <<tree, sc, di, out>>

\* Mutant: the loop over s.Source runs one directory too far.
NextDirPastLast ==
    /\ status = "load"
    /\ fi > Len(WalkFiles)
    /\ di <= Len(Scenario.source)
    /\ di' = di + 1 /\ fi' = 1
    /\ UNCHANGED <<tree, sc, sources, out, status>>

\* Walk of one source directory is done; the next one starts.
NextDir ==
    /\ status = "load"
    /\ fi > Len(WalkFiles)
    /\ di < Len(Scenario.source)
    /\ di' = di + 1 /\ fi' = 1
    /\ UNCHANGED <<tree, sc, sources, out, status>>

\* The end of loadSources (the sort) and the rest of generate: os.Create,
\* which may fail, and contractsTemplate.Execute; then main's next scenario.
generate ==
    /\ status = "load"
    /\ fi > Len(WalkFiles)
    /\ di = Len(Scenario.source)
    /\ \/ /\ status' = "panic"
          /\ UNCHANGED <<sc, di, fi, sources, out>>
       \/ /\ \E sorted \in SortedByName(sources) :
                out' = Append(out, [rows |-> Render(Scenario, sorted),
                                    files |-> [i \in DOMAIN sorted |-> sorted[i].file]])
          /\ sources' = <<>>
          /\ IF sc = Len(Scenarios)
             THEN status' = "done" /\ UNCHANGED <<sc, di, fi>>
             ELSE sc' = sc + 1 /\ di' = 1 /\ fi' = 1 /\ UNCHANGED status
    /\ UNCHANGED tree

Next == WalkFile \/ NextDir \/ generate

Spec == Init /\ [][Next]_vars

-----------------------------------------------------------------------------
TypeOK ==
    /\ tree \in Trees
    /\ sc \in DOMAIN Scenarios /\ di \in DOMAIN Scenario.source
    /\ fi \in 1..(Len(WalkFiles) + 1)
    /\ status \in {"load", "done", "panic"}
    /\ Len(out) <= Len(Scenarios)

(***************************************************************************)
(* Reference readers of the generated text, one per layer: the Go compiler *)
(* reading the raw string literal, fmt.Sprintf with the scenario's          *)
(* arguments, and PostgreSQL reading the VALUES row.  Bad stands for what  *)
(* a reader cannot read: a syntax error or Sprintf's %!verb(...).          *)
(***************************************************************************)
Bad == "(unreadable)"

Rest(t, n) == SubSeq(t, n + 1, Len(t))

\* Raw literal: up to a backquote; then " + " and the next literal.
RECURSIVE GoRaw(_), GoNext(_), GoInterp(_)
GoRaw(t) ==
    IF t = <<>> THEN <<>>
    ELSE IF Head(t) = BackQuote THEN GoNext(Tail(t))
    ELSE <<Head(t)>> \o GoRaw(Tail(t))
GoNext(t) ==
    IF Len(t) >= 4 /\ SubSeq(t, 1, 3) = <<" ", "+", " ">>
    THEN CASE t[4] = BackQuote -> GoRaw(Rest(t, 4))
           [] t[4] = DoubleQuote -> GoInterp(Rest(t, 4))
           [] OTHER -> <<Bad>>
    ELSE <<Bad>>
GoInterp(t) ==
    IF t = <<>> THEN <<Bad>>
    ELSE IF Head(t) = DoubleQuote THEN GoNext(Tail(t))
    ELSE <<Head(t)>> \o GoInterp(Tail(t))

\* Sprintf: %% is a percent sign, %[n]d the n-th argument.
RECURSIVE Fmt(_, _)
Fmt(t, a) ==
    IF t = <<>> THEN <<>>
    ELSE IF Head(t) # "%" THEN <<Head(t)>> \o Fmt(Tail(t), a)
    ELSE IF Len(t) >= 2 /\ t[2] = "%" THEN <<"%">> \o Fmt(Rest(t, 2), a)
    ELSE IF Len(t) >= 5 /\ SubSeq(t, 2, 5) = <<"[", "1", "]", "d">> /\ Len(a) >= 1
         THEN a[1] \o Fmt(Rest(t, 5), a)
    ELSE IF Len(t) >= 5 /\ SubSeq(t, 2, 5) = <<"[", "2", "]", "d">> /\ Len(a) >= 2
         THEN a[2] \o Fmt(Rest(t, 5), a)
    ELSE <<Bad>>

\* A quoted SQL string after its opening quote: '' is a quote, ' ends it.
RECURSIVE SqlLit(_, _)
SqlLit(t, acc) ==
    IF t = <<>> THEN [ok |-> FALSE, val |-> acc, rest |-> t]
    ELSE IF Head(t) = "'" /\ Len(t) >= 2 /\ t[2] = "'"
         THEN SqlLit(Rest(t, 2), Append(acc, "'"))
    ELSE IF Head(t) = "'" THEN [ok |-> TRUE, val |-> acc, rest |-> Tail(t)]
    ELSE SqlLit(Tail(t), Append(acc, Head(t)))

\* An SQL value: a quoted string, or a bare number up to "," or ")".
SqlValue(t) ==
    LET stop == {i \in DOMAIN t : t[i] \in {",", ")"}} IN
    IF t # <<>> /\ Head(t) = "'" THEN SqlLit(Tail(t), <<>>)
    ELSE IF stop = {} THEN [ok |-> FALSE, val |-> t, rest |-> <<>>]
    ELSE [ok |-> TRUE, val |-> SubSeq(t, 1, Min(stop) - 1), rest |-> Rest(t, Min(stop) - 1)]

\* The values of a row up to its closing parenthesis, and what follows.
RECURSIVE SqlValues(_)
SqlValues(t) ==
    LET v == SqlValue(t) IN
    IF ~v.ok THEN [ok |-> FALSE, vals |-> <<>>, rest |-> <<>>]
    ELSE IF IsPrefix(<<",", " ">>, v.rest)
         THEN LET r == SqlValues(Rest(v.rest, 2)) IN [r EXCEPT !.vals = <<v.val>> \o @]
    ELSE IF IsPrefix(<<")">>, v.rest) THEN [ok |-> TRUE, vals |-> <<v.val>>, rest |-> Tail(v.rest)]
    ELSE [ok |-> FALSE, vals |-> <<>>, rest |-> <<>>]

RowHead == <<"\n", "\t", "(next_id(", "'", "1_contracts", "'", ")", ",", " ">>

ReadRow(t) ==
    IF IsPrefix(RowHead, t) THEN SqlValues(Rest(t, Len(RowHead)))
    ELSE [ok |-> FALSE, vals |-> <<>>, rest |-> <<>>]

\* What the row of file f has to read back as in scenario i.
Expected(i, f) ==
    <<f.name, DataOf(f), Meta(f, "Conditions"), Meta(f, "AppID")>>
    \o (IF Scenarios[i].owner # <<>> THEN <<Fmt(Scenarios[i].owner, Args[i])>> ELSE <<>>)
    \o <<Fmt(Scenarios[i].ecosystem, Args[i])>>

\* Every row the generator wrote, once Go has compiled it, Sprintf has
\* formatted it and SQL has read it, gives back its file's name, source
\* text, Conditions and AppID exactly, whatever quotes, percent signs and
\* backquotes they hold; the rows are ordered by name, and only the last
\* ends the statement.
RowsReadBack ==
    \A i \in DOMAIN out : \A j \in DOMAIN out[i].rows :
        LET r == ReadRow(Fmt(GoRaw(out[i].rows[j]), Args[i])) IN
        /\ r.ok
        /\ r.vals = Expected(i, out[i].files[j])
        /\ r.rest = <<IF j = Len(out[i].rows) THEN ";" ELSE ",">>
        /\ j > 1 => ~NameLess(r.vals[1], ReadRow(Fmt(GoRaw(out[i].rows[j - 1]),
                                                     Args[i])).vals[1])

=============================================================================
