--------------------------- MODULE MCContractsGen ---------------------------
(* Instantiates ContractsGen for TLC with the three scenarios of the code *)
(* and small contract files whose text holds every character escape      *)
(* treats specially.                                                      *)
EXTENDS ContractsGen, TLC

PercentVerb(n) == <<"%", "[", n, "]", "d">>

MCScenarios ==
    << [source |-> <<"ecosystem">>, ecosystem |-> PercentVerb("1"), owner |-> PercentVerb("2")],
       [source |-> <<"common", "first_ecosystem">>, ecosystem |-> <<"1">>, owner |-> PercentVerb("1")],
       [source |-> <<"common", "first_ecosystem", "vde">>, ecosystem |-> PercentVerb("1"), owner |-> <<>>] >>

\* The ecosystem id and the wallet the migration formats each SQL with.
MCArgs == << <<<<"5">>, <<"9">>>>, <<<<"9">>>>, <<<<"5">>>> >>

Line(p, t) == [prop |-> p, text |-> t]

\* A source line with a percent sign and a quote, and an AppID.
FileA == [name |-> <<"a">>, ext |-> ".sim",
          lines |-> <<Line("none", <<"%", "'">>), Line("AppID", <<"1">>)>>]
\* Conditions with a backquote and a double quote; backquotes in the source.
FileB == [name |-> <<"b">>, ext |-> ".sim",
          lines |-> <<Line("Conditions", <<BackQuote, DoubleQuote>>), Line("none", <<BackQuote, "a">>),
                      Line("none", <<"'">>)>>]
\* A second contract named a, in another directory.
FileA2 == [name |-> <<"a">>, ext |-> ".sim", lines |-> <<Line("none", <<"a", "%">>)>>]
\* Not a contract.
FileGo == [name |-> <<"c">>, ext |-> ".go", lines |-> <<Line("none", <<BackQuote>>)>>]
\* AppID defined twice: toml.Unmarshal fails.
FileBad == [name |-> <<"d">>, ext |-> ".sim",
            lines |-> <<Line("AppID", <<"1">>), Line("AppID", <<"2">>)>>]

MCDirs == {"ecosystem", "common", "first_ecosystem", "vde"}

MCTrees ==
    [MCDirs -> {<<FileB, FileA>>, <<FileGo, FileA2>>, <<FileA2, FileB>>, <<FileBad>>}]

MCNameOrder == <<"a", "b", "c", "d">>

=============================================================================
