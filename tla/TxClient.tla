------------------------------ MODULE TxClient ------------------------------
(***************************************************************************)
(* The API client of packages/api/request.go (Login, PostTxResult, WaitTx) *)
(* talking to the sendTx handler of packages/api/send_tx.go and to a node  *)
(* that processes the queued transactions.                                 *)
(*                                                                         *)
(* Each client logs in and then calls PostTxResult once: it fetches the    *)
(* contract, builds and signs the transaction, posts it to sendTx, and     *)
(* (unless "nowait") polls txstatus up to TxStatusPolls times, one second  *)
(* apart.  The node includes a queued transaction in a block or rejects    *)
(* it whenever it likes.  Every HTTP exchange may fail, including after    *)
(* the server has acted.  Transactions are identified by their client.    *)
(* An API reader meanwhile asks txinfo (packages/api/txinfo.go) about     *)
(* some of the hashes while the node goes on playing blocks.              *)
(***************************************************************************)
EXTENDS Integers, Sequences, FiniteSets, TLC

CONSTANTS
    Clients,       \* API clients, each posting one transaction
    FormValid,     \* FormValid[c]: every field of c's form parses
    KeyValid,      \* KeyValid[c]: c's private key derives a key and signs
    TxSize,        \* TxSize[c]: the size of c's signed transaction
    MaxTxSize,     \* syspar.GetMaxTxSize()
    NoWait,        \* NoWait[c]: c's form has "nowait"
    TxStatusPolls, \* the 15 iterations of the WaitTx loop
    MaxBlocks,     \* bound on the blocks the node produces
    Faults,        \* the failures the environment may inject
    MaxFaults,     \* bound on the number of injected failures
    TxInfoBatches, \* the hash lists a txinfo request may carry
    BadHash        \* a hash that hex.DecodeString refuses

FaultKinds ==
    { "Http",   \* a request or its answer fails (transport, status, JSON)
      "Io",     \* r.FormFile or ioutil.ReadAll fails in sendTx
      "Db" }    \* model.SendTx fails in sendTx

ASSUME Faults \subseteq FaultKinds

\* The errors PostTxResult returns, "nil" for none.
Errors == {"nil", "http", "param", "key", "size", "io", "db", "txerr", "timeout"}

VARIABLES
    pc,       \* pc[c]: "login", "contract", "build", "send", "wait", "done"
    auth,     \* auth[c]: connect.Auth: "none", "uid" (getuid token), "session"
    polls,    \* polls[c]: iterations of the WaitTx loop so far
    resId,    \* resId[c]: the id PostTxResult returned
    resErr,   \* resErr[c]: the error it returned ("nil" for none)
    status,   \* status[c]: "none", "queued", "included" or "rejected"
    blockOf,  \* blockOf[c]: the block that includes c's transaction, or 0
    blocks,   \* blocks the node has produced
    faults,   \* failures injected so far
    info      \* the txinfo request being served (see TxInfoRequest)

vars == <<pc, auth, polls, resId, resErr, status, blockOf, blocks, faults, info>>

client == <<pc, auth, polls, resId, resErr>>
node == <<status, blockOf, blocks>>

Fault(f) == f \in Faults /\ faults < MaxFaults

Failed == faults' = faults + 1

Goto(c, l) == pc' = [pc EXCEPT ![c] = l]

\* PostTxResult returns (id, msg, err); msg is not modelled.
Return(c, id, e) ==
    /\ Goto(c, "done")
    /\ resId' = [resId EXCEPT ![c] = id]
    /\ resErr' = [resErr EXCEPT ![c] = e]

\* SendRawRequest, SendRequest, SendGet, SendPost and SendMultipart: an
\* error of http.NewRequest, client.Do or ioutil.ReadAll, a status other
\* than 200, or an answer that does not unmarshal.  It may happen after the
\* server has handled the request.
HttpError == Fault("Http")

Init ==
    /\ pc = [c \in Clients |-> "login"]
    /\ auth = [c \in Clients |-> "none"]
    /\ polls = [c \in Clients |-> 0]
    /\ resId = [c \in Clients |-> 0]
    /\ resErr = [c \in Clients |-> "nil"]
    /\ status = [c \in Clients |-> "none"]
    /\ blockOf = [c \in Clients |-> 0]
    /\ blocks = 0
    /\ faults = 0
    /\ info = [pc |-> "idle", batch |-> <<>>, i |-> 1, err |-> "nil",
               res |-> [h \in {} |-> [id |-> 0, at |-> 0]]]

\* POST login: connect.Auth = logret.Token, the empty token when the POST
\* failed, and the POST's error is Login's.
LoginPost(c) ==
    \/ /\ HttpError
       /\ Failed
       /\ auth' = [auth EXCEPT ![c] = "none"]
       /\ Return(c, 0, "http")
    \/ /\ auth' = [auth EXCEPT ![c] = "session"]
       /\ Goto(c, "contract")
       /\ UNCHANGED <<faults, resId, resErr>>

(***************************************************************************)
(* Login: getuid (whose token becomes connect.Auth), sign, POST login.     *)
(* A failed Login ends the client.  The getuid answer always carries a     *)
(* UID here (the handler is not in src/).                                  *)
(***************************************************************************)
Login(c) ==
    /\ pc[c] = "login"
    /\ \/ /\ HttpError                       \* getuid fails
          /\ Failed
          /\ Return(c, 0, "http")
          /\ UNCHANGED auth
       \/ /\ ~KeyValid[c]                    \* crypto.SignString fails
          /\ auth' = [auth EXCEPT ![c] = "uid"]
          /\ Return(c, 0, "key")
          /\ UNCHANGED faults
       \/ /\ KeyValid[c]
          /\ LoginPost(c)
    /\ UNCHANGED <<polls, node, info>>

\* PostTxResult: GET contract/<name>.  The client holds a session token here
\* (a failed Login ends it), so only the request itself can fail.
GetContract(c) ==
    /\ pc[c] = "contract"
    /\ \/ /\ HttpError
          /\ Failed
          /\ Return(c, 0, "http")
       \/ /\ Goto(c, "build")
          /\ UNCHANGED <<faults, resId, resErr>>
    /\ UNCHANGED <<auth, polls, node, info>>

\* The loop over the contract's fields (ParseBool, ParseInt, ParseFloat,
\* json.Unmarshal) fails on a malformed value.  crypto.PrivateToPublic and
\* tx.NewTransaction only fail for a key that Login's SignString refused.
BuildTx(c) ==
    /\ pc[c] = "build"
    /\ \/ /\ ~FormValid[c]
          /\ Return(c, 0, "param")
       \/ /\ FormValid[c]
          /\ Goto(c, "send")
          /\ UNCHANGED <<resId, resErr>>
    /\ UNCHANGED <<auth, polls, node, faults, info>>

(***************************************************************************)
(* sendTx (send_tx.go), the handler of the multipart POST, ending with     *)
(* error e ("nil" for none).  Only model.SendTx queues the transaction.    *)
(***************************************************************************)
\* Mutant: the transaction is queued before its size is checked.
sendTxSizeUnchecked(c, e) ==
    \/ e = "io" /\ Fault("Io") /\ UNCHANGED status
    \/ e = "size" /\ TxSize[c] > MaxTxSize /\ status' = [status EXCEPT ![c] = "queued"]
    \/ e = "db" /\ Fault("Db") /\ UNCHANGED status
    \/ e = "nil" /\ status' = [status EXCEPT ![c] = "queued"]

sendTx(c, e) ==
    \/ e = "io" /\ Fault("Io") /\ UNCHANGED status            \* FormFile, ReadAll
    \/ e = "size" /\ TxSize[c] > MaxTxSize /\ UNCHANGED status \* E_LIMITTXSIZE
    \/ e = "db" /\ TxSize[c] <= MaxTxSize /\ Fault("Db") /\ UNCHANGED status
    \/ e = "nil" /\ TxSize[c] <= MaxTxSize /\ status' = [status EXCEPT ![c] = "queued"]

\* PostTxResult: SendMultipart("sendTx"); then return at once with "nowait",
\* or call WaitTx.  An answer lost on its way back is an error whatever the
\* handler did.
SendTx(c) ==
    /\ pc[c] = "send"
    /\ \E e \in {"io", "size", "db", "nil"} :
         /\ sendTx(c, e)
         /\ \/ /\ e \in {"io", "db"}
               /\ Failed
               /\ Return(c, 0, e)
            \/ /\ e = "size"
               /\ UNCHANGED faults
               /\ Return(c, 0, e)
            \/ /\ e = "nil"
               /\ HttpError
               /\ Failed
               /\ Return(c, 0, "http")
            \/ /\ e = "nil"
               /\ NoWait[c]
               /\ UNCHANGED faults
               /\ Return(c, 0, "nil")
            \/ /\ e = "nil"
               /\ ~NoWait[c]
               /\ UNCHANGED <<faults, resId, resErr>>
               /\ Goto(c, "wait")
    /\ UNCHANGED <<auth, polls, blockOf, blocks, info>>

(***************************************************************************)
(* WaitTx: POST txstatus for the hash, once per iteration.  A block id in  *)
(* the answer returns (id, fmt.Errorf(Result)), never a nil error; an      *)
(* error message returns (0, message); otherwise sleep one second.  The    *)
(* txstatus handler is not in src/: it reports the node's status of c.     *)
(***************************************************************************)
\* Mutant: the loop counter is not advanced.
SleepNoCount(c) == polls' = polls

\* One iteration of the loop ends: i++ after time.Sleep(time.Second).
Sleep(c) == polls' = [polls EXCEPT ![c] = @ + 1]

\* Mutant: the error of WaitTx is returned as is.
PostTxErrKept(id, e) == e

\* Mutant: the test of id is dropped, so every error becomes the message.
PostTxErrAnyId(id, e) == IF e # "nil" THEN "nil" ELSE e

\* PostTxResult after WaitTx: with a block id, the error is the result text
\* and is returned as msg with a nil error.
PostTxErr(id, e) == IF id # 0 /\ e # "nil" THEN "nil" ELSE e

WaitTx(c) ==
    /\ pc[c] = "wait"
    /\ polls[c] < TxStatusPolls
    /\ \/ /\ HttpError
          /\ Failed
          /\ Return(c, 0, PostTxErr(0, "http"))
          /\ UNCHANGED polls
       \/ /\ status[c] = "included"
          /\ Return(c, blockOf[c], PostTxErr(blockOf[c], "result"))
          /\ UNCHANGED <<polls, faults>>
       \/ /\ status[c] = "rejected"
          /\ Return(c, 0, PostTxErr(0, "txerr"))
          /\ UNCHANGED <<polls, faults>>
       \/ /\ status[c] = "queued"
          /\ Sleep(c)
          /\ UNCHANGED <<pc, resId, resErr, faults>>
    /\ UNCHANGED <<auth, node, info>>

\* The loop ends after TxStatusPolls iterations: "TxStatus timeout".
WaitTxTimeout(c) ==
    /\ pc[c] = "wait"
    /\ polls[c] = TxStatusPolls
    /\ Return(c, 0, PostTxErr(0, "timeout"))
    /\ UNCHANGED <<auth, polls, node, faults, info>>

(***************************************************************************)
(* The node: a queued transaction is played into the next block, or fails *)
(* and gets an error message.  It does so at any time, or never.           *)
(***************************************************************************)
Include(c) ==
    /\ status[c] = "queued"
    /\ blocks < MaxBlocks
    /\ blocks' = blocks + 1
    /\ blockOf' = [blockOf EXCEPT ![c] = blocks + 1]
    /\ status' = [status EXCEPT ![c] = "included"]
    /\ UNCHANGED <<client, faults, info>>

Reject(c) ==
    /\ status[c] = "queued"
    /\ status' = [status EXCEPT ![c] = "rejected"]
    /\ UNCHANGED <<client, blockOf, blocks, faults, info>>

(***************************************************************************)
(* txinfo (txinfo.go): getTxInfoHandler answers the hash of its URL,       *)
(* getTxInfoMultiHandler the list of its JSON "data" field, one getTxInfo *)
(* query after the other.  Blocks are played between the queries.  A hash  *)
(* is in log_transactions once the node has played its transaction.  The  *)
(* confirmation count and the contract data change no outcome here but    *)
(* the errors of their queries.                                            *)
(***************************************************************************)
\* The parsed form: parseForm fails (or, for the list, json.Unmarshal with
\* errHashWrong), or the single hash, or the list of hashes.
TxInfoRequest ==
    /\ info.pc = "idle"
    /\ \E b \in TxInfoBatches :
         \/ info' = [info EXCEPT !.pc = "done", !.err = "form"]
         \/ info' = [info EXCEPT !.pc = "loop", !.batch = <<Head(b)>>]
         \/ info' = [info EXCEPT !.pc = "loop", !.batch = b]
    /\ UNCHANGED <<client, node, faults>>

\* getTxInfo: the block id of the log_transactions row, or the empty status
\* (block id "", shown as 0) when there is none.
getTxInfo(h) == IF status[h] = "included" THEN blockOf[h] ELSE 0

\* Mutant: a failed lookup is skipped and the loop goes on.
TxInfoFailSkipped(e) == info' = [info EXCEPT !.i = @ + 1]

\* errorResponse: the request ends with the error, and no result is sent.
TxInfoFail(e) == info' = [info EXCEPT !.pc = "done", !.err = e]

\* One hash of the list: hex.DecodeString fails (errHashWrong), a query of
\* getTxInfo fails, or result.Results[hash] = status.  "at" records how
\* many blocks there were when the row was read.
TxInfoHash ==
    /\ info.pc = "loop"
    /\ info.i <= Len(info.batch)
    /\ LET h == info.batch[info.i] IN
       \/ /\ h = BadHash
          /\ TxInfoFail("hashwrong")
          /\ UNCHANGED faults
       \/ /\ h # BadHash
          /\ Fault("Db")         \* GetByHash, GetConfirmation, TransactionData
          /\ Failed
          /\ TxInfoFail("db")
       \/ /\ h # BadHash
          /\ info' = [info EXCEPT !.i = @ + 1,
                                   !.res = (h :> [id |-> getTxInfo(h), at |-> blocks]) @@ @]
          /\ UNCHANGED faults
    /\ UNCHANGED <<client, node>>

\* jsonResponse of the results once every hash has been looked up.
TxInfoAnswer ==
    /\ info.pc = "loop"
    /\ info.i > Len(info.batch)
    /\ info' = [info EXCEPT !.pc = "done"]
    /\ UNCHANGED <<client, node, faults>>

TxInfo == TxInfoRequest \/ TxInfoHash \/ TxInfoAnswer

Client(c) ==
    \/ Login(c) \/ GetContract(c) \/ BuildTx(c) \/ SendTx(c)
    \/ WaitTx(c) \/ WaitTxTimeout(c)

Next == TxInfo \/ \E c \in Clients : Client(c) \/ Include(c) \/ Reject(c)

\* A client's calls run to completion; the node gets no fairness.
Spec == Init /\ [][Next]_vars /\ \A c \in Clients : WF_vars(Client(c))

-----------------------------------------------------------------------------
TypeOK ==
    /\ pc \in [Clients -> {"login", "contract", "build", "send", "wait", "done"}]
    /\ auth \in [Clients -> {"none", "uid", "session"}]
    /\ polls \in [Clients -> 0..TxStatusPolls]
    /\ resId \in [Clients -> 0..MaxBlocks]
    /\ resErr \in [Clients -> Errors]
    /\ status \in [Clients -> {"none", "queued", "included", "rejected"}]
    /\ blockOf \in [Clients -> 0..MaxBlocks] /\ blocks \in 0..MaxBlocks
    /\ faults \in 0..MaxFaults
    /\ info.pc \in {"idle", "loop", "done"}
    /\ info.batch \in Seq(Clients \cup {BadHash})
    /\ info.err \in {"nil", "form", "hashwrong", "db"}
    /\ info.res \in [DOMAIN info.res -> [id : 0..MaxBlocks, at : 0..MaxBlocks]]

\* A PostTxResult that waited and returned no error names the block that
\* holds its transaction, whatever the node did and in whatever order the
\* polls saw it.
ResultReflectsNode ==
    \A c \in Clients :
        pc[c] = "done" /\ resErr[c] = "nil" /\ ~NoWait[c] =>
            /\ resId[c] > 0
            /\ status[c] = "included"
            /\ blockOf[c] = resId[c]

\* An error that sendTx or the client itself reports means that the
\* transaction never reached the node.  (Only "http" and "timeout" leave
\* the outcome open.)
DefiniteErrorsDidNothing ==
    \A c \in Clients :
        resErr[c] \in {"param", "key", "size", "io", "db"} => status[c] = "none"

\* A txinfo answer without error has a result for every hash asked, each
\* the block that holds the transaction, or no block for one the node had
\* not played when its row was read, however blocks were played between
\* the queries of the list.
TxInfoAnswersNode ==
    info.pc = "done" /\ info.err = "nil" =>
        /\ DOMAIN info.res = {info.batch[j] : j \in DOMAIN info.batch}
        /\ \A h \in DOMAIN info.res :
              IF info.res[h].id # 0
              THEN status[h] = "included" /\ blockOf[h] = info.res[h].id
              ELSE blockOf[h] = 0 \/ blockOf[h] > info.res[h].at

\* Every PostTxResult returns, even when the node never decides the
\* transaction: WaitTx gives up after TxStatusPolls polls.
EveryCallReturns == \A c \in Clients : <>(pc[c] = "done")

=============================================================================
