---------------------------- MODULE StopNetwork ----------------------------
(***************************************************************************)
(* The stop-network request handler of the TCP server                      *)
(* (packages/network/tcpserver/type3.go).  A peer sends a certificate;     *)
(* processStopNetwork parses it, refuses it if it is listed in the         *)
(* compile-time list consts.UsedStopNetworkCerts, validates it against the *)
(* certificate bundle of the first block, builds a StopNetwork contract    *)
(* transaction, hashes it and enqueues it on queue.ValidateTxQueue; Type3  *)
(* then writes the hash back on the connection.                            *)
(*                                                                         *)
(* Certificates are model values.  The requesting peers are the            *)
(* environment: each sends its certificate and may send it again after an  *)
(* error answer, up to MaxAttempts times.                                  *)
(***************************************************************************)
EXTENDS Integers, Sequences, FiniteSets

CONSTANTS
    Senders,               \* peers that send a stop-network request
    CertOf,                \* CertOf[s]: the certificate bytes peer s sends
    Parsable,              \* certificates utils.ParseCert accepts
    StopNetworkCertBundle, \* certificates that Validate against the bundle
    UsedStopNetworkCerts,  \* consts.UsedStopNetworkCerts (compile time)
    MaxAttempts,           \* bound on the requests one peer sends
    Faults,                \* the failures the environment may inject
    MaxFaults              \* bound on the number of injected failures

Certs == {CertOf[s] : s \in Senders}

FaultKinds ==
    { "FirstBlockData",  \* syspar.GetFirstBlockData fails
      "CallContract",    \* smart.CallContract("StopNetwork", ...) fails
      "Hash",            \* smartTx.Hash() fails
      "Enqueue",         \* queue.ValidateTxQueue.Enqueue fails
      "Write" }          \* res.Write(w): the answer is lost on the connection

ASSUME Faults \subseteq FaultKinds

VARIABLES
    queue,     \* queue.ValidateTxQueue: the StopNetwork transactions, in order
    st,        \* st[s]: "idle", "sent" (request in flight), "ok" or "err"
    attempts,  \* attempts[s]: requests peer s has sent
    faults,    \* failures injected so far
    outcomes   \* outcomes[s]: per request of s, "hash" (answered), "lost"
               \* (hash written, Write failed) or "error" (no hash); history

vars == <<queue, st, attempts, faults, outcomes>>

Fault(f) == f \in Faults /\ faults < MaxFaults

Failed == faults' = faults + 1

QueuedCerts == {queue[i] : i \in DOMAIN queue}

Init ==
    /\ queue = <<>>
    /\ st = [s \in Senders |-> "idle"]
    /\ attempts = [s \in Senders |-> 0]
    /\ faults = 0
    /\ outcomes = [s \in Senders |-> <<>>]

\* A peer sends its certificate: the first time, or again after an error.
Send(s) ==
    /\ st[s] \in {"idle", "err"}
    /\ attempts[s] < MaxAttempts
    /\ st' = [st EXCEPT ![s] = "sent"]
    /\ attempts' = [attempts EXCEPT ![s] = @ + 1]
    /\ UNCHANGED <<queue, faults, outcomes>>

(***************************************************************************)
(* processStopNetwork, its checks in the order of the code.  A check that  *)
(* only reads the certificate is a predicate; a step that may fail on its  *)
(* own (GetFirstBlockData, CallContract, Hash, Enqueue) is a fault.        *)
(***************************************************************************)
\* ParseCert succeeds and the certificate is not listed as used.
Admitted(c) == c \in Parsable /\ c \notin UsedStopNetworkCerts

\* cert.Validate(fbdata.StopNetworkCertBundle) succeeds.
Validate(c) == c \in StopNetworkCertBundle

\* processStopNetwork returns an error because of the certificate itself.
Refused(c) == ~Admitted(c) \/ ~Validate(c)

\* The peer reads answer r; o records what became of the request.
Answer(s, r, o) ==
    /\ st' = [st EXCEPT ![s] = r]
    /\ outcomes' = [outcomes EXCEPT ![s] = Append(@, o)]

EnqueueAndAnswer(s, c) ==
    /\ queue' = Append(queue, c)
    /\ \/ /\ Fault("Write")
          /\ Failed
          /\ Answer(s, "err", "lost")
       \/ /\ Answer(s, "ok", "hash")
          /\ UNCHANGED faults

\* processStopNetwork and the answer of Type3 for the request of peer s:
\* every exit, in the order of the code.
Process(s) ==
    LET c == CertOf[s] IN
    /\ \/ /\ Refused(c)
          /\ Answer(s, "err", "error")
          /\ UNCHANGED <<queue, faults>>
       \/ /\ ~Refused(c)
          /\ \E f \in {"FirstBlockData", "CallContract", "Hash", "Enqueue"} : Fault(f)
          /\ Failed
          /\ Answer(s, "err", "error")
          /\ UNCHANGED queue
       \/ /\ ~Refused(c)
          /\ EnqueueAndAnswer(s, c)
    /\ UNCHANGED attempts

\* Mutant: the handler runs again on a request it already answered.
Type3Redelivered(s) == st[s] # "idle" /\ Process(s)

\* Type3 handles the one request peer s has in flight.
Type3(s) == st[s] = "sent" /\ Process(s)

Next == \E s \in Senders : Send(s) \/ Type3(s)

Spec == Init /\ [][Next]_vars

-----------------------------------------------------------------------------
\* Each request puts at most one transaction on the queue.
TypeOK ==
    /\ queue \in Seq(Certs)
    /\ Len(queue) <= Cardinality(Senders) * MaxAttempts
    /\ st \in [Senders -> {"idle", "sent", "ok", "err"}]
    /\ attempts \in [Senders -> 0..MaxAttempts]
    /\ faults \in 0..MaxFaults
    /\ outcomes \in [Senders -> Seq({"hash", "lost", "error"})]

\* The transactions of certificate c on ValidateTxQueue, and the requests
\* with c that enqueued one by the record of their outcomes.
Queued(c) == Cardinality({i \in DOMAIN queue : queue[i] = c})

Effective(c) ==
    Cardinality(UNION {{<<s, i>> : i \in {j \in DOMAIN outcomes[s] :
                                              outcomes[s][j] \in {"hash", "lost"}}} :
                       s \in {x \in Senders : CertOf[x] = c}})

=============================================================================
