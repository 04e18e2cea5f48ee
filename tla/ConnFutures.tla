----------------------------- MODULE ConnFutures -----------------------------
(***************************************************************************)
(* What a redisconn Connection promises the callers of Send, SendAsk and   *)
(* SendBatchFlags, with sockets, shards and goroutines abstracted away.  A *)
(* call hands over the futures of its requests; each of them is later      *)
(* resolved exactly once, with the response to its own request or with an *)
(* error, and a cancelled or refused call may fail its futures at once.    *)
(* RedisConn implements this specification (see FuturesRefined there).    *)
(***************************************************************************)
EXTENDS FiniteSets

CONSTANTS
  Subs,     \* the calls
  ReqsOf,   \* ReqsOf[i]: the request futures call i hands over
  Err       \* an error passed to Resolve

Requests == UNION {ReqsOf[i] : i \in Subs}

VARIABLES
  submitted,  \* the calls made so far
  result      \* result[e]: the values e was resolved with, in order

vars == <<submitted, result>>

\* Futures of calls made whose result is still outstanding.
Pending == {e \in Requests : result[e] = <<>> /\ \E i \in submitted : e \in ReqsOf[i]}

Init ==
  /\ submitted = {}
  /\ result = [e \in Requests |-> <<>>]

\* A call: accepted, or refused with every one of its futures failed.
Call(i) ==
  /\ i \notin submitted
  /\ submitted' = submitted \cup {i}
  /\ \/ UNCHANGED result
     \/ result' = [e \in Requests |-> IF e \in ReqsOf[i] THEN <<Err>> ELSE result[e]]

\* A pending future receives the response to its own request.
Respond(e) ==
  /\ e \in Pending
  /\ result' = [result EXCEPT ![e] = <<e>>]
  /\ UNCHANGED submitted

\* Several pending futures fail together (a dropped socket or shard queue).
Fail(S) ==
  /\ S # {} /\ S \subseteq Pending
  /\ result' = [e \in Requests |-> IF e \in S THEN <<Err>> ELSE result[e]]
  /\ UNCHANGED submitted

\* Any step that resolves e.
Resolves(e) == Respond(e) \/ \E S \in SUBSET Pending : e \in S /\ Fail(S)

Next ==
  \/ \E i \in Subs : Call(i)
  \/ \E e \in Requests : Respond(e)
  \/ \E S \in SUBSET Pending : Fail(S)

SafeSpec == Init /\ [][Next]_vars

\* Every pending future is eventually resolved.
Spec == SafeSpec /\ \A e \in Requests : WF_vars(Resolves(e))

=============================================================================
