----------------------------- MODULE LegacyConn -----------------------------
(***************************************************************************)
(* The older pipelined connection, src/redisconn/conn.go.  It differs from *)
(* RedisConn in four ways the model keeps:                                 *)
(*  - producers serialize into shard.buf at submit time, and a batch call  *)
(*    (SendBatchFlags) that finds the connection Closed or Disconnected    *)
(*    returns before its error reaches the callback;                       *)
(*  - the writer writes into a bufio.Writer and flushes it only when       *)
(*    dirtyShard is empty, when one.futures is full, or when the buffer    *)
(*    overflows; it also returns as soon as the context is cancelled;      *)
(*  - closing forever does not close dirtyShard;                           *)
(*  - the reader walks each batch with an index and, after a hard error,   *)
(*    calls every future of the current batch again.                       *)
(* Data abstraction as in RedisConn: a future is an entry, its request's   *)
(* bytes and the server's response are the entry itself, errors are Err.   *)
(***************************************************************************)
EXTENDS Naturals, Sequences, FiniteSets, SequencesExt

CONSTANTS
  Concurrency,   \* opts.Concurrency, the number of shards
  Subs,          \* submissions (calls of SendAsk / SendBatchFlags)
  BatchSubs,     \* the submissions made with SendBatchFlags
  Batch,         \* Batch[i]: the futures submission i appends, markers included
  Markers,       \* entries holding the dumb future (ASKING, MULTI)
  Cancelled,     \* submissions whose future reports !Active()
  Weight,        \* Weight[e]: size of the serialized request of entry e
  BufLimit,      \* size of the bufio.Writer buffer (128 KiB)
  FutCap,        \* capacity of one.futures (Concurrency*8 in the code)
  MaxSessions,   \* bound on successful dials (sockets)
  MaxFaults,     \* bound on socket failures
  MaxDialFails,  \* bound on failed dials while sockets remain
  Async,         \* opts.Async
  Reconnect,     \* opts.ReconnectPause >= 0
  Deadline,      \* opts.IOTimeout > 0: reads go through newDeadlineIO
  PingSub,       \* the submission of control's Ping (one Ping per behaviour)
  Nil, NoOne, InitG, ControlG, Err, NilCall

Entries == UNION {Range(Batch[i]) : i \in Subs}
Sessions == 1..MaxSessions
Shards == 0..(Concurrency - 1)
G == {InitG} \cup Sessions

ASSUME /\ BatchSubs \subseteq Subs /\ Cancelled \subseteq Subs
       /\ PingSub \in Subs \ (BatchSubs \cup Cancelled)
       /\ \A i, j \in Subs : i # j => Range(Batch[i]) \cap Range(Batch[j]) = {}

\* Capacity of conn.dirtyShard (conn.go 114).
DirtyCap == Concurrency * 2

Reqs(i) == {Batch[i][j] : j \in {x \in DOMAIN Batch[i] : Batch[i][x] \notin Markers}}
Size(p) == FoldLeft(LAMBDA acc, e : acc + Weight[e], 0, p)

VARIABLES
  state, c, mutex, ctxDone, returned, connFailed, shardid,
  shard,       \* shard[s].futures (shard[s].buf holds their bytes)
  dirty,       \* contents of conn.dirtyShard
  sub, subShard, gpc, recon, chPending, cpc,
  sess,        \* per socket: bufio buffer, writer and reader state, one.futures
  resolved, cleared, nextSession, faults, dialFails

vars == <<state, c, mutex, ctxDone, returned, connFailed, shardid, shard,
          dirty, sub, subShard, gpc, recon, chPending, cpc, sess, resolved,
          cleared, nextSession, faults, dialFails>>

\* buf is the requests in the bufio.Writer's buffer, the first part bytes
\* of its head already flushed; wire what reached the server and not yet
\* been answered to the reader; cur and pos are the reader's batch and index.
NoSession == [up |-> FALSE, buf |-> <<>>, part |-> 0, wire |-> <<>>,
              wpc |-> "none",
              shardn |-> 0, futures |-> <<>>, ch |-> <<>>, chClosed |-> FALSE,
              control |-> FALSE, errSet |-> FALSE, rpc |-> "none",
              cur |-> <<>>, pos |-> 1]
NewSession == [NoSession EXCEPT !.up = TRUE, !.wpc = "wait", !.rpc = "recv"]

\* fut.call(v) after the loop re-calls the batch: a future whose slot the
\* reader already set to nil is called through the nil slot.
CallValue(e, v) == IF e \in cleared THEN NilCall ELSE v
ResolveAll(es, v) ==
  resolved' = [e \in Entries |->
                 IF e \in es THEN Append(resolved[e], CallValue(e, v))
                 ELSE resolved[e]]

Held(s) == \E i \in Subs : sub[i] = "locked" /\ subShard[i] = s
NoShardHeld == \A i \in Subs : sub[i] # "locked"

\* dropShardFutures: drain dirtyShard, fail every queued future, empty shards.
DropShardFutures ==
  /\ dirty' = <<>>
  /\ ResolveAll(UNION {Range(shard[s]) : s \in Shards}, Err)
  /\ shard' = [s \in Shards |-> <<>>]

\* setErr: close one.control once; every call spawns reconnect(neterr, one)
\* of socket k, a late one too.  A call made while an earlier reconnect of k
\* still runs is merged into it: the later goroutine would take conn.mutex
\* only once the earlier one released it, when conn.c is no longer k (or
\* the connection is closing), and so would do nothing.
SetErr(r) == [r EXCEPT !.errSet = TRUE, !.control = TRUE]
SpawnReconnect(k) ==
  gpc' = IF gpc[k] \in {"none", "exit"} THEN [gpc EXCEPT ![k] = "start"] ELSE gpc

-----------------------------------------------------------------------------
(* Producers: SendAsk/doSend and SendBatchFlags.                           *)

Accepting(st) == st \in {"Connecting", "Connected"}

\* Mutant: the shard number is sent when shard.buf was non-empty, not empty.
MutEnqueue(i, s) ==
  \/ /\ ~Accepting(state)
     /\ IF i \in BatchSubs THEN UNCHANGED resolved ELSE ResolveAll(Reqs(i), Err)
     /\ UNCHANGED <<shard, dirty>>
  \/ /\ Accepting(state)
     /\ shard[s] = <<>>
     /\ shard' = [shard EXCEPT ![s] = Batch[i]]
     /\ UNCHANGED <<dirty, resolved>>
  \/ /\ Accepting(state)
     /\ shard[s] # <<>>
     /\ Len(dirty) < DirtyCap
     /\ dirty' = Append(dirty, s)
     /\ shard' = [shard EXCEPT ![s] = @ \o Batch[i]]
     /\ UNCHANGED resolved

\* Under the shard lock: Closed or Disconnected refuse the call (doSend's
\* error is resolved by a goroutine; SendBatchFlags sets err and returns
\* before resolving it); otherwise append the bytes and futures, sending
\* the shard number first when shard.buf was empty.
Enqueue(i, s) ==
  \/ /\ ~Accepting(state)
     /\ IF i \in BatchSubs THEN UNCHANGED resolved ELSE ResolveAll(Reqs(i), Err)
     /\ UNCHANGED <<shard, dirty>>
  \/ /\ Accepting(state)
     /\ shard[s] = <<>>
     /\ Len(dirty) < DirtyCap
     /\ dirty' = Append(dirty, s)
     /\ shard' = [shard EXCEPT ![s] = Batch[i]]
     /\ UNCHANGED resolved
  \/ /\ Accepting(state)
     /\ shard[s] # <<>>
     /\ shard' = [shard EXCEPT ![s] = @ \o Batch[i]]
     /\ UNCHANGED <<dirty, resolved>>

\* The call: an inactive future fails at once; otherwise getShard.
Submit(i) ==
  /\ i # PingSub
  /\ returned /\ ~connFailed
  /\ sub[i] = "idle"
  /\ \/ /\ i \in Cancelled
        /\ ResolveAll(Reqs(i), Err)
        /\ sub' = [sub EXCEPT ![i] = "done"]
        /\ UNCHANGED <<shardid, subShard>>
     \/ /\ i \notin Cancelled
        /\ shardid' = (shardid + 1) % Concurrency
        /\ subShard' = [subShard EXCEPT ![i] = shardid']
        /\ sub' = [sub EXCEPT ![i] = "lock"]
        /\ UNCHANGED resolved
  /\ UNCHANGED <<state, c, mutex, ctxDone, returned, connFailed, shard, dirty,
                 gpc, recon, chPending, cpc, sess, cleared, nextSession,
                 faults, dialFails>>

LockShard(i) ==
  /\ sub[i] = "lock"
  /\ ~Held(subShard[i])
  /\ sub' = [sub EXCEPT ![i] = "locked"]
  /\ UNCHANGED <<state, c, mutex, ctxDone, returned, connFailed, shardid,
                 subShard, shard, dirty, gpc, recon, chPending, cpc, sess,
                 resolved, cleared, nextSession, faults, dialFails>>

Enqueued(i) ==
  /\ sub[i] = "locked"
  /\ Enqueue(i, subShard[i])
  /\ sub' = [sub EXCEPT ![i] = "done"]
  /\ UNCHANGED <<state, c, mutex, ctxDone, returned, connFailed, shardid,
                 subShard, gpc, recon, chPending, cpc, sess, cleared,
                 nextSession, faults, dialFails>>

Close ==
  /\ returned /\ ~connFailed /\ ~ctxDone
  /\ ctxDone' = TRUE
  /\ UNCHANGED <<state, c, mutex, returned, connFailed, shardid, shard, dirty,
                 sub, subShard, gpc, recon, chPending, cpc, sess, resolved,
                 cleared, nextSession, faults, dialFails>>

-----------------------------------------------------------------------------
(* Connection state machine: createConnection, dial, closeConnection,     *)
(* reconnect and control.                                                  *)

\* The part of closeConnection under lockShards: close conn.c and drop every
\* queued future (closing forever leaves dirtyShard open).
CloseLocked(forever) ==
  /\ NoShardHeld
  /\ c' = Nil
  /\ sess' = IF c = Nil THEN sess ELSE [sess EXCEPT ![c].up = FALSE]
  /\ DropShardFutures

\* Closing ch of an async Connect lets Connect start control and return.
ReleaseCh(g) ==
  IF g = InitG /\ chPending
    THEN /\ chPending' = FALSE /\ returned' = TRUE /\ cpc' = "run"
    ELSE UNCHANGED <<chPending, returned, cpc>>

\* Mutant: the loop test ignores the state, so a closed connection dials.
MutCcLoop(g) ==
  /\ gpc[g] = "cc"
  /\ IF c = Nil
       THEN /\ state' = "Connecting"
            /\ gpc' = [gpc EXCEPT ![g] = "dial"]
       ELSE /\ gpc' = [gpc EXCEPT ![g] = "ret"]
            /\ UNCHANGED state
  /\ ReleaseCh(g)
  /\ UNCHANGED <<c, mutex, ctxDone, connFailed, shardid, shard, dirty,
                 sub, subShard, recon, sess, resolved, cleared,
                 nextSession, faults, dialFails>>

\* The loop test of createConnection; entering the loop makes the
\* connection accept requests (state Connecting).
CcLoop(g) ==
  /\ gpc[g] = "cc"
  /\ IF c = Nil /\ state = "Disconnected"
       THEN /\ state' = "Connecting"
            /\ gpc' = [gpc EXCEPT ![g] = "dial"]
       ELSE /\ gpc' = [gpc EXCEPT ![g] = "ret"]
            /\ UNCHANGED state
  /\ ReleaseCh(g)
  /\ UNCHANGED <<c, mutex, ctxDone, connFailed, shardid, shard, dirty,
                 sub, subShard, recon, sess, resolved, cleared,
                 nextSession, faults, dialFails>>

\* Mutant: a successful dial starts the socket but never stores conn.c.
MutDial(g) ==
  /\ gpc[g] = "dial"
  /\ \/ /\ nextSession \in Sessions
        /\ NoShardHeld
        /\ sess' = [sess EXCEPT ![nextSession] = NewSession]
        /\ nextSession' = nextSession + 1
        /\ gpc' = [gpc EXCEPT ![g] = "connected"]
        /\ UNCHANGED dialFails
     \/ /\ \/ dialFails < MaxDialFails
           \/ nextSession \notin Sessions
           \/ ctxDone
        /\ dialFails' = IF nextSession \notin Sessions \/ ctxDone
                          THEN dialFails ELSE dialFails + 1
        /\ gpc' = [gpc EXCEPT ![g] = "failed"]
        /\ UNCHANGED <<sess, nextSession>>
  /\ UNCHANGED <<c, state, mutex, ctxDone, returned, connFailed, shardid, shard,
                 dirty, sub, subShard, recon, chPending, cpc,
                 resolved, cleared, faults>>

\* dial: on success the handshake is done, conn.c is set under lockShards and
\* the writer and reader of the new socket start; otherwise an error returns
\* (dial error, handshake error, or the context was cancelled).
Dial(g) ==
  /\ gpc[g] = "dial"
  /\ \/ /\ nextSession \in Sessions
        /\ NoShardHeld
        /\ c' = nextSession
        /\ sess' = [sess EXCEPT ![nextSession] = NewSession]
        /\ nextSession' = nextSession + 1
        /\ gpc' = [gpc EXCEPT ![g] = "connected"]
        /\ UNCHANGED dialFails
     \/ /\ \/ dialFails < MaxDialFails
           \/ nextSession \notin Sessions
           \/ ctxDone
        /\ dialFails' = IF nextSession \notin Sessions \/ ctxDone
                          THEN dialFails ELSE dialFails + 1
        /\ gpc' = [gpc EXCEPT ![g] = "failed"]
        /\ UNCHANGED <<c, sess, nextSession>>
  /\ UNCHANGED <<state, mutex, ctxDone, returned, connFailed, shardid, shard,
                 dirty, sub, subShard, recon, chPending, cpc,
                 resolved, cleared, faults>>

\* Successful dial: state Connected (and LogConnected reads conn.c).
Connected(g) ==
  /\ gpc[g] = "connected"
  /\ state' = "Connected"
  /\ gpc' = [gpc EXCEPT ![g] = "retOk"]
  /\ UNCHANGED <<c, mutex, ctxDone, returned, connFailed, shardid, shard,
                 dirty, sub, subShard, recon, chPending, cpc,
                 sess, resolved, cleared, nextSession, faults, dialFails>>

\* Failed dial: state Disconnected, then under lockShards drop the queue.
Failed(g) ==
  /\ gpc[g] = "failed"
  /\ state' = "Disconnected"
  /\ gpc' = [gpc EXCEPT ![g] = "drop"]
  /\ UNCHANGED <<c, mutex, ctxDone, returned, connFailed, shardid, shard,
                 dirty, sub, subShard, recon, chPending, cpc,
                 sess, resolved, cleared, nextSession, faults, dialFails>>

\* After the drop: return the error, or release conn.mutex for the pause.
FailDrop(g) ==
  /\ gpc[g] = "drop"
  /\ DropShardFutures
  /\ NoShardHeld
  /\ IF recon[g]
       THEN /\ mutex' = NoOne
            /\ gpc' = [gpc EXCEPT ![g] = "sleep"]
       ELSE /\ gpc' = [gpc EXCEPT ![g] = "retErr"]
            /\ UNCHANGED mutex
  /\ UNCHANGED <<state, c, ctxDone, returned, connFailed, shardid,
                 sub, subShard, recon, chPending, cpc, sess, cleared,
                 nextSession, faults, dialFails>>

\* After the reconnect pause, take conn.mutex again and retest the loop.
Sleep(g) ==
  /\ gpc[g] = "sleep"
  /\ mutex = NoOne
  /\ mutex' = g
  /\ gpc' = [gpc EXCEPT ![g] = "cc"]
  /\ UNCHANGED <<state, c, ctxDone, returned, connFailed, shardid, shard,
                 dirty, sub, subShard, recon, chPending, cpc,
                 sess, resolved, cleared, nextSession, faults, dialFails>>

\* Return from createConnection.  The synchronous first call of Connect
\* (no mutex, reconnect = false) fails Connect when reconnection is
\* disabled, and otherwise retries in a goroutine and returns; every other
\* caller holds conn.mutex and releases it.
Ret(g) ==
  /\ gpc[g] \in {"ret", "retOk", "retErr"}
  /\ IF g = InitG /\ ~recon[g]
       THEN IF gpc[g] = "retErr"
              THEN IF Reconnect
                     THEN /\ gpc' = [gpc EXCEPT ![g] = "lock"]
                          /\ recon' = [recon EXCEPT ![g] = TRUE]
                          /\ returned' = TRUE /\ cpc' = "run"
                          /\ UNCHANGED connFailed
                     ELSE /\ gpc' = [gpc EXCEPT ![g] = "exit"]
                          /\ connFailed' = TRUE
                          /\ UNCHANGED <<recon, returned, cpc>>
              ELSE /\ gpc' = [gpc EXCEPT ![g] = "exit"]
                   /\ returned' = TRUE /\ cpc' = "run"
                   /\ UNCHANGED <<recon, connFailed>>
       ELSE /\ gpc' = [gpc EXCEPT ![g] = "exit"]
            /\ UNCHANGED <<recon, returned, connFailed, cpc>>
  /\ mutex' = IF g = InitG /\ ~recon[g] THEN mutex ELSE NoOne
  /\ UNCHANGED <<state, c, ctxDone, shardid, shard, dirty,
                 sub, subShard, chPending, sess, resolved, cleared,
                 nextSession, faults, dialFails>>

\* The goroutine started by Connect takes conn.mutex for createConnection.
LockInit ==
  /\ gpc[InitG] = "lock"
  /\ mutex = NoOne
  /\ mutex' = InitG
  /\ gpc' = [gpc EXCEPT ![InitG] = "cc"]
  /\ UNCHANGED <<state, c, ctxDone, returned, connFailed, shardid, shard,
                 dirty, sub, subShard, recon, chPending, cpc,
                 sess, resolved, cleared, nextSession, faults, dialFails>>

\* reconnect(neterr, c) of socket k: under conn.mutex, nothing when closed,
\* Close() when reconnection is disabled, and closeConnection(neterr, false)
\* followed by createConnection(true) only while conn.c is still socket k.
ReconnectStart(k) ==
  /\ gpc[k] = "start"
  /\ mutex = NoOne
  /\ CASE state = "Closed" ->
            /\ gpc' = [gpc EXCEPT ![k] = "exit"]
            /\ UNCHANGED <<state, mutex, ctxDone>>
       [] state # "Closed" /\ ~Reconnect ->
            /\ gpc' = [gpc EXCEPT ![k] = "exit"]
            /\ ctxDone' = TRUE
            /\ UNCHANGED <<state, mutex>>
       [] state # "Closed" /\ Reconnect /\ c = k ->
            /\ mutex' = k
            /\ state' = "Disconnected"
            /\ gpc' = [gpc EXCEPT ![k] = "close"]
            /\ UNCHANGED ctxDone
       [] state # "Closed" /\ Reconnect /\ c # k ->
            /\ gpc' = [gpc EXCEPT ![k] = "exit"]
            /\ UNCHANGED <<state, mutex, ctxDone>>
  /\ UNCHANGED <<c, returned, connFailed, shardid, shard, dirty,
                 sub, subShard, recon, chPending, cpc, sess, resolved,
                 cleared, nextSession, faults, dialFails>>

ReconnectClose(k) ==
  /\ gpc[k] = "close"
  /\ CloseLocked(FALSE)
  /\ gpc' = [gpc EXCEPT ![k] = "cc"]
  /\ recon' = [recon EXCEPT ![k] = TRUE]
  /\ UNCHANGED <<state, mutex, ctxDone, returned, connFailed, shardid,
                 sub, subShard, chPending, cpc, cleared, nextSession, faults,
                 dialFails>>

\* control: on ctx.Done take conn.mutex and closeConnection(closeErr, true).
ControlClose ==
  /\ cpc = "run"
  /\ ctxDone
  /\ mutex = NoOne
  /\ mutex' = ControlG
  /\ state' = "Closed"
  /\ cpc' = "close"
  /\ UNCHANGED <<c, ctxDone, returned, connFailed, shardid, shard, dirty,
                 sub, subShard, gpc, recon, chPending, sess,
                 resolved, cleared, nextSession, faults, dialFails>>

\* control's ticker fires (the select also picks it when ctx.Done is ready):
\* Ping sends PING through Send, a getShard as in doSend, and then waits in
\* redis.Sync.Do until the future is resolved, not watching ctx.Done.
ControlPing ==
  /\ cpc = "run"
  /\ sub[PingSub] = "idle"
  /\ shardid' = (shardid + 1) % Concurrency
  /\ subShard' = [subShard EXCEPT ![PingSub] = shardid']
  /\ sub' = [sub EXCEPT ![PingSub] = "lock"]
  /\ cpc' = "ping"
  /\ UNCHANGED <<state, c, mutex, ctxDone, returned, connFailed, shard, dirty,
                 gpc, recon, chPending, sess, resolved, cleared, nextSession,
                 faults, dialFails>>

\* Ping returns once PING's future is resolved: PONG, or an error (a refused
\* call, a failed socket); control goes back to its select.
ControlPong ==
  /\ cpc = "ping"
  /\ \A e \in Reqs(PingSub) : resolved[e] # <<>>
  /\ cpc' = "run"
  /\ UNCHANGED <<state, c, mutex, ctxDone, returned, connFailed, shardid,
                 shard, dirty, sub, subShard, gpc, recon, chPending, sess,
                 resolved, cleared, nextSession, faults, dialFails>>

ControlCloseLocked ==
  /\ cpc = "close"
  /\ CloseLocked(TRUE)
  /\ cpc' = "exit"
  /\ mutex' = NoOne
  /\ UNCHANGED <<state, ctxDone, returned, connFailed, shardid, sub, subShard,
                 gpc, recon, chPending, cleared, nextSession, faults,
                 dialFails>>


-----------------------------------------------------------------------------
(* The writer goroutine of socket k, writing through a bufio.Writer.       *)

WriterVarsUnchanged ==
  UNCHANGED <<state, c, mutex, ctxDone, returned, connFailed, shardid, sub,
              subShard, recon, chPending, cpc, resolved, cleared, nextSession,
              faults, dialFails>>

\* w.Flush(): the buffered bytes reach the server.  An empty buffer is never
\* written, so its Flush succeeds even on a failed socket.
Flushed(r) == [r EXCEPT !.wire = @ \o r.buf, !.buf = <<>>, !.part = 0]
FlushFails(r) == ~r.up /\ r.buf # <<>>

\* A failure of the writer: setErr (and its reconnect goroutine), return.
WriterFails(k) ==
  /\ sess' = [sess EXCEPT ![k] = [SetErr(@) EXCEPT !.wpc = "exit"]]
  /\ SpawnReconnect(k)

\* The non-blocking select at the top of the loop.  Go picks among the
\* ready cases at random; with none ready it takes the default branch.
WriterWait(k) ==
  /\ sess[k].wpc = "wait"
  /\ \/ /\ dirty # <<>>
        /\ dirty' = Tail(dirty)
        /\ sess' = [sess EXCEPT ![k].shardn = Head(dirty), ![k].wpc = "swap"]
     \/ /\ ctxDone \/ sess[k].control
        /\ sess' = [sess EXCEPT ![k].wpc = "exit"]
        /\ UNCHANGED dirty
     \/ /\ dirty = <<>> /\ ~ctxDone /\ ~sess[k].control
        /\ sess' = [sess EXCEPT ![k].wpc = "sched"]
        /\ UNCHANGED dirty
  /\ UNCHANGED <<shard, gpc>>
  /\ WriterVarsUnchanged

\* default: after runtime.Gosched, flush when dirtyShard is still empty.
WriterSched(k) ==
  /\ sess[k].wpc = "sched"
  /\ \/ /\ dirty # <<>>
        /\ sess' = [sess EXCEPT ![k].wpc = "block"]
        /\ UNCHANGED gpc
     \/ /\ dirty = <<>> /\ ~FlushFails(sess[k])
        /\ sess' = [sess EXCEPT ![k] = [Flushed(@) EXCEPT !.wpc = "block"]]
        /\ UNCHANGED gpc
     \/ /\ dirty = <<>> /\ FlushFails(sess[k])
        /\ WriterFails(k)
  /\ UNCHANGED <<shard, dirty>>
  /\ WriterVarsUnchanged

\* The blocking select: a dirty shard, ctx.Done or one.control.
WriterBlock(k) ==
  /\ sess[k].wpc = "block"
  /\ \/ /\ dirty # <<>>
        /\ dirty' = Tail(dirty)
        /\ sess' = [sess EXCEPT ![k].shardn = Head(dirty), ![k].wpc = "swap"]
     \/ /\ ctxDone \/ sess[k].control
        /\ sess' = [sess EXCEPT ![k].wpc = "exit"]
        /\ UNCHANGED dirty
  /\ UNCHANGED <<shard, gpc>>
  /\ WriterVarsUnchanged

\* Swap shard.buf and shard.futures out under the shard's lock; an empty
\* shard (a stale notification) continues the loop.
WriterSwap(k) ==
  LET s == sess[k].shardn IN
  /\ sess[k].wpc = "swap"
  /\ ~Held(s)
  /\ shard' = [shard EXCEPT ![s] = <<>>]
  /\ sess' = [sess EXCEPT ![k].futures = shard[s],
                          ![k].wpc = IF shard[s] = <<>> THEN "wait" ELSE "send"]
  /\ UNCHANGED <<dirty, gpc>>
  /\ WriterVarsUnchanged

\* Mutant: the capacity test of one.futures is off by one.
MutWriterSend(k) ==
  /\ sess[k].wpc = "send"
  /\ \/ /\ Len(sess[k].ch) <= FutCap
        /\ sess' = [sess EXCEPT ![k].ch = Append(@, sess[k].futures),
                                ![k].wpc = "write"]
     \/ /\ Len(sess[k].ch) = FutCap
        /\ sess' = [sess EXCEPT ![k].wpc = "full"]
  /\ UNCHANGED <<shard, dirty, gpc>>
  /\ WriterVarsUnchanged

\* Hand the batch to the reader without blocking, or find one.futures full.
WriterSend(k) ==
  /\ sess[k].wpc = "send"
  /\ \/ /\ Len(sess[k].ch) < FutCap
        /\ sess' = [sess EXCEPT ![k].ch = Append(@, sess[k].futures),
                                ![k].wpc = "write"]
     \/ /\ Len(sess[k].ch) = FutCap
        /\ sess' = [sess EXCEPT ![k].wpc = "full"]
  /\ UNCHANGED <<shard, dirty, gpc>>
  /\ WriterVarsUnchanged

\* one.futures is full: flush so the reader gets responses; on a failed
\* flush the batch is still sent (blocking) before setErr.
WriterFull(k) ==
  /\ sess[k].wpc = "full"
  /\ sess' = [sess EXCEPT ![k] = IF FlushFails(@) THEN [@ EXCEPT !.wpc = "send3"]
                                 ELSE [Flushed(@) EXCEPT !.wpc = "send2"]]
  /\ UNCHANGED <<shard, dirty, gpc>>
  /\ WriterVarsUnchanged

\* The blocking one.futures <- futures after the flush.
WriterSendBlocked(k) ==
  /\ sess[k].wpc \in {"send2", "send3"}
  /\ Len(sess[k].ch) < FutCap
  /\ IF sess[k].wpc = "send2"
       THEN /\ sess' = [sess EXCEPT ![k].ch = Append(@, sess[k].futures),
                                    ![k].wpc = "write"]
            /\ UNCHANGED gpc
       ELSE /\ sess' = [sess EXCEPT ![k] = [SetErr(@) EXCEPT
                          !.ch = Append(@, sess[k].futures), !.wpc = "exit"]]
            /\ SpawnReconnect(k)
  /\ UNCHANGED <<shard, dirty>>
  /\ WriterVarsUnchanged

\* The bytes in the bufio buffer.
Buffered(r) == Size(r.buf) - r.part

\* The longest prefix of s whose requests lie wholly in its first n bytes.
FitPrefix(s, n) ==
  LET F == {q \in Prefixes(s) : Size(q) <= n}
  IN CHOOSE q \in F : \A q2 \in F : Len(q2) <= Len(q)

\* Mutant: a packet that overflows the buffer goes out ahead of the bytes
\* already buffered.
MutWriterWrite(k) ==
  LET r == sess[k]
      p == r.futures
      avail == BufLimit - Buffered(r)
  IN
  /\ r.wpc = "write"
  /\ \/ /\ Size(p) <= avail
        /\ sess' = [sess EXCEPT ![k].buf = r.buf \o p, ![k].futures = <<>>,
                                ![k].wpc = "wait"]
        /\ UNCHANGED gpc
     \/ /\ Size(p) > avail /\ r.up
        /\ sess' = [sess EXCEPT ![k].wire = @ \o p, ![k].futures = <<>>,
                                ![k].wpc = "wait"]
        /\ UNCHANGED gpc
     \/ /\ Size(p) > avail /\ ~r.up
        /\ WriterFails(k)
  /\ UNCHANGED <<shard, dirty>>
  /\ WriterVarsUnchanged

\* w.Write(packet), as bufio.Writer.Write does it: a packet that fits the
\* free space is copied into the buffer.  Otherwise an empty buffer is
\* bypassed by a direct write; a non-empty one is topped up with the
\* packet's head and flushed, and the rest is written directly if it still
\* exceeds the buffer, or else buffered.  The reader can answer only the
\* requests whose bytes all reached the server.  A failed write calls
\* setErr.  Then a fresh futures slice.
WriterWrite(k) ==
  LET r == sess[k]
      p == r.futures
      nb == r.buf \o p
      avail == BufLimit - Buffered(r)
      out == FitPrefix(nb, r.part + BufLimit)
  IN
  /\ r.wpc = "write"
  /\ \/ /\ Size(p) <= avail
        /\ sess' = [sess EXCEPT ![k].buf = nb, ![k].futures = <<>>,
                                ![k].wpc = "wait"]
        /\ UNCHANGED gpc
     \/ /\ Size(p) > avail /\ r.up
        /\ IF Buffered(r) = 0 \/ Size(p) - avail > BufLimit
             THEN sess' = [sess EXCEPT ![k].wire = @ \o nb, ![k].buf = <<>>,
                                       ![k].part = 0, ![k].futures = <<>>,
                                       ![k].wpc = "wait"]
             ELSE sess' = [sess EXCEPT ![k].wire = @ \o out,
                                       ![k].buf = SubSeq(nb, Len(out) + 1, Len(nb)),
                                       ![k].part = r.part + BufLimit - Size(out),
                                       ![k].futures = <<>>, ![k].wpc = "wait"]
        /\ UNCHANGED gpc
     \/ /\ Size(p) > avail /\ ~r.up
        /\ WriterFails(k)
  /\ UNCHANGED <<shard, dirty>>
  /\ WriterVarsUnchanged

\* The deferred close(one.futures).
WriterExit(k) ==
  /\ sess[k].wpc = "exit"
  /\ sess' = [sess EXCEPT ![k].chClosed = TRUE, ![k].wpc = "done"]
  /\ UNCHANGED <<shard, dirty, gpc>>
  /\ WriterVarsUnchanged

-----------------------------------------------------------------------------
(* The reader goroutine of socket k and the network.                       *)

ReaderVarsUnchanged ==
  UNCHANGED <<state, c, mutex, ctxDone, returned, connFailed, shardid, shard,
              dirty, sub, subShard, recon, chPending, cpc, nextSession,
              faults, dialFails>>

\* futures[i].Future = nil, then the copy fut is called.
CallHead(e, v) ==
  /\ resolved' = [resolved EXCEPT ![e] = Append(@, CallValue(e, v))]
  /\ cleared' = cleared \cup {e}

\* for futures = range one.futures: the next batch, or the end of the loop.
ReaderRecv(k) ==
  /\ sess[k].rpc = "recv"
  /\ \/ /\ sess[k].ch # <<>>
        /\ sess' = [sess EXCEPT ![k].cur = Head(sess[k].ch), ![k].pos = 1,
                                ![k].ch = Tail(@), ![k].rpc = "read"]
     \/ /\ sess[k].ch = <<>> /\ sess[k].chClosed
        /\ sess' = [sess EXCEPT ![k].rpc = "done"]
  /\ UNCHANGED <<gpc, resolved, cleared>>
  /\ ReaderVarsUnchanged

\* Mutant: the rest of the current batch is never failed.
MutReaderFail(k) ==
  /\ sess[k].rpc = "fail"
  /\ sess' = [sess EXCEPT ![k].cur = <<>>, ![k].rpc = "drain"]
  /\ UNCHANGED <<gpc, cleared, resolved>>
  /\ ReaderVarsUnchanged

\* resp.Read for futures[i]: a response is paired with the future; a hard
\* error (failed socket, or the IOTimeout deadline passing while no response
\* is on the wire) calls setErr and the future with one.err, and leaves the
\* inner loop; the end of a batch sets futures = nil.
ReaderRead(k) ==
  LET r == sess[k] IN
  /\ r.rpc = "read"
  /\ \/ /\ r.pos > Len(r.cur)
        /\ sess' = [sess EXCEPT ![k].cur = <<>>, ![k].rpc = "recv"]
        /\ UNCHANGED <<gpc, resolved, cleared>>
     \/ /\ r.pos <= Len(r.cur) /\ r.wire # <<>>
        /\ CallHead(r.cur[r.pos], Head(r.wire))
        /\ sess' = [sess EXCEPT ![k].wire = Tail(@), ![k].pos = @ + 1]
        /\ UNCHANGED gpc
     \/ /\ r.pos <= Len(r.cur) /\ r.wire = <<>> /\ (~r.up \/ Deadline)
        /\ CallHead(r.cur[r.pos], Err)
        /\ sess' = [sess EXCEPT ![k] = [SetErr(@) EXCEPT !.rpc = "fail"]]
        /\ SpawnReconnect(k)
  /\ ReaderVarsUnchanged

\* After the loop: call every future still in futures with one.err.
ReaderFail(k) ==
  /\ sess[k].rpc = "fail"
  /\ ResolveAll(Range(sess[k].cur), Err)
  /\ sess' = [sess EXCEPT ![k].cur = <<>>, ![k].rpc = "drain"]
  /\ UNCHANGED <<gpc, cleared>>
  /\ ReaderVarsUnchanged

\* Fail every batch still in one.futures until it is closed.
ReaderDrain(k) ==
  /\ sess[k].rpc = "drain"
  /\ \/ /\ sess[k].ch # <<>>
        /\ ResolveAll(Range(Head(sess[k].ch)), Err)
        /\ sess' = [sess EXCEPT ![k].ch = Tail(@)]
     \/ /\ sess[k].ch = <<>> /\ sess[k].chClosed
        /\ sess' = [sess EXCEPT ![k].rpc = "done"]
        /\ UNCHANGED resolved
  /\ UNCHANGED <<gpc, cleared>>
  /\ ReaderVarsUnchanged

\* The socket fails: I/O error, deadline or protocol error.
Break(k) ==
  /\ sess[k].wpc # "none" /\ sess[k].up
  /\ faults < MaxFaults
  /\ faults' = faults + 1
  /\ sess' = [sess EXCEPT ![k].up = FALSE]
  /\ UNCHANGED <<state, c, mutex, ctxDone, returned, connFailed, shardid,
                 shard, dirty, sub, subShard, gpc, recon, chPending, cpc,
                 resolved, cleared, nextSession, dialFails>>

-----------------------------------------------------------------------------
(* The specification.                                                      *)

Init ==
  /\ state = "Disconnected"
  /\ c = Nil
  /\ mutex = NoOne
  /\ ctxDone = FALSE
  /\ returned = FALSE
  /\ connFailed = FALSE
  /\ shardid = 0
  /\ shard = [s \in Shards |-> <<>>]
  /\ dirty = <<>>
  /\ sub = [i \in Subs |-> "idle"]
  /\ subShard = [i \in Subs |-> 0]
  /\ gpc = [g \in G |-> IF g = InitG THEN (IF Async THEN "lock" ELSE "cc")
                        ELSE "none"]
  /\ recon = [g \in G |-> g = InitG /\ Async]
  /\ chPending = Async
  /\ cpc = "off"
  /\ sess = [k \in Sessions |-> NoSession]
  /\ resolved = [e \in Entries |-> <<>>]
  /\ cleared = {}
  /\ nextSession = 1
  /\ faults = 0
  /\ dialFails = 0

Idle ==
  /\ connFailed \/ \A i \in Subs \ {PingSub} : sub[i] = "done"
  /\ UNCHANGED vars

Producer(i) == Submit(i) \/ LockShard(i) \/ Enqueued(i)
Creator(g) ==
  CcLoop(g) \/ Dial(g) \/ Connected(g) \/ Failed(g) \/ FailDrop(g) \/ Ret(g)
Writer(k) ==
  \/ WriterWait(k) \/ WriterSched(k) \/ WriterBlock(k) \/ WriterSwap(k)
  \/ WriterSend(k) \/ WriterFull(k) \/ WriterSendBlocked(k) \/ WriterWrite(k)
  \/ WriterExit(k)
Reader(k) == ReaderRecv(k) \/ ReaderRead(k) \/ ReaderFail(k) \/ ReaderDrain(k)

Next ==
  \/ \E i \in Subs : Producer(i)
  \/ Close
  \/ \E g \in G : Creator(g) \/ Sleep(g)
  \/ LockInit
  \/ \E k \in Sessions : ReconnectStart(k) \/ ReconnectClose(k)
  \/ ControlClose \/ ControlCloseLocked \/ ControlPing \/ ControlPong
  \/ \E k \in Sessions : Writer(k) \/ Reader(k) \/ Break(k)
  \/ Idle

\* The same scheduling assumption as RedisConn: weak fairness per goroutine.
Fairness ==
  /\ \A g \in G : WF_vars(Creator(g)) /\ WF_vars(Sleep(g))
  /\ WF_vars(LockInit)
  /\ \A k \in Sessions : WF_vars(ReconnectStart(k)) /\ WF_vars(ReconnectClose(k))
  /\ WF_vars(ControlClose) /\ WF_vars(ControlCloseLocked)
  /\ WF_vars(ControlPing) /\ WF_vars(ControlPong)
  /\ \A k \in Sessions : WF_vars(Writer(k)) /\ WF_vars(Reader(k))
  /\ \A i \in Subs : WF_vars(LockShard(i)) /\ WF_vars(Enqueued(i))

Spec == Init /\ [][Next]_vars /\ Fairness

-----------------------------------------------------------------------------
(* Properties.                                                             *)

TypeOK ==
  /\ state \in {"Disconnected", "Connecting", "Connected", "Closed"}
  /\ c \in Sessions \cup {Nil}
  /\ shard \in [Shards -> Seq(Entries)]
  /\ dirty \in Seq(Shards) /\ Len(dirty) <= DirtyCap
  /\ sub \in [Subs -> {"idle", "lock", "locked", "done"}]
  /\ \A k \in Sessions : Len(sess[k].ch) <= FutCap
  /\ resolved \in [Entries -> Seq(Entries \cup {Err, NilCall})]
  /\ faults \in 0..MaxFaults /\ dialFails \in 0..MaxDialFails

\* No lost wakeup: a shard holding futures has its number pending on
\* dirtyShard or held by a writer about to swap it (doSend notifies under
\* the shard lock when shard.buf was empty; the writer swaps under it).
NoLostWakeup ==
  \A s \in Shards :
    shard[s] # <<>> =>
      \/ \E j \in DOMAIN dirty : dirty[j] = s
      \/ \E k \in Sessions : sess[k].wpc = "swap" /\ sess[k].shardn = s

\* A future resolved with a response gets the response to its own request:
\* the bufio buffer, the write-through of large packets and the flush on a
\* full one.futures keep the byte order equal to the batch order.
ResponsesPaired ==
  \A e \in Entries : \A j \in DOMAIN resolved[e] :
    resolved[e][j] \in Entries => resolved[e][j] = e

\* Each caller future is resolved at most once, and never through a slot the
\* reader already set to nil (reader hard-error path, drain, dropShardFutures).
ResolvedAtMostOnce ==
  \A e \in Entries :
    /\ e \notin Markers => Len(resolved[e]) <= 1
    /\ \A j \in DOMAIN resolved[e] : resolved[e][j] # NilCall

\* Connected implies a socket: createConnection stores Connected after dial
\* set conn.c under lockShards.
ConnectedHasSocket == state = "Connected" => c # Nil

\* Closed is final: no createConnection or reconnect leaves it.
ClosedIsFinal == [][state = "Closed" => state' = "Closed"]_vars

\* Every request of a call is eventually resolved (by its response, the
\* reader's error path, dropShardFutures or the call's own error) unless the
\* context is cancelled first; what Close owes is CloseTakesEffect.
EveryRequestResolved ==
  \A i \in Subs :
    sub[i] # "idle" ~> \/ \A e \in Reqs(i) : resolved[e] # <<>>
                       \/ ctxDone

\* Close takes effect: once the context is cancelled (Close, or reconnect
\* with reconnection disabled) the control goroutine eventually stores
\* Closed and fails what is queued.  control is blocked in Ping while PING
\* is outstanding, so this needs PING's future to be resolved even though
\* the writer returns on ctx.Done without flushing its bufio buffer.
CloseTakesEffect == ctxDone ~> state = "Closed"

=============================================================================
