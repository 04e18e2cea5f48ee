------------------------------ MODULE RedisConn ------------------------------
(***************************************************************************)
(* The pipelined connection of package redisconn (the current version,    *)
(* src/redis/request_writer.go lines 200-1078): producers append futures  *)
(* to shards and notify the writer on the dirtyShard channel; per socket  *)
(* one writer goroutine swaps shards out, serializes them into a packet   *)
(* and hands the future batches to the reader on one.futures; the reader  *)
(* pairs responses with futures in order.  createConnection, reconnect,   *)
(* closeConnection and the control goroutine move conn.state through      *)
(* Disconnected, Connecting, Connected and Closed.                        *)
(*                                                                         *)
(* Data abstraction: a future is an entry (a model value); the bytes of a *)
(* request are the entry itself, so a socket carries sequences of entries *)
(* and the server's response to entry e is e.  Errors are the value Err.  *)
(* Packet size is the sum of Weight over the packet, compared with        *)
(* PacketLimit (the 64 KiB threshold of the writer).                      *)
(***************************************************************************)
EXTENDS Naturals, Sequences, FiniteSets, SequencesExt

CONSTANTS
  Concurrency,   \* opts.Concurrency, the number of shards
  Subs,          \* submissions (calls of Send / SendBatchFlags)
  Batch,         \* Batch[i]: the futures submission i appends, markers included
  Markers,       \* entries holding the dumb future (ASKING, MULTI)
  Cancelled,     \* submissions whose future reports Cancelled()
  Weight,        \* Weight[e]: size of the serialized request of entry e
  PacketLimit,   \* packet size above which the writer writes after a send
  MaxSessions,   \* bound on successful dials (sockets)
  MaxFaults,     \* bound on socket failures (I/O errors, hard read errors)
  MaxDialFails,  \* bound on failed dials while sockets remain
  Async,         \* opts.Async
  Reconnect,     \* opts.ReconnectPause >= 0
  Nil,           \* conn.c == nil
  NoOne,         \* conn.mutex is free
  InitG,         \* the goroutine that runs the first createConnection
  ControlG,      \* the control goroutine
  Err,           \* an error value passed to Resolve
  NilCall        \* a call through a future slot the reader set to nil

Entries == UNION {Range(Batch[i]) : i \in Subs}
Sessions == 1..MaxSessions
Shards == 0..(Concurrency - 1)

ASSUME /\ Concurrency \in Nat \ {0}
       /\ Batch \in [Subs -> Seq(Entries)]
       /\ \A i, j \in Subs : i # j => Range(Batch[i]) \cap Range(Batch[j]) = {}
       /\ Markers \subseteq Entries /\ Cancelled \subseteq Subs
       /\ {Async, Reconnect} \subseteq BOOLEAN

\* Capacity of conn.dirtyShard and of one.futures (request_writer.go 317, 772).
DirtyCap == Concurrency * 2
FutCap == Concurrency \div 2 + 1

\* The futures of submission i whose callback the caller sees (not ASKING/MULTI).
Reqs(i) == {Batch[i][j] : j \in {x \in DOMAIN Batch[i] : Batch[i][x] \notin Markers}}

PacketSize(p) == FoldLeft(LAMBDA acc, e : acc + Weight[e], 0, p)

\* Goroutines that run createConnection: the first one, and one reconnect
\* goroutine per socket (spawned at most once by that socket's erronce).
G == {InitG} \cup Sessions

VARIABLES
  state,       \* conn.state
  c,           \* conn.c: the socket (session number) or Nil
  mutex,       \* holder of conn.mutex
  ctxDone,     \* conn.ctx is cancelled (Close() was called)
  returned,    \* Connect has returned the connection to the caller
  connFailed,  \* Connect returned an error
  shardid,     \* conn.shardid modulo Concurrency
  shard,       \* shard[s].futures
  dirty,       \* contents of conn.dirtyShard
  dirtyClosed, \* conn.dirtyShard is closed
  sub,         \* progress of each submission
  subShard,    \* the shard a submission chose
  gpc,         \* program counter of createConnection/reconnect goroutines
  recon,       \* the reconnect argument of createConnection per goroutine
  chPending,   \* async Connect still waits on ch
  cpc,         \* program counter of the control goroutine
  sess,        \* per socket: socket, writer and reader state, one.futures
  resolved,    \* resolved[e]: every value passed to e's Resolve, in order
  cleared,     \* slots whose Future field the reader has set to nil
  nextSession, \* number of the next socket dial creates
  faults,      \* socket failures so far
  dialFails    \* failed dials so far

vars == <<state, c, mutex, ctxDone, returned, connFailed, shardid, shard,
          dirty, dirtyClosed, sub, subShard, gpc, recon, chPending, cpc,
          sess, resolved, cleared, nextSession, faults, dialFails>>

\* A goroutine panicked, which ends the process: no goroutine runs after it.
\* Only the synchronous first createConnection runs without conn.mutex, so
\* only its goroutine can find conn.c nil after its own dial (LogConnected).
Panicked == gpc[InitG] = "panic"

States == {"Disconnected", "Connecting", "Connected", "Closed"}

\* One socket with its writer and reader goroutines (type oneconn).
NoSession == [up |-> FALSE, wire |-> <<>>, wpc |-> "none", shardn |-> 0,
              futures |-> <<>>, packet |-> <<>>, ch |-> <<>>,
              chClosed |-> FALSE, control |-> FALSE, errSet |-> FALSE,
              rpc |-> "none", cur |-> <<>>, res |-> Nil]
NewSession == [NoSession EXCEPT !.up = TRUE, !.wpc = "wait", !.rpc = "read"]

-----------------------------------------------------------------------------
(* Resolving futures (conn.call and cb.Resolve).                           *)

\* The value a call on entry e delivers: the slot of a future the reader has
\* already taken was set to nil, so a later call through it is a nil call.
CallValue(e, v) == IF e \in cleared THEN NilCall ELSE v

\* Call every future of the set es with value v.
ResolveAll(es, v) ==
  resolved' = [e \in Entries |->
                 IF e \in es THEN Append(resolved[e], CallValue(e, v))
                 ELSE resolved[e]]

\* A shard lock is held by a producer between shard.Lock() and its deferred
\* Unlock; it stays held while the producer is blocked on a full dirtyShard.
Held(s) == \E i \in Subs : sub[i] = "locked" /\ subShard[i] = s
NoShardHeld == \A i \in Subs : sub[i] # "locked"

\* Mutant: the queued futures are discarded without being called.
MutDropShardFutures ==
  /\ dirty' = <<>>
  /\ UNCHANGED resolved
  /\ shard' = [s \in Shards |-> <<>>]

\* dropShardFutures: drain dirtyShard, fail every queued future, empty shards.
DropShardFutures ==
  /\ dirty' = <<>>
  /\ ResolveAll(UNION {Range(shard[s]) : s \in Shards}, Err)
  /\ shard' = [s \in Shards |-> <<>>]

\* setErr: the first failure of socket k closes one.control and spawns
\* reconnect(one.err, one.c); later failures do nothing.
SetErr(r) == [r EXCEPT !.errSet = TRUE, !.control = TRUE]
SpawnReconnect(k) ==
  gpc' = IF sess[k].errSet THEN gpc ELSE [gpc EXCEPT ![k] = "start"]

-----------------------------------------------------------------------------
(* Producers: SendAsk/doSend and SendBatchFlags/doSendBatch.               *)

\* Mutant: only Disconnected is refused; Closed is taken for Connecting.
MutAccepting(st) == st # "Disconnected"

\* The state check under the shard lock: Closed and Disconnected fail the
\* request, Connecting and Connected queue it.
Accepting(st) == st \in {"Connecting", "Connected"}

\* Mutant: the emptiness test looks at the new list, so no notification.
MutEnqueue(i, s) ==
  \/ /\ ~Accepting(state)
     /\ ResolveAll(Reqs(i), Err)
     /\ UNCHANGED <<shard, dirty>>
  \/ /\ Accepting(state)
     /\ shard' = [shard EXCEPT ![s] = @ \o Batch[i]]
     /\ UNCHANGED <<dirty, resolved>>

\* Under the lock of shard s: append the futures of submission i, sending the
\* shard number on dirtyShard first when the shard was empty.  The send blocks
\* while dirtyShard is full, with the shard lock held: the step is disabled.
Enqueue(i, s) ==
  \/ /\ ~Accepting(state)
     /\ ResolveAll(Reqs(i), Err)
     /\ UNCHANGED <<shard, dirty>>
  \/ /\ Accepting(state)
     /\ shard[s] = <<>>
     /\ Len(dirty) < DirtyCap
     /\ dirty' = Append(dirty, s)
     /\ shard' = [shard EXCEPT ![s] = @ \o Batch[i]]
     /\ UNCHANGED resolved
  \/ /\ Accepting(state)
     /\ shard[s] # <<>>
     /\ shard' = [shard EXCEPT ![s] = @ \o Batch[i]]
     /\ UNCHANGED <<dirty, resolved>>

\* A call of Send/SendBatchFlags: a cancelled future fails at once; otherwise
\* getShard picks the next shard and the producer goes for its lock.
Submit(i) ==
  /\ ~Panicked
  /\ returned /\ ~connFailed
  /\ sub[i] = "idle"
  /\ \/ /\ i \in Cancelled
        /\ ResolveAll(Reqs(i), Err)
        /\ sub' = [sub EXCEPT ![i] = "done"]
        /\ UNCHANGED <<shardid, subShard>>
     \/ /\ i \notin Cancelled
        /\ shardid' = (shardid + 1) % Concurrency
        /\ subShard' = [subShard EXCEPT ![i] = shardid']
        /\ sub' = [sub EXCEPT ![i] = "lock"]
        /\ UNCHANGED resolved
  /\ UNCHANGED <<state, c, mutex, ctxDone, returned, connFailed, shard, dirty,
                 dirtyClosed, gpc, recon, chPending, cpc, sess, cleared,
                 nextSession, faults, dialFails>>

\* shard.Lock(): the producer takes the lock of its shard once it is free.
LockShard(i) ==
  /\ ~Panicked
  /\ sub[i] = "lock"
  /\ ~Held(subShard[i])
  /\ sub' = [sub EXCEPT ![i] = "locked"]
  /\ UNCHANGED <<state, c, mutex, ctxDone, returned, connFailed, shardid,
                 subShard, shard, dirty, dirtyClosed, gpc, recon, chPending,
                 cpc, sess, resolved, cleared, nextSession, faults, dialFails>>

\* The rest of doSend/doSendBatch under the lock, then the deferred Unlock
\* and, on error, cb.Resolve.
Enqueued(i) ==
  /\ ~Panicked
  /\ sub[i] = "locked"
  /\ Enqueue(i, subShard[i])
  /\ sub' = [sub EXCEPT ![i] = "done"]
  /\ UNCHANGED <<state, c, mutex, ctxDone, returned, connFailed, shardid,
                 subShard, dirtyClosed, gpc, recon, chPending, cpc, sess,
                 cleared, nextSession, faults, dialFails>>

\* Close(): cancel the connection's context.
Close ==
  /\ ~Panicked
  /\ returned /\ ~connFailed /\ ~ctxDone
  /\ ctxDone' = TRUE
  /\ UNCHANGED <<state, c, mutex, returned, connFailed, shardid, shard, dirty,
                 dirtyClosed, sub, subShard, gpc, recon, chPending, cpc, sess,
                 resolved, cleared, nextSession, faults, dialFails>>

-----------------------------------------------------------------------------
(* Connection state machine: createConnection, dial, closeConnection,     *)
(* reconnect and control.                                                  *)

\* The part of closeConnection under lockShards: close dirtyShard when
\* closing forever, close conn.c and drop every queued future.
CloseLocked(forever) ==
  /\ NoShardHeld
  /\ dirtyClosed' = (dirtyClosed \/ forever)
  /\ c' = Nil
  /\ sess' = IF c = Nil THEN sess ELSE [sess EXCEPT ![c].up = FALSE]
  /\ DropShardFutures

\* Closing ch of an async Connect lets Connect start control and return.
ReleaseCh(g) ==
  IF g = InitG /\ chPending
    THEN /\ chPending' = FALSE /\ returned' = TRUE /\ cpc' = "run"
    ELSE UNCHANGED <<chPending, returned, cpc>>

\* Mutant: the loop tests only conn.c == nil.
MutCcLoop(g) ==
  /\ ~Panicked
  /\ gpc[g] = "cc"
  /\ IF c = Nil
       THEN /\ state' = "Connecting"
            /\ gpc' = [gpc EXCEPT ![g] = "dial"]
       ELSE /\ gpc' = [gpc EXCEPT ![g] = "ret"]
            /\ UNCHANGED state
  /\ ReleaseCh(g)
  /\ UNCHANGED <<c, mutex, ctxDone, connFailed, shardid, shard, dirty,
                 dirtyClosed, sub, subShard, recon, sess, resolved, cleared,
                 nextSession, faults, dialFails>>

\* The loop test of createConnection; entering the loop makes the
\* connection accept requests (state Connecting).
CcLoop(g) ==
  /\ ~Panicked
  /\ gpc[g] = "cc"
  /\ IF c = Nil /\ state = "Disconnected"
       THEN /\ state' = "Connecting"
            /\ gpc' = [gpc EXCEPT ![g] = "dial"]
       ELSE /\ gpc' = [gpc EXCEPT ![g] = "ret"]
            /\ UNCHANGED state
  /\ ReleaseCh(g)
  /\ UNCHANGED <<c, mutex, ctxDone, connFailed, shardid, shard, dirty,
                 dirtyClosed, sub, subShard, recon, sess, resolved, cleared,
                 nextSession, faults, dialFails>>

\* Mutant: the new socket is not stored in conn.c.
MutDial(g) ==
  /\ ~Panicked
  /\ gpc[g] = "dial"
  /\ \/ /\ nextSession \in Sessions
        /\ NoShardHeld
        /\ sess' = [sess EXCEPT ![nextSession] = NewSession]
        /\ nextSession' = nextSession + 1
        /\ gpc' = [gpc EXCEPT ![g] = "connected"]
        /\ UNCHANGED <<c, dialFails>>
     \/ /\ \/ dialFails < MaxDialFails
           \/ nextSession \notin Sessions
           \/ ctxDone
        /\ dialFails' = IF nextSession \notin Sessions \/ ctxDone
                          THEN dialFails ELSE dialFails + 1
        /\ gpc' = [gpc EXCEPT ![g] = "failed"]
        /\ UNCHANGED <<c, sess, nextSession>>
  /\ UNCHANGED <<state, mutex, ctxDone, returned, connFailed, shardid, shard,
                 dirty, dirtyClosed, sub, subShard, recon, chPending, cpc,
                 resolved, cleared, faults>>

\* dial: on success the handshake is done, conn.c is set under lockShards and
\* the writer and reader of the new socket start; otherwise an error returns
\* (dial error, handshake error, or the context was cancelled).
Dial(g) ==
  /\ ~Panicked
  /\ gpc[g] = "dial"
  /\ \/ /\ nextSession \in Sessions
        /\ NoShardHeld
        /\ c' = nextSession
        /\ sess' = [sess EXCEPT ![nextSession] = NewSession]
        /\ nextSession' = nextSession + 1
        /\ gpc' = [gpc EXCEPT ![g] = "connected"]
        /\ UNCHANGED dialFails
     \/ /\ \/ dialFails < MaxDialFails
           \/ nextSession \notin Sessions
           \/ ctxDone
        /\ dialFails' = IF nextSession \notin Sessions \/ ctxDone
                          THEN dialFails ELSE dialFails + 1
        /\ gpc' = [gpc EXCEPT ![g] = "failed"]
        /\ UNCHANGED <<c, sess, nextSession>>
  /\ UNCHANGED <<state, mutex, ctxDone, returned, connFailed, shardid, shard,
                 dirty, dirtyClosed, sub, subShard, recon, chPending, cpc,
                 resolved, cleared, faults>>

\* Successful dial: state Connected.
Connected(g) ==
  /\ ~Panicked
  /\ gpc[g] = "connected"
  /\ state' = "Connected"
  /\ gpc' = [gpc EXCEPT ![g] = "report"]
  /\ UNCHANGED <<c, mutex, ctxDone, returned, connFailed, shardid, shard,
                 dirty, dirtyClosed, sub, subShard, recon, chPending, cpc,
                 sess, resolved, cleared, nextSession, faults, dialFails>>

\* report(LogConnected, conn.c.LocalAddr(), ...) reads conn.c again.  If
\* another goroutine has set it to nil since the dial, the method call on a
\* nil interface panics, and the panic ends the process.
LogConnected(g) ==
  /\ ~Panicked
  /\ gpc[g] = "report"
  /\ gpc' = [gpc EXCEPT ![g] = IF c = Nil THEN "panic" ELSE "retOk"]
  /\ UNCHANGED <<state, c, mutex, ctxDone, returned, connFailed, shardid,
                 shard, dirty, dirtyClosed, sub, subShard, recon, chPending,
                 cpc, sess, resolved, cleared, nextSession, faults, dialFails>>


\* Failed dial: state Disconnected, then under lockShards drop the queue.
Failed(g) ==
  /\ ~Panicked
  /\ gpc[g] = "failed"
  /\ state' = "Disconnected"
  /\ gpc' = [gpc EXCEPT ![g] = "drop"]
  /\ UNCHANGED <<c, mutex, ctxDone, returned, connFailed, shardid, shard,
                 dirty, dirtyClosed, sub, subShard, recon, chPending, cpc,
                 sess, resolved, cleared, nextSession, faults, dialFails>>

\* After the drop: return the error, or release conn.mutex for the pause.
FailDrop(g) ==
  /\ ~Panicked
  /\ gpc[g] = "drop"
  /\ DropShardFutures
  /\ NoShardHeld
  /\ IF recon[g]
       THEN /\ mutex' = NoOne
            /\ gpc' = [gpc EXCEPT ![g] = "sleep"]
       ELSE /\ gpc' = [gpc EXCEPT ![g] = "retErr"]
            /\ UNCHANGED mutex
  /\ UNCHANGED <<state, c, ctxDone, returned, connFailed, shardid, dirtyClosed,
                 sub, subShard, recon, chPending, cpc, sess, cleared,
                 nextSession, faults, dialFails>>

\* After the reconnect pause, take conn.mutex again and retest the loop.
Sleep(g) ==
  /\ ~Panicked
  /\ gpc[g] = "sleep"
  /\ mutex = NoOne
  /\ mutex' = g
  /\ gpc' = [gpc EXCEPT ![g] = "cc"]
  /\ UNCHANGED <<state, c, ctxDone, returned, connFailed, shardid, shard,
                 dirty, dirtyClosed, sub, subShard, recon, chPending, cpc,
                 sess, resolved, cleared, nextSession, faults, dialFails>>

\* Return from createConnection.  The synchronous first call of Connect
\* (no mutex, reconnect = false) fails Connect when reconnection is
\* disabled, and otherwise retries in a goroutine and returns; every other
\* caller holds conn.mutex and releases it.
Ret(g) ==
  /\ ~Panicked
  /\ gpc[g] \in {"ret", "retOk", "retErr"}
  /\ IF g = InitG /\ ~recon[g]
       THEN IF gpc[g] = "retErr"
              THEN \/ /\ Reconnect
                      /\ gpc' = [gpc EXCEPT ![g] = "lock"]
                      /\ recon' = [recon EXCEPT ![g] = TRUE]
                      /\ returned' = TRUE /\ cpc' = "run"
                      /\ UNCHANGED connFailed
                   \* ReconnectPause < 0, or the server refused the password
                   \* (ErrAuth): Connect returns the error.
                   \/ /\ gpc' = [gpc EXCEPT ![g] = "exit"]
                      /\ connFailed' = TRUE
                      /\ UNCHANGED <<recon, returned, cpc>>
              ELSE /\ gpc' = [gpc EXCEPT ![g] = "exit"]
                   /\ returned' = TRUE /\ cpc' = "run"
                   /\ UNCHANGED <<recon, connFailed>>
       ELSE /\ gpc' = [gpc EXCEPT ![g] = "exit"]
            /\ UNCHANGED <<recon, returned, connFailed, cpc>>
  /\ mutex' = IF g = InitG /\ ~recon[g] THEN mutex ELSE NoOne
  /\ UNCHANGED <<state, c, ctxDone, shardid, shard, dirty, dirtyClosed,
                 sub, subShard, chPending, sess, resolved, cleared,
                 nextSession, faults, dialFails>>

\* The goroutine started by Connect takes conn.mutex for createConnection.
LockInit ==
  /\ ~Panicked
  /\ gpc[InitG] = "lock"
  /\ mutex = NoOne
  /\ mutex' = InitG
  /\ gpc' = [gpc EXCEPT ![InitG] = "cc"]
  /\ UNCHANGED <<state, c, ctxDone, returned, connFailed, shardid, shard,
                 dirty, dirtyClosed, sub, subShard, recon, chPending, cpc,
                 sess, resolved, cleared, nextSession, faults, dialFails>>

\* reconnect(neterr, c) of socket k: under conn.mutex, nothing when closed,
\* Close() when reconnection is disabled, and closeConnection(neterr, false)
\* followed by createConnection(true) only while conn.c is still socket k.
ReconnectStart(k) ==
  /\ ~Panicked
  /\ gpc[k] = "start"
  /\ mutex = NoOne
  /\ CASE state = "Closed" ->
            /\ gpc' = [gpc EXCEPT ![k] = "exit"]
            /\ UNCHANGED <<state, mutex, ctxDone>>
       [] state # "Closed" /\ ~Reconnect ->
            /\ gpc' = [gpc EXCEPT ![k] = "exit"]
            /\ ctxDone' = TRUE
            /\ UNCHANGED <<state, mutex>>
       [] state # "Closed" /\ Reconnect /\ c = k ->
            /\ mutex' = k
            /\ state' = "Disconnected"
            /\ gpc' = [gpc EXCEPT ![k] = "close"]
            /\ UNCHANGED ctxDone
       [] state # "Closed" /\ Reconnect /\ c # k ->
            /\ gpc' = [gpc EXCEPT ![k] = "exit"]
            /\ UNCHANGED <<state, mutex, ctxDone>>
  /\ UNCHANGED <<c, returned, connFailed, shardid, shard, dirty, dirtyClosed,
                 sub, subShard, recon, chPending, cpc, sess, resolved,
                 cleared, nextSession, faults, dialFails>>

ReconnectClose(k) ==
  /\ ~Panicked
  /\ gpc[k] = "close"
  /\ CloseLocked(FALSE)
  /\ gpc' = [gpc EXCEPT ![k] = "cc"]
  /\ recon' = [recon EXCEPT ![k] = TRUE]
  /\ UNCHANGED <<state, mutex, ctxDone, returned, connFailed, shardid,
                 sub, subShard, chPending, cpc, cleared, nextSession, faults,
                 dialFails>>

\* control: on ctx.Done take conn.mutex and closeConnection(closeErr, true).
ControlClose ==
  /\ ~Panicked
  /\ cpc = "run"
  /\ ctxDone
  /\ mutex = NoOne
  /\ mutex' = ControlG
  /\ state' = "Closed"
  /\ cpc' = "close"
  /\ UNCHANGED <<c, ctxDone, returned, connFailed, shardid, shard, dirty,
                 dirtyClosed, sub, subShard, gpc, recon, chPending, sess,
                 resolved, cleared, nextSession, faults, dialFails>>

ControlCloseLocked ==
  /\ ~Panicked
  /\ cpc = "close"
  /\ CloseLocked(TRUE)
  /\ cpc' = "exit"
  /\ mutex' = NoOne
  /\ UNCHANGED <<state, ctxDone, returned, connFailed, shardid, sub, subShard,
                 gpc, recon, chPending, cleared, nextSession, faults,
                 dialFails>>

-----------------------------------------------------------------------------
(* The writer goroutine of socket k.                                       *)

WriterVarsUnchanged ==
  UNCHANGED <<state, c, mutex, ctxDone, returned, connFailed, shardid,
              dirtyClosed, sub, subShard, recon, chPending, cpc, resolved,
              cleared, nextSession, faults, dialFails>>

\* write(): one.c.Write(packet); on error setErr and the writer returns.
WriteOk(r) == [r EXCEPT !.wire = @ \o r.packet, !.packet = <<>>]

\* BigLoop: block until a dirty shard number arrives, dirtyShard is closed
\* or one.control is closed.
WriterWait(k) ==
  /\ ~Panicked
  /\ sess[k].wpc = "wait"
  /\ \/ /\ dirty # <<>>
        /\ dirty' = Tail(dirty)
        /\ sess' = [sess EXCEPT ![k].shardn = Head(dirty), ![k].wpc = "swap"]
     \/ /\ dirty = <<>> /\ dirtyClosed
        /\ sess' = [sess EXCEPT ![k].wpc = "exit"]
        /\ UNCHANGED dirty
     \/ /\ sess[k].control
        /\ sess' = [sess EXCEPT ![k].wpc = "exit"]
        /\ UNCHANGED dirty
  /\ UNCHANGED <<shard, gpc>>
  /\ WriterVarsUnchanged

\* Mutant: the swapped requests go in front of the packet's earlier bytes.
MutWriterSwap(k) ==
  LET s == sess[k].shardn IN
  /\ ~Panicked
  /\ sess[k].wpc = "swap"
  /\ ~Held(s)
  /\ shard' = [shard EXCEPT ![s] = sess[k].futures]
  /\ sess' = [sess EXCEPT ![k].futures = shard[s],
                          ![k].packet = shard[s] \o @,
                          ![k].wpc = IF shard[s] = <<>> THEN "control" ELSE "send"]
  /\ UNCHANGED <<dirty, gpc>>
  /\ WriterVarsUnchanged

\* Swap the shard's futures out under its lock and serialize them into the
\* packet (every queued request passed CheckArgs, so AppendRequest succeeds).
WriterSwap(k) ==
  LET s == sess[k].shardn IN
  /\ ~Panicked
  /\ sess[k].wpc = "swap"
  /\ ~Held(s)
  /\ shard' = [shard EXCEPT ![s] = sess[k].futures]
  /\ sess' = [sess EXCEPT ![k].futures = shard[s],
                          ![k].packet = @ \o shard[s],
                          ![k].wpc = IF shard[s] = <<>> THEN "control" ELSE "send"]
  /\ UNCHANGED <<dirty, gpc>>
  /\ WriterVarsUnchanged

\* Mutant: the non-blocking send is taken up to one past the capacity.
MutWriterSend(k) ==
  /\ ~Panicked
  /\ sess[k].wpc = "send"
  /\ \/ /\ Len(sess[k].ch) <= FutCap
        /\ sess' = [sess EXCEPT
              ![k].ch = Append(@, sess[k].futures),
              ![k].wpc = IF PacketSize(sess[k].packet) > PacketLimit
                           THEN "write1" ELSE "control",
              ![k].futures = IF PacketSize(sess[k].packet) > PacketLimit
                               THEN @ ELSE <<>>]
     \/ /\ Len(sess[k].ch) > FutCap
        /\ sess' = [sess EXCEPT ![k].wpc = "write2"]
  /\ UNCHANGED <<shard, dirty, gpc>>
  /\ WriterVarsUnchanged

\* Hand the batch to the reader; when one.futures is full, write first.
WriterSend(k) ==
  /\ ~Panicked
  /\ sess[k].wpc = "send"
  /\ \/ /\ Len(sess[k].ch) < FutCap
        /\ sess' = [sess EXCEPT
              ![k].ch = Append(@, sess[k].futures),
              ![k].wpc = IF PacketSize(sess[k].packet) > PacketLimit
                           THEN "write1" ELSE "control",
              ![k].futures = IF PacketSize(sess[k].packet) > PacketLimit
                               THEN @ ELSE <<>>]
     \/ /\ Len(sess[k].ch) = FutCap
        /\ sess' = [sess EXCEPT ![k].wpc = "write2"]
  /\ UNCHANGED <<shard, dirty, gpc>>
  /\ WriterVarsUnchanged

\* The write after a send that left more than 64 KiB in the packet.
WriterWriteBig(k) ==
  /\ ~Panicked
  /\ sess[k].wpc = "write1"
  /\ \/ /\ sess[k].up
        /\ sess' = [sess EXCEPT ![k] = [WriteOk(@) EXCEPT !.futures = <<>>,
                                                        !.wpc = "control"]]
        /\ UNCHANGED gpc
     \/ /\ ~sess[k].up
        /\ sess' = [sess EXCEPT ![k] = [SetErr(@) EXCEPT !.wpc = "exit"]]
        /\ SpawnReconnect(k)
  /\ UNCHANGED <<shard, dirty>>
  /\ WriterVarsUnchanged

\* The write when one.futures was full, before the blocking send.
WriterWriteFull(k) ==
  /\ ~Panicked
  /\ sess[k].wpc = "write2"
  /\ \/ /\ sess[k].up
        /\ sess' = [sess EXCEPT ![k] = [WriteOk(@) EXCEPT !.wpc = "send2"]]
        /\ UNCHANGED gpc
     \/ /\ ~sess[k].up
        /\ sess' = [sess EXCEPT ![k] = [SetErr(@) EXCEPT !.wpc = "exit"]]
        /\ SpawnReconnect(k)
  /\ UNCHANGED <<shard, dirty>>
  /\ WriterVarsUnchanged

\* The blocking send on one.futures, then a fresh futures slice.
WriterSendBlocked(k) ==
  /\ ~Panicked
  /\ sess[k].wpc = "send2"
  /\ Len(sess[k].ch) < FutCap
  /\ sess' = [sess EXCEPT ![k].ch = Append(@, sess[k].futures),
                          ![k].futures = <<>>, ![k].wpc = "control"]
  /\ UNCHANGED <<shard, dirty, gpc>>
  /\ WriterVarsUnchanged

\* control: return when one.control is closed; otherwise take the next dirty
\* shard without blocking, or go to flush and back to BigLoop.
WriterControl(k) ==
  /\ ~Panicked
  /\ sess[k].wpc = "control"
  /\ \/ /\ sess[k].control
        /\ sess' = [sess EXCEPT ![k].wpc = "exit"]
        /\ UNCHANGED dirty
     \/ /\ ~sess[k].control /\ dirty # <<>>
        /\ dirty' = Tail(dirty)
        /\ sess' = [sess EXCEPT ![k].shardn = Head(dirty), ![k].wpc = "swap"]
     \/ /\ ~sess[k].control /\ dirty = <<>> /\ dirtyClosed
        /\ sess' = [sess EXCEPT ![k].wpc = "exit"]
        /\ UNCHANGED dirty
     \/ /\ ~sess[k].control /\ dirty = <<>> /\ ~dirtyClosed
        /\ sess' = [sess EXCEPT ![k].wpc = IF sess[k].packet # <<>>
                                            THEN "flush" ELSE "wait"]
        /\ UNCHANGED dirty
  /\ UNCHANGED <<shard, gpc>>
  /\ WriterVarsUnchanged

\* Write the residual packet before parking in BigLoop.
WriterFlush(k) ==
  /\ ~Panicked
  /\ sess[k].wpc = "flush"
  /\ \/ /\ sess[k].up
        /\ sess' = [sess EXCEPT ![k] = [WriteOk(@) EXCEPT !.wpc = "wait"]]
        /\ UNCHANGED gpc
     \/ /\ ~sess[k].up
        /\ sess' = [sess EXCEPT ![k] = [SetErr(@) EXCEPT !.wpc = "exit"]]
        /\ SpawnReconnect(k)
  /\ UNCHANGED <<shard, dirty>>
  /\ WriterVarsUnchanged

\* The deferred function: send the futures still held, close one.futures.
WriterExit(k) ==
  /\ ~Panicked
  /\ sess[k].wpc = "exit"
  /\ sess[k].futures # <<>> => Len(sess[k].ch) < FutCap
  /\ sess' = [sess EXCEPT ![k].ch = IF sess[k].futures # <<>>
                                      THEN Append(@, sess[k].futures) ELSE @,
                          ![k].chClosed = TRUE, ![k].wpc = "done"]
  /\ UNCHANGED <<shard, dirty, gpc>>
  /\ WriterVarsUnchanged

-----------------------------------------------------------------------------
(* The reader goroutine of socket k and the network.                       *)

ReaderVarsUnchanged ==
  UNCHANGED <<state, c, mutex, ctxDone, returned, connFailed, shardid, shard,
              dirty, dirtyClosed, sub, subShard, recon, chPending, cpc,
              nextSession, faults, dialFails>>

\* conn.call on the head of the batch: the reader first sets the slot's
\* Future to nil, then calls the copy it took.
CallHead(e, v) ==
  /\ resolved' = [resolved EXCEPT ![e] = Append(@, CallValue(e, v))]
  /\ cleared' = cleared \cup {e}

\* ReadResponse, then resolve the head future of the current batch; with no
\* current batch the response is kept until a batch arrives.  A hard error
\* (the socket failed or was closed) calls setErr and fails the rest of the
\* current batch.  Responses already received stay readable after a failure.
ReaderRead(k) ==
  /\ ~Panicked
  /\ sess[k].rpc = "read"
  /\ \/ /\ sess[k].wire # <<>>
        /\ IF sess[k].cur # <<>>
             THEN /\ CallHead(Head(sess[k].cur), Head(sess[k].wire))
                  /\ sess' = [sess EXCEPT ![k].wire = Tail(@), ![k].cur = Tail(@)]
             ELSE /\ sess' = [sess EXCEPT ![k].wire = Tail(@),
                                          ![k].res = Head(sess[k].wire),
                                          ![k].rpc = "recv"]
                  /\ UNCHANGED <<resolved, cleared>>
        /\ UNCHANGED gpc
     \/ /\ ~sess[k].up
        /\ ResolveAll(Range(sess[k].cur), Err)
        /\ sess' = [sess EXCEPT ![k] = [SetErr(@) EXCEPT !.cur = <<>>,
                                                       !.rpc = "drain"]]
        /\ SpawnReconnect(k)
        /\ UNCHANGED cleared
  /\ ReaderVarsUnchanged

\* Mutant: the current batch keeps the future just called (futures[1:] lost).
MutReaderRecv(k) ==
  /\ ~Panicked
  /\ sess[k].rpc = "recv"
  /\ \/ /\ sess[k].ch # <<>>
        /\ CallHead(Head(Head(sess[k].ch)), sess[k].res)
        /\ sess' = [sess EXCEPT ![k].cur = Head(sess[k].ch),
                                ![k].ch = Tail(@), ![k].rpc = "read"]
     \/ /\ sess[k].ch = <<>> /\ sess[k].chClosed
        /\ sess' = [sess EXCEPT ![k].rpc = "drain"]
        /\ UNCHANGED <<resolved, cleared>>
  /\ UNCHANGED gpc
  /\ ReaderVarsUnchanged

\* Receive the next batch from one.futures for the response just read; a
\* closed channel ends the main loop.
ReaderRecv(k) ==
  /\ ~Panicked
  /\ sess[k].rpc = "recv"
  /\ \/ /\ sess[k].ch # <<>>
        /\ CallHead(Head(Head(sess[k].ch)), sess[k].res)
        /\ sess' = [sess EXCEPT ![k].cur = Tail(Head(sess[k].ch)),
                                ![k].ch = Tail(@), ![k].rpc = "read"]
     \/ /\ sess[k].ch = <<>> /\ sess[k].chClosed
        /\ sess' = [sess EXCEPT ![k].rpc = "drain"]
        /\ UNCHANGED <<resolved, cleared>>
  /\ UNCHANGED gpc
  /\ ReaderVarsUnchanged

\* Fail every batch still in one.futures with one.err until it is closed.
ReaderDrain(k) ==
  /\ ~Panicked
  /\ sess[k].rpc = "drain"
  /\ \/ /\ sess[k].ch # <<>>
        /\ ResolveAll(Range(Head(sess[k].ch)), Err)
        /\ sess' = [sess EXCEPT ![k].ch = Tail(@)]
     \/ /\ sess[k].ch = <<>> /\ sess[k].chClosed
        /\ sess' = [sess EXCEPT ![k].rpc = "done"]
        /\ UNCHANGED resolved
  /\ UNCHANGED <<gpc, cleared>>
  /\ ReaderVarsUnchanged

\* The socket fails: I/O error, read timeout or a protocol (hard) error.
Break(k) ==
  /\ ~Panicked
  /\ sess[k].wpc # "none" /\ sess[k].up
  /\ faults < MaxFaults
  /\ faults' = faults + 1
  /\ sess' = [sess EXCEPT ![k].up = FALSE]
  /\ UNCHANGED <<state, c, mutex, ctxDone, returned, connFailed, shardid,
                 shard, dirty, dirtyClosed, sub, subShard, gpc, recon,
                 chPending, cpc, resolved, cleared, nextSession, dialFails>>

-----------------------------------------------------------------------------
(* The specification.                                                      *)

Init ==
  /\ state = "Disconnected"
  /\ c = Nil
  /\ mutex = NoOne
  /\ ctxDone = FALSE
  /\ returned = FALSE
  /\ connFailed = FALSE
  /\ shardid = 0
  /\ shard = [s \in Shards |-> <<>>]
  /\ dirty = <<>>
  /\ dirtyClosed = FALSE
  /\ sub = [i \in Subs |-> "idle"]
  /\ subShard = [i \in Subs |-> 0]
  /\ gpc = [g \in G |-> IF g = InitG THEN (IF Async THEN "lock" ELSE "cc")
                        ELSE "none"]
  /\ recon = [g \in G |-> g = InitG /\ Async]
  /\ chPending = Async
  /\ cpc = "off"
  /\ sess = [k \in Sessions |-> NoSession]
  /\ resolved = [e \in Entries |-> <<>>]
  /\ cleared = {}
  /\ nextSession = 1
  /\ faults = 0
  /\ dialFails = 0

\* All submissions are finished (or Connect failed, or the process
\* panicked): nothing more happens.
Idle ==
  /\ connFailed \/ Panicked \/ \A i \in Subs : sub[i] = "done"
  /\ UNCHANGED vars

Producer(i) == Submit(i) \/ LockShard(i) \/ Enqueued(i)

Creator(g) ==
  \/ CcLoop(g) \/ Dial(g) \/ Connected(g) \/ LogConnected(g) \/ Failed(g)
  \/ FailDrop(g) \/ Ret(g)

Writer(k) ==
  \/ WriterWait(k) \/ WriterSwap(k) \/ WriterSend(k) \/ WriterWriteBig(k)
  \/ WriterWriteFull(k) \/ WriterSendBlocked(k) \/ WriterControl(k)
  \/ WriterFlush(k) \/ WriterExit(k)

Reader(k) == ReaderRead(k) \/ ReaderRecv(k) \/ ReaderDrain(k)

Next ==
  \/ \E i \in Subs : Producer(i)
  \/ Close
  \/ \E g \in G : Creator(g) \/ Sleep(g)
  \/ LockInit
  \/ \E k \in Sessions : ReconnectStart(k) \/ ReconnectClose(k)
  \/ ControlClose \/ ControlCloseLocked
  \/ \E k \in Sessions : Writer(k) \/ Reader(k) \/ Break(k)
  \/ Idle

\* Every goroutine that can run eventually runs: weak fairness for each
\* goroutine and each producer.  The Go scheduler runs every runnable
\* goroutine; a goroutine waiting for conn.mutex, a shard lock or room in a
\* channel is only required to run when that stays possible, so the model
\* does not rely on the fairness of Go's mutex or channels.
Fairness ==
  /\ \A g \in G : WF_vars(Creator(g)) /\ WF_vars(Sleep(g))
  /\ WF_vars(LockInit)
  /\ \A k \in Sessions : WF_vars(ReconnectStart(k)) /\ WF_vars(ReconnectClose(k))
  /\ WF_vars(ControlClose) /\ WF_vars(ControlCloseLocked)
  /\ \A k \in Sessions : WF_vars(Writer(k)) /\ WF_vars(Reader(k))
  /\ \A i \in Subs : WF_vars(LockShard(i)) /\ WF_vars(Enqueued(i))

Spec == Init /\ [][Next]_vars /\ Fairness

-----------------------------------------------------------------------------
(* Properties.                                                             *)

Results == Entries \cup {Err, NilCall}
WPCs == {"none", "wait", "swap", "send", "write1", "write2", "send2",
         "control", "flush", "exit", "done"}
RPCs == {"none", "read", "recv", "drain", "done"}

TypeOK ==
  /\ state \in States
  /\ c \in Sessions \cup {Nil}
  /\ mutex \in G \cup {ControlG, NoOne}
  /\ {ctxDone, returned, connFailed, dirtyClosed, chPending} \subseteq BOOLEAN
  /\ shardid \in Shards
  /\ shard \in [Shards -> Seq(Entries)]
  /\ dirty \in Seq(Shards) /\ Len(dirty) <= DirtyCap
  /\ sub \in [Subs -> {"idle", "lock", "locked", "done"}]
  /\ subShard \in [Subs -> Shards]
  /\ gpc \in [G -> {"none", "lock", "start", "close", "cc", "dial",
                    "connected", "report", "panic", "failed", "drop", "sleep",
                    "ret", "retOk", "retErr", "exit"}]
  /\ recon \in [G -> BOOLEAN]
  /\ cpc \in {"off", "run", "close", "exit"}
  /\ \A k \in Sessions :
       /\ sess[k].wpc \in WPCs /\ sess[k].rpc \in RPCs
       /\ {sess[k].up, sess[k].chClosed, sess[k].control, sess[k].errSet}
            \subseteq BOOLEAN
       /\ Len(sess[k].ch) <= FutCap
       /\ sess[k].shardn \in Shards
  /\ resolved \in [Entries -> Seq(Results)]
  /\ cleared \subseteq Entries
  /\ nextSession \in 1..(MaxSessions + 1)
  /\ faults \in 0..MaxFaults /\ dialFails \in 0..MaxDialFails

\* No lost wakeup (doSend/doSendBatch notify before assigning, under the
\* shard lock; the writer swaps under the same lock; dropShardFutures drains
\* the channel and empties every shard together): a shard holding futures
\* always has its number pending in dirtyShard or held by a writer that is
\* about to swap it.
NoLostWakeup ==
  \A s \in Shards :
    shard[s] # <<>> =>
      \/ \E j \in DOMAIN dirty : dirty[j] = s
      \/ \E k \in Sessions : sess[k].wpc = "swap" /\ sess[k].shardn = s

\* Request/response pairing (writer packet order, one.futures order, reader
\* order): a future resolved with a response gets the response to its own
\* request, across swaps, full channels, failed writes and reconnects.
ResponsesPaired ==
  \A e \in Entries : \A j \in DOMAIN resolved[e] :
    resolved[e][j] \in Entries => resolved[e][j] = e

\* Each caller future is resolved at most once, and no conn.call goes through
\* a slot the reader already set to nil (writer defer, reader drain).
ResolvedAtMostOnce ==
  \A e \in Entries :
    /\ e \notin Markers => Len(resolved[e]) <= 1
    /\ \A j \in DOMAIN resolved[e] : resolved[e][j] # NilCall

\* Whenever conn.state says Connected, conn.c is a socket (createConnection
\* stores Connected only after dial set conn.c, under conn.mutex).
ConnectedHasSocket == state = "Connected" => c # Nil

\* Closing is terminal: once closeConnection(_, true) stored Closed, no
\* createConnection or reconnect moves conn.state away from it.
ClosedIsFinal == [][state = "Closed" => state' = "Closed"]_vars

\* No producer sends on the closed dirtyShard channel (a send on a closed
\* channel panics): the Closed state is stored before lockShards closes it.
NoSendOnClosedDirty == [][dirtyClosed => Len(dirty') <= Len(dirty)]_vars

-----------------------------------------------------------------------------
(* Refinement of ConnFutures: the callers' view of a submission is whether *)
(* it was made, and of a request future every value passed to Resolve.    *)
(* ASKING and MULTI markers carry the dumb future and are not visible.     *)

Futures == INSTANCE ConnFutures
             WITH ReqsOf <- [i \in Subs |-> Reqs(i)],
                  submitted <- {i \in Subs : sub[i] # "idle"},
                  result <- [e \in UNION {Reqs(i) : i \in Subs} |-> resolved[e]]

\* The connection implements ConnFutures with its fairness: in addition,
\* every future of a call is eventually resolved (by a response, a reader
\* drain, dropShardFutures or an immediate error).
FuturesRefined == Futures!Spec

=============================================================================
