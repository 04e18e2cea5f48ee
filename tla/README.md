# TLA+ models of redispipe's pipelined connection

This directory holds TLA+ models of the Redis client in `src/`. The focus is
the pipelined connection of package `redisconn`. Its current version is the
second half of `src/redis/request_writer.go`, lines 200-1078. The models are
checked with TLC. Five modules carry the models:

- `RedisConn` models the connection.
- `ConnFutures` is the abstract contract that `RedisConn` refines.
- `RespWriter` models the RESP serializer (lines 1-199).
- `DialOpts` models Connect's option defaults and dial's address parsing.
- `LegacyConn` models the older connection in `src/redisconn/conn.go`.

## The system

### Components

| Component | Source | State | Operations |
|---|---|---|---|
| RESP serializer | `request_writer.go` 1-199 | none (pure) | `AppendRequest`, `appendInt`, `appendUint`, `appendHead`, `appendBulkInt`, `appendBulkUint`, `ArgToString` |
| Shard queue / producers | 448-657 | `conn.shardid`, `shard[i].futures` and its lock, `conn.dirtyShard` | `Send`, `SendAsk`, `SendMany`, `SendBatch`, `SendBatchFlags`, `SendTransaction` (via `doSend` and `doSendBatch`) |
| Connection state machine | 298-379, 666-870, 911-925 | `conn.state`, `conn.c`, `conn.mutex`, the async `ch` | `Connect`, `createConnection`, `dial`, `closeConnection`, `dropShardFutures`, `reconnect`, `lockShards` |
| Writer goroutine (one per socket) | 927-1031 | `packet`, `futures`, `shardn`, `one.futures`, `one.control` | the `BigLoop`/`control` loop, `write()`, the deferred resend |
| Reader goroutine (one per socket) | 1033-1074 | `futures` (the current batch) | read a response, call the head future, drain on error |
| Control goroutine | 872-909 | `one.erronce`, `one.err` | close on `ctx.Done`, periodic `Ping`, `setErr` |
| Options and accessors | 229-261, 381-445 | `opts` | defaults, `ConnectedNow`, `RemoteAddr`, ... |
| Caller contract | the callers of `Send`, `SendAsk`, `SendBatchFlags` | submitted calls, resolved futures | call, respond, fail |
| Legacy connection | `src/redisconn/conn.go` | the same, with a bufio writer and no deferred resend | `Connect`, `SendAsk`/`doSend`, `SendBatchFlags`, `createConnection`, `dial`, `closeConnection`, `dropShardFutures`, `setErr`, `reconnect`, `control`, `Ping`, `writer`, `reader` |

### How the parts interact

- **Producers.** A producer picks a shard round-robin and takes the shard's
  lock. It refuses the request when the state is `Closed` or `Disconnected`.
  If the shard was empty, it first sends the shard number on `dirtyShard`,
  a channel of capacity 2·Concurrency. That send blocks with the lock held
  while the channel is full. Then it appends its futures.
- **Writer.** The writer of the live socket receives shard numbers and swaps
  each shard's list out under its lock. It serializes the list into `packet`
  and hands the futures to the reader on `one.futures`, a channel of
  capacity Concurrency/2+1. If the channel is full, it writes first and then
  blocks. It also writes when the packet exceeds 64 KiB, and when no further
  notification is pending.
- **Reader.** The reader pairs responses with futures in order. On a hard
  error it calls `setErr`, which closes `one.control` and spawns `reconnect`
  once per socket. It then fails everything left in `one.futures`.
- **Reconnect.** `reconnect` runs under `conn.mutex`. It checks that
  `conn.c` is still its own socket, then closes it: state `Disconnected`,
  `lockShards`, `conn.c = nil`, and every queued future failed. After that it
  runs `createConnection(true)`, which loops Connecting, dial, and pause
  until a dial succeeds or the connection is closed.
- **Close.** `Close` cancels the context. The control goroutine then takes
  the mutex, stores `Closed` and closes `dirtyShard` under `lockShards`.

### Hard behaviours

- Interleavings of producers, several generations of writers and readers
  (old ones outlive their socket), reconnect goroutines and the control
  goroutine.
- Socket faults at any point.
- Failed dials and reconnect pauses that release the mutex.
- Full channels on both sides of the writer.
- Close racing all of the above.

### Properties that make the connection correct

- Every future is resolved exactly once, and with the response to its own
  request.
- No shard is left non-empty without a pending wakeup.
- `Connected` implies a live socket.
- `Closed` is final.
- Nothing is sent on the closed channel.
- Every request is eventually resolved.

## Modules

### `RedisConn.tla`: the connection

This module models the current connection: producers, the state machine,
and the writer and reader of each socket.

**Data abstraction.**

- A future is an *entry*, a model value. The bytes of its request are the
  entry itself. A socket's `wire` is a sequence of entries, and the server's
  response to entry `e` is `e`.
- Errors are the value `Err`. A call through a slot the reader already set
  to nil is `NilCall`.
- The ASKING and MULTI futures, which carry the dumb callback, are the
  entries in `Markers`.
- Packet size is the sum of `Weight` over the packet. It is compared with
  `PacketLimit`, which stands for the 64 KiB threshold.

**Code-to-model mapping.**

| Code | Model |
|---|---|
| `conn.state`, `conn.c`, `conn.mutex` | `state`, `c`, `mutex` |
| `shard[s].futures` | `shard[s]` |
| `dirtyShard` | `dirty` (a sequence) and `dirtyClosed` |
| a producer's progress (idle, waiting for the lock, holding it, done) | `sub` |
| the `createConnection`/`reconnect` goroutines | program counters `gpc` |
| the control goroutine | `cpc` |
| each socket, its `oneconn` and its two goroutines | a record in `sess[k]` (`wpc` and `rpc` are the writer's and reader's program counters; `ch` is `one.futures`) |
| every value passed to a future's `Resolve` | `resolved[e]` |

**Actions.** Each goroutine step between two points where it blocks or
touches shared state is one action:

- Producers: `Submit`, `LockShard`, `Enqueued`.
- Connection state machine: `CcLoop`, `Dial`, `Connected`,
  `LogConnected`, `Failed`, `FailDrop`, `Sleep`, `Ret`, `LockInit`.
- Reconnect: `ReconnectStart`, `ReconnectClose`.
- Control goroutine: `ControlClose`, `ControlCloseLocked`.
- Writer: `WriterWait`, `WriterSwap`, `WriterSend`, `WriterWriteBig`,
  `WriterWriteFull`, `WriterSendBlocked`, `WriterControl`, `WriterFlush`,
  `WriterExit`.
- Reader: `ReaderRead`, `ReaderRecv`, `ReaderDrain`.
- The environment: `Close` (the user) and `Break` (the socket fails).

A producer blocked on a full `dirtyShard` is the `Enqueued` step being
disabled while the producer holds its shard lock.

`Connected` stores the state (line 796). `LogConnected` is the report that
follows it. The report reads `conn.c` again and panics if `conn.c` is nil
by then. A panic ends the process, so every action is guarded by
`~Panicked`. `Ret` of a failed synchronous first dial may return the error
from `Connect`. That happens with `ReconnectPause < 0`, or when the error
is `ErrAuth` (lines 350-355). The model does not track the error's kind,
so this outcome is always possible. `PROJECT.json` maps each
definition to its source lines.

**Operators named `Mut...`.** These are single plausible bugs in the code.
Each mutant run in `PROJECT.json` substitutes one of them for the operator
it mutates, and TLC must then find the property violated.

### `ConnFutures.tla`: what the connection promises

This is the abstract specification. Its state is the set of calls made
(`submitted`) and, for each request future, the values it was resolved with
(`result`). It has three actions:

- `Call(i)` accepts a call, or refuses it and fails all its futures.
- `Respond(e)` gives a pending future the response to its own request.
- `Fail(S)` fails a set of pending futures together.

Its `Spec` adds weak fairness on resolving each future.

`RedisConn` defines the refinement mapping `Futures`:

- `submitted` is the set of submissions past `idle`.
- `result[e]` is `resolved[e]` for every future that is not a marker.

The property `FuturesRefined == Futures!Spec` therefore states three things
in one formula:

- Every concrete step is a `ConnFutures` step or a stutter. So a future is
  resolved only after its call, at most once, and never through a nil slot
  or with another request's response.
- Several futures fail together only through paths that really fail them
  together.
- Every future of a call is eventually resolved.

### `MCRedisConn.tla`: the instance TLC checks

It fixes the constants for model checking:

- **Submissions.** Three submissions: two single `Send`s (`e1`, `e2`) and
  one `SendAsk` (the ASKING marker `m1`, then `e3`).
- **Weights.** `MCWeightSmall` makes every packet small. `MCWeightBig` makes
  `e3` larger than the write threshold.


### `RespWriter.tla`: the RESP serializer

Each Go function of lines 1-199 is an operator on byte sequences. A byte is a
one-character string.

- `UintDigits` is RECURSIVE and mirrors `appendUint`'s loop, including the
  loop emitting nothing for 0.
- `appendInt` negates in two's complement. `WrapInt` and `ToUint` wrap at
  `2^IntBits`, so the negation of the minimum int is exercised.
- `appendBulkInt` and `appendBulkUint` reserve one or two length digits by
  the code's thresholds. `PatchLen` then patches the reserved digits.
- `AppendArg` covers the argument kinds: strings, ints, uints, bools and nil.
- `AppendRequest` splits the command at `LastSpace` and folds `AppendArg`
  over the arguments. The code splits at the last space and spec.md at the
  first. The two agree for every real Redis command name, since none has
  more than one space.

`ArgToString` is translated separately.

The state is a writer's `packet`, the bytes already written (`wire`), the
requests serialized (`reqs`), and the last argument routed through
`ArgToString` (`routed`). Its actions are these:

- `Serialize(r)` is one `AppendRequest` into the packet.
- `Write` flushes the packet.
- `Route(a)` is one `ArgToString` call.

The reference encoder is `Dec`, `Bulk`, `Frame` and `CmdWords`. It is
written from spec.md: integers in decimal, and the command split at its
first space.

**Bounds.** `IntBits` = 30 keeps TLC's 32-bit arithmetic exact. The int and
uint sets hold every value at which the code changes branch: `MinInt`,
-100000000, -99999999, -10, -9, -1, 0, 9, 10, 999999999, 1000000000 and
`MaxUint`. Two requests per behaviour cover a packet holding a request,
then a write, then another request. Floats (`strconv.AppendFloat`) are not
modelled.

### `DialOpts.tla`: option defaults and dial

`Normalize` is Connect's chain of defaults in the code's order. Each rule
reads the values the rules before it produced. `DialTimeout` is dial's
5-second cap. `DialTarget` is dial's choice of network and address, with a
`panic` flag where `address[0:7]` is out of range.

The only action is `Connect(o, a)`. It refuses an empty address; otherwise
it records the normalised options and the dial target.

`MCDialOpts` takes every field at 0, at a negative value, and at values on
both sides of the thresholds the defaults compare against. This gives 1296
option records. It adds every documented address form, plus a host:port
shorter than 7 bytes (`MCAddrsShort`). The run checks the dial timeout.
No property is checked of the dial target. On the short address the code
panics (see the known divergences), and a passing check of the other
forms would hide that.

### `LegacyConn.tla`: the older connection

`src/redisconn/conn.go` is an earlier version of the same design: the same
shards, `dirtyShard`, state machine, `reconnect` and `control`. The module
reuses `RedisConn`'s data abstraction and state-machine actions (`CcLoop`
to `ControlCloseLocked`, translated from conn.go's lines). Three parts
differ from the current connection:

- **Producers** serialize into `shard.buf` under the shard lock. `doSend`
  resolves a refused future through a goroutine. `SendBatchFlags` sets
  `err` and returns *before* the block that resolves it, so a refused
  batch is lost. `Enqueue` keeps both paths, and `BatchSubs` names the
  submissions made with `SendBatchFlags`.
- **The writer** writes through a `bufio.Writer`. `sess[k].buf` is its
  buffer and `wire` what reached the socket. The top `select` is
  non-blocking (`WriterWait`). Its default branch (`WriterSched`) flushes
  only when `dirtyShard` is empty, then blocks (`WriterBlock`). After the
  swap (`WriterSwap`), the futures go to the reader without blocking
  (`WriterSend`). If `one.futures` is full, the writer flushes first
  (`WriterFull`) and then blocks (`WriterSendBlocked`). `WriterWrite`
  follows `bufio.Writer.Write`:
  - A packet that fits the free space is copied into the buffer.
  - If the buffer is empty, a packet that does not fit is written directly.
  - Otherwise the buffer is topped up with the head of the packet and
    flushed. The rest is written directly if it still exceeds the buffer,
    or else buffered.

  `part` counts the bytes of the buffer's head request that are already
  flushed. The reader answers only requests that reached the socket
  whole. `dirtyShard` is never closed. The writer returns
  on `ctx.Done` without flushing, and there is no deferred resend.
- **The reader** walks a batch with an index (`cur`, `pos`). After a hard
  error it calls `setErr` and the failing future, then, after the loop
  (`ReaderFail`), calls every future of the batch with `one.err`. Those
  include the ones it already called, and their slots are nil by then
  (`CallValue`).
- **Reconnect.** `setErr` spawns `reconnect` on every call (line 627).
  `SpawnReconnect` starts socket k's reconnect unless one is already
  running. A call made while one runs would get `conn.mutex` only after
  `conn.c` stopped being k, so it would do nothing. A call after the
  earlier reconnect has exited starts a new one, and that one re-checks
  the state and `conn.c`.
  `ReaderDrain` fails the batches still in `one.futures`.
- **Control** pings the server on each tick (lines 607-614) through
  `Ping` (lines 214-223), which sends `PING` and waits for its answer in
  `redis.Sync.Do`. Meanwhile it does not watch `ctx.Done`. `ControlPing`
  takes the tick and submits the `PING` request, using the reserved
  submission `PingSub`. `ControlPong` is the return from `Ping` once
  `PING` is resolved. The model allows one Ping per behaviour.

**The read deadline.** Reads go through `newDeadlineIO` with `IOTimeout`.
With the constant `Deadline` TRUE, a read that finds no response on the
wire may fail like a socket error. This models the deadline passing: the
server is slow, or the request is still in the writer's buffer.

**Liveness.** `EveryRequestResolved` states that every request of a call
that got past `idle` is eventually resolved, unless `Close` cancels the
context first. It holds only with the deadline. A new socket's writer skips its flush while `dirtyShard` is
non-empty, and an old socket's writer can take that very notification and
swap a shard holding nothing of the new socket's. The new socket's request
then sits in the bufio buffer, and its reader waits for it. Without a
deadline, only a later request, such as control's Ping, would flush it.

**The close hang.** After `Close`, the legacy connection is not
guaranteed to reach `Closed` (`CloseTakesEffect`, run
`legacy_close_hang`). This happens when control is inside `Ping` while
`PING` is still in its shard. The writer returns on `ctx.Done` (line 656)
without swapping the shard. The reader's `range` ends without `setErr`.
No one resolves `PING`, so control never gets back to its `select` and
never calls `closeConnection`. Requests sent after that are queued and
never resolved. The current connection's writer does not return on
`ctx.Done`, so it sends `PING` and does not have this hang.

**Bounds.** `MCLegacyConn` has control's Ping (`p`, submission 0) and a
call of `m1` with `e3` (submission 3). Single calls `e1` and `e2` exist
for the violation runs. With Ping and two calls, the state space takes
more than half an hour, so the pass run has a single call.
`Weight` makes `e3` alone overflow `BufLimit` 2, so both the buffered and
the write-through paths of `WriterWrite` occur. `FutCap` is 1 rather than
Concurrency·8 = 8, so a second batch finds `one.futures` full and the
flush-then-block path runs. The other bounds are 2 sockets, 1 fault and no failed dial. `Failed` still
fires: a dial after `Close` fails through the same action. A failed dial
with a pause is covered by the `RedisConn` runs.

## Runs

All `RedisConn` runs share these bounds:

- Concurrency 1: one shard; `dirtyShard` has capacity 2 and `one.futures`
  capacity 1.
- At most 2 sockets, 1 socket fault and 1 failed dial.

These bounds reach every action: two generations of writer and reader, a
reconnect, a failed dial with its pause, both full-channel paths of the
writer, and Close during each phase.

| Run | Config | Expect | What it shows |
|---|---|---|---|
| async_reconnect | `MCRedisConn.cfg` | pass (about 1.5M states) | Async Connect with reconnection. Safety holds across a fault, a failed dial, a reconnect and Close. |
| async_liveness | `MCRedisConnLive.cfg` | pass | `RedisConn` implements `ConnFutures` with its fairness (`FuturesRefined`). Every step is a contract step, and every future of a call is eventually resolved. |
| sync_big_packets | `MCRedisConnSync.cfg` | pass (about 2.3M states) | Sync Connect, and the write right after handing futures to the reader. This run checks only the notification edge and pairing. These depend on the packet size and on the unlocked first dial. `TypeOK`, `ClosedIsFinal` and `NoSendOnClosedDirty` are checked by `async_reconnect`. Close needs the connection `Connect` returns, so the sync path cannot reach them. |
| double_resolve | `MCRedisConnDoubleResolve.cfg` | violation of `ResolvedAtMostOnce` | A code bug: a failed write at line 996 makes the writer's deferred function hand the same futures to the reader twice. |
| sync_connect_race | `MCRedisConnSyncRace.cfg` | violation of `ConnectedHasSocket` | A code bug: the synchronous first `createConnection` (line 349) runs without `conn.mutex`. The reconnect of its first socket interleaves with it and leaves the connection `Connected` with `conn.c == nil`. The next statement, the `LogConnected` report at lines 797-799, then calls a method on the nil `conn.c` and panics. |
| resp_roundtrip | `MCRespWriter.cfg` | pass (about 150k states) | Successive AppendRequest calls and writes produce exactly the RESP frames of the requests at every width threshold, and ArgToString agrees with AppendRequest on every argument kind. |
| resp_uint_zero | `MCRespWriterUintZero.cfg` | violation of `RoundTrip` | A code bug: `uint(0)` is sent as the empty bulk string, because `appendUint` emits no digit for 0 (line 104). |
| dial_options | `MCDialOpts.cfg` | pass (about 9k states) | For every option combination and address form, including the short host:port, the dial timeout lies in (0, min(io_timeout, 5s)]. |
| legacy_conn | `MCLegacyConn.cfg` | pass (about 201k states) | The legacy connection (async, reconnecting, with the read deadline and control's Ping). Every shard stays notified, responses pair with their own requests, `Connected` has a socket, `Closed` is final, and every request is eventually resolved unless `Close` comes first, under weak fairness. |
| legacy_close_hang | `MCLegacyConnCloseHang.cfg` | violation of `CloseTakesEffect` | A code bug: `Close` while control's `PING` is queued. The writer returns on `ctx.Done` at conn.go line 656 without sending it, and control waits in `Ping` forever, so the connection never reaches `Closed`. |
| legacy_batch_lost | `MCLegacyConnBatchLost.cfg` | violation of `EveryRequestResolved` | A code bug: `SendBatchFlags` on a closed or disconnected connection returns at conn.go lines 313 and 316, before the block that resolves the batch. The batch's callbacks are never called. The run has the read deadline on, so only the refused batch stays unresolved. |
| legacy_reader_recall | `MCLegacyConnRecall.cfg` | violation of `ResolvedAtMostOnce` | A code bug: after a hard read error the loop at conn.go lines 740-742 calls the whole current batch again. That includes the futures already called, whose `Future` the reader set to nil (line 730). |

**Why these bounds are enough.** Each violation needs at most one fault and
two sockets. The passing runs fire every action and every branch within
these bounds. One behaviour needs more: a producer blocked forever on a
`dirtyShard` filled by stale notifications. It needs two old writers and
five submissions, so it is recorded as an open hazard, not checked.

**Where the runs differ.** `PacketLimit` 2 with the big weights makes
`e3`'s packet exceed the threshold. The double-resolution run uses it.
`async_reconnect` uses `PacketLimit` 10, so its safety properties are not
masked by that known bug.

**Known divergences not kept as runs.** Earlier versions of the project
checked three more disagreements, and the code still has them:

- A `ReconnectPause` of 0 becomes 0, rather than 2·dial timeout, when
  `IOTimeout < 0` (request_writer.go line 330).
- A host:port shorter than 7 bytes makes dial's `address[0:7]` panic
  (line 691).
- An old writer can leave a stale notification for an empty shard, so a
  shard may have two pending (line 973). `NoLostWakeup` still holds.

They were dropped to make room for the legacy runs. The run
`no_reconnect` (`ReconnectPause < 0`: the first fault closes the
connection) was retired when `legacy_close_hang` was added. Every action
it fired is fired by `async_reconnect`, `sync_big_packets` or
`async_liveness`, which check the same properties. They are listed with
the hazards in `PROJECT.json`.

## Fairness

Every goroutine and every producer that has already submitted gets weak
fairness. The Go scheduler eventually runs every runnable goroutine. A
goroutine waiting for `conn.mutex`, a shard lock or room in a channel is
only required to proceed while that stays possible. The model therefore
assumes nothing of the fairness of Go's mutexes or channels. Submitting and
`Close` are the user's choice and carry no fairness.

## Not modelled, and the plan

- **The periodic Ping of the control goroutine in `RedisConn`**, `futpool` buffer reuse,
  the `CheckArgs` failure path, `SendMany` chunking and the
  `transactionFuture` index filter.
- **Float arguments** of `AppendRequest` and `ArgToString`. Their
  formatting is `strconv.AppendFloat`, a library conversion.
- **The writer's `packet = nil` on a serialization error (line 979).** It
  relies on `CheckArgs`, which is outside `src/`.
- **In the legacy connection:** more than one `Ping` per behaviour, the
  MULTI/EXEC framing of `SendTransaction` (a marker entry stands for the
  MULTI future), the serialization-error path of `SendBatchFlags`, and
  the accessors.
