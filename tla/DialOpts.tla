------------------------------- MODULE DialOpts -------------------------------
(***************************************************************************)
(* Connect's option defaults (src/redis/request_writer.go lines 298-346)  *)
(* and dial's choice of timeout, network and address (lines 680-697).     *)
(* Durations are integers in microseconds; an address is a sequence of    *)
(* one-character strings.  One Connect call is one step: it validates the *)
(* address, normalises the options and computes what dial will use.       *)
(***************************************************************************)
EXTENDS Integers, Sequences

CONSTANTS
  OptsIn,    \* the Opts records callers pass
  Addrs,     \* the addresses callers pass
  MaxProcs   \* runtime.GOMAXPROCS(-1)

Second == 1000000
DefaultIOTimeout == Second
DefaultWritePause == 10

UnixScheme == <<"u", "n", "i", "x", ":", "/", "/">>
TcpScheme == <<"t", "c", "p", ":", "/", "/">>

\* Mutant: the oversized Concurrency is kept.
MutNormalize(o) ==
  LET conc == IF o.Concurrency = 0 THEN MaxProcs ELSE o.Concurrency
      io   == CASE o.IOTimeout = 0 -> DefaultIOTimeout
                [] o.IOTimeout < 0 -> 0
                [] OTHER -> o.IOTimeout
      dt   == IF o.DialTimeout <= 0 \/ o.DialTimeout > io THEN io ELSE o.DialTimeout
      rp   == IF o.ReconnectPause = 0 THEN dt * 2 ELSE o.ReconnectPause
      ka0  == IF o.TCPKeepAlive = 0 THEN io \div 3 ELSE o.TCPKeepAlive
      ka   == IF ka0 < 0 THEN 0 ELSE ka0
      wp   == IF o.WritePause = 0 THEN DefaultWritePause ELSE o.WritePause
  IN [Concurrency |-> conc, IOTimeout |-> io, DialTimeout |-> dt,
      ReconnectPause |-> rp, TCPKeepAlive |-> ka, WritePause |-> wp]

\* The defaults Connect writes into conn.opts, in the code's order: each
\* rule reads the values the rules before it produced.
Normalize(o) ==
  LET conc == IF o.Concurrency = 0 \/ o.Concurrency > MaxProcs * 128
                THEN MaxProcs ELSE o.Concurrency
      io   == CASE o.IOTimeout = 0 -> DefaultIOTimeout
                [] o.IOTimeout < 0 -> 0
                [] OTHER -> o.IOTimeout
      dt   == IF o.DialTimeout <= 0 \/ o.DialTimeout > io THEN io ELSE o.DialTimeout
      rp   == IF o.ReconnectPause = 0 THEN dt * 2 ELSE o.ReconnectPause
      ka0  == IF o.TCPKeepAlive = 0 THEN io \div 3 ELSE o.TCPKeepAlive
      ka   == IF ka0 < 0 THEN 0 ELSE ka0
      wp   == IF o.WritePause = 0 THEN DefaultWritePause ELSE o.WritePause
  IN [Concurrency |-> conc, IOTimeout |-> io, DialTimeout |-> dt,
      ReconnectPause |-> rp, TCPKeepAlive |-> ka, WritePause |-> wp]

\* Mutant: only a negative DialTimeout falls back to 5 seconds.
MutDialTimeout(n) ==
  IF n.DialTimeout < 0 \/ n.DialTimeout > 5 * Second THEN 5 * Second ELSE n.DialTimeout

\* The timeout dial gives net.Dialer.
DialTimeout(n) ==
  IF n.DialTimeout <= 0 \/ n.DialTimeout > 5 * Second THEN 5 * Second ELSE n.DialTimeout

\* The network and address dial passes to DialContext.  address[0:7] of an
\* address shorter than 7 bytes is a slice out of range: the goroutine
\* running dial panics.
DialTarget(a) ==
  CASE a[1] \in {".", "/"} -> [panic |-> FALSE, net |-> "unix", addr |-> a]
    [] Len(a) < 7 -> [panic |-> TRUE, net |-> "tcp", addr |-> a]
    [] SubSeq(a, 1, 7) = UnixScheme ->
         [panic |-> FALSE, net |-> "unix", addr |-> SubSeq(a, 8, Len(a))]
    [] SubSeq(a, 1, 6) = TcpScheme ->
         [panic |-> FALSE, net |-> "tcp", addr |-> SubSeq(a, 7, Len(a))]
    [] OTHER -> [panic |-> FALSE, net |-> "tcp", addr |-> a]

VARIABLES
  phase,   \* "init" before Connect, "error" or "ok" after it
  opts,    \* the Opts passed to Connect
  addr,    \* the address passed to Connect
  conf,    \* conn.opts after the defaults
  target   \* what dial uses: [panic, net, addr]

vars == <<phase, opts, addr, conf, target>>

NoTarget == [panic |-> FALSE, net |-> "tcp", addr |-> <<>>]

Init ==
  /\ phase = "init"
  /\ opts = CHOOSE o \in OptsIn : TRUE
  /\ addr = <<>>
  /\ conf = Normalize(opts)
  /\ target = NoTarget

\* Connect(ctx, addr, opts): an empty address is refused; otherwise the
\* defaults are applied and the first dial computes its target.
Connect(o, a) ==
  /\ phase = "init"
  /\ opts' = o /\ addr' = a
  /\ IF a = <<>>
       THEN /\ phase' = "error"
            /\ UNCHANGED <<conf, target>>
       ELSE /\ phase' = "ok"
            /\ conf' = Normalize(o)
            /\ target' = DialTarget(a)

Done == phase # "init" /\ UNCHANGED vars

Next == (\E o \in OptsIn, a \in Addrs : Connect(o, a)) \/ Done

Spec == Init /\ [][Next]_vars

-----------------------------------------------------------------------------
(* Properties.                                                             *)

TypeOK ==
  /\ phase \in {"init", "error", "ok"}
  /\ opts \in OptsIn
  /\ conf.Concurrency \in 1..(MaxProcs * 128)
  /\ target.net \in {"tcp", "unix"} /\ target.panic \in BOOLEAN

\* The dial timeout (Connect's defaults, then dial's 5-second cap) lies in
\* (0, min(io_timeout, 5s)], with a disabled io_timeout imposing no bound
\* and io_timeout 0 meaning one second.
DialTimeoutInRange ==
  phase = "ok" =>
    LET io == CASE opts.IOTimeout = 0 -> DefaultIOTimeout
                [] opts.IOTimeout < 0 -> 5 * Second
                [] OTHER -> opts.IOTimeout
        t == DialTimeout(conf)
    IN 0 < t /\ t <= io /\ t <= 5 * Second

=============================================================================
