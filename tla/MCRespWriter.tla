---------------------------- MODULE MCRespWriter ----------------------------
(* Model-checking instance of RespWriter: integers at the boundaries of   *)
(* the one- and two-digit length prefixes and of the integer width.       *)
EXTENDS RespWriter

MCIntBits == 30
MinInt == -(2 ^ (MCIntBits - 1))
MaxInt == 2 ^ (MCIntBits - 1) - 1
MaxUint == 2 ^ MCIntBits - 1

\* Signed values: the width's extremes, the one-digit fast path of
\* appendInt and the 9/10-character edge of appendBulkInt's prefix.
MCInts == {MinInt, -100000000, -99999999, -10, -9, -1, 0, 9, 10, MaxInt}

\* Unsigned values around the 9/10-digit edge of appendBulkUint (0 apart).
MCUints == {1, 9, 10, 999999999, 1000000000, MaxUint}

MCStrs == {<<>>, <<"a">>, <<"a", " ">>}

ArgsOf(uints) ==
  {[t |-> "int", v |-> i] : i \in MCInts} \cup {[t |-> "uint", v |-> u] : u \in uints}
  \cup {[t |-> "str", v |-> s] : s \in MCStrs} \cup {[t |-> "bool", v |-> b] : b \in BOOLEAN}
  \cup {[t |-> "nil", v |-> 0], [t |-> "bad", v |-> 0]}

RequestsOf(cmds, uints) ==
  {[cmd |-> c, args |-> <<>>] : c \in cmds}
  \cup {[cmd |-> c, args |-> <<a>>] : c \in cmds, a \in {x \in ArgsOf(uints) : Supported(x)}}

\* A one-word and a two-word command name.
MCCmds == {<<"G">>, <<"C", " ", "L">>}

MCArgs == ArgsOf(MCUints)
MCRequests == RequestsOf(MCCmds, MCUints)

\* Unsigned zero as an argument.
MCArgsUintZero == ArgsOf(MCUints \cup {0})
MCRequestsUintZero == RequestsOf(MCCmds, MCUints \cup {0})
=============================================================================
