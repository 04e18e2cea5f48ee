------------------------------ MODULE RespWriter ------------------------------
(***************************************************************************)
(* The RESP request serializer of package redis (src/redis/               *)
(* request_writer.go lines 1-199): AppendRequest frames a command and its *)
(* arguments as an array of bulk strings, appendInt/appendUint write      *)
(* decimal digits, appendBulkInt/appendBulkUint reserve a length prefix   *)
(* and patch it after writing the digits, and ArgToString projects one    *)
(* argument to the bytes AppendRequest puts in its bulk string.           *)
(*                                                                         *)
(* A byte is a one-character string; a digit d is Digit(d).  An argument  *)
(* is a record [t, v]: t is its Go type class ("int" for every signed     *)
(* integer type, converted to int64; "uint" for every unsigned type,      *)
(* converted to uint64; "str" for string and []byte; "bool"; "nil"; "bad" *)
(* for a type no case handles), v its value.  Integers are IntBits wide.  *)
(* Floats (strconv.FormatFloat) are not modelled.                          *)
(*                                                                         *)
(* The writer's use of the serializer is the state machine: requests are  *)
(* appended to the packet (writer lines 976-988) and the packet is        *)
(* written to the wire (write(), lines 941-954).                          *)
(***************************************************************************)
EXTENDS Integers, Sequences, SequencesExt

CONSTANTS
  IntBits,    \* width of int64/uint64
  Args,       \* arguments of every type class, boundary values included
  Requests,   \* requests the writer serializes: [cmd, args]
  MaxReqs     \* bound on requests serialized in one behaviour

\* byte(d) + '0': the ASCII digit of d.
Digit(d) == <<"0", "1", "2", "3", "4", "5", "6", "7", "8", "9">>[d + 1]
CRLF == <<"\r", "\n">>

\* Two's-complement wrap of an IntBits-wide value: -i of MinInt is MinInt,
\* and uint64(x) of a negative x adds 2^IntBits.
Modulus == 2 ^ IntBits
WrapInt(x) == IF x >= Modulus \div 2 THEN x - Modulus ELSE x
ToUint(x) == x % Modulus

-----------------------------------------------------------------------------
(* The serializer.                                                        *)

\* appendUint: digits from the least significant up, stored right to left;
\* nothing at all for u = 0.
RECURSIVE UintDigits(_)
UintDigits(u) == IF u = 0 THEN <<>> ELSE UintDigits(u \div 10) \o <<Digit(u % 10)>>
appendUint(b, u) == b \o UintDigits(u)

appendInt(b, i) ==
  CASE i >= 0 /\ i <= 9 -> Append(b, Digit(i))
    [] i > 0            -> appendUint(b, i)
    [] OTHER            -> appendUint(Append(b, "-"), ToUint(WrapInt(-i)))

appendHead(b, t, i) == appendInt(Append(b, t), i) \o CRLF

\* Write a placeholder length prefix ("$0\r\n" or "$00\r\n"), append the
\* digits, then patch the prefix with their count (b[l-3], b[l-4] in Go).
PatchLen(b, l) ==
  LET li == Len(b) - l IN
  IF li < 10 THEN [b EXCEPT ![l - 2] = Digit(li)]
  ELSE [b EXCEPT ![l - 3] = Digit(li \div 10), ![l - 2] = Digit(li % 10)]

\* Mutant: the one-digit prefix range also takes nine-digit negatives.
MutAppendBulkInt(b, i) ==
  LET b1 == IF i >= -999999999 /\ i <= 999999999
              THEN b \o <<"$", "0">> \o CRLF
              ELSE b \o <<"$", "0", "0">> \o CRLF
  IN PatchLen(appendInt(b1, i), Len(b1))

appendBulkInt(b, i) ==
  LET b1 == IF i >= -99999999 /\ i <= 999999999
              THEN b \o <<"$", "0">> \o CRLF
              ELSE b \o <<"$", "0", "0">> \o CRLF
  IN PatchLen(appendInt(b1, i), Len(b1))

appendBulkUint(b, i) ==
  LET b1 == IF i <= 999999999
              THEN b \o <<"$", "0">> \o CRLF
              ELSE b \o <<"$", "1", "0">> \o CRLF
  IN PatchLen(appendUint(b1, i), Len(b1))

\* Mutant: a bool is written as strconv.FormatBool would spell it.
MutAppendArg(b, a) ==
  CASE a.t = "str"  -> appendHead(b, "$", Len(a.v)) \o a.v
    [] a.t = "int"  -> appendBulkInt(b, a.v)
    [] a.t = "uint" -> appendBulkUint(b, a.v)
    [] a.t = "bool" -> IF a.v THEN b \o <<"$", "4">> \o CRLF \o <<"t", "r", "u", "e">>
                       ELSE b \o <<"$", "5">> \o CRLF \o <<"f", "a", "l", "s", "e">>
    [] a.t = "nil"  -> b \o <<"$", "0">> \o CRLF

\* One argument of the type switch of AppendRequest, without the CRLF.
AppendArg(b, a) ==
  CASE a.t = "str"  -> appendHead(b, "$", Len(a.v)) \o a.v
    [] a.t = "int"  -> appendBulkInt(b, a.v)
    [] a.t = "uint" -> appendBulkUint(b, a.v)
    [] a.t = "bool" -> b \o <<"$", "1">> \o CRLF \o <<IF a.v THEN "1" ELSE "0">>
    [] a.t = "nil"  -> b \o <<"$", "0">> \o CRLF

Supported(a) == a.t \in {"str", "int", "uint", "bool", "nil"}

\* The index of the last space of the command (0 when there is none): the
\* loop over its bytes overwrites space at every ' '.
LastSpace(cmd) ==
  IF \E j \in DOMAIN cmd : cmd[j] = " "
    THEN CHOOSE j \in DOMAIN cmd : cmd[j] = " " /\ \A x \in DOMAIN cmd : cmd[x] = " " => x <= j
    ELSE 0

\* AppendRequest(buf, req): [ok, buf]; an argument of no handled type makes
\* it return nil and an error.
AppendRequest(buf, req) ==
  LET sp == LastSpace(req.cmd)
      head == IF sp = 0
                THEN appendHead(appendHead(buf, "*", Len(req.args) + 1),
                                "$", Len(req.cmd)) \o req.cmd \o CRLF
                ELSE appendHead(appendHead(appendHead(buf, "*", Len(req.args) + 2),
                                           "$", sp - 1)
                                \o SubSeq(req.cmd, 1, sp - 1) \o CRLF,
                                "$", Len(req.cmd) - sp)
                     \o SubSeq(req.cmd, sp + 1, Len(req.cmd)) \o CRLF
  IN IF \A j \in DOMAIN req.args : Supported(req.args[j])
       THEN [ok |-> TRUE,
             buf |-> FoldLeft(LAMBDA acc, a : AppendArg(acc, a) \o CRLF, head, req.args)]
       ELSE [ok |-> FALSE, buf |-> <<>>]

\* Mutant: nil falls to the default case.
MutArgToString(a) ==
  CASE a.t = "str"  -> [ok |-> TRUE, s |-> a.v]
    [] a.t = "int"  -> [ok |-> TRUE, s |-> appendInt(<<>>, a.v)]
    [] a.t = "uint" -> [ok |-> TRUE, s |-> appendUint(<<>>, a.v)]
    [] a.t = "bool" -> [ok |-> TRUE, s |-> <<IF a.v THEN "1" ELSE "0">>]
    [] OTHER        -> [ok |-> FALSE, s |-> <<>>]

\* ArgToString(arg): [ok, s], the routing-key projection of one argument.
ArgToString(a) ==
  CASE a.t = "str"  -> [ok |-> TRUE, s |-> a.v]
    [] a.t = "int"  -> [ok |-> TRUE, s |-> appendInt(<<>>, a.v)]
    [] a.t = "uint" -> [ok |-> TRUE, s |-> appendUint(<<>>, a.v)]
    [] a.t = "bool" -> [ok |-> TRUE, s |-> <<IF a.v THEN "1" ELSE "0">>]
    [] a.t = "nil"  -> [ok |-> TRUE, s |-> <<>>]
    [] OTHER        -> [ok |-> FALSE, s |-> <<>>]

-----------------------------------------------------------------------------
(* The writer's packet: serialize queued requests, write the packet.      *)

VARIABLES
  packet,  \* the writer's packet buffer
  wire,    \* bytes written to the socket
  reqs,    \* the requests whose futures went to the reader, in order
  routed   \* the last argument projected by ArgToString, with the result

vars == <<packet, wire, reqs, routed>>

NoRoute == [arg |-> [t |-> "nil", v |-> 0], ok |-> TRUE, s |-> <<>>]

Init == packet = <<>> /\ wire = <<>> /\ reqs = <<>> /\ routed = NoRoute

\* The loop over swapped futures: AppendRequest into the packet (CheckArgs in
\* doSend admitted only requests of supported types).
Serialize(r) ==
  /\ Len(reqs) < MaxReqs
  /\ packet' = AppendRequest(packet, r).buf
  /\ reqs' = Append(reqs, r)
  /\ UNCHANGED <<wire, routed>>

\* write(): the packet goes to the socket and is emptied.
Write ==
  /\ packet # <<>>
  /\ wire' = wire \o packet
  /\ packet' = <<>>
  /\ UNCHANGED <<reqs, routed>>

\* A caller (cluster slot routing) projects an argument with ArgToString.
Route(a) ==
  /\ routed' = [arg |-> a, ok |-> ArgToString(a).ok, s |-> ArgToString(a).s]
  /\ UNCHANGED <<packet, wire, reqs>>

\* All requests serialized and written: the writer waits.
Done ==
  /\ Len(reqs) = MaxReqs /\ packet = <<>>
  /\ UNCHANGED vars

Next == (\E r \in Requests : Serialize(r)) \/ Write \/ (\E a \in Args : Route(a)) \/ Done

Spec == Init /\ [][Next]_vars

-----------------------------------------------------------------------------
(* The reference: RESP framing as the protocol defines it.                *)

\* Decimal digits of n >= 0, most significant first, by place value.
Dec(n) ==
  IF n = 0 THEN <<"0">>
  ELSE LET k == CHOOSE k \in 1..10 : n \div 10 ^ (k - 1) \in 1..9
       IN [j \in 1..k |-> Digit((n \div 10 ^ (k - j)) % 10)]
DecInt(i) == IF i < 0 THEN <<"-">> \o Dec(-i) ELSE Dec(i)

Bulk(p) == <<"$">> \o Dec(Len(p)) \o CRLF \o p \o CRLF
Frame(ps) == <<"*">> \o Dec(Len(ps)) \o CRLF \o FoldLeft(LAMBDA acc, p : acc \o Bulk(p), <<>>, ps)

\* The canonical text of an argument: strings unchanged, integers as decimal
\* numbers, booleans as 1 or 0, nil as the empty string.
Canon(a) ==
  CASE a.t = "str"  -> a.v
    [] a.t \in {"int", "uint"} -> DecInt(a.v)
    [] a.t = "bool" -> <<IF a.v THEN "1" ELSE "0">>
    [] a.t = "nil"  -> <<>>

\* The bulk strings of a request: the command name, split into two words at
\* its first space, then the arguments.
FirstSpace(cmd) ==
  IF \E j \in DOMAIN cmd : cmd[j] = " "
    THEN CHOOSE j \in DOMAIN cmd : cmd[j] = " " /\ \A x \in DOMAIN cmd : cmd[x] = " " => x >= j
    ELSE 0
CmdWords(cmd) ==
  LET sp == FirstSpace(cmd) IN
  IF sp = 0 THEN <<cmd>> ELSE <<SubSeq(cmd, 1, sp - 1), SubSeq(cmd, sp + 1, Len(cmd))>>
Payloads(r) == CmdWords(r.cmd) \o [j \in DOMAIN r.args |-> Canon(r.args[j])]

-----------------------------------------------------------------------------
(* Properties.                                                             *)

\* The bytes a stream may hold: digits, RESP framing, and request text.
ReqText == UNION {Range(r.cmd) \cup UNION {Range(a.v) : a \in {x \in Range(r.args) : x.t = "str"}}
                  : r \in Requests}
Bytes == {Digit(d) : d \in 0..9} \cup {"*", "$", "-", "\r", "\n"} \cup ReqText

TypeOK ==
  /\ packet \in Seq(Bytes) /\ wire \in Seq(Bytes)
  /\ reqs \in Seq(Requests) /\ Len(reqs) <= MaxReqs
  /\ routed.arg \in Args \cup {NoRoute.arg}

\* Round trip of the writer's stream (AppendRequest into a packet that
\* already holds earlier requests, then write()): what reached the socket,
\* followed by the unwritten packet, is exactly the RESP frames of the
\* serialized requests in order, each argument in its canonical text and
\* each length prefix (patched after the digits) equal to its payload.
RoundTrip ==
  wire \o packet = FoldLeft(LAMBDA acc, r : acc \o Frame(Payloads(r)), <<>>, reqs)

\* ArgToString agrees with AppendRequest (the two type switches are kept in
\* sync by hand): the projection of an argument is accepted exactly when
\* AppendRequest accepts the argument, and it is the payload of the bulk
\* string AppendRequest emits for it, under a length prefix equal to its
\* length.
ArgToStringAgrees ==
  LET a == routed.arg IN
  /\ routed.ok = AppendRequest(<<>>, [cmd |-> <<"P">>, args |-> <<a>>]).ok
  /\ Supported(a) => AppendArg(<<>>, a) \o CRLF = Bulk(routed.s)

=============================================================================
