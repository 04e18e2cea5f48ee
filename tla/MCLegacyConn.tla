---------------------------- MODULE MCLegacyConn ----------------------------
(* Model-checking instance of LegacyConn: single calls and a call with an *)
(* ASKING marker (each cfg picks its Subs); e3 overflows the bufio buffer. *)
EXTENDS LegacyConn

CONSTANTS e1, e2, e3, m1, p

\* Control's PING (0), two single calls and a call with the ASKING marker.
MCBatch == [i \in Subs |-> CASE i = 0 -> <<p>>
                             [] i = 1 -> <<e1>>
                             [] i = 2 -> <<e2>>
                             [] i = 3 -> <<m1, e3>>]

\* e3 alone is larger than the bufio buffer.
MCWeight == [e \in {e1, e2, e3, m1, p} |-> IF e = e3 THEN 2 ELSE 1]
=============================================================================
