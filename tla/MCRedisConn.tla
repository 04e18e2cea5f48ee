---------------------------- MODULE MCRedisConn ----------------------------
(* Model-checking instance of RedisConn: small sets of submissions and    *)
(* entries, one ASKING marker, and small packets or one large request.    *)
EXTENDS RedisConn

CONSTANTS e1, e2, e3, m1

\* Three submissions: two single Sends and a SendAsk (ASKING marker first).
MCBatch == [i \in Subs |-> CASE i = 1 -> <<e1>>
                             [] i = 2 -> <<e2>>
                             [] i = 3 -> <<m1, e3>>]

\* Every request is small: the writer never writes right after a send.
MCWeightSmall == [e \in {e1, e2, e3, m1} |-> 1]

\* e3 is a large request (more than 64 KiB on its own).
MCWeightBig == [e \in {e1, e2, e3, m1} |-> IF e = e3 THEN 2 ELSE 1]
=============================================================================
