------------------------------ MODULE MCDialOpts ------------------------------
(* Small option grids and address forms for DialOpts.                      *)
EXTENDS DialOpts

MCMaxProcs == 2

\* Each field takes its default-selecting value 0, a negative value, and
\* values on both sides of the thresholds the defaults compare against.
OptsGrid(ios) ==
  [Concurrency: {0, 4, MCMaxProcs * 128 + 1},
   IOTimeout: ios,
   DialTimeout: {-1, 0, 3 * Second, 20 * Second},
   ReconnectPause: {-1, 0, 2 * Second},
   TCPKeepAlive: {-1, 0, 7 * Second},
   WritePause: {-1, 0, 50}]

MCOpts == OptsGrid({0, 2 * Second, 10 * Second})
MCOptsIODisabled == OptsGrid({-1, 0, 2 * Second, 10 * Second})

\* The documented address forms, with hosts long enough for the slices.
MCAddrs ==
  { <<>>,
    <<"h", "o", "s", "t", ":", "6", "3", "7", "9">>,
    <<"t", "c", "p", ":", "/", "/", "h", ":", "1">>,
    <<"u", "n", "i", "x", ":", "/", "/", "/", "s">>,
    <<"/", "s">>,
    <<".", "/", "s">> }

\* A short host:port, as a caller naming a host "a" would pass it.
MCAddrsShort == MCAddrs \cup {<<"a", ":", "6", "3", "7", "9">>}
=============================================================================
