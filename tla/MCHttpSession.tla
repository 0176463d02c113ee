---------------------------- MODULE MCHttpSession ----------------------------
(* Model-checking instance of HttpSession: two connection slots, bodies of *)
(* size 0 and 2 against a 1-unit limit, the first two histogram bounds    *)
(* (1 and 2 ms of metrics.cpp:10) with latencies up to 3 ticks, so that a  *)
(* latency can fall in either bucket or beyond the last one.               *)
EXTENDS HttpSession, TLC

MCBucketsMs == <<1, 2>>
MCSizes == {0, 2}
MCSymmetry == Permutations(Sessions)
=============================================================================
