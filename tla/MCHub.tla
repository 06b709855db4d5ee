-------------------------------- MODULE MCHub --------------------------------
(* Two connections and two goroutines that broadcast: every pair of lock      *)
(* holders, and both writing to one connection.                               *)
EXTENDS Hub

CONSTANTS c1, c2, p1, p2
=============================================================================
