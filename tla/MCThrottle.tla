----------------------------- MODULE MCThrottle -----------------------------
(***************************************************************************)
(* The instance of Throttle.  A quota of 2/s gives rate 1.6 and a capacity *)
(* of one token (Unit 25, 5 ticks of 8 units a second).                    *)
(***************************************************************************)
EXTENDS Throttle

CONSTANTS a, b

TwoThreads == {a, b}
=============================================================================
