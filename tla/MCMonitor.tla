----------------------------- MODULE MCMonitor -----------------------------
(***************************************************************************)
(* The instances of Monitor for TLC: two members, of which any may be bad, *)
(* and one thread more than a bad member asked by both sweepers at once    *)
(* can hold.  The members are alike, and so are the threads of the pool.   *)
(***************************************************************************)
EXTENDS Monitor, TLC

CONSTANTS m1, m2, w1, w2, w3

Members == {m1, m2}
Threads == {w1, w2, w3}

Alike == Permutations(Members) \union Permutations(Threads)

=============================================================================
