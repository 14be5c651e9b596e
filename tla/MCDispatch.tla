----------------------------- MODULE MCDispatch -----------------------------
(***************************************************************************)
(* Dispatch over two microVMs: two workers share the client of the first,  *)
(* one has the second to itself.                                           *)
(***************************************************************************)
EXTENDS Dispatch, TLC

CONSTANTS v1, v2, w1, w2, w3

TwoVMs       == {v1, v2}
ThreeWorkers == {w1, w2, w3}
Placement    == (w1 :> v1) @@ (w2 :> v1) @@ (w3 :> v2)
=============================================================================
