--------------------------- MODULE MCLeaseRuntime ---------------------------
(***************************************************************************)
(* Instances of LeaseRuntime for TLC.  A /terminate request races the      *)
(* worker and the heartbeat thread; two attempts per http call are enough  *)
(* for a retry after a lost answer and a late duplicate.  The proofs are   *)
(* for any number of either.                                               *)
(***************************************************************************)
EXTENDS LeaseRuntime

CONSTANT t1

OneTerminator == {t1}

\* One kind of each behaviour: no calls, one attempt, retried attempts, a bus.
EachKind == {"none", "sfn", "http", "sqs"}
HttpOnly == {"http"}
=============================================================================
