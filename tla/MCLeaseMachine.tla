--------------------------- MODULE MCLeaseMachine ---------------------------
(***************************************************************************)
(* Instances of LeaseMachine: a single lease, and Maps of one and of two  *)
(* at a time over two shards or none, with and without an approval.        *)
(***************************************************************************)
EXTENDS LeaseMachine

SomeMachines ==
    {[shards |-> 2, maxConcurrency |-> 2, approval |-> FALSE, threshold |-> 0],
     [shards |-> 2, maxConcurrency |-> 1, approval |-> TRUE, threshold |-> 1],
     [shards |-> 1, maxConcurrency |-> 1, approval |-> FALSE, threshold |-> 0],
     [shards |-> 0, maxConcurrency |-> 1, approval |-> TRUE, threshold |-> 0]}
=============================================================================
