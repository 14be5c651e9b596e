----------------------------- MODULE MCLeaseMap -----------------------------
(***************************************************************************)
(* Instances of LeaseMap on images of 2 GB: a memory quota for one microVM, *)
(* or unknown, and policies that set each of the ceilings.                 *)
(***************************************************************************)
EXTENDS LeaseMap

WithCeilings(n, seconds, mibSeconds) ==
    [budget |-> 900, slack |-> 120, maxConcurrency |-> n, maxVmSeconds |-> seconds, approval |-> mibSeconds]

\* Two shards come to 2040 VM-seconds at worst, 4177920 MiB-seconds.
SomeCalls ==
    {[policy |-> WithCeilings(2, 2040, 4000000), cap |-> None, approver |-> TRUE],
     [policy |-> WithCeilings(-1, None, 4177920), cap |-> 0, approver |-> FALSE],
     [policy |-> WithCeilings(None, None, 4177919), cap |-> None, approver |-> FALSE],
     [policy |-> WithCeilings(0, None, None), cap |-> None, approver |-> FALSE],
     [policy |-> WithCeilings(None, 2039, None), cap |-> 1, approver |-> TRUE]}
SomeQuotas == {2048, None}

\* A policy whose ceiling the plan meets exactly.
TightCalls == {[policy |-> WithCeilings(1, 2040, None), cap |-> None, approver |-> FALSE]}

\* A policy without ceilings, and an account with memory for one microVM.
SharedCalls == {[policy |-> WithCeilings(None, None, None), cap |-> None, approver |-> FALSE]}
SmallQuota == {2048}

\* One thing goes wrong in a run, and not for the callers that nobody has to approve:
\* the function is stopped, at any time when one shard runs at a time and before the
\* first relaunch when both do, or a step fails when one shard runs at a time.
OneUpset ==
    /\ failures' + crashes' <= (IF call.approver THEN 1 ELSE 0)
    /\ quota = None /\ crashes' > crashes => \A s \in Shards : callback[s, 1] = "none"
    /\ quota = None => failures' = 0
=============================================================================
