------------------------------ MODULE LeasePlan ------------------------------
(***************************************************************************)
(* The sizing of a fan-out (src/microvm/lease.py, 137-138 and 212-312): how *)
(* many leases run at a time under the account's memory quota and the      *)
(* platform team's policy, what the worst case comes to, and which plans   *)
(* are refused.  Memory is in MiB and time in seconds, both whole; money   *)
(* is in MiB-seconds, which the code multiplies by a constant price.       *)
(***************************************************************************)
EXTENDS Integers

CONSTANTS
    None,             \* a quota that is unknown, a ceiling that is not set
    DefaultLimit,     \* DEFAULT_FANOUT_LIMIT
    LongestDuration   \* MAX_DURATION_SECONDS

ASSUME NoneAssumption == None \notin Int
ASSUME LimitsAssumption == DefaultLimit \in Nat \ {0} /\ LongestDuration \in Nat \ {0}

Lesser(a, b)  == IF a < b THEN a ELSE b
Greater(a, b) == IF a > b THEN a ELSE b

Ceilings == Int \union {None}

\* LeasePolicy, without the heartbeat timeout.
Policy == [budget : Nat \ {0}, slack : Nat, maxConcurrency : Ceilings, maxVmSeconds : Ceilings, approval : Ceilings]

Quota == Nat \union {None}

MaxDuration(p) == Lesser(p.budget + p.slack, LongestDuration)

ByMemory(baseline, quota) == IF quota = None THEN None ELSE quota \div baseline

\* FanoutLimit.limit: the smaller of the two ceilings that are known.
FanoutLimit(baseline, p, quota) ==
    LET byMemory    == ByMemory(baseline, quota)
        memoryBinds == byMemory # None /\ (p.maxConcurrency = None \/ byMemory <= p.maxConcurrency)
    IN  CASE memoryBinds -> byMemory
          [] ~memoryBinds /\ p.maxConcurrency # None -> p.maxConcurrency
          [] OTHER -> DefaultLimit

Concurrency(shards, baseline, p, quota) == Greater(0, Lesser(shards, FanoutLimit(baseline, p, quota)))

WorstCase(shards, p) == shards * MaxDuration(p)

Exceeds(n, ceiling) == ceiling # None /\ n > ceiling

Rejected(shards, baseline, p, quota) ==
    \/ shards < 1
    \/ ByMemory(baseline, quota) = 0
    \/ Exceeds(WorstCase(shards, p), p.maxVmSeconds)
    \/ p.maxConcurrency = 0

NeedsApproval(shards, baseline, p) == Exceeds(WorstCase(shards, p) * baseline, p.approval)

PlanFanout(shards, baseline, p, quota) ==
    [rejected      |-> Rejected(shards, baseline, p, quota),
     needsApproval |-> NeedsApproval(shards, baseline, p),
     concurrency   |-> Concurrency(shards, baseline, p, quota)]

Plan == [rejected : BOOLEAN, needsApproval : BOOLEAN, concurrency : Nat]
=============================================================================
