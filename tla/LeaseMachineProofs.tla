------------------------- MODULE LeaseMachineProofs -------------------------
(***************************************************************************)
(* Proofs about LeaseMachine, for any number of shards, any machine that   *)
(* is generated over them, any policy and any number of failing calls.     *)
(***************************************************************************)
EXTENDS LeaseMachine, FiniteSetTheorems, TLAPS

\* The microVMs that nobody has told to end, or that may yet start.
Runs(s) == vm[s] = "up" \/ s \in sent

Running == {s \in Shards : Runs(s)}

\* What the state of an item says of its microVM and its token.
ItemInv == \A s \in Shards :
    /\ at[s] \in {"none", "Backoff"} => vm[s] = "none" /\ s \notin sent
    /\ at[s] \in {"Terminate", "TerminateFailed"} => vm[s] # "none"
    /\ at[s] = "ShardDone" => vm[s] \in {"ending", "gone"}
    /\ s \in sent => vm[s] = "none"
    /\ token[s] = "open" <=> at[s] = "Lease"

\* A microVM is no older than the task that waits for it.
AgeInv == \A s \in Shards :
    /\ vm[s] = "none" => age[s] = 0
    /\ at[s] = "Lease" => age[s] <= elapsed[s]

\* An item that leaves its microVM to others has the excuse.
ExcuseInv == \A s \in Shards :
    /\ at[s] = "TerminateFailed" => cause[s] \in {"named", "cut"}
    /\ at[s] \in {"Reap", "TerminateStale", "Failed"} /\ Runs(s) =>
           cause[s] \in {"bare", "cut"} \/ s \in refused

\* Items are at work in the Fanout only, and the first to fail is the last to
\* work.
OuterInv == \A s \in Shards :
    /\ at[s] \in Working => exec = "Fanout" /\ s \in Items
    /\ at[s] \in {"Failed", "Stopped"} => exec = "failed"

\* What is picked as stale was launched, and is waited for by nobody unless the
\* budget is longer than a microVM may live.
StaleInv == \A s \in Shards : \A t \in stale[s] :
    vm[t] # "none" /\ (Budget <= LongestDuration => at[t] # "Lease")

\* At most MaxConcurrency items work, and as many microVMs run.
CountInv ==
    /\ Cardinality(Busy) <= machine.maxConcurrency
    /\ Cardinality(Running) <= machine.maxConcurrency

StateInv == TypeOK /\ ItemInv /\ AgeInv /\ ExcuseInv /\ OuterInv /\ StaleInv

IInv == StateInv /\ CountInv

-----------------------------------------------------------------------------
(* The constants, and the steps that several actions share. *)

\* LeasePolicy.max_duration covers a budget that a microVM may live for.
LEMMA Numbers ==
    /\ NumShards \in Nat /\ MaxAttempts \in Nat /\ MaxFailures \in Nat /\ Slack \in Nat
    /\ Budget \in Nat \ {0} /\ MaxDuration \in Nat /\ (Budget <= LongestDuration => Budget <= MaxDuration)
BY NumbersAssumption DEF MaxDuration

LEMMA ItemsAreShards == ASSUME TypeOK PROVE Items \subseteq Shards
BY MachinesAssumption, Numbers DEF TypeOK, Items, Shards

LEMMA InitState == Init => StateInv
<1> SUFFICES ASSUME Init PROVE StateInv
  OBVIOUS
<1> USE Numbers DEF Init, Working, Ends
<1>1. TypeOK
  BY DEF TypeOK
<1>2. ItemInv /\ AgeInv /\ ExcuseInv
  BY DEF ItemInv, AgeInv, ExcuseInv, Runs
<1>3. OuterInv /\ StaleInv
  BY DEF OuterInv, StaleInv
<1> QED BY <1>1, <1>2, <1>3 DEF StateInv

\* An item that fails takes the Map with it; its microVM has the excuse.
LEMMA ItemFailsState ==
    ASSUME StateInv, NEW s \in Shards, ItemFails(s), at[s] \in Working \ {"Lease"},
           UNCHANGED <<machine, cause, attempts, vms>>,
           failures' \in 0..MaxFailures, refused' \subseteq Shards, refused \subseteq refused',
           Runs(s) => cause[s] \in {"bare", "cut"} \/ s \in refused'
    PROVE  StateInv'
<1> USE DEF StateInv, ItemFails, Working, Ends, vms
<1>1. TypeOK'
  BY Numbers DEF TypeOK
<1>2. ItemInv'
  BY DEF TypeOK, ItemInv
<1>3. AgeInv'
  BY DEF TypeOK, AgeInv
<1>4. ExcuseInv'
  BY DEF TypeOK, ExcuseInv, Runs
<1>5. OuterInv'
  BY DEF TypeOK, OuterInv, Items
<1>6. StaleInv'
  BY DEF StaleInv
<1> QED BY <1>1, <1>2, <1>3, <1>4, <1>5, <1>6

\* The Catch of a lease task, whatever ended the task.
LEMMA CaughtState ==
    ASSUME StateInv, NEW s \in Shards, NEW c \in {"named", "cut", "bare"}, at[s] = "Lease",
           Caught(s, c), c # "bare" => vm'[s] # "none",
           UNCHANGED <<attempts, age>>, failures' \in 0..MaxFailures,
           \/ UNCHANGED <<sent, vm>>
           \/ sent' = sent \ {s} /\ vm' = vm
           \/ vm[s] \in {"up", "ending"} /\ vm' = [vm EXCEPT ![s] = "gone"] /\ sent' = sent
    PROVE  StateInv'
<1> USE DEF StateInv, Caught, Working, Ends
<1>1. TypeOK'
  BY Numbers DEF TypeOK
<1>2. ItemInv'
  BY DEF TypeOK, ItemInv
<1>3. AgeInv'
  BY DEF TypeOK, AgeInv, ItemInv
<1>4. ExcuseInv'
  BY DEF TypeOK, ExcuseInv, Runs
<1>5. OuterInv'
  BY DEF TypeOK, OuterInv, Items
<1>6. StaleInv'
  BY DEF TypeOK, StaleInv
<1> QED BY <1>1, <1>2, <1>3, <1>4, <1>5, <1>6

\* A launch call goes out for an item that has no microVM.
LEMMA EnterLeaseState ==
    ASSUME StateInv, NEW s \in Items, EnterLease(s), exec = "Fanout",
           at[s] \in {"none", "Backoff"}, attempts' = attempts
    PROVE  StateInv'
<1> USE DEF StateInv, EnterLease, Working, Ends
<1>0. s \in Shards
  BY ItemsAreShards
<1>1. TypeOK'
  BY <1>0, Numbers DEF TypeOK
<1>2. ItemInv'
  BY <1>0 DEF TypeOK, ItemInv
<1>3. AgeInv'
  BY <1>0 DEF TypeOK, AgeInv, ItemInv
<1>4. ExcuseInv'
  BY <1>0 DEF TypeOK, ExcuseInv, Runs
<1>5. OuterInv'
  BY <1>0 DEF TypeOK, OuterInv, Items
<1>6. StaleInv'
  BY <1>0 DEF TypeOK, StaleInv, ItemInv
<1> QED BY <1>1, <1>2, <1>3, <1>4, <1>5, <1>6

-----------------------------------------------------------------------------
(* The steps, action by action. *)

LEMMA OuterState == ASSUME StateInv, Gate \/ Approval \/ MapDone PROVE StateInv'
<1> USE DEF StateInv, Gate, Approval, MapDone, Working, Ends, tokens, vms
<1>1. TypeOK'
  BY DEF TypeOK
<1>2. ItemInv' /\ AgeInv' /\ ExcuseInv' /\ StaleInv'
  BY DEF ItemInv, AgeInv, ExcuseInv, StaleInv, Runs
<1>3. OuterInv'
  BY DEF OuterInv, Items
<1> QED BY <1>1, <1>2, <1>3

LEMMA LaunchState ==
    ASSUME StateInv, NEW s \in Shards,
           StartShard(s) \/ Retry(s) \/ Throttled(s) \/ LaunchRefused(s) \/ RunAccepted(s)
    PROVE  StateInv'
<1>1. CASE StartShard(s)
  BY <1>1, EnterLeaseState DEF StartShard
<1>2. CASE Retry(s)
  BY <1>2, EnterLeaseState DEF Retry, StateInv, OuterInv, Working
<1>3. CASE Throttled(s)
  <2> USE DEF StateInv, Throttled, Working, Ends
  <2>1. CASE attempts[s] = MaxAttempts
    BY <1>3, <2>1, CaughtState DEF TypeOK
  <2>2. CASE attempts[s] < MaxAttempts
    <3>0. /\ sent' = sent \ {s} /\ attempts' = [attempts EXCEPT ![s] = @ + 1]
          /\ at' = [at EXCEPT ![s] = "Backoff"]
          /\ token' = [token EXCEPT ![s] = "closed"] /\ elapsed' = [elapsed EXCEPT ![s] = 0]
          /\ at[s] = "Lease" /\ s \in sent
          /\ UNCHANGED <<machine, exec, cause, stale, refused, vm, age, failures>>
      BY <1>3, <2>2, Numbers DEF TypeOK
    <3> HIDE DEF Throttled
    <3>1. TypeOK'
      BY <3>0, <2>2, Numbers DEF TypeOK
    <3>2. ItemInv'
      BY <3>0 DEF TypeOK, ItemInv
    <3>3. AgeInv'
      BY <3>0 DEF TypeOK, AgeInv
    <3>4. ExcuseInv'
      BY <3>0 DEF TypeOK, ExcuseInv, Runs
    <3>5. OuterInv' /\ StaleInv'
      BY <3>0 DEF TypeOK, OuterInv, StaleInv, Items
    <3> QED BY <3>1, <3>2, <3>3, <3>4, <3>5
  <2> QED BY <1>3, <2>1, <2>2
<1>4. CASE LaunchRefused(s)
  BY <1>4, CaughtState, Numbers DEF LaunchRefused, StateInv, TypeOK
<1>5. CASE RunAccepted(s)
  <2> USE <1>5 DEF StateInv, RunAccepted, Working, Ends, tokens
  <2>1. TypeOK'
    BY DEF TypeOK
  <2>2. ItemInv'
    BY DEF TypeOK, ItemInv
  <2>3. AgeInv' /\ ExcuseInv'
    BY DEF TypeOK, AgeInv, ExcuseInv, Runs
  <2>4. OuterInv' /\ StaleInv'
    BY DEF TypeOK, OuterInv, StaleInv, Items
  <2> QED BY <2>1, <2>2, <2>3, <2>4
<1> QED BY <1>1, <1>2, <1>3, <1>4, <1>5

\* What TerminateMicrovm does to a microVM.
LEMMA Told ==
    ASSUME TypeOK, NEW t \in Shards, vm[t] # "none", ToldToEnd(t)
    PROVE  /\ vm' \in [Shards -> {"none", "up", "ending", "gone"}]
           /\ vm'[t] \in {"ending", "gone"}
           /\ \A u \in Shards :
                  /\ vm'[u] = "none" <=> vm[u] = "none"
                  /\ vm'[u] = "up" => vm[u] = "up"
                  /\ vm[u] \in {"ending", "gone"} => vm'[u] \in {"ending", "gone"}
BY DEF TypeOK, ToldToEnd

LEMMA TaskState ==
    ASSUME StateInv, NEW s \in Shards,
           TimesOut(s) \/ Fails(s) \/ Succeeds(s) \/ VMEnding(s) \/ VMEnds(s)
    PROVE  StateInv'
<1>1. CASE TimesOut(s)
  BY <1>1, CaughtState DEF TimesOut, vms, StateInv, TypeOK
<1>2. CASE Fails(s)
  <2> PICK c \in {"named", "cut"} : Caught(s, c)
    BY <1>2 DEF Fails
  <2>1. at[s] = "Lease" /\ vm'[s] # "none" /\ UNCHANGED <<attempts, vms, failures>>
    BY <1>2 DEF Fails, Answering, vms, StateInv, ItemInv
  <2> QED BY <2>1, CaughtState DEF vms, StateInv, TypeOK
<1>3. CASE Succeeds(s)
  <2> USE <1>3 DEF StateInv, Succeeds, Answering, Working, Ends, vms
  <2>1. TypeOK'
    BY Numbers DEF TypeOK
  <2>2. ItemInv'
    BY DEF TypeOK, ItemInv
  <2>3. AgeInv' /\ ExcuseInv'
    BY DEF TypeOK, AgeInv, ExcuseInv, Runs
  <2>4. OuterInv' /\ StaleInv'
    BY DEF TypeOK, OuterInv, StaleInv, Items, ItemInv
  <2> QED BY <2>1, <2>2, <2>3, <2>4
<1>4. CASE VMEnds(s) /\ UNCHANGED <<machine, exec, at, cause, stale, tokens, refused>>
  <2> USE <1>4 DEF StateInv, VMEnds, Working, Ends, tokens
  <2>1. TypeOK'
    BY DEF TypeOK
  <2>2. ItemInv'
    BY DEF TypeOK, ItemInv
  <2>3. AgeInv' /\ ExcuseInv'
    BY DEF TypeOK, AgeInv, ExcuseInv, Runs
  <2>4. OuterInv' /\ StaleInv'
    BY DEF TypeOK, OuterInv, StaleInv, Items
  <2> QED BY <2>1, <2>2, <2>3, <2>4
<1>5. CASE VMEnds(s) /\ token[s] = "open" /\ Caught(s, "named")
  <2>1. at[s] = "Lease" /\ vm'[s] # "none"
    BY <1>5 DEF StateInv, ItemInv, TypeOK, VMEnds
  <2> QED BY <1>5, <2>1, CaughtState DEF VMEnds, StateInv, TypeOK
<1>6. CASE VMEnding(s)
  <2> USE DEF StateInv, Working, Ends, tokens
  <2>1. vm[s] # "none" /\ ToldToEnd(s)
        /\ UNCHANGED <<machine, exec, at, cause, attempts, stale, tokens, sent, age, failures, refused>>
    BY <1>6 DEF VMEnding
  <2>2. TypeOK'
    BY <2>1, Told DEF TypeOK
  <2>3. ItemInv'
    BY <2>1, Told DEF ItemInv
  <2>4. AgeInv' /\ ExcuseInv'
    BY <2>1, Told DEF AgeInv, ExcuseInv, Runs
  <2>5. OuterInv' /\ StaleInv'
    BY <2>1, Told DEF TypeOK, OuterInv, StaleInv, Items
  <2> QED BY <2>2, <2>3, <2>4, <2>5
<1> QED BY <1>1, <1>2, <1>3, <1>4, <1>5, <1>6 DEF VMEnds

LEMMA TerminateState ==
    ASSUME StateInv, NEW s \in Shards, Terminate(s) \/ TerminateFailed(s) PROVE StateInv'
<1>1. CASE Terminate(s) /\ ItemFails(s)
  <2>1. UNCHANGED <<machine, cause, attempts, vms>> /\ failures' \in 0..MaxFailures
        /\ refused' = refused \union {s} /\ at[s] = "Terminate"
    BY <1>1, Numbers DEF Terminate, ItemFails, vms, tokens, StateInv, TypeOK
  <2> QED BY <1>1, <2>1, ItemFailsState DEF Working, StateInv, TypeOK
<1>2. CASE Terminate(s) /\ ~ItemFails(s)
  <2>0. /\ ToldToEnd(s) /\ at' = [at EXCEPT ![s] = "ShardDone"]
        /\ at[s] = "Terminate"
        /\ UNCHANGED <<machine, exec, cause, attempts, stale, tokens, sent, age, failures, refused>>
    BY <1>2 DEF Terminate
  <2> USE DEF StateInv, Working, Ends, tokens
  <2>9. vm[s] # "none"
    BY <2>0 DEF ItemInv
  <2>1. TypeOK'
    BY <2>0, <2>9, Told DEF TypeOK
  <2>2. ItemInv'
    BY <2>0, <2>9, Told DEF TypeOK, ItemInv
  <2>3. AgeInv' /\ ExcuseInv'
    BY <2>0, <2>9, Told DEF TypeOK, AgeInv, ExcuseInv, Runs
  <2>4. OuterInv' /\ StaleInv'
    BY <2>0, <2>9, Told DEF TypeOK, OuterInv, StaleInv, Items
  <2> QED BY <2>1, <2>2, <2>3, <2>4
<1>3. CASE TerminateFailed(s)
  <2>0. /\ vm' = vm \/ ToldToEnd(s)
        /\ failures' \in 0..MaxFailures /\ refused \subseteq refused' /\ refused' \subseteq Shards
        /\ at' = [at EXCEPT ![s] = "Reap"] /\ at[s] = "TerminateFailed"
        /\ UNCHANGED <<machine, exec, cause, attempts, stale, tokens, sent, age>>
    BY <1>3, Numbers DEF TerminateFailed, StateInv, TypeOK
  <2> USE DEF StateInv, Working, Ends, tokens
  <2>9. /\ vm' \in [Shards -> {"none", "up", "ending", "gone"}]
        /\ \A u \in Shards :
               /\ vm'[u] = "none" <=> vm[u] = "none"
               /\ vm'[u] = "up" => vm[u] = "up"
               /\ vm[u] \in {"ending", "gone"} => vm'[u] \in {"ending", "gone"}
    <3>1. vm[s] # "none"
      BY <2>0 DEF ItemInv
    <3> QED BY <2>0, <3>1, Told DEF TypeOK
  <2>1. TypeOK'
    BY <2>0, <2>9 DEF TypeOK
  <2>2. ItemInv'
    BY <2>0, <2>9 DEF TypeOK, ItemInv
  <2>3. AgeInv'
    BY <2>0, <2>9 DEF TypeOK, AgeInv, ItemInv
  <2>4. ExcuseInv'
    <3>1. vm'[s] = "up" => cause[s] = "cut" \/ s \in refused'
      BY <1>3, <2>0 DEF TerminateFailed, TypeOK, ExcuseInv, ToldToEnd
    <3>2. s \notin sent
      BY <2>0 DEF ItemInv
    <3> QED BY <2>0, <2>9, <3>1, <3>2 DEF TypeOK, ExcuseInv, Runs
  <2>5. OuterInv' /\ StaleInv'
    BY <2>0, <2>9 DEF TypeOK, OuterInv, StaleInv, Items
  <2> QED BY <2>1, <2>2, <2>3, <2>4, <2>5
<1> QED BY <1>1, <1>2, <1>3

\* What has outlived the longest duration is waited for by nobody: a task that
\* waits is no older than its budget.
LEMMA StaleAreLeft ==
    ASSUME StateInv, NEW t \in Stale PROVE t \in Shards /\ vm[t] # "none" /\ (Budget <= LongestDuration => at[t] # "Lease")
BY Numbers DEF StateInv, TypeOK, AgeInv, Stale

LEMMA ReapState ==
    ASSUME StateInv, NEW s \in Shards, Reap(s) \/ TerminateOne(s) \/ LeaseFailed(s)
    PROVE  StateInv'
<1>0. ASSUME at[s] \in {"Reap", "TerminateStale"}
      PROVE  Runs(s) => cause[s] \in {"bare", "cut"} \/ s \in refused
  BY <1>0 DEF StateInv, ExcuseInv
<1>1. CASE (Reap(s) \/ TerminateOne(s) \/ LeaseFailed(s)) /\ ItemFails(s) /\ vm' = vm
  <2>1. /\ UNCHANGED <<machine, cause, attempts, vms, refused>> /\ failures' \in 0..MaxFailures
        /\ at[s] \in {"Reap", "TerminateStale"}
    BY <1>1, Numbers DEF Reap, TerminateOne, LeaseFailed, vms, StateInv, TypeOK
  <2> QED BY <1>0, <1>1, <2>1, ItemFailsState DEF Working, StateInv, TypeOK
<1>2. CASE Reap(s) /\ ~ItemFails(s)
  <2>0. /\ at' = [at EXCEPT ![s] = "TerminateStale"] /\ stale' = [stale EXCEPT ![s] = Stale]
        /\ at[s] = "Reap"
        /\ UNCHANGED <<machine, exec, cause, attempts, tokens, vms, failures, refused>>
    BY <1>2 DEF Reap
  <2> USE DEF StateInv, Working, Ends, tokens, vms
  <2>1. TypeOK'
    BY <2>0 DEF TypeOK, Stale
  <2>2. ItemInv' /\ AgeInv'
    BY <2>0 DEF TypeOK, ItemInv, AgeInv
  <2>3. ExcuseInv' /\ OuterInv'
    BY <2>0 DEF TypeOK, ExcuseInv, Runs, OuterInv, Items
  <2>4. StaleInv'
    <3> SUFFICES ASSUME NEW u \in Shards, NEW t \in stale'[u]
                 PROVE  vm'[t] # "none" /\ (Budget <= LongestDuration => at'[t] # "Lease")
      BY DEF StaleInv
    <3>1. CASE u = s
      BY <2>0, <3>1, StaleAreLeft DEF TypeOK
    <3>2. CASE u # s
      BY <2>0, <3>2 DEF TypeOK, StaleInv
    <3> QED BY <3>1, <3>2
  <2> QED BY <2>1, <2>2, <2>3, <2>4
<1>3. CASE TerminateOne(s) /\ ~(ItemFails(s) /\ vm' = vm)
  <2> PICK t \in stale[s] :
          /\ ToldToEnd(t) /\ stale' = [stale EXCEPT ![s] = @ \ {t}]
          /\ UNCHANGED <<machine, exec, at, cause, attempts, tokens, sent, age, failures, refused>>
    BY <1>3 DEF TerminateOne
  <2>0. t \in Shards /\ vm[t] # "none" /\ (Budget <= LongestDuration => at[t] # "Lease")
    BY DEF StateInv, TypeOK, StaleInv
  <2> USE DEF StateInv, Working, Ends, tokens
  <2>1. TypeOK'
    BY <2>0, Told DEF TypeOK
  <2>2. ItemInv'
    BY <2>0, Told DEF TypeOK, ItemInv
  <2>3. AgeInv' /\ ExcuseInv'
    BY <2>0, Told DEF TypeOK, AgeInv, ExcuseInv, Runs
  <2>4. OuterInv' /\ StaleInv'
    BY <2>0, Told DEF TypeOK, OuterInv, StaleInv, Items
  <2> QED BY <2>1, <2>2, <2>3, <2>4
<1> QED BY <1>1, <1>2, <1>3 DEF Reap, TerminateOne, LeaseFailed, vms

LEMMA TickState == ASSUME StateInv, Tick PROVE StateInv'
<1> USE DEF StateInv, Tick, Working, Ends
<1>1. TypeOK'
  BY Numbers DEF TypeOK
<1>2. ItemInv'
  BY DEF TypeOK, ItemInv
<1>3. AgeInv'
  BY Numbers DEF TypeOK, AgeInv
<1>4. ExcuseInv'
  BY DEF TypeOK, ExcuseInv, Runs
<1>5. OuterInv' /\ StaleInv'
  BY DEF TypeOK, OuterInv, StaleInv, Items
<1> QED BY <1>1, <1>2, <1>3, <1>4, <1>5

LEMMA StateStep == ASSUME StateInv, [Next]_vars PROVE StateInv'
<1>1. CASE UNCHANGED vars
  BY <1>1 DEF vars, tokens, vms, StateInv, TypeOK, ItemInv, AgeInv, ExcuseInv, OuterInv, StaleInv,
      Runs, Items
<1>2. ASSUME NEW s \in Shards, ItemStep(s) \/ WorldStep(s) PROVE StateInv'
  BY <1>2, LaunchState, TaskState, TerminateState, ReapState DEF ItemStep, WorldStep
<1> QED BY <1>1, <1>2, OuterState, TickState DEF Next

-----------------------------------------------------------------------------
(* How many there are. *)

\* Until the Map has failed, a microVM that runs has an item at work.
LEMMA RunningAreBusy == ASSUME StateInv, exec # "failed" PROVE Running \subseteq Busy
BY ItemsAreShards
   DEF StateInv, TypeOK, ItemInv, OuterInv, Running, Runs, Busy, Working

LEMMA AreFinite ==
    ASSUME TypeOK
    PROVE  /\ IsFiniteSet(Busy) /\ IsFiniteSet(Running)
           /\ Cardinality(Busy) \in Nat /\ Cardinality(Running) \in Nat
<1>1. IsFiniteSet(Shards)
  BY Numbers, FS_Interval DEF Shards
<1>2. Busy \subseteq Shards /\ Running \subseteq Shards
  BY ItemsAreShards DEF Busy, Running
<1> QED BY <1>1, <1>2, FS_Subset, FS_CardinalityType

\* Most steps put nobody to work, and launch nothing.
LEMMA Shrinks ==
    ASSUME TypeOK, TypeOK', CountInv, machine' = machine,
           \A t \in Shards : at'[t] \in Working => at[t] \in Working,
           \A t \in Shards : Runs(t)' => Runs(t)
    PROVE  CountInv'
<1>1. machine.maxConcurrency \in Nat
  BY MachinesAssumption DEF TypeOK
<1>0. Busy' \subseteq Busy /\ Running' \subseteq Running
  <2>1. Items' = Items
    BY DEF Items
  <2> QED BY <2>1, ItemsAreShards DEF Busy, Running
<1>2. Cardinality(Busy') <= Cardinality(Busy) /\ Cardinality(Running') <= Cardinality(Running)
  BY <1>0, AreFinite, FS_Subset
<1>3. Cardinality(Busy') \in Nat /\ Cardinality(Running') \in Nat
  BY <1>0, AreFinite, FS_Subset, FS_CardinalityType
<1> QED BY <1>1, <1>2, <1>3, AreFinite DEF CountInv

\* A launch is counted before it is made.
LEMMA Grows ==
    ASSUME StateInv, StateInv', CountInv, NEW s \in Shards, StartShard(s) \/ Retry(s) PROVE CountInv'
<1> USE DEF StateInv
<1>0. machine' = machine /\ exec' = exec /\ exec = "Fanout" /\ machine.maxConcurrency \in Nat
  BY MachinesAssumption DEF TypeOK, StartShard, Retry, EnterLease, OuterInv, Working
<1>1. Cardinality(Busy') <= machine.maxConcurrency /\ IsFiniteSet(Busy')
  <2>1. Busy' \subseteq Busy \union {s}
    <3>1. Items' = Items
      BY <1>0 DEF Items
    <3> QED BY <3>1, ItemsAreShards DEF StartShard, Retry, EnterLease, Busy, TypeOK
  <2>2. CASE StartShard(s)
    <3>1. IsFiniteSet(Busy \union {s}) /\ Cardinality(Busy \union {s}) <= Cardinality(Busy) + 1
      BY AreFinite, FS_AddElement
    <3>2. /\ IsFiniteSet(Busy') /\ Cardinality(Busy') <= Cardinality(Busy \union {s})
          /\ Cardinality(Busy') \in Nat /\ Cardinality(Busy \union {s}) \in Nat
      BY <2>1, <3>1, FS_Subset, FS_CardinalityType
    <3>3. Cardinality(Busy) < machine.maxConcurrency
      BY <2>2 DEF StartShard
    <3> QED BY <1>0, <3>1, <3>2, <3>3, AreFinite
  <2>3. CASE Retry(s)
    <3>1. s \in Busy
      BY <2>3 DEF Retry, Busy, OuterInv, Working
    <3>2. IsFiniteSet(Busy') /\ Cardinality(Busy') <= Cardinality(Busy) /\ Cardinality(Busy') \in Nat
      BY <2>1, <3>1, AreFinite, FS_Subset, FS_CardinalityType
    <3> QED BY <1>0, <3>2, AreFinite DEF CountInv
  <2> QED BY <2>2, <2>3
<1>2. Running' \subseteq Busy'
  BY <1>0, ItemsAreShards DEF TypeOK, ItemInv, OuterInv, Running, Runs, Busy, Working, Items
<1>3. Cardinality(Running') <= Cardinality(Busy') /\ Cardinality(Running') \in Nat
      /\ Cardinality(Busy') \in Nat
  BY <1>1, <1>2, FS_Subset, FS_CardinalityType
<1> QED BY <1>0, <1>1, <1>3 DEF CountInv

LEMMA CountStep == ASSUME StateInv, StateInv', CountInv, [Next]_vars PROVE CountInv'
<1>1. ASSUME NEW s \in Shards, StartShard(s) \/ Retry(s) PROVE CountInv'
  BY <1>1, Grows
<1>2. CASE Gate \/ Approval \/ MapDone \/ Tick \/ UNCHANGED vars
  BY <1>2, Shrinks
     DEF Gate, Approval, MapDone, Tick, vars, tokens, vms, Runs, StateInv
<1>3. ASSUME NEW s \in Shards,
             \/ Throttled(s) \/ LaunchRefused(s) \/ TimesOut(s) \/ Fails(s) \/ Succeeds(s) \/ VMEnding(s) \/ VMEnds(s)
             \/ RunAccepted(s) \/ Terminate(s) \/ TerminateFailed(s) \/ Reap(s) \/ TerminateOne(s)
             \/ LeaseFailed(s)
      PROVE  CountInv'
  <2> SUFFICES /\ machine' = machine
               /\ \A t \in Shards : (at'[t] \in Working => at[t] \in Working) /\ (Runs(t)' => Runs(t))
    BY Shrinks DEF StateInv
  <2> USE DEF StateInv, TypeOK, Runs, Working
  <2>1. CASE Throttled(s) \/ LaunchRefused(s)
    BY <2>1 DEF Throttled, LaunchRefused, Caught
  <2>2. CASE TimesOut(s) \/ Fails(s)
    BY <2>2 DEF TimesOut, Fails, Answering, Caught, vms, ItemInv
  <2>3. CASE Succeeds(s) \/ RunAccepted(s)
    BY <2>3 DEF Succeeds, Answering, RunAccepted, vms, ItemInv
  <2>4. CASE VMEnds(s)
    BY <2>4 DEF VMEnds, Caught, ItemInv
  <2>5. CASE Terminate(s) \/ TerminateFailed(s) \/ VMEnding(s)
    BY <2>5 DEF Terminate, TerminateFailed, VMEnding, ItemFails, ToldToEnd
  <2>6. CASE Reap(s) \/ LeaseFailed(s)
    BY <2>6 DEF Reap, LeaseFailed, ItemFails, vms
  <2>7. CASE TerminateOne(s)
    BY <2>7 DEF TerminateOne, ItemFails, ToldToEnd
  <2> QED BY <1>3, <2>1, <2>2, <2>3, <2>4, <2>5, <2>6, <2>7
<1> QED BY <1>1, <1>2, <1>3 DEF Next, ItemStep, WorldStep

LEMMA InitInv == Init => IInv
<1> SUFFICES ASSUME Init PROVE IInv
  OBVIOUS
<1>1. StateInv
  BY InitState
<1>2. Busy = {} /\ Running = {} /\ machine.maxConcurrency \in Nat
  BY <1>1, ItemsAreShards, MachinesAssumption DEF StateInv, Init, Busy, Running, Runs, Working
<1>3. Cardinality(Busy) = 0 /\ Cardinality(Running) = 0
  BY <1>2, FS_EmptySet
<1> QED BY <1>1, <1>2, <1>3 DEF IInv, CountInv

-----------------------------------------------------------------------------
\* The invariant holds of every state, whatever the platform, the microVMs and
\* the approver do.
THEOREM Inductive == Spec => []IInv
<1>1. ASSUME IInv, [Next]_vars PROVE IInv'
  BY <1>1, StateStep, CountStep DEF IInv
<1> QED BY InitInv, <1>1, PTL DEF Spec

\* Launches on their way and microVMs that run, those of failed and stopped
\* shards included, are never more than the Map's MaxConcurrency.
THEOREM WithinConcurrencyHolds == Spec => []WithinConcurrency
<1>1. ASSUME IInv PROVE WithinConcurrency
  <2>1. {s \in Shards : vm[s] = "up"} \union sent = Running
    BY <1>1 DEF IInv, StateInv, TypeOK, Running, Runs
  <2> QED BY <1>1, <2>1 DEF IInv, StateInv, CountInv, WithinConcurrency
<1> QED BY Inductive, <1>1, PTL

\* TerminateStale never picks a microVM whose lease is waited for.
THEOREM LiveAreNotStaleHolds == Spec => []LiveAreNotStale
<1>1. ASSUME IInv PROVE LiveAreNotStale
  BY <1>1 DEF IInv, StateInv, TypeOK, ItemInv, StaleInv, LiveAreNotStale
<1> QED BY Inductive, <1>1, PTL

\* A microVM that outlives the execution has one of the excuses the machine's
\* comments name.
THEOREM StraysAreExcusedHolds == Spec => []StraysAreExcused
<1>1. ASSUME IInv PROVE StraysAreExcused
  <2> SUFFICES ASSUME exec \in Ends, NEW s \in Shards, Runs(s)
               PROVE  /\ exec = "failed"
                      /\ at[s] = "Stopped" \/ cause[s] \in {"bare", "cut"} \/ s \in refused
    BY DEF StraysAreExcused, Runs
  <2>1. at[s] \notin Working
    BY <1>1 DEF IInv, StateInv, OuterInv, Ends
  <2>2. at[s] \in {"Failed", "Stopped"}
    BY <1>1, <2>1 DEF IInv, StateInv, TypeOK, ItemInv, Runs, Working
  <2> QED BY <1>1, <2>2 DEF IInv, StateInv, OuterInv, ExcuseInv
<1> QED BY Inductive, <1>1, PTL
=============================================================================
