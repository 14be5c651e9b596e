---------------------------- MODULE SharedProofs ----------------------------
(***************************************************************************)
(* Proofs about what the threads of a caller's process share: the token    *)
(* bucket of Throttle, for every rate, capacity, number of threads and     *)
(* length of the observed window; and the monitor's pool, Monitor, for     *)
(* every set of members, any of them bad, every pool and every timeout.    *)
(***************************************************************************)
EXTENDS Throttle, Monitor, FiniteSetTheorems, SequenceTheorems, TLAPS

(* The token bucket. *)

\* What the bucket granted in the window and what it holds now were there at
\* the start or have been earned since.
Budget == span <= Window => granted * Unit + Level <= Capacity + Gain * span

\* Only a call with attempts left backs off.
RetryInv == \A t \in Threads : pc[t] = "backoff" => attempt[t] < MaxAttempts

IInv == TypeOK /\ RetryInv /\ Budget /\ SleepSuffices

-----------------------------------------------------------------------------
LEMMA CapacityType == Capacity \in Nat /\ Capacity >= Unit
<1>1. Greater(1, (Gain * Second) \div Unit) \in Nat /\ Greater(1, (Gain * Second) \div Unit) >= 1
  BY ScaleAssumption DEF Greater
<1> DEFINE c == Greater(1, (Gain * Second) \div Unit)
<1>2. \A n \in Nat : n >= 1 => Unit * n \in Nat /\ Unit * n >= Unit
  BY ScaleAssumption
<1> HIDE DEF c
<1> QED BY <1>1, <1>2 DEF Capacity, c

\* Products with a constant, stated once for the steps that need them.
LEMMA GainProducts ==
    \A n \in Nat : /\ Gain * n \in Nat
                   /\ Gain * (n + 1) = Gain * n + Gain
                   /\ n * Unit \in Nat
                   /\ (n + 1) * Unit = n * Unit + Unit
BY ScaleAssumption

LEMMA LevelType == TypeOK => Level \in 0..Capacity
<1>1. TypeOK => Gain * age \in Nat
  BY GainProducts DEF TypeOK
<1> QED BY <1>1, CapacityType DEF TypeOK, Level, Lesser

\* The wait is long enough for the missing part of a token.
LEMMA WaitEarns == ASSUME TypeOK, Level < Unit PROVE Wait \in Nat /\ Level + Gain * Wait >= Unit
<1> DEFINE n == Unit - Level + Gain - 1
<1>1. n \in Nat
  BY LevelType, ScaleAssumption, CapacityType
<1>2. n \div Gain \in Nat /\ n = Gain * (n \div Gain) + (n % Gain) /\ n % Gain \in 0..(Gain - 1)
  BY <1>1, ScaleAssumption
<1>3. Gain * (n \div Gain) \in Nat
  BY <1>2, GainProducts
<1> QED BY <1>1, <1>2, <1>3, LevelType, ScaleAssumption, CapacityType DEF Wait

\* A refill only moves units from the clock's account to the bucket's.
LEMMA RefillKeepsLevel == ASSUME TypeOK, tokens' = Level, age' = 0 PROVE Level' = Level
BY LevelType, CapacityType, ScaleAssumption DEF Level, Lesser

\* One tick adds Gain units unless the bucket is full.
LEMMA TickLevel ==
    ASSUME TypeOK, Tick
    PROVE  Level' <= Level + Gain /\ (Level' = Capacity \/ Level' = Level + Gain)
<1>1. Level \in 0..Capacity /\ tokens \in Nat /\ Gain * age \in Nat /\ Gain * (age + 1) = Gain * age + Gain
  BY LevelType, GainProducts DEF TypeOK
<1>2. CASE Level = Capacity
  BY <1>1, <1>2, ScaleAssumption, CapacityType DEF Tick, Level, Lesser
<1>3. CASE Level # Capacity
  BY <1>1, <1>3, ScaleAssumption, CapacityType DEF Tick, Level, Lesser
<1> QED BY <1>2, <1>3

-----------------------------------------------------------------------------
LEMMA InitInv == Init => IInv
<1> SUFFICES ASSUME Init PROVE IInv
  OBVIOUS
<1>1. TypeOK
  BY CapacityType, WindowAssumption, DemandAssumption DEF Init, TypeOK
<1>2. RetryInv /\ Budget /\ SleepSuffices
  BY WindowAssumption DEF Init, RetryInv, Budget, SleepSuffices
<1> QED BY <1>1, <1>2 DEF IInv

LEMMA StepType ==
    ASSUME TypeOK, RetryInv, NEW t \in Threads, Step(t)
    PROVE  TypeOK' /\ RetryInv'
<1> USE DemandAssumption DEF TypeOK, RetryInv, Goto, bucket, window
<1>1. CASE Call(t) BY <1>1 DEF Call
<1>2. CASE Acquire(t)
  <2>1. Level - Unit \in 0..Capacity
    BY <1>2, LevelType, CapacityType, ScaleAssumption DEF Acquire
  <2> QED BY <1>2, <2>1 DEF Acquire
<1>3. CASE Sleep(t)
  BY <1>3, LevelType, WaitEarns DEF Sleep
<1>4. CASE Wake(t) BY <1>4 DEF Wake
<1>5. CASE Finish(t) BY <1>5 DEF Finish
<1>6. CASE Retry(t) BY <1>6 DEF Retry
<1>7. CASE TryAgain(t) BY <1>7 DEF TryAgain
<1> QED BY <1>1, <1>2, <1>3, <1>4, <1>5, <1>6, <1>7 DEF Step

LEMMA TickType == ASSUME TypeOK, RetryInv, Tick \/ OpenWindow PROVE TypeOK' /\ RetryInv'
<1>1. CASE Tick
  BY <1>1, WindowAssumption DEF Tick, TypeOK, RetryInv, Greater, Lesser
<1>2. CASE OpenWindow
  BY <1>2, WindowAssumption DEF OpenWindow, TypeOK, RetryInv, thread, bucket
<1> QED BY <1>1, <1>2

\* A step of a thread takes its token out of the level and enters it in the
\* count, or leaves both as they are.
LEMMA StepBudget ==
    ASSUME IInv, NEW t \in Threads, Step(t), TypeOK'
    PROVE  Budget' /\ SleepSuffices'
<1> USE DEF IInv
<1>1. CASE Acquire(t)
  <2>1. Level \in 0..Capacity /\ Level' = Level - Unit
    <3>1. tokens' = Level - Unit /\ age' = 0 /\ Level >= Unit
      BY <1>1 DEF Acquire
    <3> QED BY <3>1, LevelType, CapacityType, ScaleAssumption DEF Level, Lesser
  <2>2. Budget'
    <3>1. granted * Unit \in Nat /\ (granted + 1) * Unit = granted * Unit + Unit /\ Gain * span \in Nat
      BY GainProducts, WindowAssumption DEF TypeOK
    <3>2. span' = span /\ (span <= Window => granted' = granted + 1)
      BY <1>1 DEF Acquire
    <3> QED BY <2>1, <3>1, <3>2, CapacityType, ScaleAssumption, WindowAssumption DEF Budget, TypeOK
  <2>3. SleepSuffices'
    BY <1>1 DEF Acquire, SleepSuffices, Goto, TypeOK
  <2> QED BY <2>2, <2>3
<1>2. CASE Sleep(t)
  <2>1. Level' = Level
    BY <1>2, RefillKeepsLevel DEF Sleep
  <2>2. Wait \in Nat /\ Level + Gain * Wait >= Unit
    BY <1>2, WaitEarns DEF Sleep
  <2>3. pc'[t] = "sleep" /\ left'[t] = Wait /\ \A u \in Threads \ {t} :
            pc'[u] = pc[u] /\ left'[u] = left[u] /\ passed'[u] = passed[u]
    BY <1>2 DEF Sleep, Goto, TypeOK
  <2>4. SleepSuffices'
    BY <2>1, <2>2, <2>3 DEF SleepSuffices
  <2> QED BY <1>2, <2>1, <2>4 DEF Sleep, Budget, window
<1>3. ASSUME UNCHANGED <<bucket, window, left, passed>>,
             \A u \in Threads : pc'[u] = "sleep" => pc[u] = "sleep"
      PROVE  Budget' /\ SleepSuffices'
  BY <1>3 DEF bucket, window, Budget, SleepSuffices, Level
<1>4. CASE Call(t) \/ Wake(t) \/ Finish(t) \/ Retry(t) \/ TryAgain(t)
  BY <1>3, <1>4 DEF Call, Wake, Finish, Retry, TryAgain, Goto, TypeOK
<1> QED BY <1>1, <1>2, <1>4 DEF Step

\* A tick earns at most Gain, and exactly that unless the bucket is full.
LEMMA TickBudget == ASSUME IInv, Tick PROVE Budget' /\ SleepSuffices'
<1> USE DEF IInv
<1>1. /\ Level \in 0..Capacity /\ Level' <= Level + Gain
      /\ Level' = Capacity \/ Level' = Level + Gain
  BY LevelType, TickLevel
<1>2. Budget'
  <2>1. SUFFICES ASSUME span' <= Window PROVE granted' * Unit + Level' <= Capacity' + Gain * span'
    BY DEF Budget
  <2>2. span' = span + 1 /\ span <= Window /\ granted' = granted /\ Capacity' = Capacity
    BY <2>1, WindowAssumption DEF Tick, Lesser, TypeOK, Capacity
  <2>3. Gain * (span + 1) = Gain * span + Gain /\ Gain * span \in Nat /\ granted * Unit \in Nat
    BY GainProducts, <2>2 DEF TypeOK
  <2> QED BY <1>1, <2>2, <2>3, CapacityType, ScaleAssumption DEF Budget
<1>3. SleepSuffices'
  <2> SUFFICES ASSUME NEW t \in Threads, (pc[t] = "sleep" /\ ~passed[t])'
               PROVE  Level' + Gain * left'[t] >= Unit
    BY DEF SleepSuffices
  <2>1. left'[t] = Greater(0, left[t] - 1) /\ left[t] \in Nat /\ Level + Gain * left[t] >= Unit
    BY DEF Tick, TypeOK, SleepSuffices
  <2>2. CASE left[t] = 0
    <3>1. Gain * 0 = 0
      BY ScaleAssumption
    <3> QED BY <1>1, <2>1, <2>2, <3>1, CapacityType, ScaleAssumption DEF Greater
  <2>3. CASE left[t] # 0
    <3>1. left'[t] = left[t] - 1 /\ left[t] - 1 \in Nat
      BY <2>1, <2>3 DEF Greater
    <3>2. Gain * left[t] = Gain * (left[t] - 1) + Gain /\ Gain * (left[t] - 1) \in Nat
      BY <3>1, <2>1, GainProducts
    <3> QED BY <1>1, <2>1, <3>1, <3>2, CapacityType, ScaleAssumption
  <2> QED BY <2>2, <2>3, <2>1
<1> QED BY <1>2, <1>3

LEMMA OpenBudget == ASSUME IInv, OpenWindow PROVE Budget' /\ SleepSuffices'
<1>1. Level' = Level /\ Level \in 0..Capacity /\ 0 * Unit = 0 /\ Gain * 0 = 0
  BY LevelType, ScaleAssumption DEF IInv, OpenWindow, bucket, Level
<1> QED BY <1>1, CapacityType DEF IInv, OpenWindow, thread, bucket, Budget, SleepSuffices, Capacity

\* IInv is inductive: every reachable state satisfies it.
THEOREM Inductive == Spec => []IInv
<1>1. IInv /\ [Next]_vars => IInv'
  <2> SUFFICES ASSUME IInv, [Next]_vars PROVE IInv'
    OBVIOUS
  <2>1. CASE UNCHANGED vars
    BY <2>1 DEF vars, thread, bucket, window, IInv, TypeOK, RetryInv, Budget, SleepSuffices, Level
  <2>2. ASSUME NEW t \in Threads, Step(t) PROVE IInv'
    BY <2>2, StepType, StepBudget DEF IInv
  <2>3. CASE Tick BY <2>3, TickType, TickBudget DEF IInv
  <2>4. CASE OpenWindow BY <2>4, TickType, OpenBudget DEF IInv
  <2> QED BY <2>1, <2>2, <2>3, <2>4 DEF Next
<1> QED BY <1>1, InitInv, PTL DEF Spec

-----------------------------------------------------------------------------
\* No call makes more than max_attempts attempts, and the bucket is never
\* overdrawn or overfull.
THEOREM TypeCorrect == Spec => []TypeOK
<1>1. IInv => TypeOK BY DEF IInv
<1> QED BY <1>1, Inductive, PTL

\* In every stretch of time the tokens granted are bounded by the capacity and
\* what was earned in it, for any rate and any number of threads.
THEOREM WindowBoundHolds == Spec => []WindowBound
<1>1. IInv => WindowBound
  <2> SUFFICES ASSUME IInv, span <= Window PROVE granted * Unit <= Capacity + Gain * span
    BY DEF WindowBound
  <2>1. Level \in 0..Capacity /\ Gain * span \in Nat /\ granted * Unit \in Nat
    BY LevelType, GainProducts, WindowAssumption DEF IInv, TypeOK
  <2> QED BY <2>1, CapacityType DEF IInv, Budget
<1> QED BY <1>1, Inductive, PTL

\* A sleeper that no other thread overtook finds its token.
THEOREM SleepSufficesHolds == Spec => []SleepSuffices
<1>1. IInv => SleepSuffices BY DEF IInv
<1> QED BY <1>1, Inductive, PTL

-----------------------------------------------------------------------------
(* The monitor's pool. *)

\* A microVM that is not RUNNING, or that a sweep did not list, is in away.
AwayInv ==
    /\ \A m \in VMs : vm[m] # "running" => m \in away
    /\ \A s \in Sweepers : listed[s] # None => \A m \in VMs : m \notin listed[s] => m \in away

\* A sweep that has returned owes nothing; what a future says was true of its member.
AnswerInv ==
    \A s \in Sweepers :
        /\ listed[s] = None => due[s] = 0 /\ answer[s] = Nothing
        /\ \A m \in VMs : /\ answer[s][m] = "over" => lease[m] = "over"
                          /\ answer[s][m] = "unanswered" => m \in bad \union away

\* A poll that waits, or that a thread works on for a sweep.
Queued(s, m) == \E i \in Waiting : queue[i] = [by |-> s, of |-> m]
InHand(s, m) == \E w \in Busy : worker[w] = [by |-> s, of |-> m]

\* Whoever waits or is worked on is an open future of a sweep that is under way.
OpenInv ==
    /\ \A s \in Sweepers, m \in VMs : Queued(s, m) \/ InHand(s, m) =>
          listed[s] # None /\ m \in listed[s] /\ answer[s][m] = None
    /\ \A i \in Waiting : queue[i].by # None

\* There is one of it.
OnceInv ==
    /\ \A i, j \in Waiting : queue[i] = queue[j] => i = j
    /\ \A w, v \in Busy : worker[w].by # None /\ worker[w] = worker[v] => w = v
    /\ \A i \in Waiting, w \in Busy : queue[i] # worker[w]

\* An open future of a sweep under way waits or is worked on.
CoverInv ==
    \A s \in Sweepers : listed[s] # None =>
        \A m \in listed[s] : answer[s][m] = None => Queued(s, m) \/ InHand(s, m)

\* While a sweep has seen no time pass with every thread taken, the polls of good
\* members have ended before any time has passed at all.
PaceInv ==
    \A s \in Sweepers : listed[s] # None /\ s \notin pinned /\ due[s] < Timeout =>
        \A m \in listed[s] : m \notin bad \union away => answer[s][m] # None

MonitorInv ==
    /\ MonitorTypeOK /\ AwayInv /\ AnswerInv /\ OpenInv /\ OnceInv /\ CoverInv
    /\ SettledIsTrue /\ PaceInv /\ GoodAreAnswered

-----------------------------------------------------------------------------
(* What waits and what is worked on. *)

\* The types of what waits and of what the busy threads do.
LEMMA Shapes ==
    ASSUME MonitorTypeOK
    PROVE  /\ queue \in Seq({None} \union Poll) /\ Len(queue) \in Nat /\ DOMAIN queue = 1..Len(queue)
           /\ \A i \in DOMAIN queue : queue[i] \in {None} \union Poll
           /\ \A i \in Waiting : i \in DOMAIN queue /\ queue[i] \in Poll /\ queue[i] # None
           /\ \A w \in Busy : /\ w \in Workers /\ worker[w] # None
                              /\ worker[w] \in Poll
<1>1. queue \in Seq({None} \union Poll)
  BY DEF MonitorTypeOK
<1>2. Len(queue) \in Nat /\ DOMAIN queue = 1..Len(queue) /\ \A i \in DOMAIN queue : queue[i] \in {None} \union Poll
  BY <1>1, LenProperties
<1>3. \A w \in Busy : w \in Workers /\ worker[w] # None /\ worker[w] \in Poll
  BY DEF MonitorTypeOK, Busy
<1> QED BY <1>1, <1>2, <1>3 DEF Waiting

\* A poll is known by its sweeper and its member.
LEMMA PollShape ==
    \A p \in Poll : p.by \in Sweepers \union {None} /\ p.of \in VMs /\ p = [by |-> p.by, of |-> p.of]
BY DEF Poll

\* A poll that somebody owns, put as Queued and InHand put it.
LEMMA Owned ==
    ASSUME MonitorTypeOK, OpenInv
    PROVE  /\ \A i \in Waiting : /\ queue[i].by \in Sweepers /\ queue[i].of \in VMs
                                 /\ Queued(queue[i].by, queue[i].of)
           /\ \A w \in Busy : worker[w].by # None =>
                 /\ worker[w].by \in Sweepers /\ worker[w].of \in VMs
                 /\ InHand(worker[w].by, worker[w].of)
<1>1. ASSUME NEW i \in Waiting
      PROVE  queue[i].by \in Sweepers /\ queue[i].of \in VMs /\ Queued(queue[i].by, queue[i].of)
  <2>1. queue[i] \in Poll /\ queue[i].by # None
    BY Shapes DEF OpenInv
  <2> QED BY <2>1, PollShape DEF Queued
<1>2. ASSUME NEW w \in Busy, worker[w].by # None
      PROVE  /\ worker[w].by \in Sweepers /\ worker[w].of \in VMs
             /\ InHand(worker[w].by, worker[w].of)
  <2>1. worker[w] \in Poll
    BY Shapes
  <2> QED BY <1>2, <2>1, PollShape DEF InHand
<1> QED BY <1>1, <1>2

\* A free thread takes the head of the queue; all others move up.
LEMMA TailQueue ==
    ASSUME MonitorTypeOK, queue # <<>>, queue' = Tail(queue)
    PROVE  /\ 1 \in DOMAIN queue /\ Head(queue) = queue[1]
           /\ queue' \in Seq({None} \union Poll)
           /\ \A i \in Waiting' : i \in Nat /\ i >= 1 /\ i + 1 \in Waiting /\ queue'[i] = queue[i + 1]
           /\ \A i \in Waiting : i \in Nat /\ (i = 1 \/ (i - 1 \in Waiting' /\ queue'[i - 1] = queue[i]))
<1>1. /\ queue \in Seq({None} \union Poll) /\ Len(queue) \in Nat /\ DOMAIN queue = 1..Len(queue)
  BY Shapes
<1>2. /\ Tail(queue) \in Seq({None} \union Poll) /\ Len(Tail(queue)) = Len(queue) - 1
      /\ \A i \in 1..Len(Tail(queue)) : Tail(queue)[i] = queue[i + 1]
  BY <1>1, HeadTailProperties
<1>3. DOMAIN Tail(queue) = 1..(Len(queue) - 1)
  BY <1>2, LenProperties
<1>4. Len(queue) # 0 /\ Head(queue) = queue[1]
  BY <1>1, EmptySeq
<1>8. 1 \in DOMAIN queue
  BY <1>1, <1>4
<1>5. ASSUME NEW i \in Waiting'
      PROVE  i \in Nat /\ i >= 1 /\ i + 1 \in Waiting /\ queue'[i] = queue[i + 1]
  <2>1. i \in DOMAIN queue' /\ queue'[i] # None
    BY DEF Waiting
  <2>2. i \in 1..(Len(queue) - 1)
    BY <2>1, <1>3
  <2>3. i \in Nat /\ i >= 1 /\ i + 1 \in 1..Len(queue) /\ i \in 1..Len(Tail(queue))
    BY <2>2, <1>1, <1>2
  <2>4. queue'[i] = queue[i + 1]
    BY <2>3, <1>2
  <2> QED BY <2>1, <2>3, <2>4, <1>1 DEF Waiting
<1>6. ASSUME NEW i \in Waiting, i # 1
      PROVE  i - 1 \in Waiting' /\ queue'[i - 1] = queue[i]
  <2>1. i \in 1..Len(queue) /\ queue[i] # None
    BY <1>1 DEF Waiting
  <2>2. i - 1 \in 1..(Len(queue) - 1) /\ (i - 1) + 1 = i
    BY <2>1, <1>6, <1>1
  <2>3. queue'[i - 1] = queue[i]
    BY <2>2, <1>2
  <2>4. i - 1 \in DOMAIN queue'
    BY <2>2, <1>3
  <2> QED BY <2>1, <2>3, <2>4 DEF Waiting
<1>7. \A i \in Waiting : i \in Nat
  BY <1>1 DEF Waiting
<1> QED BY <1>2, <1>4, <1>5, <1>6, <1>7, <1>8

\* A sweep puts one poll of each of its members behind what waits.
LEMMA SweepQueue ==
    ASSUME MonitorTypeOK, NEW s \in Sweepers, Sweep(s)
    PROVE  LET members == {m \in VMs : vm[m] = "running"}
           IN  /\ queue' \in Seq({None} \union Poll)
               /\ \A i \in Waiting : i \in Waiting' /\ queue'[i] = queue[i]
               /\ \A i \in Waiting' : \/ i \in Waiting /\ queue'[i] = queue[i]
                                      \/ \E m \in members : queue'[i] = [by |-> s, of |-> m]
               /\ \A m \in members : \E i \in Waiting' : queue'[i] = [by |-> s, of |-> m]
               /\ \A i, j \in Waiting' :
                     i \notin Waiting /\ j \notin Waiting /\ queue'[i] = queue'[j] => i = j
<1> DEFINE members == {m \in VMs : vm[m] = "running"}
           k == Cardinality(members)
           n == Len(queue)
<1>1. PICK order \in Bijection(1..k, members) :
        queue' = queue \o [i \in 1..k |-> [by |-> s, of |-> order[i]]]
  BY DEF Sweep
<1> DEFINE new == [i \in 1..k |-> [by |-> s, of |-> order[i]]]
<1>2. IsFiniteSet(members) /\ k \in Nat
  <2>1. members \in SUBSET VMs /\ IsFiniteSet(VMs)
    BY MonitorAssumption
  <2>2. IsFiniteSet(members)
    BY <2>1, FS_Subset
  <2> QED BY <2>2, FS_CardinalityType
<1> HIDE DEF k
<1>3. /\ \A i \in 1..k : order[i] \in members
      /\ \A i, j \in 1..k : order[i] = order[j] => i = j
      /\ \A m \in members : \E i \in 1..k : order[i] = m
  BY <1>1 DEF Bijection, Injection, Surjection, IsInjective
<1>4. \A i \in 1..k : new[i] = [by |-> s, of |-> order[i]] /\ new[i] \in Poll /\ new[i] # None
  <2>1. ASSUME NEW i \in 1..k PROVE new[i] = [by |-> s, of |-> order[i]] /\ new[i] \in Poll
    BY <1>3 DEF Poll
  <2> QED BY <2>1, MonitorAssumption
<1>5. new \in Seq({None} \union Poll) /\ Len(new) = k
  <2>1. new \in [1..k -> {None} \union Poll]
    BY <1>4
  <2> QED BY <2>1, <1>2
<1>6. queue \in Seq({None} \union Poll) /\ n \in Nat /\ DOMAIN queue = 1..n
  BY Shapes
<1> HIDE DEF new, n
<1>7. /\ queue \o new \in Seq({None} \union Poll) /\ Len(queue \o new) = n + k
      /\ \A i \in 1..(n + k) : (queue \o new)[i] = IF i <= n THEN queue[i] ELSE new[i - n]
  BY <1>5, <1>6, ConcatProperties DEF n
<1>8. queue' = queue \o new
  BY <1>1 DEF new
<1>9. /\ queue' \in Seq({None} \union Poll) /\ DOMAIN queue' = 1..(n + k)
      /\ \A i \in 1..(n + k) : queue'[i] = IF i <= n THEN queue[i] ELSE new[i - n]
  BY <1>7, <1>8, LenProperties
<1>10. \A i \in Waiting : i \in Waiting' /\ queue'[i] = queue[i]
  <2> SUFFICES ASSUME NEW i \in Waiting PROVE i \in Waiting' /\ queue'[i] = queue[i]
    OBVIOUS
  <2>1. i \in 1..n /\ queue[i] # None
    BY <1>6 DEF Waiting
  <2>2. i \in 1..(n + k) /\ i <= n
    BY ONLY <2>1, <1>6, <1>2
  <2> QED BY <2>1, <2>2, <1>9 DEF Waiting
<1>11. ASSUME NEW i \in Waiting', i \notin Waiting
       PROVE  i \in 1..(n + k) /\ i - n \in 1..k /\ queue'[i] = [by |-> s, of |-> order[i - n]]
  <2>1. i \in 1..(n + k) /\ queue'[i] # None
    BY <1>9 DEF Waiting
  <2>2. ~(i <= n)
    <3> SUFFICES ASSUME i <= n PROVE FALSE
      OBVIOUS
    <3>1. i \in 1..n
      BY ONLY <2>1, <1>6, <1>2, i <= n
    <3>2. queue'[i] = queue[i]
      BY <2>1, <1>9
    <3> QED BY <3>1, <3>2, <2>1, <1>11, <1>6 DEF Waiting
  <2>3. i - n \in 1..k
    BY ONLY <2>1, <2>2, <1>6, <1>2
  <2> QED BY <2>1, <2>2, <2>3, <1>9, <1>4
<1>12. \A i \in Waiting' : \/ i \in Waiting /\ queue'[i] = queue[i]
                           \/ \E m \in members : queue'[i] = [by |-> s, of |-> m]
  BY <1>10, <1>11, <1>3
<1>13. \A m \in members : \E i \in Waiting' : queue'[i] = [by |-> s, of |-> m]
  <2> SUFFICES ASSUME NEW m \in members PROVE \E i \in Waiting' : queue'[i] = [by |-> s, of |-> m]
    OBVIOUS
  <2>1. PICK j \in 1..k : order[j] = m
    BY <1>3
  <2>2. n + j \in 1..(n + k) /\ ~(n + j <= n) /\ (n + j) - n = j
    BY ONLY <1>6, <1>2, j \in 1..k
  <2>3. queue'[n + j] = new[j]
    BY <2>2, <1>9
  <2> QED BY <2>1, <2>2, <2>3, <1>9, <1>4 DEF Waiting
<1>14. ASSUME NEW i \in Waiting', NEW j \in Waiting', i \notin Waiting, j \notin Waiting, queue'[i] = queue'[j]
       PROVE  i = j
  <2>1. /\ i \in 1..(n + k) /\ j \in 1..(n + k) /\ i - n \in 1..k /\ j - n \in 1..k
        /\ queue'[i] = [by |-> s, of |-> order[i - n]] /\ queue'[j] = [by |-> s, of |-> order[j - n]]
    BY <1>11, <1>14
  <2>2. order[i - n] = order[j - n]
    BY ONLY <2>1, <1>14
  <2>3. i - n = j - n
    BY <2>1, <2>2, <1>3
  <2> QED BY ONLY <2>1, <2>3, <1>6, <1>2
<1> QED BY <1>9, <1>10, <1>12, <1>13, <1>14 DEF members

-----------------------------------------------------------------------------
(* The initial states, and the steps of the pool. *)

LEMMA MonitorInitially == ASSUME MonitorInit PROVE MonitorInv
<1>1. /\ Waiting = {} /\ Busy = {}
      /\ \A s \in Sweepers : listed[s] = None /\ due[s] = 0 /\ answer[s] = Nothing /\ rows[s] = Nothing
      /\ \A m \in VMs : vm[m] = "running" /\ Nothing[m] = None
  BY DEF MonitorInit, Waiting, Busy, Nothing
<1>2. MonitorTypeOK
  <2>1. <<>> \in Seq({None} \union Poll)
    BY EmptySeq
  <2>2. due \in [Sweepers -> 0..Timeout]
    BY MonitorAssumption DEF MonitorInit
  <2>3. answer \in [Sweepers -> [VMs -> Row \union {None}]] /\ rows \in [Sweepers -> [VMs -> Row \union {None}]]
    BY DEF MonitorInit, Nothing
  <2>4. /\ listed \in [Sweepers -> {None} \union SUBSET VMs]
        /\ worker \in [Workers -> {None} \union Poll]
    BY DEF MonitorInit
  <2>5. vm \in [VMs -> {"running", "suspended"}] /\ lease \in [VMs -> {"working", "over"}]
    BY DEF MonitorInit
  <2>6. following \in BOOLEAN /\ settled \in BOOLEAN
    BY DEF MonitorInit
  <2> QED BY <2>1, <2>2, <2>3, <2>4, <2>5, <2>6 DEF MonitorInit, MonitorTypeOK
<1>3. None # "over" /\ None # "unanswered"
  BY MonitorAssumption DEF Row
<1>4. AwayInv /\ AnswerInv /\ CoverInv
  BY <1>1, <1>3 DEF AwayInv, AnswerInv, CoverInv
<1>5. OpenInv /\ OnceInv /\ PaceInv
  BY <1>1 DEF OpenInv, OnceInv, PaceInv, Queued, InHand
<1>6. SettledIsTrue /\ GoodAreAnswered
  BY <1>1, <1>3 DEF MonitorInit, SettledIsTrue, GoodAreAnswered
<1> QED BY <1>2, <1>4, <1>5, <1>6 DEF MonitorInv

LEMMA SkipStep == ASSUME MonitorInv, NEW w \in Workers, Skip(w) PROVE MonitorInv'
<1> USE DEF MonitorInv
<1>1. /\ queue # <<>> /\ Head(queue) = None /\ queue' = Tail(queue)
      /\ UNCHANGED <<bad, vm, lease, away, listed, due, answer, rows, pinned, worker, following, settled>>
  BY DEF Skip, world, sweeps, follow
<1>2. /\ 1 \in DOMAIN queue /\ queue[1] = None
      /\ queue' \in Seq({None} \union Poll)
      /\ \A i \in Waiting' : i \in Nat /\ i >= 1 /\ i + 1 \in Waiting /\ queue'[i] = queue[i + 1]
      /\ \A i \in Waiting : i \in Nat /\ (i = 1 \/ (i - 1 \in Waiting' /\ queue'[i - 1] = queue[i]))
  BY <1>1, TailQueue
<1>3. 1 \notin Waiting /\ Busy' = Busy
  BY <1>1, <1>2 DEF Waiting, Busy
<1>4. \A s, m : (Queued(s, m)' <=> Queued(s, m)) /\ (InHand(s, m)' <=> InHand(s, m))
  <2>1. ASSUME NEW s, NEW m, Queued(s, m)' PROVE Queued(s, m)
    BY <2>1, <1>2 DEF Queued
  <2>2. ASSUME NEW s, NEW m, Queued(s, m) PROVE Queued(s, m)'
    BY <2>2, <1>2, <1>3 DEF Queued
  <2>3. ASSUME NEW s, NEW m PROVE InHand(s, m)' <=> InHand(s, m)
    BY <1>1, <1>3 DEF InHand
  <2> QED BY <2>1, <2>2, <2>3
<1>5. MonitorTypeOK'
  BY <1>1, <1>2 DEF MonitorTypeOK
<1>6. AwayInv' /\ AnswerInv' /\ SettledIsTrue'
  BY <1>1 DEF AwayInv, AnswerInv, SettledIsTrue
<1>7. OpenInv'
  <2>1. \A i \in Waiting' : queue'[i].by # None
    BY <1>2 DEF OpenInv
  <2>2. \A s \in Sweepers, m \in VMs : Queued(s, m)' \/ InHand(s, m)' =>
           listed'[s] # None /\ m \in listed'[s] /\ answer'[s][m] = None
    BY <1>1, <1>4 DEF OpenInv
  <2> QED BY <2>1, <2>2 DEF OpenInv
<1>8. OnceInv'
  <2>1. ASSUME NEW i \in Waiting', NEW j \in Waiting', queue'[i] = queue'[j] PROVE i = j
    <3>1. i + 1 = j + 1
      BY <2>1, <1>2 DEF OnceInv
    <3> QED BY ONLY <3>1, <1>2, i \in Waiting', j \in Waiting'
  <2>2. \A v, u \in Busy' : worker'[v].by # None /\ worker'[v] = worker'[u] => v = u
    BY <1>1, <1>3 DEF OnceInv
  <2>3. ASSUME NEW i \in Waiting', NEW v \in Busy' PROVE queue'[i] # worker'[v]
    <3>1. i + 1 \in Waiting /\ queue'[i] = queue[i + 1]
      BY <1>2
    <3> QED BY <3>1, <1>1, <1>3 DEF OnceInv
  <2> QED BY <2>1, <2>2, <2>3 DEF OnceInv
<1>9. CoverInv'
  BY <1>1, <1>4 DEF CoverInv
<1>10. PaceInv' /\ GoodAreAnswered'
  BY <1>1 DEF PaceInv, GoodAreAnswered
<1> QED BY <1>5, <1>6, <1>7, <1>8, <1>9, <1>10

LEMMA TakeStep == ASSUME MonitorInv, NEW w \in Workers, Take(w) PROVE MonitorInv'
<1> USE DEF MonitorInv
<1>1. /\ worker[w] = None /\ queue # <<>> /\ Head(queue) # None /\ queue' = Tail(queue)
      /\ UNCHANGED <<bad, vm, lease, away, listed, due, answer, rows, pinned, following, settled>>
  BY DEF Take, world, sweeps, follow
<1>2. /\ 1 \in DOMAIN queue /\ Head(queue) = queue[1]
      /\ queue' \in Seq({None} \union Poll)
      /\ \A i \in Waiting' : i \in Nat /\ i >= 1 /\ i + 1 \in Waiting /\ queue'[i] = queue[i + 1]
      /\ \A i \in Waiting : i \in Nat /\ (i = 1 \/ (i - 1 \in Waiting' /\ queue'[i - 1] = queue[i]))
  BY <1>1, TailQueue
<1>3. 1 \in Waiting
  BY <1>1, <1>2 DEF Waiting
<1> DEFINE p == queue[1]
<1>4. p \in Poll /\ p.by \in Sweepers /\ p.of \in VMs /\ p = [by |-> p.by, of |-> p.of]
  BY <1>3, Shapes, Owned, PollShape
<1>5. worker' = [worker EXCEPT ![w] = p]
  BY <1>2 DEF Take
<1>6. p # None
  BY <1>1, <1>2
<1>7. /\ worker'[w] = p
      /\ \A v \in Workers : v # w => worker'[v] = worker[v]
  BY <1>5 DEF MonitorTypeOK
<1> HIDE DEF p
<1>8. w \notin Busy /\ w \in Busy' /\ \A v \in Busy' : v = w \/ (v \in Busy /\ worker'[v] = worker[v])
  BY <1>1, <1>6, <1>7 DEF Busy
<1>9. \A v \in Busy : v \in Busy' /\ worker'[v] = worker[v]
  BY <1>7, <1>8 DEF Busy
<1>10. MonitorTypeOK'
  <2>1. worker' \in [Workers -> {None} \union Poll]
    BY <1>4, <1>5 DEF MonitorTypeOK
  <2> QED BY <2>1, <1>1, <1>2 DEF MonitorTypeOK
<1>11. AwayInv' /\ AnswerInv' /\ SettledIsTrue'
  BY <1>1 DEF AwayInv, AnswerInv, SettledIsTrue
<1>12. ASSUME NEW s, NEW m, Queued(s, m)' \/ InHand(s, m)' PROVE Queued(s, m) \/ InHand(s, m)
  <2>1. ASSUME Queued(s, m)' PROVE Queued(s, m)
    BY <2>1, <1>2 DEF Queued
  <2>2. ASSUME InHand(s, m)' PROVE Queued(s, m) \/ InHand(s, m)
    <3>1. PICK v \in Busy' : worker'[v] = [by |-> s, of |-> m]
      BY <2>2 DEF InHand
    <3>2. ASSUME v = w PROVE Queued(s, m)
      BY <3>1, <3>2, <1>3, <1>7 DEF Queued, p
    <3>3. ASSUME v # w PROVE InHand(s, m)
      BY <3>1, <3>3, <1>8 DEF InHand
    <3> QED BY <3>2, <3>3
  <2> QED BY <1>12, <2>1, <2>2
<1>13. ASSUME NEW s, NEW m, Queued(s, m) \/ InHand(s, m) PROVE Queued(s, m)' \/ InHand(s, m)'
  <2>1. ASSUME Queued(s, m) PROVE Queued(s, m)' \/ InHand(s, m)'
    <3>1. PICK i \in Waiting : queue[i] = [by |-> s, of |-> m]
      BY <2>1 DEF Queued
    <3>2. ASSUME i = 1 PROVE InHand(s, m)'
      BY <3>1, <3>2, <1>7, <1>8 DEF InHand, p
    <3>3. ASSUME i # 1 PROVE Queued(s, m)'
      BY <3>1, <3>3, <1>2 DEF Queued
    <3> QED BY <3>2, <3>3
  <2>2. ASSUME InHand(s, m) PROVE InHand(s, m)'
    BY <2>2, <1>9 DEF InHand
  <2> QED BY <1>13, <2>1, <2>2
<1>14. OpenInv'
  <2>1. \A i \in Waiting' : queue'[i].by # None
    BY <1>2 DEF OpenInv
  <2>2. \A s \in Sweepers, m \in VMs : Queued(s, m)' \/ InHand(s, m)' =>
           listed'[s] # None /\ m \in listed'[s] /\ answer'[s][m] = None
    BY <1>1, <1>12 DEF OpenInv
  <2> QED BY <2>1, <2>2 DEF OpenInv
<1>15. OnceInv'
  <2>1. ASSUME NEW i \in Waiting', NEW j \in Waiting', queue'[i] = queue'[j] PROVE i = j
    <3>1. i + 1 = j + 1
      BY <2>1, <1>2 DEF OnceInv
    <3> QED BY ONLY <3>1, <1>2, i \in Waiting', j \in Waiting'
  <2>2. ASSUME NEW v \in Busy', NEW u \in Busy', worker'[v].by # None, worker'[v] = worker'[u]
        PROVE  v = u
    <3>1. ASSUME NEW x \in Busy PROVE worker[x] # p
      BY <1>3 DEF OnceInv, p
    <3> QED BY <2>2, <3>1, <1>7, <1>8 DEF OnceInv
  <2>3. ASSUME NEW i \in Waiting', NEW v \in Busy' PROVE queue'[i] # worker'[v]
    <3>1. i + 1 \in Waiting /\ queue'[i] = queue[i + 1] /\ i + 1 # 1
      BY <1>2
    <3>2. queue[i + 1] # p
      BY <3>1, <1>3 DEF OnceInv, p
    <3> QED BY <3>1, <3>2, <1>7, <1>8 DEF OnceInv
  <2> QED BY <2>1, <2>2, <2>3 DEF OnceInv
<1>16. CoverInv'
  BY <1>1, <1>13 DEF CoverInv
<1>17. PaceInv' /\ GoodAreAnswered'
  BY <1>1 DEF PaceInv, GoodAreAnswered
<1> QED BY <1>10, <1>11, <1>14, <1>15, <1>16, <1>17

LEMMA PollEndsStep == ASSUME MonitorInv, NEW w \in Workers, PollEnds(w) PROVE MonitorInv'
<1> USE DEF MonitorInv
<1> DEFINE p == worker[w]
           says == IF Answering(p.of) THEN lease[p.of] ELSE "unanswered"
<1>1. /\ worker[w] # None /\ worker' = [worker EXCEPT ![w] = None]
      /\ answer' = IF p.by = None THEN answer ELSE [answer EXCEPT ![p.by][p.of] = says]
      /\ UNCHANGED <<bad, vm, lease, away, listed, due, rows, pinned, queue, following, settled>>
  BY DEF PollEnds, world, follow
<1>2. w \in Busy
  BY <1>1 DEF Busy
<1>3. p \in Poll /\ p.by \in Sweepers \union {None} /\ p.of \in VMs /\ p = [by |-> p.by, of |-> p.of]
  BY <1>2, Shapes, PollShape
<1>4. says \in Row /\ says # None /\ (says = "over" => lease[p.of] = "over")
      /\ (says = "unanswered" => p.of \in bad \union away)
  <2>1. lease[p.of] \in {"working", "over"} /\ (vm[p.of] # "running" => p.of \in away)
    BY <1>3 DEF MonitorTypeOK, AwayInv
  <2>2. says \in Row /\ (says = "over" => lease[p.of] = "over")
    BY <2>1 DEF Row
  <2>3. says = "unanswered" => p.of \in bad \union away
    BY <2>1 DEF Answering
  <2> QED BY <2>2, <2>3, MonitorAssumption
<1> HIDE DEF says
<1>5. p.by # None => listed[p.by] # None /\ p.of \in listed[p.by] /\ InHand(p.by, p.of)
  BY <1>2, <1>3, Owned DEF OpenInv
<1> HIDE DEF p
<1>6. /\ Busy' = Busy \ {w} /\ Waiting' = Waiting
      /\ \A v \in Busy' : worker'[v] = worker[v]
  BY <1>1, <1>2 DEF Busy, Waiting, MonitorTypeOK
<1>7. /\ \A s \in Sweepers, m \in VMs : answer'[s][m] = IF s = p.by /\ m = p.of THEN says ELSE answer[s][m]
      /\ \A s \in Sweepers : s # p.by => answer'[s] = answer[s]
      /\ answer' \in [Sweepers -> [VMs -> Row \union {None}]]
  <2>1. CASE p.by = None
    BY <2>1, <1>1, MonitorAssumption DEF MonitorTypeOK
  <2>2. CASE p.by # None
    <3>1. answer' = [answer EXCEPT ![p.by][p.of] = says] /\ p.by \in Sweepers
      BY <2>2, <1>1, <1>3
    <3> QED BY <3>1, <1>3, <1>4 DEF MonitorTypeOK
  <2> QED BY <2>1, <2>2
<1>8. MonitorTypeOK'
  <2>1. worker' \in [Workers -> {None} \union Poll]
    BY <1>1 DEF MonitorTypeOK
  <2> QED BY <2>1, <1>1, <1>7 DEF MonitorTypeOK
<1>9. AwayInv' /\ SettledIsTrue'
  BY <1>1 DEF AwayInv, SettledIsTrue
<1>10. AnswerInv'
  <2> SUFFICES ASSUME NEW s \in Sweepers
               PROVE  /\ listed'[s] = None => due'[s] = 0 /\ answer'[s] = Nothing'
                      /\ \A m \in VMs : /\ answer'[s][m] = "over" => lease'[m] = "over"
                                        /\ answer'[s][m] = "unanswered" => m \in bad' \union away'
    BY DEF AnswerInv
  <2>1. listed'[s] = None => due'[s] = 0 /\ answer'[s] = Nothing'
    BY <1>1, <1>5, <1>7, MonitorAssumption DEF AnswerInv, Nothing
  <2>2. \A m \in VMs : /\ answer'[s][m] = "over" => lease'[m] = "over"
                       /\ answer'[s][m] = "unanswered" => m \in bad' \union away'
    BY <1>1, <1>4, <1>7 DEF AnswerInv
  <2> QED BY <2>1, <2>2
<1>11. ASSUME NEW s, NEW m, Queued(s, m)' PROVE Queued(s, m) /\ ~(s = p.by /\ m = p.of)
  <2>1. PICK i \in Waiting : queue[i] = [by |-> s, of |-> m]
    BY <1>11, <1>1, <1>6 DEF Queued
  <2>2. queue[i] # p
    BY <1>2 DEF OnceInv, p
  <2> QED BY <2>1, <2>2, <1>3 DEF Queued
<1>12. ASSUME NEW s \in Sweepers, NEW m, InHand(s, m)' PROVE InHand(s, m) /\ ~(s = p.by /\ m = p.of)
  <2>1. PICK v \in Busy : v # w /\ worker[v] = [by |-> s, of |-> m]
    BY <1>12, <1>6 DEF InHand
  <2>2. worker[v].by = s /\ s # None
    BY <2>1, MonitorAssumption
  <2>3. worker[v] # p
    BY <2>1, <2>2, <1>2 DEF OnceInv, p
  <2> QED BY <2>1, <2>3, <1>3 DEF InHand
<1>13. OpenInv'
  <2>1. \A i \in Waiting' : queue'[i].by # None
    BY <1>1, <1>6 DEF OpenInv
  <2>2. ASSUME NEW s \in Sweepers, NEW m \in VMs, Queued(s, m)' \/ InHand(s, m)'
        PROVE  listed'[s] # None /\ m \in listed'[s] /\ answer'[s][m] = None
    <3>1. (Queued(s, m) \/ InHand(s, m)) /\ ~(s = p.by /\ m = p.of)
      BY <2>2, <1>11, <1>12
    <3>2. listed[s] # None /\ m \in listed[s] /\ answer[s][m] = None
      BY <3>1 DEF OpenInv
    <3> QED BY <3>1, <3>2, <1>1, <1>7
  <2> QED BY <2>1, <2>2 DEF OpenInv
<1>14. OnceInv'
  <2>1. \A i, j \in Waiting' : queue'[i] = queue'[j] => i = j
    BY <1>1, <1>6 DEF OnceInv
  <2>2. \A v, u \in Busy' : worker'[v].by # None /\ worker'[v] = worker'[u] => v = u
    BY <1>6 DEF OnceInv
  <2>3. \A i \in Waiting', v \in Busy' : queue'[i] # worker'[v]
    BY <1>1, <1>6 DEF OnceInv
  <2> QED BY <2>1, <2>2, <2>3 DEF OnceInv
<1>15. CoverInv'
  <2> SUFFICES ASSUME NEW s \in Sweepers, listed'[s] # None, NEW m \in listed'[s], answer'[s][m] = None
               PROVE  Queued(s, m)' \/ InHand(s, m)'
    BY DEF CoverInv
  <2>1. m \in VMs
    BY <1>1, MonitorAssumption DEF MonitorTypeOK
  <2>2. ~(s = p.by /\ m = p.of) /\ answer[s][m] = None
    BY <2>1, <1>4, <1>7
  <2>3. Queued(s, m) \/ InHand(s, m)
    BY <2>2, <1>1 DEF CoverInv
  <2>4. ASSUME Queued(s, m) PROVE Queued(s, m)'
    BY <2>4, <1>1, <1>6 DEF Queued
  <2>5. ASSUME InHand(s, m) PROVE InHand(s, m)'
    <3>1. PICK v \in Busy : worker[v] = [by |-> s, of |-> m]
      BY <2>5 DEF InHand
    <3>2. v # w
      BY <3>1, <2>2 DEF p
    <3> QED BY <3>1, <3>2, <1>6 DEF InHand
  <2> QED BY <2>3, <2>4, <2>5
<1>16. GoodAreAnswered'
  BY <1>1 DEF GoodAreAnswered
<1>17. PaceInv'
  <2> SUFFICES ASSUME NEW s \in Sweepers, listed[s] # None, s \notin pinned, due[s] < Timeout,
                      NEW m \in listed[s], m \notin bad \union away
               PROVE  answer'[s][m] # None
    BY <1>1 DEF PaceInv
  <2>1. m \in VMs /\ answer[s][m] # None
    BY DEF PaceInv, MonitorTypeOK
  <2> QED BY <2>1, <1>4, <1>7
<1> QED BY <1>8, <1>9, <1>10, <1>13, <1>14, <1>15, <1>16, <1>17

-----------------------------------------------------------------------------
(* A sweep begins, and returns. *)

LEMMA SweepStep == ASSUME MonitorInv, NEW s \in Sweepers, Sweep(s) PROVE MonitorInv'
<1> USE DEF MonitorInv
<1> DEFINE members == {m \in VMs : vm[m] = "running"}
<1>1. /\ listed[s] = None /\ listed' = [listed EXCEPT ![s] = members]
      /\ due' = [due EXCEPT ![s] = Timeout] /\ rows' = [rows EXCEPT ![s] = Nothing]
      /\ pinned' = pinned \ {s}
      /\ UNCHANGED <<bad, vm, lease, away, worker, answer, following, settled>>
  BY DEF Sweep, world, follow
<1>2. /\ queue' \in Seq({None} \union Poll)
      /\ \A i \in Waiting : i \in Waiting' /\ queue'[i] = queue[i]
      /\ \A i \in Waiting' : \/ i \in Waiting /\ queue'[i] = queue[i]
                             \/ \E m \in members : queue'[i] = [by |-> s, of |-> m]
      /\ \A m \in members : \E i \in Waiting' : queue'[i] = [by |-> s, of |-> m]
      /\ \A i, j \in Waiting' : i \notin Waiting /\ j \notin Waiting /\ queue'[i] = queue'[j] => i = j
  BY SweepQueue
<1>3. members \in SUBSET VMs /\ members # None
  BY MonitorAssumption
<1>4. \A m \in VMs : m \notin members => m \in away
  BY DEF AwayInv
<1> HIDE DEF members
<1>5. /\ listed'[s] = members /\ due'[s] = Timeout /\ rows'[s] = Nothing
      /\ \A t \in Sweepers : t # s => listed'[t] = listed[t] /\ due'[t] = due[t] /\ rows'[t] = rows[t]
  BY <1>1 DEF MonitorTypeOK
<1>6. \A m \in VMs : ~Queued(s, m) /\ ~InHand(s, m)
  BY <1>1 DEF OpenInv
<1>7. Busy' = Busy
  BY <1>1 DEF Busy
<1>8. \A i \in Waiting : queue[i].by # s /\ queue[i].by \in Sweepers
  BY <1>6, Owned
<1>9. \A w \in Busy : worker[w].by # s
  BY <1>6, Owned, MonitorAssumption
<1>10. MonitorTypeOK'
  <2>1. listed' \in [Sweepers -> {None} \union SUBSET VMs] /\ due' \in [Sweepers -> 0..Timeout]
    BY <1>1, <1>3, MonitorAssumption DEF MonitorTypeOK
  <2>2. rows' \in [Sweepers -> [VMs -> Row \union {None}]]
    BY <1>1 DEF MonitorTypeOK, Nothing
  <2> QED BY <2>1, <2>2, <1>1, <1>2 DEF MonitorTypeOK
<1>11. AwayInv'
  BY <1>1, <1>4, <1>5 DEF AwayInv
<1>12. AnswerInv'
  <2> SUFFICES ASSUME NEW t \in Sweepers
               PROVE  /\ listed'[t] = None => due'[t] = 0 /\ answer'[t] = Nothing'
                      /\ \A m \in VMs : /\ answer'[t][m] = "over" => lease'[m] = "over"
                                        /\ answer'[t][m] = "unanswered" => m \in bad' \union away'
    BY DEF AnswerInv
  <2>1. listed'[t] = None => due'[t] = 0 /\ answer'[t] = Nothing'
    BY <1>1, <1>3, <1>5 DEF AnswerInv, Nothing
  <2> QED BY <2>1, <1>1 DEF AnswerInv
<1>13. SettledIsTrue'
  BY <1>1 DEF SettledIsTrue
<1>14. ASSUME NEW t \in Sweepers, NEW m \in VMs, Queued(t, m)' PROVE Queued(t, m) \/ (t = s /\ m \in members)
  <2>1. PICK i \in Waiting' : queue'[i] = [by |-> t, of |-> m]
    BY <1>14 DEF Queued
  <2>2. CASE i \in Waiting /\ queue'[i] = queue[i]
    BY <2>1, <2>2 DEF Queued
  <2>3. CASE \E n \in members : queue'[i] = [by |-> s, of |-> n]
    <3>1. PICK n \in members : queue'[i] = [by |-> s, of |-> n]
      BY <2>3
    <3>2. t = s /\ m = n
      BY ONLY <2>1, <3>1
    <3> QED BY <3>2
  <2> QED BY <1>2, <2>2, <2>3
<1>15. \A t, m : (Queued(t, m) => Queued(t, m)') /\ (InHand(t, m)' <=> InHand(t, m))
  BY <1>1, <1>2, <1>7 DEF Queued, InHand
<1>16. answer[s] = Nothing
  BY <1>1 DEF AnswerInv
<1>17. OpenInv'
  <2>1. \A i \in Waiting' : queue'[i].by # None
    <3> SUFFICES ASSUME NEW i \in Waiting' PROVE queue'[i].by # None
      OBVIOUS
    <3>1. CASE i \in Waiting /\ queue'[i] = queue[i]
      BY <3>1 DEF OpenInv
    <3>2. CASE \E n \in members : queue'[i] = [by |-> s, of |-> n]
      BY <3>2, MonitorAssumption
    <3> QED BY <1>2, <3>1, <3>2
  <2>2. ASSUME NEW t \in Sweepers, NEW m \in VMs, Queued(t, m)' \/ InHand(t, m)'
        PROVE  listed'[t] # None /\ m \in listed'[t] /\ answer'[t][m] = None
    <3>1. CASE Queued(t, m) \/ InHand(t, m)
      <4>1. t # s /\ listed[t] # None /\ m \in listed[t] /\ answer[t][m] = None
        BY <3>1, <1>6 DEF OpenInv
      <4> QED BY <4>1, <1>1, <1>5
    <3>2. CASE t = s /\ m \in members
      BY <3>2, <1>1, <1>3, <1>5, <1>16 DEF Nothing
    <3> QED BY <2>2, <3>1, <3>2, <1>14, <1>15
  <2> QED BY <2>1, <2>2 DEF OpenInv
<1>18. OnceInv'
  <2>1. ASSUME NEW i \in Waiting', NEW j \in Waiting', queue'[i] = queue'[j] PROVE i = j
    <3>1. ASSUME NEW k \in Waiting', k \notin Waiting PROVE queue'[k].by = s
      <4>1. PICK n \in members : queue'[k] = [by |-> s, of |-> n]
        BY <3>1, <1>2
      <4> QED BY <4>1
    <3>2. CASE i \in Waiting /\ j \in Waiting
      BY <3>2, <2>1, <1>2 DEF OnceInv
    <3>3. ASSUME i \in Waiting, j \notin Waiting PROVE FALSE
      BY <3>1, <3>3, <2>1, <1>2, <1>8
    <3>4. ASSUME i \notin Waiting, j \in Waiting PROVE FALSE
      BY <3>1, <3>4, <2>1, <1>2, <1>8
    <3>5. CASE i \notin Waiting /\ j \notin Waiting
      BY <3>5, <2>1, <1>2
    <3> QED BY <3>2, <3>3, <3>4, <3>5
  <2>2. \A v, u \in Busy' : worker'[v].by # None /\ worker'[v] = worker'[u] => v = u
    BY <1>1, <1>7 DEF OnceInv
  <2>3. ASSUME NEW i \in Waiting', NEW v \in Busy' PROVE queue'[i] # worker'[v]
    <3>1. CASE i \in Waiting /\ queue'[i] = queue[i]
      BY <3>1, <1>1, <1>7 DEF OnceInv
    <3>2. CASE \E n \in members : queue'[i] = [by |-> s, of |-> n]
      <4>1. queue'[i].by = s
        BY <3>2
      <4> QED BY <4>1, <1>1, <1>7, <1>9
    <3> QED BY <1>2, <3>1, <3>2
  <2> QED BY <2>1, <2>2, <2>3 DEF OnceInv
<1>19. CoverInv'
  <2> SUFFICES ASSUME NEW t \in Sweepers, listed'[t] # None, NEW m \in listed'[t], answer'[t][m] = None
               PROVE  Queued(t, m)' \/ InHand(t, m)'
    BY DEF CoverInv
  <2>1. CASE t = s
    <3>1. \E i \in Waiting' : queue'[i] = [by |-> s, of |-> m]
      BY <2>1, <1>2, <1>5
    <3> QED BY <2>1, <3>1 DEF Queued
  <2>2. CASE t # s
    BY <2>2, <1>1, <1>5, <1>15 DEF CoverInv
  <2> QED BY <2>1, <2>2
<1>20. GoodAreAnswered'
  <2>1. \A m \in VMs : Nothing[m] # "unanswered"
    BY MonitorAssumption DEF Nothing, Row
  <2> QED BY <2>1, <1>1, <1>5 DEF GoodAreAnswered
<1>21. PaceInv'
  <2>1. \A t \in Sweepers : t # s => (t \in pinned' <=> t \in pinned)
    BY <1>1
  <2>2. ~(Timeout < Timeout)
    BY MonitorAssumption
  <2> QED BY <2>1, <2>2, <1>1, <1>5 DEF PaceInv
<1> QED BY <1>10, <1>11, <1>12, <1>13, <1>17, <1>18, <1>19, <1>20, <1>21

LEMMA CollectStep == ASSUME MonitorInv, NEW s \in Sweepers, Collect(s) PROVE MonitorInv'
<1> USE DEF MonitorInv
<1>1. /\ listed[s] # None /\ (due[s] = 0 \/ \A m \in listed[s] : answer[s][m] # None)
      /\ listed' = [listed EXCEPT ![s] = None] /\ due' = [due EXCEPT ![s] = 0]
      /\ answer' = [answer EXCEPT ![s] = Nothing] /\ rows' = [rows EXCEPT ![s] = RowsOf(s)]
      /\ queue' = [i \in DOMAIN queue |-> IF queue[i] # None /\ queue[i].by = s THEN None ELSE queue[i]]
      /\ worker' = [w \in Workers |-> IF worker[w] # None /\ worker[w].by = s
                                      THEN [worker[w] EXCEPT !.by = None] ELSE worker[w]]
      /\ settled' = (settled \/ (s = Job /\ Settles(RowsOf(s))))
      /\ following' = (following /\ ~settled')
      /\ UNCHANGED <<bad, vm, lease, away, pinned>>
  BY DEF Collect, Ready, world
<1>2. /\ listed'[s] = None /\ due'[s] = 0 /\ answer'[s] = Nothing /\ rows'[s] = RowsOf(s)
      /\ \A t \in Sweepers : t # s => /\ listed'[t] = listed[t] /\ due'[t] = due[t]
                                      /\ answer'[t] = answer[t] /\ rows'[t] = rows[t]
  BY <1>1 DEF MonitorTypeOK
<1>3. \A i : i \in Waiting' <=> i \in Waiting /\ queue[i].by # s
  BY <1>1 DEF Waiting
<1>4. \A i \in Waiting' : i \in Waiting /\ queue[i].by # s /\ queue'[i] = queue[i]
  BY <1>1, <1>3, Shapes
\* A thread works on, for the sweep it worked for or for nobody.
<1>5. ASSUME NEW w \in Busy
      PROVE  /\ worker'[w] \in Poll /\ worker'[w] # None
             /\ worker[w].by = s => worker'[w].by = None
             /\ worker[w].by # s => worker'[w] = worker[w]
  <2>1. w \in Workers /\ worker[w] # None /\ worker[w] \in Poll
    BY Shapes
  <2>2. CASE worker[w].by = s
    <3>1. worker'[w] = [worker[w] EXCEPT !.by = None]
      BY <1>1, <2>1, <2>2
    <3>2. worker'[w] = [by |-> None, of |-> worker[w].of] /\ worker'[w] \in Poll
      BY <3>1, <2>1 DEF Poll
    <3> QED BY <2>2, <3>2, MonitorAssumption
  <2>3. CASE worker[w].by # s
    BY <1>1, <2>1, <2>3
  <2> QED BY <2>2, <2>3
<1>6. Busy' = Busy
  <2>1. \A w \in Workers : w \notin Busy => worker'[w] = None
    BY <1>1 DEF Busy
  <2> QED BY <2>1, <1>5 DEF Busy
<1>7. ASSUME NEW w \in Busy, worker'[w].by # None
      PROVE  worker'[w] = worker[w] /\ worker[w].by # s
  BY <1>5, <1>7
<1>8. RowsOf(s) \in [VMs -> Row \union {None}] /\ RowsOf(s) = [m \in VMs |->
         IF m \notin listed[s] THEN None ELSE IF answer[s][m] = None THEN "unanswered" ELSE answer[s][m]]
  BY DEF RowsOf, MonitorTypeOK, Row
<1>9. MonitorTypeOK'
  <2>1. queue' \in Seq({None} \union Poll)
    <3>1. Len(queue) \in Nat /\ DOMAIN queue = 1..Len(queue) /\ \A i \in DOMAIN queue : queue[i] \in {None} \union Poll
      BY Shapes
    <3>2. queue' \in [1..Len(queue) -> {None} \union Poll]
      BY <3>1, <1>1
    <3> QED BY <3>1, <3>2
  <2>2. worker' \in [Workers -> {None} \union Poll]
    <3>1. \A w \in Workers : worker'[w] \in {None} \union Poll
      <4>1. \A w \in Workers : w \notin Busy => worker'[w] = None
        BY <1>1 DEF Busy
      <4> QED BY <4>1, <1>5
    <3> QED BY <3>1, <1>1
  <2>3. listed' \in [Sweepers -> {None} \union SUBSET VMs] /\ due' \in [Sweepers -> 0..Timeout]
    BY <1>1, MonitorAssumption DEF MonitorTypeOK
  <2>4. answer' \in [Sweepers -> [VMs -> Row \union {None}]] /\ rows' \in [Sweepers -> [VMs -> Row \union {None}]]
    BY <1>1, <1>8 DEF MonitorTypeOK, Nothing
  <2>5. following' \in BOOLEAN /\ settled' \in BOOLEAN
    BY <1>1 DEF Settles, MonitorTypeOK
  <2> QED BY <2>1, <2>2, <2>3, <2>4, <2>5, <1>1 DEF MonitorTypeOK
<1>10. AwayInv'
  BY <1>1, <1>2 DEF AwayInv
<1>11. None # "over" /\ None # "unanswered"
  BY MonitorAssumption DEF Row
<1>12. AnswerInv'
  <2> SUFFICES ASSUME NEW t \in Sweepers
               PROVE  /\ listed'[t] = None => due'[t] = 0 /\ answer'[t] = Nothing'
                      /\ \A m \in VMs : /\ answer'[t][m] = "over" => lease'[m] = "over"
                                        /\ answer'[t][m] = "unanswered" => m \in bad' \union away'
    BY DEF AnswerInv
  <2>1. Nothing' = Nothing /\ \A m \in VMs : Nothing[m] = None
    BY DEF Nothing
  <2> QED BY <2>1, <1>1, <1>2, <1>11 DEF AnswerInv
<1>13. SettledIsTrue'
  <2> SUFFICES ASSUME settled', NEW m \in VMs PROVE lease[m] = "over" \/ m \in away
    BY <1>1 DEF SettledIsTrue
  <2>1. CASE settled
    BY <2>1 DEF SettledIsTrue
  <2>2. CASE Settles(RowsOf(s))
    <3>1. RowsOf(s)[m] \in {None, "over"}
      BY <2>2 DEF Settles
    <3>2. m \notin listed[s] \/ answer[s][m] = "over"
      BY <3>1, <1>8, <1>11
    <3> QED BY <3>2, <1>1 DEF AwayInv, AnswerInv
  <2> QED BY <1>1, <2>1, <2>2
<1>14. ASSUME NEW t \in Sweepers, NEW m \in VMs
       PROVE  /\ Queued(t, m)' <=> t # s /\ Queued(t, m)
              /\ InHand(t, m)' <=> t # s /\ InHand(t, m)
  <2>1. t # None
    BY MonitorAssumption
  <2>2. ASSUME Queued(t, m)' PROVE t # s /\ Queued(t, m)
    BY <2>2, <1>4 DEF Queued
  <2>3. ASSUME t # s, Queued(t, m) PROVE Queued(t, m)'
    <3>1. PICK i \in Waiting : queue[i] = [by |-> t, of |-> m]
      BY <2>3 DEF Queued
    <3>2. i \in Waiting' /\ queue'[i] = queue[i]
      BY <3>1, <2>3, <1>3, <1>4
    <3> QED BY <3>1, <3>2 DEF Queued
  <2>4. ASSUME InHand(t, m)' PROVE t # s /\ InHand(t, m)
    <3>1. PICK w \in Busy : worker'[w] = [by |-> t, of |-> m]
      BY <2>4, <1>6 DEF InHand
    <3>2. worker'[w].by = t
      BY <3>1
    <3>3. worker'[w] = worker[w] /\ worker[w].by # s
      BY <3>2, <2>1, <1>7
    <3> QED BY <3>1, <3>2, <3>3 DEF InHand
  <2>5. ASSUME t # s, InHand(t, m) PROVE InHand(t, m)'
    <3>1. PICK w \in Busy : worker[w] = [by |-> t, of |-> m]
      BY <2>5 DEF InHand
    <3>2. worker[w].by = t
      BY <3>1
    <3>3. worker'[w] = worker[w]
      BY <3>2, <2>5, <1>5
    <3> QED BY <3>1, <3>3, <1>6 DEF InHand
  <2> QED BY <2>2, <2>3, <2>4, <2>5
<1>15. OpenInv'
  <2>1. \A i \in Waiting' : queue'[i].by # None
    BY <1>4 DEF OpenInv
  <2>2. \A t \in Sweepers, m \in VMs : Queued(t, m)' \/ InHand(t, m)' =>
           listed'[t] # None /\ m \in listed'[t] /\ answer'[t][m] = None
    BY <1>2, <1>14 DEF OpenInv
  <2> QED BY <2>1, <2>2 DEF OpenInv
<1>16. OnceInv'
  <2>1. \A i, j \in Waiting' : queue'[i] = queue'[j] => i = j
    BY <1>4 DEF OnceInv
  <2>2. ASSUME NEW v \in Busy', NEW u \in Busy', worker'[v].by # None, worker'[v] = worker'[u]
        PROVE  v = u
    <3>1. worker'[v] = worker[v] /\ worker'[u] = worker[u]
      BY <2>2, <1>6, <1>7
    <3> QED BY <2>2, <3>1, <1>6 DEF OnceInv
  <2>3. ASSUME NEW i \in Waiting', NEW v \in Busy' PROVE queue'[i] # worker'[v]
    <3>1. i \in Waiting /\ queue'[i] = queue[i] /\ queue[i].by # None
      BY <1>4 DEF OpenInv
    <3>2. CASE worker'[v].by = None
      BY <3>1, <3>2
    <3>3. CASE worker'[v].by # None
      BY <3>1, <3>3, <1>6, <1>7 DEF OnceInv
    <3> QED BY <3>2, <3>3
  <2> QED BY <2>1, <2>2, <2>3 DEF OnceInv
<1>17. CoverInv'
  <2> SUFFICES ASSUME NEW t \in Sweepers, listed'[t] # None, NEW m \in listed'[t], answer'[t][m] = None
               PROVE  Queued(t, m)' \/ InHand(t, m)'
    BY DEF CoverInv
  <2>1. t # s /\ listed[t] # None /\ m \in listed[t] /\ answer[t][m] = None
    BY <1>2
  <2>2. m \in VMs
    BY <2>1 DEF MonitorTypeOK
  <2> QED BY <2>1, <2>2, <1>14 DEF CoverInv
<1>18. GoodAreAnswered'
  <2> SUFFICES ASSUME NEW t \in Sweepers, NEW m \in VMs, rows'[t][m] = "unanswered", t \notin pinned
               PROVE  m \in bad \union away
    BY <1>1 DEF GoodAreAnswered
  <2>1. CASE t # s
    BY <2>1, <1>2 DEF GoodAreAnswered
  <2>2. CASE t = s
    <3>1. m \in listed[s] /\ answer[s][m] \in {None, "unanswered"}
      BY <2>2, <1>2, <1>8, <1>11
    <3>2. CASE answer[s][m] = "unanswered"
      BY <3>2 DEF AnswerInv
    <3>3. CASE answer[s][m] = None
      <4>1. due[s] = 0 /\ 0 < Timeout
        BY <3>1, <3>3, <1>1, MonitorAssumption
      <4>2. due[s] < Timeout
        BY ONLY <4>1
      <4> QED BY <2>2, <3>1, <3>3, <4>2, <1>1 DEF PaceInv
    <3> QED BY <3>1, <3>2, <3>3
  <2> QED BY <2>1, <2>2
<1>19. PaceInv'
  BY <1>1, <1>2 DEF PaceInv
<1> QED BY <1>9, <1>10, <1>12, <1>13, <1>15, <1>16, <1>17, <1>18, <1>19

-----------------------------------------------------------------------------
(* Time, the microVMs, and a job that stops following. *)

LEMMA TimeStep == ASSUME MonitorInv, TimePasses PROVE MonitorInv'
<1> USE DEF MonitorInv
<1>1. /\ ~Urgent
      /\ due' = [s \in Sweepers |-> IF due[s] > 0 THEN due[s] - 1 ELSE 0]
      /\ pinned' = IF Busy = Workers THEN pinned \union {s \in Sweepers : listed[s] # None} ELSE pinned
      /\ UNCHANGED <<bad, vm, lease, away, listed, answer, rows, queue, worker, following, settled>>
  BY DEF TimePasses, world, pool, follow
<1>2. Waiting' = Waiting /\ Busy' = Busy /\ Nothing' = Nothing
  BY <1>1 DEF Waiting, Busy, Nothing
<1>3. \A s, m : (Queued(s, m)' <=> Queued(s, m)) /\ (InHand(s, m)' <=> InHand(s, m))
  BY <1>1, <1>2 DEF Queued, InHand
<1>4. \A s \in Sweepers : due[s] \in 0..Timeout /\ due'[s] = IF due[s] > 0 THEN due[s] - 1 ELSE 0
  BY <1>1 DEF MonitorTypeOK
<1>5. pinned \subseteq pinned' /\ pinned' \in SUBSET Sweepers
  BY <1>1 DEF MonitorTypeOK
<1>6. MonitorTypeOK'
  <2>1. \A d \in 0..Timeout : (IF d > 0 THEN d - 1 ELSE 0) \in 0..Timeout
    BY MonitorAssumption
  <2>2. due' \in [Sweepers -> 0..Timeout]
    BY <2>1, <1>1, <1>4
  <2> QED BY <2>2, <1>1, <1>5 DEF MonitorTypeOK
<1>7. AwayInv' /\ SettledIsTrue' /\ GoodAreAnswered'
  BY <1>1, <1>5 DEF AwayInv, SettledIsTrue, GoodAreAnswered
<1>8. AnswerInv'
  BY <1>1, <1>2, <1>4 DEF AnswerInv
<1>9. OpenInv' /\ OnceInv' /\ CoverInv'
  BY <1>1, <1>2, <1>3 DEF OpenInv, OnceInv, CoverInv
\* A good member that has not answered waits in the queue, while every thread is
\* taken: one that a thread works on would answer before time passes.
<1>10. PaceInv'
  <2> SUFFICES ASSUME NEW s \in Sweepers, listed[s] # None, s \notin pinned',
                      NEW m \in listed[s], m \notin bad \union away, answer[s][m] = None
               PROVE  FALSE
    BY <1>1 DEF PaceInv
  <2>1. m \in VMs /\ Answering(m)
    BY DEF MonitorTypeOK, AwayInv, Answering
  <2>2. ~InHand(s, m)
    <3> SUFFICES ASSUME InHand(s, m) PROVE FALSE
      OBVIOUS
    <3>1. PICK w \in Busy : worker[w] = [by |-> s, of |-> m]
      BY DEF InHand
    <3>2. worker[w].of = m
      BY <3>1
    <3> QED BY <3>2, <2>1, <1>1 DEF Urgent
  <2>3. Queued(s, m)
    BY <2>2 DEF CoverInv
  <2>4. queue # <<>>
    BY <2>3 DEF Queued, Waiting
  <2>5. Busy = Workers
    BY <2>4, <1>1 DEF Urgent
  <2> QED BY <2>5, <1>1
<1> QED BY <1>6, <1>7, <1>8, <1>9, <1>10

\* What neither sweeps nor works: leases that end, microVMs that come and go, a job
\* that stops following.
LEMMA QuietStep ==
    ASSUME MonitorInv, StopFollowing \/ \E m \in VMs : LeaseEnds(m) \/ VMChanges(m)
    PROVE  MonitorInv'
<1> USE DEF MonitorInv
<1>1. /\ UNCHANGED <<bad, listed, due, answer, rows, pinned, queue, worker, settled>>
      /\ MonitorTypeOK' /\ away \subseteq away'
      /\ \A m \in VMs : /\ lease[m] = "over" => lease'[m] = "over"
                        /\ vm'[m] # "running" => m \in away'
  <2>1. CASE StopFollowing
    BY <2>1 DEF StopFollowing, world, sweeps, pool, MonitorTypeOK, AwayInv
  <2>2. ASSUME NEW m \in VMs, LeaseEnds(m)
        PROVE  /\ UNCHANGED <<bad, listed, due, answer, rows, pinned, queue, worker, settled>>
               /\ MonitorTypeOK' /\ away \subseteq away'
               /\ \A n \in VMs : /\ lease[n] = "over" => lease'[n] = "over"
                                 /\ vm'[n] # "running" => n \in away'
    BY <2>2 DEF LeaseEnds, sweeps, pool, follow, MonitorTypeOK, AwayInv
  <2>3. ASSUME NEW m \in VMs, VMChanges(m)
        PROVE  /\ UNCHANGED <<bad, listed, due, answer, rows, pinned, queue, worker, settled>>
               /\ MonitorTypeOK' /\ away \subseteq away'
               /\ \A n \in VMs : /\ lease[n] = "over" => lease'[n] = "over"
                                 /\ vm'[n] # "running" => n \in away'
    BY <2>3 DEF VMChanges, sweeps, pool, follow, MonitorTypeOK, AwayInv
  <2> QED BY <2>1, <2>2, <2>3
<1>2. Waiting' = Waiting /\ Busy' = Busy /\ Nothing' = Nothing
  BY <1>1 DEF Waiting, Busy, Nothing
<1>3. \A s, m : (Queued(s, m)' <=> Queued(s, m)) /\ (InHand(s, m)' <=> InHand(s, m))
  BY <1>1, <1>2 DEF Queued, InHand
<1>4. AwayInv' /\ AnswerInv'
  BY <1>1, <1>2 DEF AwayInv, AnswerInv
<1>5. OpenInv' /\ OnceInv' /\ CoverInv'
  BY <1>1, <1>2, <1>3 DEF OpenInv, OnceInv, CoverInv
<1>6. PaceInv'
  BY <1>1 DEF PaceInv
<1>7. SettledIsTrue' /\ GoodAreAnswered'
  BY <1>1, <1>2 DEF SettledIsTrue, GoodAreAnswered
<1> QED BY <1>1, <1>4, <1>5, <1>6, <1>7

-----------------------------------------------------------------------------
\* MonitorInv is inductive, for any members, of which any may be bad, any pool and
\* any timeout.
THEOREM MonitorInductive == MonitorSpec => []MonitorInv
<1>1. MonitorInit => MonitorInv
  BY MonitorInitially
<1>2. MonitorInv /\ [MonitorNext]_monitorVars => MonitorInv'
  <2> SUFFICES ASSUME MonitorInv, [MonitorNext]_monitorVars PROVE MonitorInv'
    OBVIOUS
  <2>1. CASE UNCHANGED monitorVars
    <3>1. UNCHANGED <<bad, vm, lease, away, listed, due, answer, rows, pinned, queue, worker, following, settled>>
      BY <2>1 DEF monitorVars, world, sweeps, pool, follow
    <3>2. Waiting' = Waiting /\ Busy' = Busy /\ Nothing' = Nothing
      BY <3>1 DEF Waiting, Busy, Nothing
    <3>3. \A s, m : (Queued(s, m)' <=> Queued(s, m)) /\ (InHand(s, m)' <=> InHand(s, m))
      BY <3>1, <3>2 DEF Queued, InHand
    <3>4. MonitorTypeOK' /\ AwayInv' /\ AnswerInv' /\ SettledIsTrue' /\ GoodAreAnswered'
      BY <3>1, <3>2 DEF MonitorInv, MonitorTypeOK, AwayInv, AnswerInv, SettledIsTrue, GoodAreAnswered
    <3>5. OpenInv' /\ OnceInv' /\ CoverInv' /\ PaceInv'
      BY <3>1, <3>2, <3>3 DEF MonitorInv, OpenInv, OnceInv, CoverInv, PaceInv
    <3> QED BY <3>4, <3>5 DEF MonitorInv
  <2>2. ASSUME NEW s \in Sweepers, Sweep(s) \/ Collect(s) PROVE MonitorInv'
    BY <2>2, SweepStep, CollectStep
  <2>3. ASSUME NEW w \in Workers, Skip(w) \/ Take(w) \/ PollEnds(w) PROVE MonitorInv'
    BY <2>3, SkipStep, TakeStep, PollEndsStep
  <2>4. CASE \/ StopFollowing
             \/ \E m \in VMs : LeaseEnds(m) \/ VMChanges(m)
    BY <2>4, QuietStep
  <2>5. CASE TimePasses
    BY <2>5, TimeStep
  <2> QED BY <2>1, <2>2, <2>3, <2>4, <2>5 DEF MonitorNext
<1> QED BY <1>1, <1>2, PTL DEF MonitorSpec

\* A job that says its fleet has settled is right, whatever the members do while it
\* sweeps: one that is silent is never taken for one that is gone (_follow_fleet).
THEOREM SettledIsTrueHolds == MonitorSpec => []SettledIsTrue
<1>1. MonitorInv => SettledIsTrue
  BY DEF MonitorInv
<1> QED BY <1>1, MonitorInductive, PTL

\* However many sweeps have timed out before, whatever waits or runs for a sweep is
\* an open future of one that is under way, and there is one of it (job_status).
THEOREM NoBacklogHolds == MonitorSpec => []NoBacklog
<1>1. MonitorInv => NoBacklog
  <2> SUFFICES ASSUME MonitorInv PROVE NoBacklog
    OBVIOUS
  <2> USE DEF MonitorInv
  <2>1. ASSUME NEW i \in Waiting
        PROVE  /\ queue[i].by # None /\ listed[queue[i].by] # None /\ queue[i].of \in listed[queue[i].by]
               /\ answer[queue[i].by][queue[i].of] = None
               /\ \A j \in Waiting : queue[i] = queue[j] => i = j
               /\ \A w \in Busy : worker[w] # queue[i]
    BY Owned DEF OpenInv, OnceInv
  <2>2. ASSUME NEW w \in Busy, worker[w].by # None
        PROVE  /\ listed[worker[w].by] # None /\ worker[w].of \in listed[worker[w].by]
               /\ answer[worker[w].by][worker[w].of] = None
               /\ \A v \in Busy : worker[v] = worker[w] => v = w
    BY <2>2, Owned DEF OpenInv, OnceInv
  <2> QED BY <2>1, <2>2 DEF NoBacklog
<1> QED BY <1>1, MonitorInductive, PTL

\* A member that answers and stays RUNNING is shown unanswered only by a sweep that saw
\* time pass with every thread taken, for any members, pool and timeout (job_status).
THEOREM GoodAreAnsweredHolds == MonitorSpec => []GoodAreAnswered
<1>1. MonitorInv => GoodAreAnswered
  BY DEF MonitorInv
<1> QED BY <1>1, MonitorInductive, PTL

=============================================================================
