--------------------------- MODULE DispatchProofs ---------------------------
(***************************************************************************)
(* Proofs about Dispatch, for any fleet, any placement of workers on it,   *)
(* any number of request bodies and of attempts per request.               *)
(***************************************************************************)
EXTENDS Dispatch, SequenceTheorems, TLAPS

\* A body is in the queue once.
Distinct == \A j, k \in 1..Len(work) : work[j] = work[k] => j = k

\* Only a worker that runs holds a body, and a worker that was not killed ends
\* because the queue is empty.
WorkerInv ==
    /\ \A w \in Workers : item[w] # 0 => Running(w)
    /\ gone # killed => work = <<>>

\* The caller joins the workers once all are started, and returns once all are
\* gone.
CallInv ==
    /\ main \in {"joining", "returned"} => started = Workers
    /\ main = "returned" => gone = started

IInv == OnePlace /\ Distinct /\ WorkerInv /\ CallInv

-----------------------------------------------------------------------------
(* The steps of Endpoint, whose actions the workers take. *)

\* A request goes no further than its attempts allow, whichever step it takes.
LEMMA RequestType ==
    ASSUME Requests!TypeOK, NEW w \in Workers,
           Requests!Request(w) \/ Requests!Leave(w) \/ Requests!AuthStep(w) \/ Requests!HttpStep(w)
    PROVE  Requests!TypeOK'
<1> USE AttemptsAssumption, VmOfAssumption
    DEF Requests!TypeOK, Requests!Goto, Requests!Labels, Requests!Tokens, Requests!Statuses,
        Requests!cache
<1>1. CASE Requests!Request(w) \/ Requests!Leave(w)
  BY <1>1 DEF Requests!Request, Requests!Leave
<1>2. CASE Requests!AuthStep(w)
  <2>1. CASE Requests!Check(w)
    BY <2>1 DEF Requests!Check
  <2>2. CASE Requests!Mint(w) \/ Requests!MintFails(w)
    BY <2>2 DEF Requests!Mint, Requests!MintFails
  <2>3. CASE Requests!Store(w) \/ Requests!Stamp(w)
    BY <2>3 DEF Requests!Store, Requests!Stamp
  <2>4. CASE Requests!Read(w)
    BY <2>4 DEF Requests!Read
  <2> QED BY <1>2, <2>1, <2>2, <2>3, <2>4 DEF Requests!AuthStep
<1>3. CASE Requests!HttpStep(w)
  BY <1>3 DEF Requests!HttpStep, Requests!Answered, Requests!SendFails, Requests!Busy,
      Requests!Forbidden, Requests!Return, Requests!WakeUp, Requests!NextAttempt
<1> QED BY <1>1, <1>2, <1>3

LEMMA WorldType == ASSUME Requests!TypeOK, Requests!World PROVE Requests!TypeOK'
<1> USE AttemptsAssumption
    DEF Requests!TypeOK, Requests!Labels, Requests!Tokens, Requests!Statuses, Requests!threads
<1> PICK c \in VMs : Requests!ComesDue(c) \/ Requests!Revoke(c)
  BY DEF Requests!World
<1>1. CASE Requests!ComesDue(c)
  BY <1>1 DEF Requests!ComesDue
<1>2. CASE Requests!Revoke(c)
  BY <1>2 DEF Requests!Revoke
<1> QED BY <1>1, <1>2

-----------------------------------------------------------------------------
(* The queue. *)

\* get_nowait: the body at the head is handed out, the others stay behind it.
LEMMA Taken ==
    ASSUME work \in Seq(Items), work # <<>>, Distinct
    PROVE  /\ Head(work) \in Items /\ Head(work) \in Queued
           /\ Tail(work) \in Seq(Items) /\ Len(Tail(work)) = Len(work) - 1
           /\ \A k \in 1..Len(Tail(work)) : Tail(work)[k] = work[k + 1]
           /\ \A i \in Items : (\E k \in 1..Len(Tail(work)) : Tail(work)[k] = i)
                               <=> i \in Queued /\ i # Head(work)
<1>1. /\ Head(work) \in Items /\ Tail(work) \in Seq(Items) /\ Len(Tail(work)) = Len(work) - 1
      /\ \A k \in 1..Len(Tail(work)) : Tail(work)[k] = work[k + 1]
  BY HeadTailProperties
<1>2. Len(work) \in Nat /\ Len(work) # 0 /\ Head(work) = work[1]
  BY EmptySeq, LenProperties
<1>3. Head(work) \in Queued
  BY <1>1, <1>2 DEF Queued
<1>4. ASSUME NEW i \in Items, NEW k \in 1..Len(Tail(work)), Tail(work)[k] = i
      PROVE  i \in Queued /\ i # Head(work)
  BY <1>1, <1>2, <1>4 DEF Queued, Distinct
<1>5. ASSUME NEW i \in Items, i \in Queued, i # Head(work)
      PROVE  \E k \in 1..Len(Tail(work)) : Tail(work)[k] = i
  <2> PICK k \in 1..Len(work) : work[k] = i
    BY <1>5 DEF Queued
  <2>1. k - 1 \in 1..Len(Tail(work)) /\ Tail(work)[k - 1] = work[(k - 1) + 1]
    BY <1>1, <1>2, <1>5
  <2> QED BY <2>1
<1> QED BY <1>1, <1>3, <1>4, <1>5

LEMMA EmptyQueue == ASSUME work = <<>> PROVE Queued = {}
BY DEF Queued

-----------------------------------------------------------------------------
LEMMA InitInv == Init => IInv
<1> SUFFICES ASSUME Init PROVE IInv
  OBVIOUS
<1> USE BodiesAssumption DEF Init, Items
<1>1. work \in Seq(Items) /\ Len(work) = Bodies /\ \A k \in 1..Len(work) : work[k] = k
  BY IsASeq
<1>2. Requests!TypeOK
  BY AttemptsAssumption DEF Requests!Init, Requests!TypeOK, Requests!Labels, Requests!Tokens,
      Requests!Statuses
<1>3. TypeOK
  BY <1>1, <1>2 DEF TypeOK
<1>4. OnePlace
  BY <1>1, <1>3 DEF OnePlace, InHand, Queued
<1>5. Distinct /\ WorkerInv /\ CallInv
  BY <1>1 DEF Distinct, WorkerInv, CallInv
<1> QED BY <1>4, <1>5 DEF IInv

\* Steps that move no body: they leave the queue, the hands and the results.
LEMMA BodiesKept ==
    ASSUME IInv, TypeOK', UNCHANGED <<work, item, results>>
    PROVE  OnePlace' /\ Distinct'
BY DEF IInv, OnePlace, Distinct, InHand, Queued

LEMMA CallerStep == ASSUME IInv, Caller PROVE IInv'
<1> USE DEF IInv, OnePlace, TypeOK, http, ends, call
<1>1. TypeOK' /\ UNCHANGED <<work, item, results, ends>> /\ started' = started
  BY DEF Caller, AllStarted, Join, BuildClient, BuildFails, Requests!TypeOK
<1>2. WorkerInv'
  BY <1>1 DEF WorkerInv, Running
<1>3. CallInv'
  BY <1>1 DEF Caller, AllStarted, Join, BuildClient, BuildFails, CallInv
<1> QED BY <1>1, <1>2, <1>3, BodiesKept

LEMMA TakeStep == ASSUME IInv, NEW w \in Workers, Take(w) PROVE IInv'
<1> USE DEF Take, call, ends
<1>1. TypeOK /\ work \in Seq(Items) /\ Distinct /\ Items \subseteq Nat \ {0}
  BY BodiesAssumption DEF IInv, OnePlace, TypeOK, Items
<1> DEFINE i == Head(work)
<1>2. i \in Items /\ i \in Queued /\ i # 0
  BY <1>1, Taken
<1> HIDE DEF i
<1>3. item' = [item EXCEPT ![w] = i] /\ UNCHANGED <<results, gone, killed, main, clients, started>>
  BY DEF i
<1>4. Queued' = Queued \ {i} /\ work' \in Seq(Items)
  <2>1. \A j \in Items : j \in Queued' <=> j \in Queued /\ j # i
    BY <1>1, Taken DEF Queued, i
  <2>2. work' \in Seq(Items)
    BY <1>1, Taken
  <2>3. Queued \subseteq Items /\ Queued' \subseteq Items
    BY DEF Queued, Items
  <2> QED BY <2>1, <2>2, <2>3
<1>5. Distinct'
  <2>1. \A k \in 1..Len(work') : work'[k] = work[k + 1] /\ k + 1 \in 1..Len(work)
    BY <1>1, Taken
  <2>2. Len(work') \in Nat
    BY <1>4
  <2> QED BY <1>1, <2>1, <2>2 DEF Distinct
<1>6. TypeOK'
  BY <1>1, <1>2, <1>3, <1>4, RequestType DEF TypeOK, Items
<1>7. InHand' = InHand \union {i}
  BY <1>1, <1>2, <1>3 DEF InHand, TypeOK
<1>8. OnePlace'
  <2>1. i \notin InHand /\ results[i] = "none"
    BY <1>2 DEF IInv, OnePlace
  <2>2. \A u \in Workers : item[u] # i
    BY <1>2, <2>1 DEF InHand
  <2>3. \A u, v \in Workers : item'[u] # 0 /\ item'[u] = item'[v] => u = v
    BY <1>1, <1>3, <2>2 DEF IInv, OnePlace, TypeOK
  <2>4. \A j \in Items : \/ j \in Queued' /\ j \notin InHand' /\ results'[j] = "none"
                         \/ j \notin Queued' /\ j \in InHand' /\ results'[j] = "none"
                         \/ j \notin Queued' /\ j \notin InHand' /\ results'[j] # "none"
    BY <1>3, <1>4, <1>7, <2>1 DEF IInv, OnePlace
  <2> QED BY <1>6, <2>3, <2>4 DEF OnePlace
<1>9. WorkerInv'
  BY <1>1, <1>3 DEF IInv, WorkerInv, Running, TypeOK
<1>10. CallInv'
  BY <1>3 DEF IInv, CallInv
<1> QED BY <1>5, <1>8, <1>9, <1>10 DEF IInv

LEMMA RecordStep == ASSUME IInv, NEW w \in Workers, Record(w) PROVE IInv'
<1> USE DEF Record, call, ends
<1>1. TypeOK /\ Items \subseteq Nat \ {0}
  BY BodiesAssumption DEF IInv, OnePlace, Items
<1> DEFINE i == item[w]
<1>2. i \in Items /\ i \in InHand /\ i \notin Queued
  BY <1>1 DEF IInv, OnePlace, TypeOK, InHand, Items
<1> HIDE DEF i
<1>3. /\ item' = [item EXCEPT ![w] = 0] /\ UNCHANGED <<work, main, clients, started>>
      /\ \E r \in {"response", "error"} : results' = [results EXCEPT ![i] = r]
      /\ \/ UNCHANGED <<gone, killed>>
         \/ gone' = gone \union {w} /\ killed' = killed \union {w}
      /\ w \in started \ gone /\ item[w] = i
  BY DEF Running, i
<1>4. TypeOK'
  <2>1. Requests!TypeOK'
    BY <1>1, RequestType DEF TypeOK
  <2> QED BY <1>1, <1>2, <1>3, <2>1, BodiesAssumption DEF TypeOK
<1>5. InHand' = InHand \ {i} /\ Queued' = Queued
  BY <1>1, <1>2, <1>3 DEF InHand, Queued, IInv, OnePlace, TypeOK
<1>6. OnePlace'
  <2>1. \A u, v \in Workers : item'[u] # 0 /\ item'[u] = item'[v] => u = v
    BY <1>1, <1>3 DEF IInv, OnePlace, TypeOK
  <2>2. \A j \in Items : results'[j] # "none" <=> results[j] # "none" \/ j = i
    BY <1>1, <1>2, <1>3 DEF TypeOK
  <2>3. \A j \in Items : \/ j \in Queued' /\ j \notin InHand' /\ results'[j] = "none"
                         \/ j \notin Queued' /\ j \in InHand' /\ results'[j] = "none"
                         \/ j \notin Queued' /\ j \notin InHand' /\ results'[j] # "none"
    BY <1>2, <1>5, <2>2 DEF IInv, OnePlace
  <2> QED BY <1>4, <2>1, <2>3 DEF OnePlace
<1>7. WorkerInv'
  BY <1>1, <1>3 DEF IInv, WorkerInv, Running, TypeOK
<1>8. CallInv'
  BY <1>1, <1>3 DEF IInv, CallInv, TypeOK
<1> QED BY <1>3, <1>6, <1>7, <1>8 DEF IInv, Distinct

LEMMA WorkerStep == ASSUME IInv, NEW w \in Workers, Worker(w) PROVE IInv'
<1> USE DEF IInv, OnePlace, http, call, ends
<1>1. CASE StartWorker(w)
  <2>1. TypeOK' /\ UNCHANGED <<work, item, results>>
    BY <1>1 DEF StartWorker, TypeOK, WorkersOf, Requests!TypeOK
  <2>2. WorkerInv' /\ CallInv'
    BY <1>1 DEF StartWorker, WorkerInv, CallInv, Running
  <2> QED BY <2>1, <2>2, BodiesKept
<1>2. CASE Drained(w)
  <2>1. TypeOK' /\ UNCHANGED <<work, item, results>>
    BY <1>2 DEF Drained, Running, TypeOK, Requests!TypeOK
  <2>2. WorkerInv' /\ CallInv'
    BY <1>2 DEF Drained, WorkerInv, CallInv, Running, TypeOK
  <2> QED BY <2>1, <2>2, BodiesKept
<1>3. CASE Send(w)
  <2>1. TypeOK' /\ UNCHANGED <<work, item, results>>
    BY <1>3, RequestType DEF Send, TypeOK, Requests!Step
  <2>2. WorkerInv' /\ CallInv'
    BY <1>3 DEF Send, WorkerInv, CallInv, Running
  <2> QED BY <2>1, <2>2, BodiesKept
<1> QED BY <1>1, <1>2, <1>3, TakeStep, RecordStep DEF Worker

\* IInv is inductive: every reachable state satisfies it.
THEOREM Inductive == Spec => []IInv
<1>1. IInv /\ [Next]_vars => IInv'
  <2> SUFFICES ASSUME IInv, [Next]_vars PROVE IInv'
    OBVIOUS
  <2> USE DEF IInv, OnePlace, http, call, ends
  <2>1. CASE World
    <3>1. TypeOK' /\ UNCHANGED <<work, item, results, call, ends>>
      BY <2>1, WorldType DEF World, TypeOK
    <3> QED BY <3>1, BodiesKept DEF WorkerInv, CallInv, Running
  <2>2. CASE UNCHANGED vars
    <3>1. TypeOK' /\ UNCHANGED <<work, item, results, call, ends>>
      BY <2>2 DEF vars, TypeOK, Requests!TypeOK
    <3> QED BY <3>1, BodiesKept DEF WorkerInv, CallInv, Running
  <2> QED BY <2>1, <2>2, CallerStep, WorkerStep DEF Next
<1> QED BY <1>1, InitInv, PTL DEF Spec

-----------------------------------------------------------------------------
\* Every body is queued, in one worker's hands or answered, whatever requests,
\* token races and callbacks do; and every variable keeps its type.
THEOREM OnePlaceHolds == Spec => []OnePlace
<1>1. IInv => OnePlace BY DEF IInv
<1> QED BY <1>1, Inductive, PTL

\* dispatch returns with every worker gone and every result there, unless the
\* caller's callback has killed them all.
THEOREM ReturnedCompleteHolds == Spec => []ReturnedComplete
<1>1. IInv => ReturnedComplete
  <2> SUFFICES ASSUME IInv, main = "returned" PROVE ReturnedComplete
    BY DEF ReturnedComplete
  <2>1. gone = Workers /\ \A w \in Workers : ~Running(w)
    BY DEF IInv, CallInv, Running
  <2>2. InHand = {}
    BY <2>1, BodiesAssumption DEF IInv, WorkerInv, InHand, Items
  <2>3. killed # Workers => Queued = {}
    BY <2>1, EmptyQueue DEF IInv, WorkerInv
  <2> QED BY <2>1, <2>2, <2>3 DEF ReturnedComplete, IInv, OnePlace
<1> QED BY <1>1, Inductive, PTL

=============================================================================
