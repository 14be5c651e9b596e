-------------------------- MODULE PlaygroundProofs --------------------------
(***************************************************************************)
(* Proofs about the playground's server: about PlaygroundStore, for any    *)
(* number of jobs, traced calls and processes and any size of the trace    *)
(* and of the saved list of jobs, and about PlaygroundRun, for any number  *)
(* of requests, launches and switches.                                     *)
(***************************************************************************)
EXTENDS PlaygroundStore, PlaygroundRun, SequenceTheorems, FiniteSetTheorems, TLAPS

-----------------------------------------------------------------------------
(* The store: jobs, their threads, the trace and state.json. *)

\* What holds of the jobs in memory.
GoodJobs(jobs) == \A j \in Jobs :
    /\ jobs[j].status = "done" => jobs[j].result
    /\ jobs[j].finished => jobs[j].status \in {"done", "failed"}

\* What holds of the jobs in a saved state: to_dict may read that a job runs and then
\* that it has ended.
SavedJobs(jobs) == \A j \in Jobs :
    /\ jobs[j].status = "done" => jobs[j].result
    /\ jobs[j].finished => jobs[j].status # "absent"

\* What holds of a trace: its numbers ascend, to at most n.
Ordered(entries, n) ==
    /\ \A a, b \in 1..Len(entries) : a < b => entries[a] < entries[b]
    /\ \A a \in 1..Len(entries) : entries[a] <= n

GoodTrace(entries, n) == Len(entries) <= MaxTrace /\ Ordered(entries, n)

GoodState(state) == SavedJobs(state.jobs) /\ GoodTrace(state.trace, state.seq)

\* A runner is where its job's fields say.
JobInv ==
    /\ GoodJobs(job)
    /\ up => \A j \in Jobs :
        /\ job[j].status = "running" => pc[j] \notin {"idle", "over"}
        /\ pc[j] = "result" => job[j].result
        /\ pc[j] = "failure" => job[j].status = "failed"
        /\ pc[j] = "finish" => job[j].status \in {"done", "failed"}

TraceInv == GoodTrace(trace, traceSeq)

\* A save copies the trace before it reads its number, and a job's status before its
\* result, which by then the job has if it is done; what it has read by the time it
\* opens its file is a good state.
DraftInv == \A t \in Threads :
    /\ pc[t] \in {"describe", "results", "ends"} => GoodTrace(draft[t].trace, traceSeq)
    /\ pc[t] \in {"describe", "results"} => \A j \in Jobs : ~draft[t].jobs[j].finished
    /\ pc[t] = "results" => \A j \in Jobs : draft[t].jobs[j].status = "done" => job[j].result
    /\ pc[t] = "ends" => SavedJobs(draft[t].jobs)
    /\ pc[t] \in {"open", "write", "rename"} => GoodState(draft[t])

FileInv == \A file \in {tmp, main} : file \in State => GoodState(file)

\* As long as no two saves overlap, each finds its own file as it left it.
AloneInv == ~overlapped =>
    /\ \A t, u \in Threads : Saving(t) /\ Saving(u) => t = u
    /\ \A t \in Threads :
        /\ pc[t] \notin {"write", "rename"} => fd[t] = "none"
        /\ pc[t] = "write" => fd[t] = "tmp" /\ tmp = Broken
        /\ pc[t] = "rename" => tmp = draft[t]
    /\ main = kept \/ (main = NoFile /\ kept = Blank)

IInv == TypeOK /\ JobInv /\ TraceInv /\ DraftInv /\ FileInv /\ AloneInv

-----------------------------------------------------------------------------
(* Constants, states and traces. *)

LEMMA ThreadSets ==
    /\ Jobs \subseteq Threads /\ Req \in Threads /\ Closing \in Threads
    /\ Req \notin Jobs /\ Closing \notin Jobs /\ Req # Closing
BY StoreAssumption DEF Jobs, Threads, Req, Closing

\* A state without jobs and without a trace is good.
LEMMA BlankState == Blank \in State /\ GoodState(Blank)
<1>1. <<>> \in Seq(1..MaxCalls) /\ Len(<<>>) = 0
  OBVIOUS
<1> QED
  BY <1>1, StoreAssumption 
     DEF Blank, State, Record, Statuses, Absent, GoodState, SavedJobs, GoodTrace, Ordered

\* A trace that is filled up to its length loses its oldest entry.
LEMMA Pushed ==
    ASSUME TypeOK, TraceInv, traceSeq < MaxCalls, NEW full, full = Append(trace, traceSeq + 1),
           NEW next, next = IF Len(full) > MaxTrace THEN Tail(full) ELSE full
    PROVE  next \in Seq(1..MaxCalls) /\ GoodTrace(next, traceSeq + 1)
<1> USE StoreAssumption
<1>1. /\ trace \in Seq(1..MaxCalls) /\ traceSeq \in 0..MaxCalls
      /\ Len(trace) \in Nat /\ Len(trace) <= MaxTrace
  BY LenProperties DEF TypeOK
<1>2. \A a \in 1..Len(trace) : trace[a] \in 1..MaxCalls
  BY <1>1, ElementOfSeq
<1>3. /\ full \in Seq(1..MaxCalls) /\ Len(full) = Len(trace) + 1
      /\ \A a \in 1..Len(trace) : full[a] = trace[a]
      /\ full[Len(trace) + 1] = traceSeq + 1
  BY <1>1, AppendProperties
<1>4. Ordered(full, traceSeq + 1)
  <2>1. ASSUME NEW a \in 1..Len(full)
        PROVE  full[a] \in Nat /\ full[a] <= traceSeq + 1
    BY <1>1, <1>2, <1>3, <2>1 DEF TraceInv, GoodTrace, Ordered
  <2>2. ASSUME NEW a \in 1..Len(full), NEW b \in 1..Len(full), a < b
        PROVE  full[a] < full[b]
    <3>1. a \in 1..Len(trace) /\ full[a] = trace[a] /\ trace[a] \in Nat /\ trace[a] <= traceSeq
      BY <1>1, <1>2, <1>3, <2>2 DEF TraceInv, GoodTrace, Ordered
    <3>2. CASE b = Len(trace) + 1
      BY <1>1, <1>3, <3>1, <3>2
    <3>3. CASE b # Len(trace) + 1
      <4>0. Len(trace) \in Nat /\ b \in 1..(Len(trace) + 1)
        BY <1>1, <1>3
      <4>1. b \in 1..Len(trace) /\ full[b] = trace[b]
        BY ONLY <1>3, <3>3, <4>0
      <4>2. trace[a] < trace[b]
        BY <2>2, <3>1, <4>1 DEF TraceInv, GoodTrace, Ordered
      <4> QED BY <3>1, <4>1, <4>2
    <3> QED BY <3>2, <3>3
  <2> QED BY <2>1, <2>2 DEF Ordered
<1>5. CASE Len(full) > MaxTrace
  <2>1. full # <<>>
    BY <1>1, <1>3, EmptySeq
  <2>2. /\ next = Tail(full) /\ next \in Seq(1..MaxCalls) /\ Len(next) = Len(full) - 1
        /\ \A a \in 1..Len(next) : next[a] = full[a + 1]
    BY <1>3, <1>5, <2>1, HeadTailProperties
  <2>3. Len(next) \in Nat /\ \A a \in 1..Len(next) : a + 1 \in 1..Len(full)
    BY <1>1, <1>3, <2>2
  <2>4. ASSUME NEW a \in 1..Len(next), NEW b \in 1..Len(next), a < b PROVE next[a] < next[b]
    <3>1. a + 1 \in 1..Len(full) /\ b + 1 \in 1..Len(full) /\ a + 1 < b + 1
      BY <2>3, <2>4
    <3> QED BY <1>4, <2>2, <3>1 DEF Ordered
  <2>5. Ordered(next, traceSeq + 1)
    BY <1>4, <2>2, <2>3, <2>4 DEF Ordered
  <2> QED BY <1>1, <1>3, <2>2, <2>5 DEF GoodTrace
<1>6. CASE ~(Len(full) > MaxTrace)
  BY <1>1, <1>3, <1>4, <1>6 DEF GoodTrace
<1> QED BY <1>5, <1>6

\* A number that is used leaves a trace that was in order in order.
LEMMA GoodTraceLater ==
    ASSUME NEW entries \in Seq(1..MaxCalls), NEW n \in Nat, GoodTrace(entries, n)
    PROVE  GoodTrace(entries, n + 1)
<1>1. \A a \in 1..Len(entries) : entries[a] \in Nat
  BY ElementOfSeq, StoreAssumption
<1> QED BY <1>1 DEF GoodTrace, Ordered

\* The assignments that are made to a job.
LEMMA RecordType ==
    ASSUME NEW jobs \in [Jobs -> Record], NEW j \in Jobs
    PROVE  /\ \A st \in Statuses : [jobs EXCEPT ![j].status = st] \in [Jobs -> Record]
           /\ [jobs EXCEPT ![j].result = TRUE] \in [Jobs -> Record]
           /\ [jobs EXCEPT ![j].error = "raised"] \in [Jobs -> Record]
           /\ [jobs EXCEPT ![j].finished = TRUE] \in [Jobs -> Record]
<1> DEFINE rec == jobs[j]
<1>1. /\ rec \in Record
      /\ \A st \in Statuses : [rec EXCEPT !.status = st] \in Record
      /\ [rec EXCEPT !.result = TRUE] \in Record
      /\ [rec EXCEPT !.error = "raised"] \in Record
      /\ [rec EXCEPT !.finished = TRUE] \in Record
  <2>1. rec \in Record
    OBVIOUS
  <2> HIDE DEF rec
  <2> QED BY <2>1 DEF Record
<1> QED BY <1>1

LEMMA InitInv == Init => IInv
<1> SUFFICES ASSUME Init PROVE IInv
  OBVIOUS
<1> USE StoreAssumption DEF Init, SaveSteps, RunSteps, Saving
<1>1. TypeOK
  <2>1. trace \in Seq(1..MaxCalls) /\ Len(trace) = 0
    OBVIOUS
  <2>2. job \in [Jobs -> Record]
    BY DEF Record, Absent, Statuses
  <2>3. pc \in [Threads -> RunSteps \union SaveSteps] /\ draft \in [Threads -> State]
        /\ fd \in [Threads -> {"none", "tmp", "main", "gone"}]
    BY BlankState
  <2>4. /\ traceSeq \in 0..MaxCalls /\ settings \in 0..MaxSettings /\ dryRun \in BOOLEAN
        /\ restarts \in 0..MaxRestarts
    OBVIOUS
  <2>5. \A file \in {tmp, main} : file = NoFile
    OBVIOUS
  <2>6. up \in BOOLEAN /\ overlapped \in BOOLEAN /\ kept \in State
    BY BlankState
  <2> HIDE DEF Init, SaveSteps, RunSteps
  <2> QED BY <2>1, <2>2, <2>3, <2>4, <2>5, <2>6 DEF TypeOK
<1>2. JobInv
  BY ThreadSets DEF JobInv, GoodJobs, Absent
<1>3. TraceInv
  BY DEF TraceInv, GoodTrace, Ordered
<1>4. DraftInv /\ AloneInv
  BY DEF DraftInv, AloneInv
<1>5. FileInv
  BY FilesAssumption DEF FileInv
<1> QED BY <1>1, <1>2, <1>3, <1>4, <1>5 DEF IInv

-----------------------------------------------------------------------------
(* Jobs and requests. *)

\* The runner's assignments.
LEMMA RunnerStep ==
    ASSUME IInv, NEW j \in Jobs, BodyReturns(j) \/ SetDone(j) \/ BodyRaises(j) \/ SetError(j)
    PROVE  IInv'
<1> USE ThreadSets DEF IInv, BodyReturns, SetDone, BodyRaises, SetError, Goto, saving, files, ghosts,
        config, SaveSteps, RunSteps, Saving
<1>1. TypeOK'
  <2>1. job' \in [Jobs -> Record]
    <3>1. job \in [Jobs -> Record] /\ {"done", "failed"} \subseteq Statuses
      BY DEF TypeOK, Statuses
    <3>2. CASE BodyReturns(j)
      BY ONLY <3>1, <3>2, j \in Jobs, RecordType DEF BodyReturns
    <3>3. CASE SetDone(j)
      BY ONLY <3>1, <3>3, j \in Jobs, RecordType DEF SetDone
    <3>4. CASE BodyRaises(j)
      BY ONLY <3>1, <3>4, j \in Jobs, RecordType DEF BodyRaises
    <3>5. CASE SetError(j)
      BY ONLY <3>1, <3>5, j \in Jobs, RecordType DEF SetError
    <3> HIDE DEF BodyReturns, SetDone, BodyRaises, SetError
    <3> QED BY <3>2, <3>3, <3>4, <3>5
  <2>2. pc' \in [Threads -> RunSteps \union SaveSteps]
    BY DEF TypeOK
  <2> QED BY <2>1, <2>2 DEF TypeOK
<1>2. JobInv'
  <2>1. CASE BodyReturns(j)
    BY <2>1 DEF TypeOK, Record, JobInv, GoodJobs
  <2>2. CASE SetDone(j)
    BY <2>2 DEF TypeOK, Record, JobInv, GoodJobs
  <2>3. CASE BodyRaises(j)
    BY <2>3 DEF TypeOK, Record, JobInv, GoodJobs
  <2>4. CASE SetError(j)
    BY <2>4 DEF TypeOK, Record, JobInv, GoodJobs
  <2> QED BY <2>1, <2>2, <2>3, <2>4
<1>3. TraceInv' /\ FileInv'
  BY DEF TraceInv, FileInv, GoodTrace, Ordered
<1>4. DraftInv'
  <2>1. \A i \in Jobs : job[i].result => job'[i].result
    BY DEF TypeOK, Record
  <2>2. \A t \in Threads : pc'[t] \in SaveSteps => pc'[t] = pc[t]
    BY DEF TypeOK
  <2> QED BY <2>1, <2>2 DEF DraftInv
<1>5. AloneInv'
  BY DEF TypeOK, AloneInv
<1> QED BY <1>1, <1>2, <1>3, <1>4, <1>5

\* The start of a save, by a thread that is not at one.
LEMMA BeginAlone ==
    ASSUME IInv, NEW t \in Threads, NoteOverlap(t), ~Saving(t),
           \A u \in Threads : pc'[u] \in SaveSteps => (u = t /\ pc'[u] = "collect") \/ pc'[u] = pc[u],
           UNCHANGED <<saving, files>>
    PROVE  AloneInv'
BY DEF IInv, TypeOK, AloneInv, NoteOverlap, Saving, saving, files, SaveSteps

LEMMA StartStep == ASSUME IInv, NEW j \in Jobs, StartJob(j) \/ Finish(j) PROVE IInv'
<1> USE ThreadSets DEF IInv, StartJob, Finish, BeginSave, Goto, saving, files, config, SaveSteps, RunSteps
<1>1. TypeOK'
  <2>1. job' \in [Jobs -> Record]
    <3>1. job \in [Jobs -> Record] /\ "running" \in Statuses
      BY DEF TypeOK, Statuses
    <3>2. CASE StartJob(j)
      BY ONLY <3>1, <3>2, j \in Jobs, RecordType DEF StartJob
    <3>3. CASE Finish(j)
      BY ONLY <3>1, <3>3, j \in Jobs, RecordType DEF Finish
    <3> HIDE DEF StartJob, Finish
    <3> QED BY <3>2, <3>3
  <2>2. pc' \in [Threads -> RunSteps \union SaveSteps]
    BY DEF TypeOK
  <2>3. overlapped' \in BOOLEAN /\ kept' \in State
    BY BlankState DEF TypeOK, NoteOverlap
  <2> QED BY <2>1, <2>2, <2>3 DEF TypeOK
<1>2. JobInv'
  <2>1. CASE StartJob(j)
    BY <2>1 DEF TypeOK, Record, JobInv, GoodJobs
  <2>2. CASE Finish(j)
    BY <2>2 DEF TypeOK, Record, JobInv, GoodJobs
  <2> QED BY <2>1, <2>2
<1>3. TraceInv' /\ FileInv'
  BY DEF TraceInv, FileInv, GoodTrace, Ordered
<1>4. DraftInv'
  <2>1. \A i \in Jobs : job[i].result => job'[i].result
    <3>1. CASE StartJob(j)
      BY <3>1 DEF TypeOK, Record
    <3>2. CASE Finish(j)
      BY <3>2 DEF TypeOK, Record
    <3> QED BY <3>1, <3>2
  <2>2. /\ \A t \in Threads : pc'[t] \in SaveSteps \ {"collect"} => pc'[t] = pc[t]
        /\ UNCHANGED <<draft, traceSeq>>
    BY DEF TypeOK
  <2> HIDE DEF StartJob, Finish
  <2> QED BY <2>1, <2>2 DEF DraftInv
<1>5. AloneInv'
  <2>1. CASE StartJob(j)
    BY <2>1, BeginAlone DEF TypeOK, Saving
  <2>2. CASE Finish(j)
    BY <2>2, BeginAlone DEF TypeOK, Saving
  <2> QED BY <2>1, <2>2
<1> QED BY <1>1, <1>2, <1>3, <1>4, <1>5

LEMMA RequestStep == ASSUME IInv, SetConfig \/ CloseServer PROVE IInv'
<1> USE ThreadSets, StoreAssumption
    DEF IInv, SetConfig, CloseServer, BeginSave, Goto, saving, files, memory, config, SaveSteps, RunSteps
<1>1. TypeOK'
  <2>1. pc' \in [Threads -> RunSteps \union SaveSteps]
    BY DEF TypeOK
  <2>2. overlapped' \in BOOLEAN /\ kept' \in State
    BY BlankState DEF TypeOK, NoteOverlap
  <2> QED BY <2>1, <2>2 DEF TypeOK
<1>2. JobInv'
  BY DEF TypeOK, JobInv, GoodJobs
<1>3. TraceInv' /\ FileInv'
  BY DEF TraceInv, FileInv, GoodTrace, Ordered
<1>4. DraftInv'
  <2>1. /\ \A t \in Threads : pc'[t] \in SaveSteps \ {"collect"} => pc'[t] = pc[t]
        /\ UNCHANGED <<job, draft, traceSeq>>
    BY DEF TypeOK
  <2> HIDE DEF SetConfig, CloseServer
  <2> QED BY <2>1 DEF DraftInv
<1>5. AloneInv'
  <2>1. CASE SetConfig
    BY <2>1, BeginAlone DEF TypeOK, Saving
  <2>2. CASE CloseServer
    BY <2>2, BeginAlone DEF TypeOK, Saving
  <2> QED BY <2>1, <2>2
<1> QED BY <1>1, <1>2, <1>3, <1>4, <1>5

LEMMA CredentialsStep == ASSUME IInv, UseCredentials PROVE IInv'
<1>1. /\ UNCHANGED <<up, job, trace, traceSeq, pc, draft, fd, tmp, main, restarts, overlapped, kept>>
      /\ settings' \in 0..MaxSettings /\ dryRun' \in BOOLEAN
  BY StoreAssumption DEF UseCredentials, saving, files, ghosts, IInv, TypeOK
<1>2. TypeOK'
  BY <1>1 DEF IInv, TypeOK
<1>3. JobInv' /\ TraceInv' /\ DraftInv' /\ FileInv' /\ AloneInv'
  BY <1>1 DEF IInv, JobInv, TraceInv, DraftInv, FileInv, AloneInv, Saving, GoodJobs
<1> QED BY <1>2, <1>3 DEF IInv

LEMMA TraceStep == ASSUME IInv, NEW j \in Jobs, PushTrace(j) PROVE IInv'
<1> USE ThreadSets, StoreAssumption
    DEF IInv, PushTrace, BeginSave, Goto, saving, files, ghosts, config, SaveSteps, RunSteps
<1>1. trace' \in Seq(1..MaxCalls) /\ GoodTrace(trace', traceSeq + 1)
  BY Pushed
<1>2. TypeOK'
  <2>1. pc' \in [Threads -> RunSteps \union SaveSteps]
    BY DEF TypeOK
  <2>2. overlapped' \in BOOLEAN /\ kept' \in State
    BY BlankState DEF TypeOK, NoteOverlap
  <2>3. traceSeq' \in 0..MaxCalls
    BY DEF TypeOK
  <2> QED BY <1>1, <2>1, <2>2, <2>3 DEF TypeOK
<1>3. JobInv'
  BY DEF TypeOK, JobInv, GoodJobs
<1>4. TraceInv' /\ FileInv'
  BY <1>1 DEF TraceInv, FileInv
<1>5. DraftInv'
  <2>1. ASSUME NEW t \in Threads, pc'[t] \in {"describe", "results", "ends"}
        PROVE  GoodTrace(draft[t].trace, traceSeq + 1)
    <3>1. pc'[t] = pc[t]
      BY <2>1 DEF TypeOK
    <3>2. draft[t].trace \in Seq(1..MaxCalls) /\ traceSeq \in Nat
      BY DEF TypeOK, State
    <3> QED BY <2>1, <3>1, <3>2, GoodTraceLater DEF DraftInv
  <2>2. \A t \in Threads : pc'[t] \in SaveSteps \ {"collect"} => pc'[t] = pc[t]
    BY DEF TypeOK
  <2>3. draft' = draft /\ job' = job /\ traceSeq' = traceSeq + 1
    OBVIOUS
  <2> HIDE DEF PushTrace
  <2> QED BY <2>1, <2>2, <2>3 DEF DraftInv
<1>6. AloneInv'
  <2>1. CASE BeginSave(j)
    BY <2>1, BeginAlone DEF TypeOK, Saving
  <2>2. CASE UNCHANGED <<pc, ghosts>>
    BY <2>2 DEF AloneInv, Saving
  <2> QED BY <2>1, <2>2
<1> QED BY <1>2, <1>3, <1>4, <1>5, <1>6

LEMMA ClearStep == ASSUME IInv, ClearTrace PROVE IInv'
<1> USE DEF IInv, ClearTrace, saving, files, ghosts, config
<1>1. TypeOK'
  <2>1. trace' \in Seq(1..MaxCalls) /\ Len(trace') <= MaxTrace
    BY StoreAssumption
  <2> QED BY <2>1 DEF TypeOK
<1>2. JobInv' /\ DraftInv' /\ FileInv' /\ AloneInv'
  BY DEF JobInv, DraftInv, FileInv, AloneInv, Saving, GoodJobs
<1>3. TraceInv'
  BY StoreAssumption DEF TraceInv, GoodTrace, Ordered
<1> QED BY <1>1, <1>2, <1>3

-----------------------------------------------------------------------------
(* A save, step by step. *)

\* The steps of a save that only read: the draft grows, and its thread goes on.
LEMMA DraftStep ==
    ASSUME IInv, NEW t \in Threads, pc[t] \in {"collect", "describe", "results", "ends"},
           NEW label \in {"describe", "results", "ends", "open"}, Goto(t, label),
           NEW state \in State, draft' = [draft EXCEPT ![t] = state],
           UNCHANGED <<up, memory, fd, files, restarts, ghosts>>,
           label \in {"describe", "results", "ends"} => GoodTrace(state.trace, traceSeq),
           label \in {"describe", "results"} => \A j \in Jobs : ~state.jobs[j].finished,
           label = "results" => \A j \in Jobs : state.jobs[j].status = "done" => job[j].result,
           label = "ends" => SavedJobs(state.jobs),
           label = "open" => GoodState(state)
    PROVE  IInv'
<1> USE ThreadSets DEF IInv, Goto, memory, config, files, ghosts, SaveSteps, RunSteps
<1>0. /\ draft'[t] = state /\ pc'[t] = label
      /\ \A u \in Threads \ {t} : draft'[u] = draft[u] /\ pc'[u] = pc[u]
  BY DEF TypeOK
<1>1. TypeOK'
  <2>1. pc' \in [Threads -> RunSteps \union SaveSteps]
    BY DEF TypeOK
  <2>2. draft' \in [Threads -> State]
    BY DEF TypeOK
  <2> QED BY <2>1, <2>2 DEF TypeOK
<1>2. JobInv'
  BY <1>0 DEF TypeOK, JobInv, GoodJobs
<1>3. TraceInv' /\ FileInv'
  BY DEF TraceInv, FileInv, GoodTrace, Ordered
<1>4. DraftInv'
  BY <1>0 DEF DraftInv
<1>5. AloneInv'
  BY <1>0 DEF AloneInv, Saving
<1> QED BY <1>1, <1>2, <1>3, <1>4, <1>5

LEMMA CollectStep == ASSUME IInv, NEW t \in Threads, Collect(t) PROVE IInv'
<1> DEFINE jobs == [j \in Jobs |-> IF j \in Newest THEN [Absent EXCEPT !.status = "running"] ELSE Absent]
           state == [Blank EXCEPT !.jobs = jobs, !.trace = trace]
<1>1. jobs \in [Jobs -> Record] /\ \A j \in Jobs : ~jobs[j].finished
  BY DEF Absent, Record, Statuses
<1>2. trace \in Seq(1..MaxCalls) /\ GoodTrace(trace, traceSeq)
  BY DEF IInv, TypeOK, TraceInv
<1>3. draft' = [draft EXCEPT ![t] = state]
  BY DEF Collect
<1> HIDE DEF jobs
<1>4. state \in State /\ state.jobs = jobs /\ state.trace = trace
  BY <1>1, <1>2, BlankState DEF State, Blank
<1> HIDE DEF state
<1>5. pc[t] = "collect" /\ Goto(t, "describe") /\ UNCHANGED <<up, memory, fd, files, restarts, ghosts>>
  BY DEF Collect
<1> QED BY <1>1, <1>2, <1>3, <1>4, <1>5, DraftStep

LEMMA DescribeStep == ASSUME IInv, NEW t \in Threads, Describe(t) PROVE IInv'
<1> DEFINE jobs == [j \in Jobs |-> IF j \in Listed(t) THEN [draft[t].jobs[j] EXCEPT !.status = job[j].status]
                                   ELSE draft[t].jobs[j]]
           state == [draft[t] EXCEPT !.jobs = jobs, !.settings = settings, !.dryRun = dryRun]
<1>1. /\ draft[t] \in State /\ draft[t].jobs \in [Jobs -> Record] /\ job \in [Jobs -> Record]
      /\ settings \in 0..MaxSettings /\ dryRun \in BOOLEAN
  BY DEF IInv, TypeOK, State
<1>2. pc[t] = "describe" /\ Goto(t, "results") /\ UNCHANGED <<up, memory, fd, files, restarts, ghosts>>
  BY DEF Describe
<1>3. /\ GoodTrace(draft[t].trace, traceSeq) /\ \A j \in Jobs : ~draft[t].jobs[j].finished
      /\ \A j \in Jobs : job[j].status = "done" => job[j].result
  BY <1>2 DEF IInv, DraftInv, JobInv, GoodJobs
<1>4. draft' = [draft EXCEPT ![t] = state]
  BY <1>1 DEF Describe, IInv, TypeOK
<1>5. /\ jobs \in [Jobs -> Record]
      /\ \A j \in Jobs : ~jobs[j].finished /\ (jobs[j].status = "done" => job[j].result)
  BY <1>1, <1>3 DEF Record, Listed
<1> HIDE DEF jobs
<1>6. state \in State /\ state.jobs = jobs /\ state.trace = draft[t].trace
  BY <1>1, <1>5 DEF State
<1> HIDE DEF state
<1> QED BY <1>2, <1>3, <1>4, <1>5, <1>6, DraftStep

LEMMA ResultsStep == ASSUME IInv, NEW t \in Threads, ReadResults(t) PROVE IInv'
<1> DEFINE jobs == [j \in Jobs |-> IF j \in Listed(t)
                                   THEN [draft[t].jobs[j] EXCEPT !.result = job[j].result, !.error = job[j].error]
                                   ELSE draft[t].jobs[j]]
           state == [draft[t] EXCEPT !.jobs = jobs]
<1>1. draft[t] \in State /\ draft[t].jobs \in [Jobs -> Record] /\ job \in [Jobs -> Record]
  BY DEF IInv, TypeOK, State
<1>2. pc[t] = "results" /\ Goto(t, "ends") /\ UNCHANGED <<up, memory, fd, files, restarts, ghosts>>
  BY DEF ReadResults
<1>3. /\ GoodTrace(draft[t].trace, traceSeq) /\ \A j \in Jobs : ~draft[t].jobs[j].finished
      /\ \A j \in Jobs : draft[t].jobs[j].status = "done" => job[j].result
  BY <1>2 DEF IInv, DraftInv
<1>4. draft' = [draft EXCEPT ![t] = state]
  BY <1>1 DEF ReadResults, IInv, TypeOK
<1>5. jobs \in [Jobs -> Record] /\ SavedJobs(jobs)
  BY <1>1, <1>3 DEF Record, Listed, SavedJobs
<1> HIDE DEF jobs
<1>6. state \in State /\ state.jobs = jobs /\ state.trace = draft[t].trace
  BY <1>1, <1>5 DEF State
<1> HIDE DEF state
<1> QED BY <1>2, <1>3, <1>4, <1>5, <1>6, DraftStep

LEMMA EndsStep == ASSUME IInv, NEW t \in Threads, ReadEnds(t) PROVE IInv'
<1> DEFINE jobs == [j \in Jobs |-> IF j \in Listed(t) THEN [draft[t].jobs[j] EXCEPT !.finished = job[j].finished]
                                   ELSE draft[t].jobs[j]]
           state == [draft[t] EXCEPT !.jobs = jobs, !.seq = traceSeq]
<1>1. /\ draft[t] \in State /\ draft[t].jobs \in [Jobs -> Record] /\ job \in [Jobs -> Record]
      /\ traceSeq \in 0..MaxCalls
  BY DEF IInv, TypeOK, State
<1>2. pc[t] = "ends" /\ Goto(t, "open") /\ UNCHANGED <<up, memory, fd, files, restarts, ghosts>>
  BY DEF ReadEnds
<1>3. GoodTrace(draft[t].trace, traceSeq) /\ SavedJobs(draft[t].jobs)
  BY <1>2 DEF IInv, DraftInv
<1>4. draft' = [draft EXCEPT ![t] = state]
  BY <1>1 DEF ReadEnds, IInv, TypeOK
<1>5. jobs \in [Jobs -> Record] /\ SavedJobs(jobs)
  BY <1>1, <1>3 DEF Record, Listed, SavedJobs
<1> HIDE DEF jobs
<1>6. state \in State /\ state.jobs = jobs /\ state.trace = draft[t].trace /\ state.seq = traceSeq
  BY <1>1, <1>5 DEF State
<1> HIDE DEF state
<1>7. GoodState(state)
  BY <1>3, <1>5, <1>6 DEF GoodState
<1> QED BY <1>2, <1>4, <1>6, <1>7, DraftStep

LEMMA OpenStep == ASSUME IInv, NEW t \in Threads, Open(t) PROVE IInv'
<1> USE ThreadSets DEF IInv, Open, Goto, memory, config, ghosts, SaveSteps, RunSteps
<1>1. TypeOK'
  <2>1. pc' \in [Threads -> RunSteps \union SaveSteps] /\ fd' \in [Threads -> {"none", "tmp", "main", "gone"}]
    BY DEF TypeOK
  <2> QED BY <2>1 DEF TypeOK
<1>2. JobInv'
  BY DEF TypeOK, JobInv, GoodJobs
<1>3. TraceInv' /\ FileInv'
  BY FilesAssumption DEF TraceInv, FileInv, GoodTrace, Ordered
<1>4. DraftInv'
  BY DEF TypeOK, DraftInv
<1>5. AloneInv'
  BY DEF TypeOK, AloneInv, Saving
<1> QED BY <1>1, <1>2, <1>3, <1>4, <1>5

LEMMA WriteStep == ASSUME IInv, NEW t \in Threads, Write(t) PROVE IInv'
<1> USE ThreadSets DEF IInv, Write, Goto, memory, config, saving, ghosts, SaveSteps, RunSteps
<1>0. /\ tmp' \in {tmp, draft[t], Broken} /\ main' \in {main, draft[t], Broken}
      /\ draft[t] \in State /\ GoodState(draft[t])
  BY DEF Written, TypeOK, DraftInv
<1>1. TypeOK'
  <2>1. pc' \in [Threads -> RunSteps \union SaveSteps]
    BY DEF TypeOK
  <2>2. \A file \in {tmp', main'} : file \in {NoFile, Broken} \/ file \in State
    BY <1>0 DEF TypeOK
  <2> HIDE DEF SaveSteps, RunSteps
  <2> QED BY <2>1, <2>2 DEF TypeOK
<1>2. JobInv'
  BY DEF TypeOK, JobInv, GoodJobs
<1>3. TraceInv' /\ FileInv'
  BY <1>0, FilesAssumption DEF TraceInv, FileInv, GoodTrace, Ordered
<1>4. DraftInv'
  BY DEF TypeOK, DraftInv
<1>5. AloneInv'
  <2>1. CASE overlapped
    BY <2>1 DEF AloneInv
  <2>2. CASE ~overlapped
    <3>1. /\ fd[t] = "tmp" /\ tmp = Broken /\ main' = main
          /\ \A u \in Threads \ {t} : fd[u] = "none" /\ ~Saving(u)
      BY <2>2 DEF AloneInv, Saving
    <3>2. tmp' = draft[t]
      BY <3>1 DEF Written
    <3>3. pc'[t] = "rename" /\ \A u \in Threads \ {t} : pc'[u] = pc[u]
      BY DEF TypeOK
    <3>4. UNCHANGED <<draft, fd, kept, overlapped>>
      OBVIOUS
    <3> HIDE DEF Write
    <3> QED BY <2>2, <3>1, <3>2, <3>3, <3>4 DEF AloneInv, Saving
  <2> QED BY <2>1, <2>2
<1> QED BY <1>1, <1>2, <1>3, <1>4, <1>5

\* A save that is over leaves its thread where it may go on.
LEMMA ReturnStep ==
    ASSUME IInv, NEW t \in Threads, Return(t), Saving(t), up, UNCHANGED memory
    PROVE  /\ pc' \in [Threads -> RunSteps \union SaveSteps] /\ draft' \in [Threads -> State]
           /\ up' \in BOOLEAN
           /\ \A u \in Threads \ {t} : pc'[u] = pc[u] /\ draft'[u] = draft[u]
           /\ ~Saving(t)'
           /\ JobInv' /\ TraceInv' /\ DraftInv'
<1> USE ThreadSets DEF IInv, Return, memory, config, SaveSteps, RunSteps, Saving
<1>1. /\ pc' \in [Threads -> RunSteps \union SaveSteps] /\ draft' \in [Threads -> State]
      /\ up' \in BOOLEAN
  BY BlankState DEF TypeOK
<1>2. (\A u \in Threads \ {t} : pc'[u] = pc[u] /\ draft'[u] = draft[u]) /\ ~Saving(t)'
  BY DEF TypeOK
<1>3. JobInv'
  BY DEF TypeOK, JobInv, GoodJobs
<1>4. TraceInv'
  BY DEF TraceInv
<1>5. DraftInv'
  BY <1>2 DEF TypeOK, DraftInv
<1> QED BY <1>1, <1>2, <1>3, <1>4, <1>5

LEMMA RenameStep == ASSUME IInv, NEW t \in Threads, Rename(t) PROVE IInv'
<1>0. /\ Return(t) /\ Saving(t) /\ up /\ UNCHANGED <<memory, restarts, overlapped>>
      /\ pc[t] = "rename"
  BY DEF Rename, Saving, SaveSteps
<1>1. /\ pc' \in [Threads -> RunSteps \union SaveSteps] /\ draft' \in [Threads -> State]
      /\ up' \in BOOLEAN
      /\ \A u \in Threads \ {t} : pc'[u] = pc[u] /\ draft'[u] = draft[u]
      /\ ~Saving(t)'
      /\ JobInv' /\ TraceInv' /\ DraftInv'
  BY <1>0, ReturnStep
<1>2. TypeOK'
  <2>1. fd' \in [Threads -> {"none", "tmp", "main", "gone"}]
    BY DEF IInv, TypeOK, Rename, Renamed
  <2>2. \A file \in {tmp', main'} : file \in {NoFile, Broken} \/ file \in State
    BY DEF IInv, TypeOK, Rename, files
  <2>3. kept' \in State
    BY BlankState DEF IInv, TypeOK, Rename
  <2> QED BY <1>0, <1>1, <2>1, <2>2, <2>3 DEF IInv, TypeOK, memory, config
<1>3. FileInv'
  BY FilesAssumption DEF IInv, FileInv, Rename, files
<1>4. AloneInv'
  <2>1. CASE overlapped
    BY <1>0, <2>1 DEF AloneInv
  <2>2. CASE ~overlapped
    <3>1. /\ tmp = draft[t] /\ tmp # NoFile
          /\ \A u \in Threads \ {t} : ~Saving(u) /\ fd[u] = "none"
      BY <1>0, <2>2, FilesAssumption DEF IInv, TypeOK, AloneInv, Saving, SaveSteps
    <3>2. /\ main' = draft[t] /\ kept' = draft[t]
          /\ \A u \in Threads : fd'[u] = "none"
      BY <2>2, <3>1 DEF Rename, Renamed
    <3>3. \A u \in Threads : ~Saving(u)'
      BY <1>1, <3>1 DEF Saving
    <3> QED BY <3>2, <3>3 DEF AloneInv, Saving, SaveSteps
  <2> QED BY <2>1, <2>2
<1> QED BY <1>1, <1>2, <1>3, <1>4 DEF IInv

LEMMA SaveFailsStep == ASSUME IInv, NEW t \in Threads, SaveFails(t) PROVE IInv'
<1>0. /\ Return(t) /\ Saving(t) /\ up /\ UNCHANGED <<memory, files, restarts, ghosts>>
      /\ fd' = [fd EXCEPT ![t] = "none"]
  BY DEF SaveFails, Saving, SaveSteps
<1>1. /\ pc' \in [Threads -> RunSteps \union SaveSteps] /\ draft' \in [Threads -> State]
      /\ up' \in BOOLEAN
      /\ \A u \in Threads \ {t} : pc'[u] = pc[u] /\ draft'[u] = draft[u]
      /\ ~Saving(t)'
      /\ JobInv' /\ TraceInv' /\ DraftInv'
  BY <1>0, ReturnStep
<1>2. TypeOK'
  <2>1. fd' \in [Threads -> {"none", "tmp", "main", "gone"}]
    BY <1>0 DEF IInv, TypeOK
  <2> QED BY <1>0, <1>1, <2>1 DEF IInv, TypeOK, memory, config, files, ghosts
<1>3. FileInv'
  BY <1>0 DEF IInv, FileInv, files
<1>4. AloneInv'
  BY <1>0, <1>1 DEF IInv, TypeOK, AloneInv, Saving, SaveSteps, files, ghosts
<1> QED BY <1>1, <1>2, <1>3, <1>4 DEF IInv

-----------------------------------------------------------------------------
(* A new process. *)

LEMMA LoadedState == ASSUME IInv PROVE Loaded \in State /\ GoodState(Loaded)
BY BlankState DEF IInv, TypeOK, FileInv, Loaded

LEMMA InterruptedJob ==
    ASSUME NEW r \in Record
    PROVE  /\ Interrupted(r) \in Record /\ Interrupted(r).status # "running"
           /\ (r.status = "done" => r.result)
                  => (Interrupted(r).status = "done" => Interrupted(r).result)
           /\ (r.finished => r.status # "absent")
                  => (Interrupted(r).finished => Interrupted(r).status \in {"done", "failed"})
BY DEF Record, Interrupted, Statuses

LEMMA RestartStep == ASSUME IInv, Restart PROVE IInv'
<1>1. /\ Loaded \in State /\ GoodState(Loaded)
      /\ Loaded.jobs \in [Jobs -> Record] /\ Loaded.trace \in Seq(1..MaxCalls)
      /\ Loaded.seq \in 0..MaxCalls /\ Loaded.settings \in 0..MaxSettings
  BY LoadedState DEF State
<1> USE ThreadSets, StoreAssumption DEF IInv, Restart, files, ghosts, SaveSteps, RunSteps
<1>2. TypeOK'
  <2>1. job' \in [Jobs -> Record]
    BY <1>1, InterruptedJob
  <2>2. trace' \in Seq(1..MaxCalls) /\ Len(trace') <= MaxTrace
    BY <1>1 DEF GoodState, GoodTrace
  <2>3. pc' \in [Threads -> RunSteps \union SaveSteps] /\ draft' \in [Threads -> State]
        /\ fd' \in [Threads -> {"none", "tmp", "main", "gone"}]
    BY BlankState
  <2>4. traceSeq' \in 0..MaxCalls /\ settings' \in 0..MaxSettings /\ dryRun' \in BOOLEAN
        /\ restarts' \in 0..MaxRestarts /\ up' \in BOOLEAN
    BY <1>1 DEF TypeOK
  <2>5. UNCHANGED <<tmp, main, overlapped, kept>>
    OBVIOUS
  <2> HIDE DEF Restart, SaveSteps, RunSteps
  <2> QED BY <2>1, <2>2, <2>3, <2>4, <2>5 DEF TypeOK
<1>3. JobInv'
  <2>1. \A j \in Jobs : job'[j] = Interrupted(Loaded.jobs[j]) /\ Loaded.jobs[j] \in Record /\ pc'[j] = "idle"
    BY <1>1
  <2> HIDE DEF Restart
  <2> QED BY <1>1, <2>1, InterruptedJob DEF JobInv, GoodJobs, SavedJobs, GoodState
<1>4. TraceInv'
  BY <1>1 DEF TraceInv, GoodState
<1>5. FileInv'
  BY DEF FileInv
<1>6. DraftInv' /\ AloneInv'
  BY DEF DraftInv, AloneInv, Saving
<1> QED BY <1>2, <1>3, <1>4, <1>5, <1>6

-----------------------------------------------------------------------------
\* The invariant survives every save, kill and restart.
THEOREM Inductive == Spec => []IInv
<1>1. ASSUME IInv, [Next]_vars PROVE IInv'
  <2>1. CASE UNCHANGED vars
    <3>1. TypeOK'
      BY <1>1, <2>1 DEF vars, memory, config, saving, files, ghosts, IInv, TypeOK
    <3>2. JobInv' /\ TraceInv' /\ DraftInv' /\ FileInv' /\ AloneInv'
      BY <1>1, <2>1
         DEF vars, memory, config, saving, files, ghosts, IInv, JobInv, TraceInv, DraftInv, FileInv, AloneInv,
             Saving, GoodJobs
    <3> QED BY <3>1, <3>2 DEF IInv
  <2>2. CASE Serve
    BY <1>1, <2>2, RunnerStep, StartStep, RequestStep, CredentialsStep, TraceStep, ClearStep DEF Serve
  <2>3. CASE Save
    BY <1>1, <2>3, CollectStep, DescribeStep, ResultsStep, EndsStep, OpenStep, WriteStep, RenameStep, SaveFailsStep DEF Save
  <2> QED BY <1>1, <2>1, <2>2, <2>3, RestartStep DEF Next
<1> QED BY InitInv, <1>1, PTL DEF Spec

\* No job is left running without a thread that will end it, after any number of
\* restarts.
THEOREM RunningHasRunnerHolds == Spec => []RunningHasRunner
<1>1. ASSUME IInv PROVE RunningHasRunner
  BY <1>1 DEF IInv, JobInv, GoodJobs, RunningHasRunner
<1> QED BY Inductive, <1>1, PTL

\* A job that is done has its result, in memory and in what a new process would
\* load, however the saves overlap.
THEOREM DoneHasResultHolds == Spec => []DoneHasResult
<1>1. ASSUME IInv PROVE DoneHasResult
  BY <1>1, LoadedState DEF IInv, JobInv, GoodJobs, SavedJobs, GoodState, DoneHasResult
<1> QED BY Inductive, <1>1, PTL

\* No number of the trace is given twice, over restarts too.
THEOREM TraceOrderedHolds == Spec => []TraceOrdered
<1>1. ASSUME IInv PROVE TraceOrdered
  <2>1. DOMAIN trace = 1..Len(trace)
    BY <1>1 DEF IInv, TypeOK
  <2> QED BY <1>1, <2>1 DEF IInv, TraceInv, GoodTrace, Ordered, TraceOrdered
<1> QED BY Inductive, <1>1, PTL

\* As long as no two saves overlap, a new process finds the jobs, the trace and the
\* PlaneConfig that the last save that renamed its file recorded, wherever the process
\* before it was killed.  (dry_run is recorded too, and is not found.)
THEOREM SavedStateSurvivesHolds == Spec => SavedStateSurvives
<1> DEFINE Found == (restarts' # restarts /\ ~overlapped) =>
                       /\ \A j \in Jobs : job'[j] = Interrupted(kept.jobs[j])
                       /\ trace' = kept.trace
                       /\ settings' = IF EnvSet THEN 0 ELSE kept.settings
<1>1. ASSUME IInv, [Next]_vars PROVE [Found]_vars
  <2>1. CASE Restart
    <3>1. CASE ~overlapped
      <4>1. Loaded = kept
        BY <1>1, <3>1, FilesAssumption DEF IInv, TypeOK, AloneInv, Loaded
      <4> QED BY <2>1, <4>1 DEF Restart
    <3> QED BY <3>1
  <2>2. CASE Serve
    <3>1. restarts' = restarts
      BY <2>2 DEF Serve, StartJob, PushTrace, BodyReturns, SetDone, BodyRaises, SetError, Finish,
                  SetConfig, UseCredentials, ClearTrace, CloseServer
    <3> QED BY <3>1
  <2>3. CASE Save
    <3>1. restarts' = restarts
      BY <2>3 DEF Save, Collect, Describe, ReadResults, ReadEnds, Open, Write, Rename, SaveFails
    <3> QED BY <3>1
  <2> QED BY <1>1, <2>1, <2>2, <2>3 DEF Next
<1> QED BY Inductive, <1>1, PTL DEF Spec, SavedStateSurvives

-----------------------------------------------------------------------------
(* What the steps of every handler have in common, and keep when some are past. *)

Mutating  == {"mutate", "launch", "launchAll", "cycle"}
Launching == {"launch", "launchAll"}
Deciding  == {"gate", "plan"}
NeedsKey  == {"account", "ask", "keep", "monitor", "store", "config"}
GivesKey  == {"manager", "api", "lookup", "key", "readConfig"}

\* Each step of what is after one of need; each x is followed by a y; each y but the
\* first step follows an x; the steps of one kind are before those of another.
Comes(s, what, need) == \A i \in DOMAIN s : s[i] \in what => \E j \in 1..(i - 1) : s[j] \in need
Leads(s, x, y)   == \A i \in DOMAIN s : s[i] = x => i < Len(s) /\ s[i + 1] = y
Follows(s, x, y) == \A i \in DOMAIN s : s[i] = y /\ i > 1 => s[i - 1] = x
Precede(s, before, after) ==
    \A i, j \in DOMAIN s : s[i] \in before /\ s[j] \in after => i < j

InOrder(s) ==
    /\ Leads(s, "account", "ask") /\ Leads(s, "ask", "keep")
    /\ Leads(s, "lookup", "build") /\ Leads(s, "build", "store")
    /\ Follows(s, "ask", "keep") /\ Follows(s, "build", "store")
    /\ Precede(s, Deciding, Launching) /\ Precede(s, NeedsKey, {"serve"})
    /\ Precede(s, {"build"}, {"manager"})
    /\ \A i \in DOMAIN s : s[i] = "terminateFirst" => i = Len(s)
    /\ \A i \in DOMAIN s : s[i] \in Ends => Len(s) = 1

\* The launches of s bring n to no more than limit: f is how many there are by then.
Cost(step) == IF step = "launch" THEN 1 ELSE IF step = "launchAll" THEN Launches ELSE 0
Affordable(s, n, limit) ==
    /\ n \in 0..limit
    /\ \E f \in [DOMAIN s -> 0..limit] : \A i \in DOMAIN s :
          (IF i = 1 THEN n ELSE f[i - 1]) + Cost(s[i]) <= f[i]

\* After n steps, what was launched last is terminated before anything else is launched.
Due(s, n) == \E k \in DOMAIN s : /\ k > n /\ s[k] = "terminateLast"
                                 /\ \A j \in (n + 1)..(k - 1) : s[j] \notin Launching

Probes(t) == "settle" \in Range(t.steps)
Limit(t)  == IF Probes(t) /\ t.most = 2 THEN Launches ELSE t.most

\* The launches of a probe, of which launched are behind it, and those of any other.
ProbeSteps(s, launched_) ==
    \A i \in DOMAIN s : s[i] \in Launching =>
        /\ s[i] = "launch"
        /\ Due(s, i) \/ (launched_ = 0 /\ \A j \in 1..(i - 1) : s[j] \notin Launching)
PlainSteps(s) == \A i \in DOMAIN s : s[i] \notin {"terminateFirst", "terminateLast"}

Sound(t) ==
    /\ t.steps \in Seq(Steps) /\ InOrder(t.steps)
    /\ Comes(t.steps, NeedsKey, GivesKey) /\ Comes(t.steps, Mutating, {"gate"})
    /\ t.most \in 0..Launches /\ Affordable(t.steps, 0, Limit(t))
    /\ IF Probes(t)
       THEN /\ ProbeSteps(t.steps, 0) /\ t.most \in {1, 2} /\ t.leaves \in {0, 1}
            /\ t.leaves = 0 => \E i \in DOMAIN t.steps : t.steps[i] = "terminateFirst"
       ELSE t.leaves = t.most /\ PlainSteps(t.steps)

-----------------------------------------------------------------------------
(* Every handler is sound. *)

\* The steps of a handler that launches once, or not at all.
Plainly(s) ==
    /\ s \in Seq(Steps) /\ InOrder(s)
    /\ Comes(s, NeedsKey, GivesKey) /\ Comes(s, Mutating, {"gate"})
    /\ PlainSteps(s) /\ \A i \in DOMAIN s : s[i] # "settle"
    /\ \A i, j \in DOMAIN s : s[i] \in Launching /\ s[j] \in Launching => i = j

Reads(s, e) == Len(s) = Len(e) /\ \A i \in 1..Len(e) : s[i] = e[i]

\* A sequence of steps is the one it reads like.
LEMMA SameSteps ==
    ASSUME NEW s \in Seq(Steps), NEW e \in Seq(Steps), Reads(s, e)
    PROVE  s = e
BY SeqEqual DEF Reads

\* A handler that launches once, and may, is sound.
LEMMA PlainIsSound ==
    ASSUME NEW s, Plainly(s), NEW most \in 0..Launches, \A i \in DOMAIN s : Cost(s[i]) <= most
    PROVE  Sound(Task(s, most, most))
<1> DEFINE t == Task(s, most, most)
<1>1. t.steps = s /\ t.most = most /\ t.leaves = most
  BY DEF Task
<1>2. ~Probes(t)
  BY <1>1 DEF Probes, Range, Plainly
<1>3. Limit(t) = most
  BY <1>1, <1>2 DEF Limit
<1>4. Affordable(s, 0, most)
  <2> DEFINE f == [i \in DOMAIN s |-> IF \E j \in 1..i : s[j] \in Launching THEN most ELSE 0]
  <2>1. DOMAIN s = 1..Len(s) /\ Len(s) \in Nat
    BY DEF Plainly
  <2>2. f \in [DOMAIN s -> 0..most]
    BY RunAssumption
  <2>3. ASSUME NEW i \in DOMAIN s
        PROVE  (IF i = 1 THEN 0 ELSE f[i - 1]) + Cost(s[i]) <= f[i]
    <3>1. CASE s[i] \in Launching
      <4>1. i = 1 \/ f[i - 1] = 0
        BY <2>1, <3>1 DEF Plainly
      <4>2. f[i] = most
        BY <2>1, <3>1
      <4> QED BY <4>1, <4>2, RunAssumption DEF Cost
    <3>2. CASE s[i] \notin Launching
      <4>1. Cost(s[i]) = 0
        BY <3>2 DEF Cost, Launching
      <4>2. i = 1 \/ f[i - 1] = 0 \/ f[i] = most
        BY <2>1
      <4> QED BY <2>1, <2>2, <4>1, <4>2, RunAssumption
    <3> QED BY <3>1, <3>2
  <2> HIDE DEF f
  <2>4. \E g \in [DOMAIN s -> 0..most] : \A i \in DOMAIN s :
            (IF i = 1 THEN 0 ELSE g[i - 1]) + Cost(s[i]) <= g[i]
    BY <2>2, <2>3
  <2>5. 0 \in 0..most
    BY RunAssumption
  <2> QED BY <2>4, <2>5 DEF Affordable
<1> HIDE DEF t
<1>5. Affordable(t.steps, 0, Limit(t))
  BY <1>1, <1>3, <1>4
<1>6. InOrder(t.steps) /\ Comes(t.steps, NeedsKey, GivesKey) /\ Comes(t.steps, Mutating, {"gate"})
  BY <1>1 DEF Plainly
<1>7. t.steps \in Seq(Steps) /\ t.most \in 0..Launches
  BY <1>1 DEF Plainly
<1>8. t.leaves = t.most /\ PlainSteps(t.steps)
  BY <1>1 DEF Plainly
<1>9. Sound(t)
  BY <1>2, <1>5, <1>6, <1>7, <1>8 DEF Sound
<1> QED BY <1>9 DEF t

\* Bootstrapping: it reads the configuration once more before it writes it.
LEMMA BootstrapIsSound == \A t \in PostBootstrap : Sound(t)
<1> DEFINE e == <<"gate", "api", "mutate", "readConfig", "config">>
<1>1. Plainly(e) /\ \A i \in DOMAIN e : Cost(e[i]) = 0
  BY DEF Plainly, Steps, InOrder, Leads, Follows, Precede, Comes, PlainSteps, Ends, Deciding,
         Launching, NeedsKey, GivesKey, Mutating, Cost
<1> HIDE DEF e
<1>2. Sound(Task(e, 0, 0))
  BY <1>1, PlainIsSound, RunAssumption
<1> QED BY <1>2 DEF PostBootstrap, e

\* Building an image.
LEMMA BuildIsSound == \A t \in PostBuild : Sound(t)
<1> DEFINE e == <<"api", "gate", "mutate">>
<1>1. Plainly(e) /\ \A i \in DOMAIN e : Cost(e[i]) = 0
  BY DEF Plainly, Steps, InOrder, Leads, Follows, Precede, Comes, PlainSteps, Ends, Deciding,
         Launching, NeedsKey, GivesKey, Mutating, Cost
<1> HIDE DEF e
<1>2. Sound(Task(e, 0, 0))
  BY <1>1, PlainIsSound, RunAssumption
<1> QED BY <1>2 DEF PostBuild, e

\* Minting a token.
LEMMA TokenIsSound == \A t \in PostToken : Sound(t)
<1> DEFINE e == <<"gate", "api", "mutate">>
<1>1. Plainly(e) /\ \A i \in DOMAIN e : Cost(e[i]) = 0
  BY DEF Plainly, Steps, InOrder, Leads, Follows, Precede, Comes, PlainSteps, Ends, Deciding,
         Launching, NeedsKey, GivesKey, Mutating, Cost
<1> HIDE DEF e
<1>2. Sound(Task(e, 0, 0))
  BY <1>1, PlainIsSound, RunAssumption
<1> QED BY <1>2 DEF PostToken, e

\* Listing images.
LEMMA ImagesAreSound == \A t \in GetImages : Sound(t)
<1> DEFINE e == <<"api", "read">>
<1>1. Plainly(e) /\ \A i \in DOMAIN e : Cost(e[i]) = 0
  BY DEF Plainly, Steps, InOrder, Leads, Follows, Precede, Comes, PlainSteps, Ends, Deciding,
         Launching, NeedsKey, GivesKey, Mutating, Cost
<1> HIDE DEF e
<1>2. Sound(Task(e, 0, 0))
  BY <1>1, PlainIsSound, RunAssumption
<1> QED BY <1>2 DEF GetImages, e

\* A request to a microVM that is given.
LEMMA CallIsSound == \A t \in PostCall : Sound(t)
<1> DEFINE s == <<"gate">> \o Endpoint \o <<"mutate">>
           e == <<"gate", "lookup", "build", "store", "mutate">>
<1>1. s \in Seq(Steps)
  BY DEF Endpoint, Steps
<1>2. Reads(s, e)
  BY DEF Endpoint, Reads
<1>3. Plainly(e) /\ \A i \in DOMAIN e : Cost(e[i]) = 0
  BY DEF Plainly, Steps, InOrder, Leads, Follows, Precede, Comes, PlainSteps, Ends, Deciding,
         Launching, NeedsKey, GivesKey, Mutating, Cost
<1>4. s = e
  BY <1>1, <1>2, <1>3, SameSteps DEF Plainly
<1> HIDE DEF s, e
<1>5. Sound(Task(s, 0, 0))
  BY <1>3, <1>4, PlainIsSound, RunAssumption
<1> QED BY <1>5 DEF PostCall, s

\* Reading a microVM's job.
LEMMA VmJobIsSound == \A t \in GetVmJob : Sound(t)
<1> DEFINE s == Endpoint \o <<"read">>
           e == <<"lookup", "build", "store", "read">>
<1>1. s \in Seq(Steps)
  BY DEF Endpoint, Steps
<1>2. Reads(s, e)
  BY DEF Endpoint, Reads
<1>3. Plainly(e) /\ \A i \in DOMAIN e : Cost(e[i]) = 0
  BY DEF Plainly, Steps, InOrder, Leads, Follows, Precede, Comes, PlainSteps, Ends, Deciding,
         Launching, NeedsKey, GivesKey, Mutating, Cost
<1>4. s = e
  BY <1>1, <1>2, <1>3, SameSteps DEF Plainly
<1> HIDE DEF s, e
<1>5. Sound(Task(s, 0, 0))
  BY <1>3, <1>4, PlainIsSound, RunAssumption
<1> QED BY <1>5 DEF GetVmJob, s

\* The page's table of jobs.
LEMMA FleetJobsAreSound == \A t \in GetFleetJobs : Sound(t)
<1> DEFINE s == Monitoring \o Account \o <<"read">>
           e == <<"key", "monitor", "account", "ask", "keep", "read">>
<1>1. s \in Seq(Steps)
  BY DEF Monitoring, Account, Steps
<1>2. Reads(s, e)
  BY DEF Monitoring, Account, Reads
<1>3. Plainly(e) /\ \A i \in DOMAIN e : Cost(e[i]) = 0
  BY DEF Plainly, Steps, InOrder, Leads, Follows, Precede, Comes, PlainSteps, Ends, Deciding,
         Launching, NeedsKey, GivesKey, Mutating, Cost
<1>4. s = e
  BY <1>1, <1>2, <1>3, SameSteps DEF Plainly
<1> HIDE DEF s, e
<1>5. Sound(Task(s, 0, 0))
  BY <1>3, <1>4, PlainIsSound, RunAssumption
<1> QED BY <1>5 DEF GetFleetJobs, s

\* Listing microVMs.
LEMMA VmsAreSound == \A t \in GetVms : Sound(t)
<1> DEFINE s == <<"manager">> \o Account \o <<"read">>
           e == <<"manager", "account", "ask", "keep", "read">>
<1>1. s \in Seq(Steps)
  BY DEF Account, Steps
<1>2. Reads(s, e)
  BY DEF Account, Reads
<1>3. Plainly(e) /\ \A i \in DOMAIN e : Cost(e[i]) = 0
  BY DEF Plainly, Steps, InOrder, Leads, Follows, Precede, Comes, PlainSteps, Ends, Deciding,
         Launching, NeedsKey, GivesKey, Mutating, Cost
<1>4. s = e
  BY <1>1, <1>2, <1>3, SameSteps DEF Plainly
<1> HIDE DEF s, e
<1>5. Sound(Task(s, 0, 0))
  BY <1>3, <1>4, PlainIsSound, RunAssumption
<1> QED BY <1>5 DEF GetVms, s

\* Scaling.
LEMMA ScaleIsSound == \A t \in PostScale : Sound(t)
<1> DEFINE s == Planned \o <<"mutate", "read">>
           e == <<"manager", "account", "ask", "keep", "read", "gate", "mutate",
                  "read">>
<1>1. s \in Seq(Steps)
  BY DEF Planned, Account, Steps
<1>2. Reads(s, e)
  BY DEF Planned, Account, Reads
<1>3. Plainly(e) /\ \A i \in DOMAIN e : Cost(e[i]) = 0
  BY DEF Plainly, Steps, InOrder, Leads, Follows, Precede, Comes, PlainSteps, Ends, Deciding,
         Launching, NeedsKey, GivesKey, Mutating, Cost
<1>4. s = e
  BY <1>1, <1>2, <1>3, SameSteps DEF Plainly
<1> HIDE DEF s, e
<1>5. Sound(Task(s, 0, 0))
  BY <1>3, <1>4, PlainIsSound, RunAssumption
<1> QED BY <1>5 DEF PostScale, s

\* A verb for a fleet.
LEMMA FleetVerbIsSound == \A t \in PostFleetVerb : Sound(t)
<1> DEFINE s == Planned \o <<"mutate">>
           e == <<"manager", "account", "ask", "keep", "read", "gate", "mutate">>
<1>1. s \in Seq(Steps)
  BY DEF Planned, Account, Steps
<1>2. Reads(s, e)
  BY DEF Planned, Account, Reads
<1>3. Plainly(e) /\ \A i \in DOMAIN e : Cost(e[i]) = 0
  BY DEF Plainly, Steps, InOrder, Leads, Follows, Precede, Comes, PlainSteps, Ends, Deciding,
         Launching, NeedsKey, GivesKey, Mutating, Cost
<1>4. s = e
  BY <1>1, <1>2, <1>3, SameSteps DEF Plainly
<1> HIDE DEF s, e
<1>5. Sound(Task(s, 0, 0))
  BY <1>3, <1>4, PlainIsSound, RunAssumption
<1> QED BY <1>5 DEF PostFleetVerb, s

\* A verb for one microVM, and the wait for its state.
LEMMA LifecycleIsSound == \A t \in PostLifecycle : Sound(t)
<1> DEFINE s1 == <<"gate", "manager", "mutate">> \o <<>>
           e1 == <<"gate", "manager", "mutate">>
           s2 == <<"gate", "manager", "mutate">> \o <<"wait">>
           e2 == <<"gate", "manager", "mutate", "wait">>
<1>1. s1 = e1
  <2>1. s1 \in Seq(Steps) /\ e1 \in Seq(Steps)
    BY DEF Steps
  <2>2. Reads(s1, e1)
    BY DEF Reads
  <2> QED BY <2>1, <2>2, SameSteps
<1>2. Plainly(e1) /\ \A i \in DOMAIN e1 : Cost(e1[i]) \in 0..0
  BY DEF Plainly, Steps, InOrder, Leads, Follows, Precede, Comes, PlainSteps, Ends, Deciding,
         Launching, NeedsKey, GivesKey, Mutating, Cost
<1>3. s2 = e2
  <2>1. s2 \in Seq(Steps) /\ e2 \in Seq(Steps)
    BY DEF Steps
  <2>2. Reads(s2, e2)
    BY DEF Reads
  <2> QED BY <2>1, <2>2, SameSteps
<1>4. Plainly(e2) /\ \A i \in DOMAIN e2 : Cost(e2[i]) \in 0..0
  BY DEF Plainly, Steps, InOrder, Leads, Follows, Precede, Comes, PlainSteps, Ends, Deciding,
         Launching, NeedsKey, GivesKey, Mutating, Cost
<1> HIDE DEF s1, s2, e1, e2
<1>5. Sound(Task(s1, 0, 0)) /\ Sound(Task(s2, 0, 0))
  BY <1>1, <1>2, <1>3, <1>4, PlainIsSound, RunAssumption
<1> QED BY <1>5 DEF PostLifecycle, s1, s2

\* One lease, and following it.
LEMMA LeaseRunIsSound == \A t \in PostLeaseRun : Sound(t)
<1> DEFINE s1 == Planned \o <<"launch">> \o <<>>
           e1 == <<"manager", "account", "ask", "keep", "read", "gate", "launch">>
           s2 == Planned \o <<"launch">> \o <<"wait", "serve", "follow">>
           e2 == <<"manager", "account", "ask", "keep", "read", "gate", "launch",
                   "wait", "serve", "follow">>
<1>1. s1 = e1
  <2>1. s1 \in Seq(Steps) /\ e1 \in Seq(Steps)
    BY DEF Planned, Account, Steps
  <2>2. Reads(s1, e1)
    BY DEF Planned, Account, Reads
  <2> QED BY <2>1, <2>2, SameSteps
<1>2. Plainly(e1) /\ \A i \in DOMAIN e1 : Cost(e1[i]) \in 0..1
  BY DEF Plainly, Steps, InOrder, Leads, Follows, Precede, Comes, PlainSteps, Ends, Deciding,
         Launching, NeedsKey, GivesKey, Mutating, Cost
<1>3. s2 = e2
  <2>1. s2 \in Seq(Steps) /\ e2 \in Seq(Steps)
    BY DEF Planned, Account, Steps
  <2>2. Reads(s2, e2)
    BY DEF Planned, Account, Reads
  <2> QED BY <2>1, <2>2, SameSteps
<1>4. Plainly(e2) /\ \A i \in DOMAIN e2 : Cost(e2[i]) \in 0..1
  BY DEF Plainly, Steps, InOrder, Leads, Follows, Precede, Comes, PlainSteps, Ends, Deciding,
         Launching, NeedsKey, GivesKey, Mutating, Cost
<1> HIDE DEF s1, s2, e1, e2
<1>5. Sound(Task(s1, 1, 1)) /\ Sound(Task(s2, 1, 1))
  BY <1>1, <1>2, <1>3, <1>4, PlainIsSound, RunAssumption
<1> QED BY <1>5 DEF PostLeaseRun, s1, s2

\* A quotient by two or three goes up by one at every multiple.
LEMMA Quotients ==
    ASSUME NEW i \in Nat, i > 1
    PROVE  /\ (i - 1) \div 2 = ((i - 2) \div 2) + (IF (i - 1) % 2 = 0 THEN 1 ELSE 0)
           /\ (i - 1) \div 3 = ((i - 2) \div 3) + (IF (i - 1) % 3 = 0 THEN 1 ELSE 0)
OBVIOUS

\* What Times gives: the steps of one, again and again.
LEMMA TimesSteps ==
    ASSUME NEW n \in Nat, NEW one \in {<<"launch">>, <<"launch", "wait">>, <<"launch", "wait", "serve">>,
                                       <<"wait">>}
    PROVE  /\ Times(n, one) \in Seq(Steps) /\ Len(Times(n, one)) = n * Len(one)
           /\ \A i \in 1..(n * Len(one)) : Times(n, one)[i] = one[((i - 1) % Len(one)) + 1]
           /\ n * Len(one) \in Nat
<1>1. CASE one = <<"launch">> \/ one = <<"wait">>
  <2>1. Len(one) = 1 /\ n * 1 = n /\ \A i \in 1..n : ((i - 1) % 1) + 1 = 1
    BY <1>1
  <2>2. n * Len(one) = n /\ \A i \in 1..n : ((i - 1) % Len(one)) + 1 = 1
    BY <2>1
  <2> QED BY <1>1, <2>1, <2>2 DEF Times, Steps
<1>2. CASE one = <<"launch", "wait">>
  <2>1. Len(one) = 2 /\ \A i \in 1..(n * 2) : ((i - 1) % Len(one)) + 1 \in 1..2
    BY <1>2
  <2> QED BY <1>2, <2>1 DEF Times, Steps
<1>3. CASE one = <<"launch", "wait", "serve">>
  <2>1. Len(one) = 3 /\ \A i \in 1..(n * 3) : ((i - 1) % Len(one)) + 1 \in 1..3
    BY <1>3
  <2> QED BY <1>3, <2>1 DEF Times, Steps
<1> QED BY <1>1, <1>2, <1>3

\* Whatever waits, serves, launches and follows after a planned start keeps the order.
LEMMA PlannedStart ==
    ASSUME NEW s, NEW m \in Nat, DOMAIN s = 1..(6 + m), Len(s) = 6 + m,
           s[1] = "manager", s[2] = "account", s[3] = "ask", s[4] = "keep",
           s[5] = "read", s[6] = "gate",
           \A i \in 1..(6 + m) : i > 6 => s[i] \in {"launch", "wait", "serve"}
    PROVE  /\ InOrder(s) /\ Comes(s, NeedsKey, GivesKey) /\ Comes(s, Mutating, {"gate"})
           /\ PlainSteps(s) /\ \A i \in DOMAIN s : s[i] # "settle"
<1>1. Leads(s, "account", "ask") /\ Leads(s, "ask", "keep")
  BY DEF Leads
<1>2. Leads(s, "lookup", "build") /\ Leads(s, "build", "store")
  BY DEF Leads
<1>3. Follows(s, "ask", "keep") /\ Follows(s, "build", "store")
  BY DEF Follows
<1>4. Precede(s, Deciding, Launching) /\ Precede(s, NeedsKey, {"serve"})
  <2> SUFFICES ASSUME NEW i \in 1..(6 + m), NEW j \in 1..(6 + m),
                      \/ s[i] \in Deciding /\ s[j] \in Launching
                      \/ s[i] \in NeedsKey /\ s[j] = "serve"
               PROVE  i < j
    BY DEF Precede
  <2>1. i \in 1..6
    BY DEF Deciding, NeedsKey
  <2>2. j \notin 1..6
    BY DEF Launching
  <2> QED BY <2>1, <2>2
<1>5. \A i \in DOMAIN s : s[i] # "terminateFirst" /\ s[i] # "terminateLast" /\ s[i] # "settle" /\ s[i] \notin Ends
  BY DEF Ends
<1>6. Comes(s, NeedsKey, GivesKey) /\ Comes(s, Mutating, {"gate"})
  BY DEF Comes, NeedsKey, GivesKey, Mutating
<1>7. Precede(s, {"build"}, {"manager"})
  BY DEF Precede
<1> QED BY <1>1, <1>2, <1>3, <1>4, <1>5, <1>6, <1>7 DEF InOrder, PlainSteps

\* A handler that launches n times, which f counts, is sound.
LEMMA RunIsSoundOnce ==
    ASSUME NEW n \in 1..Launches, NEW w \in Seq(Steps), NEW f \in [1..Len(w) -> 0..n],
           \A i \in 1..Len(w) : w[i] \in {"launch", "wait", "serve"},
           \A i \in 1..Len(w) : (IF i = 1 THEN 0 ELSE f[i - 1]) + Cost(w[i]) <= f[i]
    PROVE  Sound(Task(Planned \o w, n, n))
<1> DEFINE s == Planned \o w
           t == Task(s, n, n)
<1>0. n \in Nat /\ n <= Launches /\ Launches \in Nat
  BY RunAssumption
<1>1. t.steps = s /\ t.most = n /\ t.leaves = n
  BY DEF Task
<1>2. /\ Len(w) \in Nat /\ Len(s) = 6 + Len(w) /\ DOMAIN s = 1..(6 + Len(w))
      /\ s[1] = "manager" /\ s[2] = "account" /\ s[3] = "ask" /\ s[4] = "keep"
      /\ s[5] = "read" /\ s[6] = "gate"
      /\ \A i \in 7..(6 + Len(w)) : s[i] = w[i - 6]
  BY DEF Planned, Account
<1>3. s \in Seq(Steps)
  <2>1. Planned \in Seq(Steps)
    BY DEF Planned, Account, Steps
  <2> QED BY <2>1, ConcatProperties
<1> HIDE DEF s
<1>4. \A i \in 1..(6 + Len(w)) : i > 6 => s[i] \in {"launch", "wait", "serve"}
  BY <1>2
<1>5. /\ InOrder(s) /\ Comes(s, NeedsKey, GivesKey) /\ Comes(s, Mutating, {"gate"})
      /\ PlainSteps(s) /\ \A i \in DOMAIN s : s[i] # "settle"
  BY <1>2, <1>4, PlannedStart
<1>8. Affordable(s, 0, n)
  <2> DEFINE g == [i \in DOMAIN s |-> IF i < 7 THEN 0 ELSE f[i - 6]]
  <2>1. g \in [DOMAIN s -> 0..n]
    BY <1>0, <1>2
  <2>2. ASSUME NEW i \in DOMAIN s
        PROVE  (IF i = 1 THEN 0 ELSE g[i - 1]) + Cost(s[i]) <= g[i]
    <3>1. CASE i < 7
      <4>1. Cost(s[i]) = 0
        BY <1>2, <3>1 DEF Cost
      <4> QED BY <1>2, <3>1, <4>1
    <3>2. CASE i >= 7
      <4>1. i - 6 \in 1..Len(w) /\ g[i] = f[i - 6] /\ s[i] = w[i - 6]
        BY <1>2, <3>2
      <4>2. g[i - 1] = IF i - 6 = 1 THEN 0 ELSE f[(i - 6) - 1]
        BY <1>2, <3>2
      <4>3. (IF i - 6 = 1 THEN 0 ELSE f[(i - 6) - 1]) + Cost(w[i - 6]) <= f[i - 6]
        BY <4>1
      <4> QED BY <1>2, <3>2, <4>1, <4>2, <4>3
    <3> QED BY <1>2, <3>1, <3>2
  <2> HIDE DEF g
  <2>3. \E h \in [DOMAIN s -> 0..n] : \A i \in DOMAIN s :
            (IF i = 1 THEN 0 ELSE h[i - 1]) + Cost(s[i]) <= h[i]
    BY <2>1, <2>2
  <2>4. 0 \in 0..n
    BY <1>0
  <2> QED BY <2>3, <2>4 DEF Affordable
<1> HIDE DEF t
<1>9. ~Probes(t)
  BY <1>1, <1>5 DEF Probes, Range
<1>10. Affordable(t.steps, 0, Limit(t))
  BY <1>1, <1>8, <1>9 DEF Limit
<1>11. t.steps \in Seq(Steps) /\ t.most \in 0..Launches
  BY <1>0, <1>1, <1>3
<1>12. InOrder(t.steps) /\ Comes(t.steps, NeedsKey, GivesKey) /\ Comes(t.steps, Mutating, {"gate"})
  BY <1>1, <1>5
<1>13. t.leaves = t.most /\ PlainSteps(t.steps)
  BY <1>1, <1>5
<1>14. Sound(t)
  BY <1>9, <1>10, <1>11, <1>12, <1>13 DEF Sound
<1> QED BY <1>14 DEF t, s

\* A run of n microVMs.
LEMMA RunIsSound == \A t \in PostRun : Sound(t)
<1> SUFFICES ASSUME NEW n \in 1..Launches,
                    NEW one \in {<<"launch">>, <<"launch", "wait">>, <<"launch", "wait", "serve">>}
             PROVE  Sound(Task(Planned \o Times(n, one), n, n))
  BY DEF PostRun
<1> DEFINE w == Times(n, one)
           f == [i \in 1..Len(w) |-> ((i - 1) \div Len(one)) + 1]
<1>0. n \in Nat /\ n > 0 /\ Len(one) \in 1..3
  BY RunAssumption
<1> HIDE DEF w
<1>1. /\ w \in Seq(Steps) /\ Len(w) = n * Len(one) /\ n * Len(one) \in Nat
      /\ \A i \in 1..(n * Len(one)) : w[i] = one[((i - 1) % Len(one)) + 1]
  <2>1. one \in {<<"launch">>, <<"launch", "wait">>, <<"launch", "wait", "serve">>, <<"wait">>}
    OBVIOUS
  <2> QED BY <1>0, <2>1, TimesSteps DEF w
<1>2. CASE one = <<"launch">>
  <2>1. Len(one) = 1 /\ n * 1 = n /\ \A i \in 1..n : ((i - 1) % 1) + 1 = 1 /\ (i - 1) \div 1 = i - 1
    BY <1>0, <1>2
  <2>2. Len(w) = n /\ \A i \in 1..n : w[i] = "launch" /\ f[i] = i
    BY <1>1, <1>2, <2>1
  <2>3. f \in [1..Len(w) -> 0..n]
    BY <2>1, <2>2
  <2> HIDE DEF f
  <2>4. \A i \in 1..Len(w) : (IF i = 1 THEN 0 ELSE f[i - 1]) + Cost(w[i]) <= f[i]
    BY <1>0, <2>2 DEF Cost
  <2>5. \A i \in 1..Len(w) : w[i] \in {"launch", "wait", "serve"}
    BY <2>2
  <2> QED BY <1>1, <2>3, <2>4, <2>5, RunIsSoundOnce DEF w
<1>3. CASE one = <<"launch", "wait">>
  <2>1. Len(one) = 2 /\ \A i \in 1..(n * 2) : i - 1 >= 0 /\ (i - 1) % 2 \in {0, 1} /\ (i - 1) \div 2 \in 0..(n - 1)
    BY <1>0, <1>3
  <2>2. /\ Len(w) = n * 2
        /\ \A i \in 1..(n * 2) : /\ f[i] = ((i - 1) \div 2) + 1
                                 /\ w[i] = IF (i - 1) % 2 = 0 THEN "launch" ELSE "wait"
    BY <1>1, <1>3, <2>1
  <2>3. f \in [1..Len(w) -> 0..n]
    BY <1>0, <2>1, <2>2
  <2> HIDE DEF f
  <2>4. ASSUME NEW i \in 1..Len(w)
        PROVE  (IF i = 1 THEN 0 ELSE f[i - 1]) + Cost(w[i]) <= f[i]
    <3>1. i \in 1..(n * 2) /\ i \in Nat /\ f[i] = ((i - 1) \div 2) + 1
      BY <1>0, <2>2
    <3>2. Cost(w[i]) = IF (i - 1) % 2 = 0 THEN 1 ELSE 0
      BY <2>2, <3>1 DEF Cost
    <3>3. CASE i = 1
      BY <3>1, <3>2, <3>3
    <3>4. CASE i > 1
      <4>1. i - 1 \in 1..(n * 2)
        BY <3>1, <3>4
      <4>2. f[i - 1] = ((i - 2) \div 2) + 1
        BY <2>2, <3>4, <4>1
      <4> QED BY <3>1, <3>2, <3>4, <4>2, Quotients
    <3> QED BY <3>1, <3>3, <3>4
  <2>5. \A i \in 1..Len(w) : w[i] \in {"launch", "wait", "serve"}
    BY <2>2
  <2> QED BY <1>1, <2>3, <2>4, <2>5, RunIsSoundOnce DEF w
<1>4. CASE one = <<"launch", "wait", "serve">>
  <2>1. Len(one) = 3 /\ \A i \in 1..(n * 3) : i - 1 >= 0 /\ (i - 1) % 3 \in {0, 1, 2} /\ (i - 1) \div 3 \in 0..(n - 1)
    BY <1>0, <1>4
  <2>2. /\ Len(w) = n * 3
        /\ \A i \in 1..(n * 3) : /\ f[i] = ((i - 1) \div 3) + 1
                                 /\ w[i] = IF (i - 1) % 3 = 0 THEN "launch"
                                           ELSE IF (i - 1) % 3 = 1 THEN "wait" ELSE "serve"
    BY <1>1, <1>4, <2>1
  <2>3. f \in [1..Len(w) -> 0..n]
    BY <1>0, <2>1, <2>2
  <2> HIDE DEF f
  <2>4. ASSUME NEW i \in 1..Len(w)
        PROVE  (IF i = 1 THEN 0 ELSE f[i - 1]) + Cost(w[i]) <= f[i]
    <3>1. i \in 1..(n * 3) /\ i \in Nat /\ f[i] = ((i - 1) \div 3) + 1
      BY <1>0, <2>2
    <3>2. Cost(w[i]) = IF (i - 1) % 3 = 0 THEN 1 ELSE 0
      BY <2>2, <3>1 DEF Cost
    <3>3. CASE i = 1
      BY <3>1, <3>2, <3>3
    <3>4. CASE i > 1
      <4>1. i - 1 \in 1..(n * 3)
        BY <3>1, <3>4
      <4>2. f[i - 1] = ((i - 2) \div 3) + 1
        BY <2>2, <3>4, <4>1
      <4> QED BY <3>1, <3>2, <3>4, <4>2, Quotients
    <3> QED BY <3>1, <3>3, <3>4
  <2>5. \A i \in 1..Len(w) : w[i] \in {"launch", "wait", "serve"}
    BY <2>2
  <2> QED BY <1>1, <2>3, <2>4, <2>5, RunIsSoundOnce DEF w
<1> QED BY <1>2, <1>3, <1>4

\* A fan-out, with what follows its start, keeps the order.
LEMMA ManyStart ==
    ASSUME NEW s, NEW m \in Nat, DOMAIN s = 1..(8 + m), Len(s) = 8 + m,
           s[1] = "manager", s[2] = "plan", s[3] = "account", s[4] = "ask", s[5] = "keep",
           s[6] = "read", s[7] = "gate", s[8] = "launchAll",
           \A i \in 1..(8 + m) : i > 8 => s[i] \in {"wait", "key", "monitor", "follow"}
    PROVE  /\ InOrder(s) /\ Comes(s, NeedsKey, GivesKey) /\ Comes(s, Mutating, {"gate"})
           /\ PlainSteps(s) /\ \A i \in DOMAIN s : s[i] # "settle"
           /\ \A i, j \in DOMAIN s : s[i] \in Launching /\ s[j] \in Launching => i = j
<1>1. Leads(s, "account", "ask") /\ Leads(s, "ask", "keep")
  BY DEF Leads
<1>2. Leads(s, "lookup", "build") /\ Leads(s, "build", "store")
  BY DEF Leads
<1>3. Follows(s, "ask", "keep") /\ Follows(s, "build", "store")
  BY DEF Follows
<1>4. \A i \in DOMAIN s : (s[i] \in Launching => i = 8) /\ (s[i] \in Deciding => i \in 1..7)
                          /\ s[i] # "serve"
  BY DEF Launching, Deciding
<1>5. Precede(s, Deciding, Launching) /\ Precede(s, NeedsKey, {"serve"})
  BY <1>4 DEF Precede
<1>6. \A i \in DOMAIN s : s[i] # "terminateFirst" /\ s[i] # "terminateLast" /\ s[i] # "settle" /\ s[i] \notin Ends
  BY DEF Ends
<1>7. Comes(s, NeedsKey, GivesKey) /\ Comes(s, Mutating, {"gate"})
  BY DEF Comes, NeedsKey, GivesKey, Mutating
<1>8. Precede(s, {"build"}, {"manager"})
  BY DEF Precede
<1> QED BY <1>1, <1>2, <1>3, <1>4, <1>5, <1>6, <1>7, <1>8 DEF InOrder, PlainSteps

\* A microVM for every shard, followed or not.
LEMMA ManyIsSound == \A t \in LeaseMany : Sound(t)
<1> SUFFICES ASSUME NEW w \in {<<>>, Times(Launches, <<"wait">>) \o Monitoring \o <<"follow">>}
             PROVE  Sound(Task(<<"manager", "plan">> \o Account
                                 \o <<"read", "gate", "launchAll">> \o w, Launches, Launches))
  BY DEF LeaseMany
<1> DEFINE s == <<"manager", "plan">> \o Account \o <<"read", "gate", "launchAll">> \o w
<1>0. Launches \in Nat /\ Launches > 0
  BY RunAssumption
<1>1. w \in Seq(Steps) /\ \A i \in 1..Len(w) : w[i] \in {"wait", "key", "monitor", "follow"}
  <2>1. CASE w = <<>>
    BY <2>1
  <2>2. CASE w = Times(Launches, <<"wait">>) \o Monitoring \o <<"follow">>
    <3> DEFINE x == Times(Launches, <<"wait">>)
    <3>1. Len(<<"wait">>) = 1 /\ Launches * 1 = Launches
          /\ \A i \in 1..Launches : ((i - 1) % 1) + 1 = 1
      BY <1>0
    <3>2. x \in Seq(Steps) /\ Len(x) = Launches /\ \A i \in 1..Launches : x[i] = "wait"
      <4> DEFINE one == <<"wait">>
      <4>1. one \in {<<"launch">>, <<"launch", "wait">>, <<"launch", "wait", "serve">>, <<"wait">>}
        OBVIOUS
      <4>2. Len(one) = 1 /\ one[1] = "wait"
        OBVIOUS
      <4> HIDE DEF one
      <4>3. /\ Times(Launches, one) \in Seq(Steps)
            /\ Len(Times(Launches, one)) = Launches * Len(one)
            /\ \A i \in 1..(Launches * Len(one)) :
                  Times(Launches, one)[i] = one[((i - 1) % Len(one)) + 1]
        BY <1>0, <4>1, TimesSteps
      <4> QED BY <3>1, <4>2, <4>3 DEF one
    <3> HIDE DEF x
    <3>3. Monitoring \o <<"follow">> \in Seq(Steps) /\ x \o Monitoring \o <<"follow">> \in Seq(Steps)
      BY <3>2 DEF Monitoring, Steps
    <3>4. \A i \in 1..Len(x \o Monitoring \o <<"follow">>) :
            (x \o Monitoring \o <<"follow">>)[i] \in {"wait", "key", "monitor", "follow"}
      BY <1>0, <3>2 DEF Monitoring
    <3> QED BY <2>2, <3>3, <3>4 DEF x
  <2> QED BY <2>1, <2>2
<1>2. /\ Len(w) \in Nat /\ Len(s) = 8 + Len(w) /\ DOMAIN s = 1..(8 + Len(w))
      /\ s[1] = "manager" /\ s[2] = "plan" /\ s[3] = "account" /\ s[4] = "ask" /\ s[5] = "keep"
      /\ s[6] = "read" /\ s[7] = "gate" /\ s[8] = "launchAll"
      /\ \A i \in 9..(8 + Len(w)) : s[i] = w[i - 8]
  BY <1>1 DEF Account
<1>3. s \in Seq(Steps)
  <2>1. <<"manager", "plan">> \o Account \o <<"read", "gate", "launchAll">> \in Seq(Steps)
    BY DEF Account, Steps
  <2> QED BY <1>1, <2>1, ConcatProperties
<1> HIDE DEF s
<1>4. \A i \in 1..(8 + Len(w)) : i > 8 => s[i] \in {"wait", "key", "monitor", "follow"}
  BY <1>1, <1>2
<1>5. Plainly(s)
  BY <1>2, <1>3, <1>4, ManyStart DEF Plainly
<1>6. \A i \in DOMAIN s : Cost(s[i]) <= Launches
  BY <1>0 DEF Cost
<1>7. Launches \in 0..Launches
  BY <1>0
<1>8. Sound(Task(s, Launches, Launches))
  BY <1>5, <1>6, <1>7, PlainIsSound
<1> QED BY <1>8 DEF s

\* The steps of a sequence and of one put behind it.
LEMMA Joins ==
    ASSUME NEW a \in Seq(Steps), NEW b \in Seq(Steps)
    PROVE  /\ a \o b \in Seq(Steps) /\ Len(a \o b) = Len(a) + Len(b)
           /\ Len(a) \in Nat /\ Len(b) \in Nat
           /\ \A i \in 1..Len(a) : (a \o b)[i] = a[i]
           /\ \A i \in 1..Len(b) : (a \o b)[Len(a) + i] = b[i]
<1>1. /\ a \o b \in Seq(Steps) /\ Len(a \o b) = Len(a) + Len(b)
      /\ Len(a) \in Nat /\ Len(b) \in Nat
      /\ \A i \in 1..Len(a) + Len(b) : (a \o b)[i] = IF i <= Len(a) THEN a[i] ELSE b[i - Len(a)]
  BY ConcatProperties, LenProperties
<1>2. ASSUME NEW i \in 1..Len(b)
      PROVE  (a \o b)[Len(a) + i] = b[i]
  <2>1. Len(a) + i \in 1..Len(a) + Len(b) /\ ~(Len(a) + i <= Len(a)) /\ (Len(a) + i) - Len(a) = i
    BY <1>1
  <2> QED BY <1>1, <2>1
<1> QED BY <1>1, <1>2

\* The steps of post_probe, by their places.
LEMMA ProbeReads ==
    ASSUME NEW n \in 1..Launches, NEW end \in {<<>>, <<"terminateFirst">>}
    PROVE  LET m == 5 * (n - 1)
               s == <<"manager", "gate", "settle", "launch", "wait", "serve">>
                      \o Times(n - 1, <<"settle", "launch", "wait", "serve", "terminateLast">>)
                      \o <<"serve", "cycle">> \o end
           IN  /\ m \in Nat /\ s \in Seq(Steps)
               /\ Len(s) = 8 + m + Len(end) /\ DOMAIN s = 1..(8 + m + Len(end)) /\ Len(end) \in {0, 1}
               /\ s[1] = "manager" /\ s[2] = "gate" /\ s[3] = "settle" /\ s[4] = "launch"
               /\ s[5] = "wait" /\ s[6] = "serve"
               /\ \A i \in 7..(6 + m) : /\ (i - 7) % 5 = 0 => s[i] = "settle"
                                        /\ (i - 7) % 5 = 1 => s[i] = "launch"
                                        /\ (i - 7) % 5 = 2 => s[i] = "wait"
                                        /\ (i - 7) % 5 = 3 => s[i] = "serve"
                                        /\ (i - 7) % 5 = 4 => s[i] = "terminateLast"
               /\ s[7 + m] = "serve" /\ s[8 + m] = "cycle"
               /\ Len(end) = 1 => s[9 + m] = "terminateFirst"
<1> DEFINE m == 5 * (n - 1)
           s == <<"manager", "gate", "settle", "launch", "wait", "serve">>
                  \o Times(n - 1, <<"settle", "launch", "wait", "serve", "terminateLast">>)
                  \o <<"serve", "cycle">> \o end
<1> DEFINE one  == <<"settle", "launch", "wait", "serve", "terminateLast">>
           x    == Times(n - 1, one)
           head == <<"manager", "gate", "settle", "launch", "wait", "serve">>
<1>1. n - 1 \in Nat /\ m \in Nat /\ Len(one) = 5 /\ (n - 1) * 5 = m
  BY RunAssumption
<1> HIDE DEF m, s
<1>2. Len(x) = m /\ x \in Seq(Steps) /\ \A i \in 1..m : x[i] = one[((i - 1) % 5) + 1]
  <2>1. \A i \in 1..m : ((i - 1) % 5) + 1 \in 1..5
    BY <1>1
  <2>2. x = [i \in 1..m |-> one[((i - 1) % 5) + 1]]
    BY <1>1 DEF Times
  <2>3. \A j \in 1..5 : one[j] \in Steps
    BY DEF Steps
  <2> HIDE DEF x, one
  <2>4. x \in [1..m -> Steps]
    BY <2>1, <2>2, <2>3
  <2> QED BY <1>1, <2>2, <2>4
<1>3. /\ one[1] = "settle" /\ one[2] = "launch" /\ one[3] = "wait" /\ one[4] = "serve"
      /\ one[5] = "terminateLast"
  OBVIOUS
<1> DEFINE last == <<"serve", "cycle">>
<1>4. /\ head \in Seq(Steps) /\ last \in Seq(Steps) /\ Len(head) = 6 /\ Len(last) = 2
      /\ head[1] = "manager" /\ head[2] = "gate" /\ head[3] = "settle" /\ head[4] = "launch"
      /\ head[5] = "wait" /\ head[6] = "serve" /\ last[1] = "serve" /\ last[2] = "cycle"
  BY DEF Steps
<1>5. end \in Seq(Steps) /\ Len(end) \in {0, 1} /\ (Len(end) = 1 => end[1] = "terminateFirst")
  <2>1. CASE end = <<>>
    BY <2>1
  <2>2. CASE end = <<"terminateFirst">>
    BY <2>2 DEF Steps
  <2> QED BY <2>1, <2>2
<1> DEFINE y == head \o x
           z == y \o last
           w == z \o end
<1>6. s = w
  BY DEF s
<1> HIDE DEF w, x, one, head, last
<1>7. /\ y \in Seq(Steps) /\ Len(y) = 6 + m
      /\ \A i \in 1..6 : y[i] = head[i]
      /\ \A i \in 1..m : y[6 + i] = x[i]
  <2>1. /\ head \o x \in Seq(Steps) /\ Len(head \o x) = Len(head) + Len(x)
        /\ \A i \in 1..Len(head) : (head \o x)[i] = head[i]
        /\ \A i \in 1..Len(x) : (head \o x)[Len(head) + i] = x[i]
    BY ONLY <1>2, <1>4, Joins
  <2> QED BY ONLY <1>2, <1>4, <2>1 DEF y
<1> HIDE DEF y
<1>8. /\ z \in Seq(Steps) /\ Len(z) = (6 + m) + 2
      /\ \A i \in 1..(6 + m) : z[i] = y[i]
      /\ \A i \in 1..2 : z[(6 + m) + i] = last[i]
  <2>1. /\ y \o last \in Seq(Steps) /\ Len(y \o last) = Len(y) + Len(last)
        /\ \A i \in 1..Len(y) : (y \o last)[i] = y[i]
        /\ \A i \in 1..Len(last) : (y \o last)[Len(y) + i] = last[i]
    BY ONLY <1>4, <1>7, Joins
  <2> QED BY ONLY <1>4, <1>7, <2>1 DEF z
<1> HIDE DEF z
<1>9. /\ z \o end \in Seq(Steps) /\ Len(z \o end) = ((6 + m) + 2) + Len(end)
      /\ \A i \in 1..((6 + m) + 2) : (z \o end)[i] = z[i]
      /\ \A i \in 1..Len(end) : (z \o end)[((6 + m) + 2) + i] = end[i]
  BY ONLY <1>5, <1>8, Joins
<1>10. /\ w \in Seq(Steps) /\ Len(w) = ((6 + m) + 2) + Len(end)
       /\ \A i \in 1..((6 + m) + 2) : w[i] = z[i]
       /\ \A i \in 1..Len(end) : w[((6 + m) + 2) + i] = end[i]
  BY <1>9 DEF w
<1>11. \A i \in 1..(6 + m) : w[i] = y[i]
  BY ONLY <1>1, <1>8, <1>10
<1>12. /\ w[1] = "manager" /\ w[2] = "gate" /\ w[3] = "settle" /\ w[4] = "launch"
       /\ w[5] = "wait" /\ w[6] = "serve"
  <2>1. \A i \in 1..6 : w[i] = head[i]
    BY ONLY <1>1, <1>7, <1>11
  <2> QED BY ONLY <2>1, <1>4
<1>13. ASSUME NEW i \in 7..(6 + m)
       PROVE  w[i] = one[((i - 7) % 5) + 1]
  <2>1. i - 6 \in 1..m /\ (i - 6) - 1 = i - 7 /\ 6 + (i - 6) = i /\ i \in 1..(6 + m)
    BY ONLY <1>1, i \in 7..(6 + m)
  <2>2. w[i] = y[i] /\ y[6 + (i - 6)] = x[i - 6] /\ x[i - 6] = one[(((i - 6) - 1) % 5) + 1]
    BY ONLY <1>2, <1>7, <1>11, <2>1
  <2> QED BY ONLY <2>1, <2>2
<1>14. w[7 + m] = "serve" /\ w[8 + m] = "cycle"
  <2>1. 7 + m = (6 + m) + 1 /\ 8 + m = (6 + m) + 2 /\ 7 + m \in 1..((6 + m) + 2) /\ 8 + m \in 1..((6 + m) + 2)
    BY ONLY <1>1
  <2>2. z[(6 + m) + 1] = last[1] /\ z[(6 + m) + 2] = last[2]
    BY ONLY <1>8
  <2>3. w[7 + m] = z[(6 + m) + 1] /\ w[8 + m] = z[(6 + m) + 2]
    BY ONLY <1>10, <2>1
  <2> QED BY ONLY <1>4, <2>2, <2>3
<1>15. Len(end) = 1 => w[9 + m] = "terminateFirst"
  <2>1. 9 + m = ((6 + m) + 2) + 1
    BY ONLY <1>1
  <2> QED BY ONLY <1>5, <1>10, <2>1
<1>16. DOMAIN w = 1..(8 + m + Len(end)) /\ Len(w) = 8 + m + Len(end)
  <2>1. DOMAIN w = 1..Len(w)
    BY ONLY <1>10, LenProperties
  <2>2. ((6 + m) + 2) + Len(end) = 8 + m + Len(end)
    BY ONLY <1>1, <1>5
  <2> QED BY ONLY <1>10, <2>1, <2>2
<1>17. ASSUME NEW i \in 7..(6 + m)
       PROVE  /\ (i - 7) % 5 = 0 => w[i] = "settle"
              /\ (i - 7) % 5 = 1 => w[i] = "launch"
              /\ (i - 7) % 5 = 2 => w[i] = "wait"
              /\ (i - 7) % 5 = 3 => w[i] = "serve"
              /\ (i - 7) % 5 = 4 => w[i] = "terminateLast"
  BY ONLY <1>3, <1>13, i \in 7..(6 + m)
<1>18. /\ m \in Nat /\ w \in Seq(Steps)
       /\ Len(w) = 8 + m + Len(end) /\ DOMAIN w = 1..(8 + m + Len(end)) /\ Len(end) \in {0, 1}
       /\ w[1] = "manager" /\ w[2] = "gate" /\ w[3] = "settle" /\ w[4] = "launch"
       /\ w[5] = "wait" /\ w[6] = "serve"
       /\ \A i \in 7..(6 + m) : /\ (i - 7) % 5 = 0 => w[i] = "settle"
                                /\ (i - 7) % 5 = 1 => w[i] = "launch"
                                /\ (i - 7) % 5 = 2 => w[i] = "wait"
                                /\ (i - 7) % 5 = 3 => w[i] = "serve"
                                /\ (i - 7) % 5 = 4 => w[i] = "terminateLast"
       /\ w[7 + m] = "serve" /\ w[8 + m] = "cycle"
       /\ Len(end) = 1 => w[9 + m] = "terminateFirst"
  BY ONLY <1>1, <1>5, <1>10, <1>12, <1>14, <1>15, <1>16, <1>17
<1> QED BY <1>6, <1>18 DEF m, s

\* A quotient by five goes up by one at every multiple.
LEMMA Fifths ==
    ASSUME NEW i \in Nat, i >= 7
    PROVE  (i - 3) \div 5 = (IF i = 7 THEN 0 ELSE ((i - 1) - 3) \div 5)
                               + (IF (i - 7) % 5 = 1 THEN 1 ELSE 0)
OBVIOUS

\* A probe's launches are within a larger limit, too.
LEMMA MoreAffordable ==
    ASSUME NEW s, NEW n \in Nat, NEW limit \in Nat, NEW more \in Nat, limit <= more,
           Affordable(s, n, limit)
    PROVE  Affordable(s, n, more)
<1>1. n \in 0..limit
  BY DEF Affordable
<1>2. PICK f \in [DOMAIN s -> 0..limit] : \A i \in DOMAIN s :
          (IF i = 1 THEN n ELSE f[i - 1]) + Cost(s[i]) <= f[i]
  BY DEF Affordable
<1>3. f \in [DOMAIN s -> 0..more] /\ n \in 0..more
  BY <1>1
<1> QED BY <1>2, <1>3 DEF Affordable

\* A step is in one of a probe's parts, and says at which place it launches.
LEMMA ProbeIsSound == \A t \in PostProbe : Sound(t)
<1> SUFFICES ASSUME NEW n \in 1..Launches, NEW end \in {<<>>, <<"terminateFirst">>}
             PROVE  Sound(Task(<<"manager", "gate", "settle", "launch", "wait", "serve">>
                                 \o Times(n - 1, <<"settle", "launch", "wait", "serve", "terminateLast">>)
                                 \o <<"serve", "cycle">> \o end,
                               IF n > 1 THEN 2 ELSE 1, IF end = <<>> THEN 1 ELSE 0))
  BY DEF PostProbe
<1> DEFINE k == Len(end)
           s == <<"manager", "gate", "settle", "launch", "wait", "serve">>
                  \o Times(n - 1, <<"settle", "launch", "wait", "serve", "terminateLast">>)
                  \o <<"serve", "cycle">> \o end
           most == IF n > 1 THEN 2 ELSE 1
           leaves == IF end = <<>> THEN 1 ELSE 0
           m == 5 * (n - 1)
           t == Task(s, most, leaves)
<1>0. n \in Nat /\ n >= 1 /\ n <= Launches /\ Launches \in Nat
  BY RunAssumption
<1>c. m = 5 * (n - 1) /\ m \in Nat
  BY <1>0
<1>b. leaves = 0 => k = 1
  OBVIOUS
<1>1. /\ m \in Nat /\ s \in Seq(Steps)
      /\ Len(s) = 8 + m + k /\ DOMAIN s = 1..(8 + m + k) /\ k \in {0, 1}
      /\ s[1] = "manager" /\ s[2] = "gate" /\ s[3] = "settle" /\ s[4] = "launch"
      /\ s[5] = "wait" /\ s[6] = "serve"
      /\ \A i \in 7..(6 + m) : /\ (i - 7) % 5 = 0 => s[i] = "settle"
                               /\ (i - 7) % 5 = 1 => s[i] = "launch"
                               /\ (i - 7) % 5 = 2 => s[i] = "wait"
                               /\ (i - 7) % 5 = 3 => s[i] = "serve"
                               /\ (i - 7) % 5 = 4 => s[i] = "terminateLast"
      /\ s[7 + m] = "serve" /\ s[8 + m] = "cycle"
      /\ k = 1 => s[9 + m] = "terminateFirst"
  BY ProbeReads
<1>3. leaves \in {0, 1} /\ most \in {1, 2} /\ most <= n
  BY <1>0
<1> HIDE DEF k, s, m, leaves
<1>4. ASSUME NEW i \in 1..(8 + m + k)
      PROVE  /\ s[i] \in {"manager", "gate", "settle", "launch", "wait", "serve", "terminateLast",
                          "cycle", "terminateFirst"}
             /\ s[i] = "manager" => i = 1
             /\ s[i] = "gate" => i = 2
             /\ s[i] = "launch" => i = 4 \/ (i \in 7..(6 + m) /\ (i - 7) % 5 = 1)
             /\ s[i] = "cycle" => i > 3
             /\ s[i] = "terminateFirst" => i = 8 + m + k
  <2>1. CASE i \in 1..6
    BY <1>1, <2>1
  <2>2. CASE i \in 7..(6 + m)
    <3>1. (i - 7) % 5 \in 0..4
      BY <1>1, <2>2
    <3> QED BY <1>1, <2>2, <3>1
  <2>3. CASE i \in (7 + m)..(8 + m + k)
    <3>1. k \in {0, 1}
      BY <1>1
    <3>2. i = 7 + m \/ i = 8 + m \/ (k = 1 /\ i = 9 + m)
      BY <1>c, <2>3, <3>1
    <3>3. s[7 + m] = "serve" /\ s[8 + m] = "cycle" /\ (k = 1 => s[9 + m] = "terminateFirst")
      BY <1>1
    <3>4. CASE i = 7 + m
      BY <1>c, <3>3, <3>4
    <3>5. CASE i = 8 + m
      BY <1>c, <3>3, <3>5
    <3>6. CASE k = 1 /\ i = 9 + m
      BY <1>c, <3>3, <3>6
    <3> QED BY <3>2, <3>4, <3>5, <3>6
  <2> QED BY <1>1, <2>1, <2>2, <2>3
<1> DEFINE L == 8 + m + k
<1>5. L \in Nat /\ Len(s) = L /\ DOMAIN s = 1..L /\ L >= 8
  BY <1>1
<1>6. \A i \in 1..L : /\ s[i] \in {"manager", "gate", "settle", "launch", "wait", "serve", "terminateLast",
                                   "cycle", "terminateFirst"}
                      /\ (s[i] = "manager" => i = 1) /\ (s[i] = "gate" => i = 2)
                      /\ (s[i] = "launch" => i > 3) /\ (s[i] = "cycle" => i > 3)
                      /\ (s[i] = "terminateFirst" => i = L)
  BY <1>1, <1>4
<1>7. s \in Seq(Steps) /\ s[1] = "manager" /\ s[2] = "gate" /\ s[3] = "settle"
  BY <1>1
<1> HIDE DEF L
<1>8. InOrder(s)
  <2>1. /\ Leads(s, "account", "ask") /\ Leads(s, "ask", "keep")
        /\ Leads(s, "lookup", "build") /\ Leads(s, "build", "store")
        /\ Follows(s, "ask", "keep") /\ Follows(s, "build", "store")
    BY <1>5, <1>6 DEF Leads, Follows
  <2>2. Precede(s, Deciding, Launching) /\ Precede(s, NeedsKey, {"serve"})
    BY <1>5, <1>6 DEF Precede, Deciding, Launching, NeedsKey
  <2>4. Precede(s, {"build"}, {"manager"})
    BY <1>5, <1>6 DEF Precede
  <2>3. \A i \in DOMAIN s : (s[i] = "terminateFirst" => i = Len(s)) /\ s[i] \notin Ends
    BY <1>5, <1>6 DEF Ends
  <2> QED BY <2>1, <2>2, <2>3, <2>4 DEF InOrder
<1>9. Comes(s, NeedsKey, GivesKey)
  BY <1>5, <1>6 DEF Comes, NeedsKey
<1>10. Comes(s, Mutating, {"gate"})
  BY <1>5, <1>6, <1>7 DEF Comes, Mutating
<1>11. ProbeSteps(s, 0)
  <2> SUFFICES ASSUME NEW i \in 1..L, s[i] \in Launching
               PROVE  /\ s[i] = "launch"
                      /\ Due(s, i) \/ (0 = 0 /\ \A j \in 1..(i - 1) : s[j] \notin Launching)
    BY <1>5 DEF ProbeSteps
  <2>1. s[i] = "launch"
    BY <1>6 DEF Launching
  <2>2. CASE i = 4
    BY <1>1, <2>2 DEF Launching
  <2>3. CASE i \in 7..(6 + m) /\ (i - 7) % 5 = 1
    <3>1. i + 3 \in 7..(6 + m) /\ i + 1 \in 7..(6 + m) /\ i + 2 \in 7..(6 + m)
      BY <1>0, <1>c, <2>3
    <3>2. ((i + 1) - 7) % 5 = 2 /\ ((i + 2) - 7) % 5 = 3 /\ ((i + 3) - 7) % 5 = 4
      BY <1>0, <1>c, <2>3
    <3>3. s[i + 1] = "wait" /\ s[i + 2] = "serve" /\ s[i + 3] = "terminateLast"
      BY <1>1, <3>1, <3>2
    <3>4. i + 3 \in DOMAIN s /\ i + 3 > i
      BY <1>1, <3>1
    <3>5. \A j \in (i + 1)..((i + 3) - 1) : j = i + 1 \/ j = i + 2
      OBVIOUS
    <3> QED BY <2>1, <3>3, <3>4, <3>5 DEF Due, Launching
  <2> QED BY <1>4, <2>1, <2>2, <2>3 DEF L
<1>12. t.steps = s /\ t.most = most /\ t.leaves = leaves
  BY DEF Task
<1>13. Probes(t)
  BY <1>5, <1>7, <1>12 DEF Probes, Range
<1>14. t.leaves = 0 => \E i \in DOMAIN t.steps : t.steps[i] = "terminateFirst"
  <2>1. k = 1 => 9 + m \in DOMAIN s
    BY <1>1
  <2> QED BY <1>1, <1>b, <1>12, <2>1
<1>15. Affordable(s, 0, n)
  <2> DEFINE f == [i \in DOMAIN s |-> IF i < 4 THEN 0 ELSE IF i <= 6 THEN 1
                                      ELSE IF i <= 6 + m THEN 1 + ((i - 3) \div 5) ELSE n]
  <2>1. f \in [DOMAIN s -> 0..n]
    <3>1. ASSUME NEW i \in 7..(6 + m)
          PROVE  1 + ((i - 3) \div 5) \in 0..n
      BY <1>0, <1>c
    <3> QED BY <1>0, <1>1, <3>1
  <2>2. ASSUME NEW i \in DOMAIN s
        PROVE  (IF i = 1 THEN 0 ELSE f[i - 1]) + Cost(s[i]) <= f[i]
    <3>1. i \in 1..L /\ (i = 1 \/ i - 1 \in DOMAIN s) /\ i \in Nat
      BY <1>5
    <3>2. Cost(s[i]) = IF s[i] = "launch" THEN 1 ELSE 0
      BY <1>6, <3>1 DEF Cost
    <3>3. CASE i < 7
      <4>1. s[i] = "launch" => i = 4
        BY <1>1, <3>1, <3>3
      <4> QED BY <1>0, <3>1, <3>2, <3>3, <4>1
    <3>4. CASE i \in 7..(6 + m)
      <4>1. f[i] = 1 + ((i - 3) \div 5)
        BY <1>1, <3>4
      <4>2. f[i - 1] = IF i = 7 THEN 1 ELSE 1 + (((i - 1) - 3) \div 5)
        <5>1. i - 1 \in DOMAIN s /\ i \in Nat /\ m \in Nat
          BY <1>c, <3>1, <3>4
        <5>2. CASE i = 7
          BY <5>1, <5>2
        <5>3. CASE i # 7
          <6>1. ~(i - 1 < 4) /\ ~(i - 1 <= 6) /\ i - 1 <= 6 + m
            BY <3>4, <5>1, <5>3
          <6> QED BY <5>1, <5>3, <6>1
        <5> QED BY <5>2, <5>3
      <4>3. Cost(s[i]) = IF (i - 7) % 5 = 1 THEN 1 ELSE 0
        <5>1. s[i] = "launch" <=> (i - 7) % 5 = 1
          BY <1>1, <1>4, <3>4
        <5> QED BY <3>2, <5>1
      <4>7. i \in Nat /\ i >= 7
        BY <1>c, <3>4
      <4>4. (i - 3) \div 5 = (IF i = 7 THEN 0 ELSE ((i - 1) - 3) \div 5) + (IF (i - 7) % 5 = 1 THEN 1 ELSE 0)
        BY <4>7, Fifths
      <4>5. (i - 3) \div 5 \in Nat /\ ((i - 1) - 3) \div 5 \in Nat
        BY <3>4
      <4>6. i # 1
        BY <3>4
      <4> HIDE DEF f
      <4> QED BY <4>1, <4>2, <4>3, <4>4, <4>5, <4>6
    <3>5. CASE i > 6 + m
      <4>1. s[i] # "launch" /\ f[i] = n
        BY <1>0, <1>1, <1>4, <3>1, <3>5 DEF L
      <4>2. f[i - 1] \in 0..n
        BY <1>0, <1>c, <2>1, <3>1, <3>5
      <4> QED BY <1>0, <3>1, <3>2, <3>5, <4>1, <4>2
    <3> QED BY <1>1, <3>1, <3>3, <3>4, <3>5
  <2> HIDE DEF f
  <2>3. \E g \in [DOMAIN s -> 0..n] : \A i \in DOMAIN s :
            (IF i = 1 THEN 0 ELSE g[i - 1]) + Cost(s[i]) <= g[i]
    BY <2>1, <2>2
  <2>4. 0 \in 0..n
    BY <1>0
  <2> QED BY <2>3, <2>4 DEF Affordable
<1>16. Affordable(s, 0, Limit(t))
  <2>1. CASE n = 1
    BY <1>12, <1>15, <2>1 DEF Limit
  <2>2. CASE n > 1
    <3>1. Limit(t) = Launches
      BY <1>12, <1>13, <2>2 DEF Limit
    <3> QED BY <1>0, <1>15, <3>1, MoreAffordable
  <2> QED BY <1>0, <2>1, <2>2
<1> HIDE DEF t, most
<1>17. t.steps \in Seq(Steps) /\ t.most \in 0..Launches /\ t.most \in {1, 2} /\ t.leaves \in {0, 1}
  BY <1>0, <1>3, <1>7, <1>12
<1>18. /\ InOrder(t.steps) /\ Comes(t.steps, NeedsKey, GivesKey) /\ Comes(t.steps, Mutating, {"gate"})
       /\ ProbeSteps(t.steps, 0) /\ Affordable(t.steps, 0, Limit(t))
  BY <1>8, <1>9, <1>10, <1>11, <1>12, <1>16
<1>19. Sound(t)
  BY <1>13, <1>14, <1>17, <1>18 DEF Sound
<1> QED BY <1>19 DEF t, s, most, leaves

\* Every handler is sound.
LEMMA TasksAreSound == \A t \in Tasks : Sound(t)
BY BootstrapIsSound, BuildIsSound, TokenIsSound, ImagesAreSound, CallIsSound, VmJobIsSound,
   FleetJobsAreSound, VmsAreSound, ScaleIsSound, FleetVerbIsSound, LifecycleIsSound,
   LeaseRunIsSound, RunIsSound, ManyIsSound, ProbeIsSound DEF Tasks

-----------------------------------------------------------------------------
(* The invariant. *)

Ended(s) == \E i \in DOMAIN s : s[i] \in Ends

\* A request that is not under way has nothing left of it.
RestInv(a) == result[a] # "going" =>
    /\ todo[a] = <<>> /\ using[a] = None /\ made[a] = None /\ held[a] = None
    /\ ~sample[a] /\ ~sent[a] /\ ~wasLive[a] /\ ~toggled[a] /\ ~crossed[a]
    /\ launched[a] = 0 /\ own[a] = {}

\* What is left to do is in order; a key is read before it is needed, and a client is
\* made right before it is kept.
PlanInv(a) ==
    /\ InOrder(todo[a])
    /\ held[a] \in Keys \/ Comes(todo[a], NeedsKey, GivesKey)
    /\ todo[a] # <<>> /\ todo[a][1] \in {"keep", "store"} => made[a] \in Client
    /\ sample[a] => \A i \in DOMAIN todo[a] : todo[a][i] # "build"

\* Without a gate before what it sends next, a request has run while dry run was off.
DryInv(a) ==
    /\ result[a] = "going" /\ ~dry => wasLive[a]
    /\ wasLive[a] /\ ~toggled[a] => ~dry
    /\ sample[a] /\ ~toggled[a] => dry
    /\ wasLive[a] \/ Comes(todo[a], Mutating, {"gate"})
    /\ sent[a] => wasLive[a]

\* What it has launched leaves room for what it has yet to launch, and once it has
\* launched it is not turned away.
FootInv(a) == result[a] = "going" =>
    /\ task[a] \in Tasks
    /\ own[a] \subseteq 1..launched[a]
    /\ Affordable(todo[a], launched[a], Limit(task[a]))
    /\ launched[a] > 0 => \A i \in DOMAIN todo[a] : todo[a][i] \notin Deciding \union {"dry", "refused"}
    /\ ~Probes(task[a]) => PlainSteps(todo[a])

\* A probe has its first microVM and its last one, and the last one only until it is
\* terminated.
ProbeInv(a) == result[a] = "going" /\ Probes(task[a]) =>
    /\ own[a] \subseteq {1, launched[a]}
    /\ Ended(todo[a]) \/ Due(todo[a], 0) \/ own[a] \subseteq {1}
    /\ ProbeSteps(todo[a], launched[a])
    /\ task[a].leaves = 0 =>
         \/ Ended(todo[a]) \/ (todo[a] = <<>> /\ own[a] = {})
         \/ \E i \in DOMAIN todo[a] : todo[a][i] = "terminateFirst"

Phase == switch[1]
Good  == [who |-> Who(cfg), hooks |-> 1]
Clearing == {"sessions", "accounts", "clients", "traced", "ensure"}

\* What is kept is of the session that is configured, as far as the switch has come.
SessionInv ==
    /\ \A k \in Keys : sess[k] = None \/ (sess[k] \in Client /\ sess[k].hooks \in 0..1)
    /\ switch \in {Idle, <<"dry", "idle">>, <<"verify", "idle">>} \union (Clearing \X {"idle", "verify"})
    /\ switch # Idle => \A a \in Going : crossed[a]
    /\ Phase \in Clearing \ {"sessions"} =>
         \A k \in Keys : sess[k] \in {None, [who |-> Who(k), hooks |-> 0]}
    /\ Phase = "ensure" => traced = {}

KeptInv == ~poisoned =>
    /\ Phase \in {"clients", "traced", "ensure"} => \A k \in Keys : accounts[k] = None
    /\ Phase \in {"traced", "ensure"} => monitor = None /\ \A k \in Keys : clients[k] = None
    /\ Phase \in {"idle", "verify"} =>
         /\ sess[cfg] = Good /\ accounts[cfg] \in {None, Who(cfg)} /\ clients[cfg] \in {None, Good}
         /\ monitor # None /\ monitor.key = cfg => monitor.client = Good

\* A request that no switch has crossed works with that session.
ActInv(a) == result[a] = "going" /\ ~poisoned /\ ~crossed[a] =>
    /\ using[a] \in {None, Good}
    /\ todo[a] # <<>> /\ todo[a][1] \in {"keep", "store"} => made[a] = Good
    /\ held[a] = cfg \/ Comes(todo[a], NeedsKey, GivesKey)

RunInv ==
    /\ RunTypeOK /\ SessionInv /\ KeptInv
    /\ \A a \in Requests : /\ RestInv(a) /\ PlanInv(a) /\ DryInv(a)
                           /\ FootInv(a) /\ ProbeInv(a) /\ ActInv(a)

-----------------------------------------------------------------------------
(* Steps that are past. *)

\* What is left when n steps are past.
LEMMA Rest ==
    ASSUME NEW s \in Seq(Steps), NEW n \in 0..Len(s)
    PROVE  LET u == SubSeq(s, n + 1, Len(s))
           IN  /\ u \in Seq(Steps) /\ Len(u) = Len(s) - n /\ DOMAIN u = 1..(Len(s) - n)
               /\ \A i \in 1..(Len(s) - n) : u[i] = s[n + i]
<1> DEFINE u == SubSeq(s, n + 1, Len(s))
<1>1. Len(s) \in Nat /\ n \in Nat /\ n <= Len(s)
  BY LenProperties
<1>2. \A i \in (n + 1)..Len(s) : s[i] \in Steps
  BY <1>1
<1>3. /\ u \in Seq(Steps) /\ Len(u) = IF n + 1 <= Len(s) THEN Len(s) - (n + 1) + 1 ELSE 0
      /\ \A i \in 1..(Len(s) - (n + 1) + 1) : u[i] = s[(n + 1) + i - 1]
  BY <1>1, <1>2, SubSeqProperties
<1> HIDE DEF u
<1>4. Len(u) = Len(s) - n
  BY <1>1, <1>3
<1>5. \A i \in 1..(Len(s) - n) : u[i] = s[n + i]
  <2> SUFFICES ASSUME NEW i \in 1..(Len(s) - n)
               PROVE  u[i] = s[n + i]
    OBVIOUS
  <2>1. i \in 1..(Len(s) - (n + 1) + 1) /\ (n + 1) + i - 1 = n + i
    BY <1>1
  <2> QED BY <1>3, <2>1
<1>6. DOMAIN u = 1..Len(u)
  BY <1>3, LenProperties
<1> QED BY <1>3, <1>4, <1>5, <1>6 DEF u

\* It is in order.
LEMMA RestInOrder ==
    ASSUME NEW s \in Seq(Steps), InOrder(s), NEW n \in 0..Len(s)
    PROVE  InOrder(SubSeq(s, n + 1, Len(s)))
<1> DEFINE u == SubSeq(s, n + 1, Len(s))
           m == Len(s) - n
<1>1. Len(s) \in Nat /\ n \in Nat /\ n <= Len(s) /\ m \in Nat /\ DOMAIN s = 1..Len(s)
  BY LenProperties
<1>2. Len(u) = m /\ DOMAIN u = 1..m /\ \A i \in 1..m : u[i] = s[n + i]
  BY Rest
<1> HIDE DEF u, m
<1>3. Len(s) = n + m
  BY <1>1 DEF m
<1>4. \A i \in 1..m : n + i \in 1..(n + m) /\ (i > 1 => (n + i) - 1 = n + (i - 1)) /\ (n + i) + 1 = n + (i + 1)
  BY <1>1
<1>5. ASSUME NEW x, NEW y, Leads(s, x, y)
      PROVE  Leads(u, x, y)
  <2> SUFFICES ASSUME NEW i \in 1..m, u[i] = x
               PROVE  i < m /\ u[i + 1] = y
    BY <1>2 DEF Leads
  <2>1. s[n + i] = x /\ n + i \in DOMAIN s
    BY <1>1, <1>2, <1>3, <1>4
  <2>2. n + i < n + m /\ s[(n + i) + 1] = y
    BY <1>3, <1>5, <2>1 DEF Leads
  <2>3. i < m /\ i + 1 \in 1..m
    BY <1>1, <2>2
  <2> QED BY <1>2, <1>4, <2>2, <2>3
<1>6. ASSUME NEW x, NEW y, Follows(s, x, y)
      PROVE  Follows(u, x, y)
  <2> SUFFICES ASSUME NEW i \in 1..m, u[i] = y, i > 1
               PROVE  u[i - 1] = x
    BY <1>2 DEF Follows
  <2>1. s[n + i] = y /\ n + i \in DOMAIN s
    BY <1>1, <1>2, <1>3, <1>4
  <2>2. n + i > 1 /\ i - 1 \in 1..m /\ (n + i) - 1 = n + (i - 1)
    BY <1>1
  <2>3. s[(n + i) - 1] = x
    BY <1>6, <2>1, <2>2 DEF Follows
  <2> QED BY <1>2, <2>2, <2>3
<1>7. ASSUME NEW x, NEW y, Precede(s, x, y)
      PROVE  Precede(u, x, y)
  <2> SUFFICES ASSUME NEW i \in 1..m, NEW j \in 1..m, u[i] \in x, u[j] \in y
               PROVE  i < j
    BY <1>2 DEF Precede
  <2>1. s[n + i] \in x /\ s[n + j] \in y /\ n + i \in DOMAIN s /\ n + j \in DOMAIN s
    BY <1>1, <1>2, <1>3, <1>4
  <2>2. n + i < n + j
    BY <1>7, <2>1 DEF Precede
  <2> QED BY <1>1, <2>2
<1>8. ASSUME NEW i \in DOMAIN u, u[i] = "terminateFirst"
      PROVE  i = Len(u)
  <2>1. i \in 1..m /\ n + i \in DOMAIN s /\ s[n + i] = "terminateFirst"
    BY <1>1, <1>2, <1>3, <1>4, <1>8
  <2>2. n + i = n + m
    BY <1>3, <2>1 DEF InOrder
  <2> QED BY <1>1, <1>2, <2>1, <2>2
<1>9. ASSUME NEW i \in DOMAIN u, u[i] \in Ends
      PROVE  Len(u) = 1
  <2>1. i \in 1..m /\ n + i \in DOMAIN s /\ s[n + i] \in Ends
    BY <1>1, <1>2, <1>3, <1>4, <1>9
  <2>2. n + m = 1
    BY <1>3, <2>1 DEF InOrder
  <2> QED BY <1>1, <1>2, <2>1, <2>2
<1> QED BY <1>5, <1>6, <1>7, <1>8, <1>9 DEF InOrder, u

\* What is needed still comes first, unless it is past.
LEMMA RestComes ==
    ASSUME NEW s \in Seq(Steps), NEW what, NEW need, Comes(s, what, need), NEW n \in 0..Len(s),
           \A i \in 1..n : s[i] \notin need
    PROVE  Comes(SubSeq(s, n + 1, Len(s)), what, need)
<1> DEFINE u == SubSeq(s, n + 1, Len(s))
           m == Len(s) - n
<1>1. Len(s) \in Nat /\ n \in Nat /\ n <= Len(s) /\ m \in Nat /\ DOMAIN s = 1..Len(s)
  BY LenProperties
<1>2. Len(u) = m /\ DOMAIN u = 1..m /\ \A i \in 1..m : u[i] = s[n + i]
  BY Rest
<1> HIDE DEF u, m
<1>3. Len(s) = n + m
  BY <1>1 DEF m
<1>4. SUFFICES ASSUME NEW i \in 1..m, u[i] \in what
               PROVE  \E j \in 1..(i - 1) : u[j] \in need
  BY <1>2 DEF Comes, u
<1>5. n + i \in DOMAIN s /\ s[n + i] \in what
  BY <1>1, <1>2, <1>3, <1>4
<1>6. PICK j \in 1..((n + i) - 1) : s[j] \in need
  BY <1>5 DEF Comes
<1>7. j > n
  BY <1>1, <1>6
<1>8. j - n \in 1..(i - 1) /\ j - n \in 1..m /\ n + (j - n) = j
  BY <1>1, <1>7
<1> QED BY <1>2, <1>6, <1>8

\* Nothing comes after the end.
LEMMA EndsInOrder ==
    ASSUME NEW how \in Ends
    PROVE  /\ <<how>> \in Seq(Steps) /\ InOrder(<<how>>)
           /\ Comes(<<how>>, NeedsKey, GivesKey) /\ Comes(<<how>>, Mutating, {"gate"})
BY DEF Ends, Steps, InOrder, Leads, Follows, Precede, Comes, Deciding, Launching, NeedsKey,
       GivesKey, Mutating

-----------------------------------------------------------------------------
(* What a step of a request does to it. *)

\* Nothing of a request changes.
Untouched(b) ==
    /\ todo'[b] = todo[b] /\ result'[b] = result[b] /\ task'[b] = task[b]
    /\ held'[b] = held[b] /\ made'[b] = made[b] /\ using'[b] = using[b] /\ sample'[b] = sample[b]
    /\ sent'[b] = sent[b] /\ launched'[b] = launched[b] /\ own'[b] = own[b]
    /\ wasLive'[b] = wasLive[b] /\ toggled'[b] = toggled[b] /\ crossed'[b] = crossed[b]

\* A step changes what its own request has and knows, and neither what it is nor dry run.
Own(a) ==
    /\ todo' = [todo EXCEPT ![a] = todo'[a]] /\ held' = [held EXCEPT ![a] = held'[a]]
    /\ made' = [made EXCEPT ![a] = made'[a]] /\ using' = [using EXCEPT ![a] = using'[a]]
    /\ sample' = [sample EXCEPT ![a] = sample'[a]] /\ sent' = [sent EXCEPT ![a] = sent'[a]]
    /\ launched' = [launched EXCEPT ![a] = launched'[a]] /\ own' = [own EXCEPT ![a] = own'[a]]
    /\ crossed' = [crossed EXCEPT ![a] = crossed'[a]]
    /\ UNCHANGED <<dry, env, traced, switching, task, result, dryPast>>

\* a has n steps behind it: one, or with it those that its answer makes needless.
Skips(s, n) ==
    /\ n \in 1..3 /\ n <= Len(s)
    /\ n > 1 => s[1] \in {"account", "ask", "lookup"} /\ s[n] \in {"keep", "store"}
    /\ \A i \in 2..n : s[i] \in {"ask", "keep", "build", "store"}
Cleared(a, n) == Skips(todo[a], n) /\ todo'[a] = SubSeq(todo[a], n + 1, Len(todo[a]))

\* It goes no further.
Stopped(a) == \E how \in Ends : /\ todo'[a] = <<how>>
                                /\ how \in {"dry", "refused"} => todo[a][1] \in Deciding

\* What it has in hand.
Hands(a, step) ==
    /\ held'[a] = cfg \/ (held'[a] = held[a] /\ step \notin GivesKey)
    /\ sample'[a] = sample[a] \/ (sample'[a] = dry /\ step = "manager")
    /\ sent'[a] = sent[a] \/ (sent'[a] = TRUE /\ step \in Mutating)
    /\ step = "gate" => Stopped(a) \/ ~dry
    /\ \/ made'[a] = made[a] /\ (step \in {"ask", "build"} =>
            Stopped(a) \/ Cleared(a, 2) \/ (sample[a] /\ step = "build"))
       \/ step = "ask" /\ made'[a] = SessionOf(held[a])
       \/ step = "build" /\ made'[a] = SessionOf(cfg)
    /\ crossed'[a] = crossed[a] \/ (crossed'[a] = (switch # Idle) /\ step \in GivesKey \union {"serve"})

\* What it uses, and has kept.
Uses(a, step) ==
    /\ \/ using'[a] = using[a] /\ step \notin GivesKey \union {"serve", "store", "monitor"}
       \/ using'[a] \in {None, clients[cfg], SessionOf(cfg)}
            /\ step \in GivesKey \union {"serve"}
       \/ Store(a) \/ Monitor(a)
    /\ \/ UNCHANGED <<accounts, clients, monitor, cfg, poisoned>>
            /\ \/ UNCHANGED sess
               \/ OpenSession(cfg)
               \/ step = "ask" /\ OpenSession(held[a])
       \/ KeepAccount(a) \/ Store(a) \/ Monitor(a) \/ WriteConfig(a)

\* The microVMs it has.
Has(a, step) ==
    /\ \E w \in 0..Cost(step) :
          /\ launched'[a] = launched[a] + w
          /\ own'[a] \subseteq own[a] \union ((launched[a] + 1)..(launched[a] + w))
    /\ step = "terminateLast" => Stopped(a) \/ launched[a] \notin own'[a]
    /\ step = "terminateFirst" => Stopped(a) \/ 1 \notin own'[a]

Does(a) ==
    \E step \in Steps \ Ends :
        /\ result[a] = "going" /\ todo[a] # <<>> /\ todo[a][1] = step
        /\ Own(a) /\ (Stopped(a) \/ \E n \in 1..3 : Cleared(a, n))
        /\ Hands(a, step) /\ Uses(a, step) /\ Has(a, step)

\* What is left of a request that is at a step.
LEMMA AtFirst ==
    ASSUME NEW a, NEW step, todo[a] \in Seq(Steps), At(a, step)
    PROVE  /\ result[a] = "going" /\ todo[a] # <<>> /\ Len(todo[a]) \in Nat /\ 1 <= Len(todo[a])
           /\ todo[a][1] = step /\ DOMAIN todo[a] = 1..Len(todo[a])
BY DEF At

\* One step is past.
LEMMA OnePast ==
    ASSUME NEW a \in Requests, RunTypeOK, NEW step, At(a, step), Past(a, 1)
    PROVE  Cleared(a, 1) /\ todo' = [todo EXCEPT ![a] = todo'[a]] /\ result' = result
<1>1. todo[a] \in Seq(Steps) /\ todo \in [Requests -> Seq(Steps)]
  BY DEF RunTypeOK
<1>2. Len(todo[a]) \in Nat /\ 1 <= Len(todo[a])
  BY <1>1, AtFirst
<1>3. todo' = [todo EXCEPT ![a] = SubSeq(todo[a], 1 + 1, Len(todo[a]))] /\ result' = result
  BY DEF Past
<1>4. todo'[a] = SubSeq(todo[a], 1 + 1, Len(todo[a]))
  BY <1>1, <1>3
<1>5. Skips(todo[a], 1)
  BY <1>2 DEF Skips
<1> QED BY <1>3, <1>4, <1>5 DEF Cleared

\* The answer is known.
LEMMA IsStopped ==
    ASSUME NEW a \in Requests, RunTypeOK, NEW step, At(a, step), NEW how \in Ends, End(a, how),
           how \in {"dry", "refused"} => step \in Deciding
    PROVE  Stopped(a) /\ todo' = [todo EXCEPT ![a] = todo'[a]] /\ result' = result
<1>1. todo[a] \in Seq(Steps) /\ todo \in [Requests -> Seq(Steps)]
  BY DEF RunTypeOK
<1>2. todo[a][1] = step
  BY <1>1, AtFirst
<1>3. todo' = [todo EXCEPT ![a] = <<how>>] /\ result' = result
  BY DEF End
<1>4. todo'[a] = <<how>>
  BY <1>1, <1>3
<1> QED BY <1>2, <1>3, <1>4 DEF Stopped

\* A function that is defined on Requests is not changed by a value it has.
LEMMA SameAt == \A a \in Requests : \A f : f = [b \in Requests |-> f[b]] => f = [f EXCEPT ![a] = f[a]]
OBVIOUS

\* fm().
LEMMA ManagerDoes == ASSUME NEW a \in Requests, RunTypeOK, Manager(a) PROVE Does(a)
<1>1. At(a, "manager") /\ Past(a, 1)
  BY DEF Manager
<1>2. Cleared(a, 1) /\ todo' = [todo EXCEPT ![a] = todo'[a]] /\ result' = result
  BY <1>1, OnePast
<1>3. todo[a] # <<>> /\ todo[a][1] = "manager" /\ result[a] = "going"
  BY <1>1, AtFirst DEF RunTypeOK
<1>4. held'[a] = cfg /\ using'[a] = SessionOf(cfg)
  BY DEF Manager, Cross, RunTypeOK
<1>5. sample'[a] = dry
  BY DEF Manager, Cross, RunTypeOK
<1>6. crossed'[a] = (switch # Idle)
  BY DEF Manager, Cross, RunTypeOK
<1>7. Own(a)
  BY <1>2, SameAt DEF Own, RunTypeOK, Manager, session, caches, hands, effects, switching, dryPast, Cross, Poison
<1>8. Hands(a, "manager")
  BY <1>4, <1>5, <1>6, <1>2 DEF Hands, GivesKey, Mutating, Manager, session, caches, hands, effects, switching, dryPast, Cross, Poison
<1>9. Uses(a, "manager")
  BY <1>4, <1>5, <1>6, <1>2 DEF Uses, GivesKey, Manager, session, caches, hands, effects, switching, dryPast, Cross, Poison
<1>10. Has(a, "manager")
  BY <1>4, <1>5, <1>6, <1>2 DEF Has, Cost, RunTypeOK, Manager, session, caches, hands, effects, switching, dryPast, Cross, Poison
<1> QED BY <1>2, <1>3, <1>7, <1>8, <1>9, <1>10 DEF Does, Steps, Ends

\* A client of the API.
LEMMA ApiDoes == ASSUME NEW a \in Requests, RunTypeOK, Api(a) PROVE Does(a)
<1>1. At(a, "api") /\ Past(a, 1)
  BY DEF Api
<1>2. Cleared(a, 1) /\ todo' = [todo EXCEPT ![a] = todo'[a]] /\ result' = result
  BY <1>1, OnePast
<1>3. todo[a] # <<>> /\ todo[a][1] = "api" /\ result[a] = "going"
  BY <1>1, AtFirst DEF RunTypeOK
<1>4. held'[a] = cfg /\ using'[a] = SessionOf(cfg)
  BY DEF Api, Cross, RunTypeOK
<1>5. crossed'[a] = (switch # Idle)
  BY DEF Api, Cross, RunTypeOK
<1>6. Own(a)
  BY <1>2, SameAt DEF Own, RunTypeOK, Api, session, caches, hands, effects, switching, dryPast, Cross, Poison
<1>7. Hands(a, "api")
  BY <1>4, <1>5, <1>2 DEF Hands, GivesKey, Mutating, Api, session, caches, hands, effects, switching, dryPast, Cross, Poison
<1>8. Uses(a, "api")
  BY <1>4, <1>5, <1>2 DEF Uses, GivesKey, Api, session, caches, hands, effects, switching, dryPast, Cross, Poison
<1>9. Has(a, "api")
  BY <1>4, <1>5, <1>2 DEF Has, Cost, RunTypeOK, Api, session, caches, hands, effects, switching, dryPast, Cross, Poison
<1> QED BY <1>2, <1>3, <1>6, <1>7, <1>8, <1>9 DEF Does, Steps, Ends

\* The account is asked for.
LEMMA AskDoes == ASSUME NEW a \in Requests, RunTypeOK, Ask(a) PROVE Does(a)
<1>1. At(a, "ask") /\ Past(a, 1)
  BY DEF Ask
<1>2. Cleared(a, 1) /\ todo' = [todo EXCEPT ![a] = todo'[a]] /\ result' = result
  BY <1>1, OnePast
<1>3. todo[a] # <<>> /\ todo[a][1] = "ask" /\ result[a] = "going"
  BY <1>1, AtFirst DEF RunTypeOK
<1>4. made'[a] = SessionOf(held[a])
  BY DEF Ask, Cross, RunTypeOK
<1>5. Own(a)
  BY <1>2, SameAt DEF Own, RunTypeOK, Ask, session, caches, hands, effects, switching, dryPast, Cross, Poison
<1>6. Hands(a, "ask")
  BY <1>4, <1>2 DEF Hands, GivesKey, Mutating, Ask, session, caches, hands, effects, switching, dryPast, Cross, Poison
<1>7. Uses(a, "ask")
  BY <1>4, <1>2 DEF Uses, GivesKey, Ask, session, caches, hands, effects, switching, dryPast, Cross, Poison
<1>8. Has(a, "ask")
  BY <1>4, <1>2 DEF Has, Cost, RunTypeOK, Ask, session, caches, hands, effects, switching, dryPast, Cross, Poison
<1> QED BY <1>2, <1>3, <1>5, <1>6, <1>7, <1>8 DEF Does, Steps, Ends

\* The account is kept.
LEMMA KeepAccountDoes == ASSUME NEW a \in Requests, RunTypeOK, KeepAccount(a) PROVE Does(a)
<1>1. At(a, "keep") /\ Past(a, 1)
  BY DEF KeepAccount
<1>2. Cleared(a, 1) /\ todo' = [todo EXCEPT ![a] = todo'[a]] /\ result' = result
  BY <1>1, OnePast
<1>3. todo[a] # <<>> /\ todo[a][1] = "keep" /\ result[a] = "going"
  BY <1>1, AtFirst DEF RunTypeOK
<1>4. Own(a)
  BY <1>2, SameAt DEF Own, RunTypeOK, KeepAccount, session, caches, hands, effects, switching, dryPast, Cross, Poison
<1>5. Hands(a, "keep")
  BY <1>2 DEF Hands, GivesKey, Mutating, KeepAccount, session, caches, hands, effects, switching, dryPast, Cross, Poison
<1>6. Uses(a, "keep")
  BY <1>2 DEF Uses, GivesKey, KeepAccount, session, caches, hands, effects, switching, dryPast, Cross, Poison
<1>7. Has(a, "keep")
  BY <1>2 DEF Has, Cost, RunTypeOK, KeepAccount, session, caches, hands, effects, switching, dryPast, Cross, Poison
<1> QED BY <1>2, <1>3, <1>4, <1>5, <1>6, <1>7 DEF Does, Steps, Ends

\* A client is made.
LEMMA BuildDoes == ASSUME NEW a \in Requests, RunTypeOK, Build(a) PROVE Does(a)
<1>1. At(a, "build") /\ Past(a, 1)
  BY DEF Build
<1>2. Cleared(a, 1) /\ todo' = [todo EXCEPT ![a] = todo'[a]] /\ result' = result
  BY <1>1, OnePast
<1>3. todo[a] # <<>> /\ todo[a][1] = "build" /\ result[a] = "going"
  BY <1>1, AtFirst DEF RunTypeOK
<1>4. made'[a] = SessionOf(cfg)
  BY DEF Build, Cross, RunTypeOK
<1>5. Own(a)
  BY <1>2, SameAt DEF Own, RunTypeOK, Build, session, caches, hands, effects, switching, dryPast, Cross, Poison
<1>6. Hands(a, "build")
  BY <1>4, <1>2 DEF Hands, GivesKey, Mutating, Build, session, caches, hands, effects, switching, dryPast, Cross, Poison
<1>7. Uses(a, "build")
  BY <1>4, <1>2 DEF Uses, GivesKey, Build, session, caches, hands, effects, switching, dryPast, Cross, Poison
<1>8. Has(a, "build")
  BY <1>4, <1>2 DEF Has, Cost, RunTypeOK, Build, session, caches, hands, effects, switching, dryPast, Cross, Poison
<1> QED BY <1>2, <1>3, <1>5, <1>6, <1>7, <1>8 DEF Does, Steps, Ends

\* It is kept.
LEMMA StoreDoes == ASSUME NEW a \in Requests, RunTypeOK, Store(a) PROVE Does(a)
<1>1. At(a, "store") /\ Past(a, 1)
  BY DEF Store
<1>2. Cleared(a, 1) /\ todo' = [todo EXCEPT ![a] = todo'[a]] /\ result' = result
  BY <1>1, OnePast
<1>3. todo[a] # <<>> /\ todo[a][1] = "store" /\ result[a] = "going"
  BY <1>1, AtFirst DEF RunTypeOK
<1>4. Own(a)
  BY <1>2, SameAt DEF Own, RunTypeOK, Store, session, caches, hands, effects, switching, dryPast, Cross, Poison
<1>5. Hands(a, "store")
  BY <1>2 DEF Hands, GivesKey, Mutating, Store, session, caches, hands, effects, switching, dryPast, Cross, Poison
<1>6. Uses(a, "store")
  BY <1>2 DEF Uses, GivesKey, Store, session, caches, hands, effects, switching, dryPast, Cross, Poison
<1>7. Has(a, "store")
  BY <1>2 DEF Has, Cost, RunTypeOK, Store, session, caches, hands, effects, switching, dryPast, Cross, Poison
<1> QED BY <1>2, <1>3, <1>4, <1>5, <1>6, <1>7 DEF Does, Steps, Ends

\* The key of the monitor.
LEMMA MonitorKeyDoes == ASSUME NEW a \in Requests, RunTypeOK, MonitorKey(a) PROVE Does(a)
<1>1. At(a, "key") /\ Past(a, 1)
  BY DEF MonitorKey
<1>2. Cleared(a, 1) /\ todo' = [todo EXCEPT ![a] = todo'[a]] /\ result' = result
  BY <1>1, OnePast
<1>3. todo[a] # <<>> /\ todo[a][1] = "key" /\ result[a] = "going"
  BY <1>1, AtFirst DEF RunTypeOK
<1>4. held'[a] = cfg /\ using'[a] = None
  BY DEF MonitorKey, Cross, RunTypeOK
<1>5. crossed'[a] = (switch # Idle)
  BY DEF MonitorKey, Cross, RunTypeOK
<1>6. Own(a)
  BY <1>2, SameAt DEF Own, RunTypeOK, MonitorKey, session, caches, hands, effects, switching, dryPast, Cross, Poison
<1>7. Hands(a, "key")
  BY <1>4, <1>5, <1>2 DEF Hands, GivesKey, Mutating, MonitorKey, session, caches, hands, effects, switching, dryPast, Cross, Poison
<1>8. Uses(a, "key")
  BY <1>4, <1>5, <1>2 DEF Uses, GivesKey, MonitorKey, session, caches, hands, effects, switching, dryPast, Cross, Poison
<1>9. Has(a, "key")
  BY <1>4, <1>5, <1>2 DEF Has, Cost, RunTypeOK, MonitorKey, session, caches, hands, effects, switching, dryPast, Cross, Poison
<1> QED BY <1>2, <1>3, <1>6, <1>7, <1>8, <1>9 DEF Does, Steps, Ends

\* The monitor.
LEMMA MonitorDoes == ASSUME NEW a \in Requests, RunTypeOK, Monitor(a) PROVE Does(a)
<1>1. At(a, "monitor") /\ Past(a, 1)
  BY DEF Monitor
<1>2. Cleared(a, 1) /\ todo' = [todo EXCEPT ![a] = todo'[a]] /\ result' = result
  BY <1>1, OnePast
<1>3. todo[a] # <<>> /\ todo[a][1] = "monitor" /\ result[a] = "going"
  BY <1>1, AtFirst DEF RunTypeOK
<1>4. Own(a)
  BY <1>2, SameAt DEF Own, RunTypeOK, Monitor, session, caches, hands, effects, switching, dryPast, Cross, Poison
<1>5. Hands(a, "monitor")
  BY <1>2 DEF Hands, GivesKey, Mutating, Monitor, session, caches, hands, effects, switching, dryPast, Cross, Poison
<1>6. Uses(a, "monitor")
  BY <1>2 DEF Uses, GivesKey, Monitor, session, caches, hands, effects, switching, dryPast, Cross, Poison
<1>7. Has(a, "monitor")
  BY <1>2 DEF Has, Cost, RunTypeOK, Monitor, session, caches, hands, effects, switching, dryPast, Cross, Poison
<1> QED BY <1>2, <1>3, <1>4, <1>5, <1>6, <1>7 DEF Does, Steps, Ends

\* A call that changes something.
LEMMA MutateDoes == ASSUME NEW a \in Requests, RunTypeOK, Mutate(a) PROVE Does(a)
<1>1. At(a, "mutate") /\ (Past(a, 1) \/ End(a, "failed"))
  BY DEF Mutate
<1>2. (Cleared(a, 1) \/ Stopped(a)) /\ todo' = [todo EXCEPT ![a] = todo'[a]] /\ result' = result
  BY <1>1, OnePast, IsStopped DEF Ends
<1>3. todo[a] # <<>> /\ todo[a][1] = "mutate" /\ result[a] = "going"
  BY <1>1, AtFirst DEF RunTypeOK
<1>4. Own(a)
  BY <1>2, SameAt DEF Own, RunTypeOK, Mutate, session, caches, hands, effects, switching, dryPast, Cross, Poison
<1>5. Hands(a, "mutate")
  <2>1. sent'[a] = TRUE
    BY DEF Mutate, RunTypeOK
  <2> QED BY <1>2, <2>1 DEF Hands, GivesKey, Mutating, Mutate, session, caches, hands, effects, switching, dryPast, Cross, Poison
<1>6. Uses(a, "mutate")
  BY <1>2 DEF Uses, GivesKey, Mutate, session, caches, hands, effects, switching, dryPast, Cross, Poison
<1>7. Has(a, "mutate")
  BY <1>2 DEF Has, Cost, RunTypeOK, Mutate, session, caches, hands, effects, switching, dryPast, Cross, Poison
<1> QED BY <1>2, <1>3, <1>4, <1>5, <1>6, <1>7 DEF Does, Steps, Ends

\* Suspending and resuming.
LEMMA CycleDoes == ASSUME NEW a \in Requests, RunTypeOK, Cycle(a) PROVE Does(a)
<1>1. At(a, "cycle") /\ (Past(a, 1) \/ End(a, "failed"))
  BY DEF Cycle
<1>2. (Cleared(a, 1) \/ Stopped(a)) /\ todo' = [todo EXCEPT ![a] = todo'[a]] /\ result' = result
  BY <1>1, OnePast, IsStopped DEF Ends
<1>3. todo[a] # <<>> /\ todo[a][1] = "cycle" /\ result[a] = "going"
  BY <1>1, AtFirst DEF RunTypeOK
<1>4. Own(a)
  BY <1>2, SameAt DEF Own, RunTypeOK, Cycle, session, caches, hands, effects, switching, dryPast, Cross, Poison
<1>5. Hands(a, "cycle")
  <2>1. sent'[a] = sent[a] \/ sent'[a] = TRUE
    BY DEF Cycle, RunTypeOK
  <2> QED BY <1>2, <2>1 DEF Hands, GivesKey, Mutating, Cycle, session, caches, hands, effects, switching, dryPast, Cross, Poison
<1>6. Uses(a, "cycle")
  BY <1>2 DEF Uses, GivesKey, Cycle, session, caches, hands, effects, switching, dryPast, Cross, Poison
<1>7. Has(a, "cycle")
  BY <1>2 DEF Has, Cost, RunTypeOK, Cycle, session, caches, hands, effects, switching, dryPast, Cross, Poison
<1> QED BY <1>2, <1>3, <1>4, <1>5, <1>6, <1>7 DEF Does, Steps, Ends

\* wait_until.
LEMMA WaitDoes == ASSUME NEW a \in Requests, RunTypeOK, Wait(a) PROVE Does(a)
<1>1. At(a, "wait") /\ (Past(a, 1) \/ End(a, "failed"))
  BY DEF Wait
<1>2. (Cleared(a, 1) \/ Stopped(a)) /\ todo' = [todo EXCEPT ![a] = todo'[a]] /\ result' = result
  BY <1>1, OnePast, IsStopped DEF Ends
<1>3. todo[a] # <<>> /\ todo[a][1] = "wait" /\ result[a] = "going"
  BY <1>1, AtFirst DEF RunTypeOK
<1>4. Own(a)
  BY <1>2, SameAt DEF Own, RunTypeOK, Wait, session, caches, hands, effects, switching, dryPast, Cross, Poison
<1>5. Hands(a, "wait")
  BY <1>2 DEF Hands, GivesKey, Mutating, Wait, session, caches, hands, effects, switching, dryPast, Cross, Poison
<1>6. Uses(a, "wait")
  BY <1>2 DEF Uses, GivesKey, Wait, session, caches, hands, effects, switching, dryPast, Cross, Poison
<1>7. Has(a, "wait")
  BY <1>2 DEF Has, Cost, RunTypeOK, Wait, session, caches, hands, effects, switching, dryPast, Cross, Poison
<1> QED BY <1>2, <1>3, <1>4, <1>5, <1>6, <1>7 DEF Does, Steps, Ends

\* The first request to a microVM.
LEMMA ReachDoes == ASSUME NEW a \in Requests, RunTypeOK, Reach(a) PROVE Does(a)
<1>1. At(a, "serve") /\ (Past(a, 1) \/ End(a, "failed"))
  BY DEF Reach
<1>2. (Cleared(a, 1) \/ Stopped(a)) /\ todo' = [todo EXCEPT ![a] = todo'[a]] /\ result' = result
  BY <1>1, OnePast, IsStopped DEF Ends
<1>3. todo[a] # <<>> /\ todo[a][1] = "serve" /\ result[a] = "going"
  BY <1>1, AtFirst DEF RunTypeOK
<1>4. using'[a] = SessionOf(cfg)
  BY DEF Reach, Cross, RunTypeOK
<1>5. crossed'[a] = (switch # Idle)
  BY DEF Reach, Cross, RunTypeOK
<1>6. Own(a)
  BY <1>2, SameAt DEF Own, RunTypeOK, Reach, session, caches, hands, effects, switching, dryPast, Cross, Poison
<1>7. Hands(a, "serve")
  BY <1>4, <1>5, <1>2 DEF Hands, GivesKey, Mutating, Reach, session, caches, hands, effects, switching, dryPast, Cross, Poison
<1>8. Uses(a, "serve")
  BY <1>4, <1>5, <1>2 DEF Uses, GivesKey, Reach, session, caches, hands, effects, switching, dryPast, Cross, Poison
<1>9. Has(a, "serve")
  BY <1>4, <1>5, <1>2 DEF Has, Cost, RunTypeOK, Reach, session, caches, hands, effects, switching, dryPast, Cross, Poison
<1> QED BY <1>2, <1>3, <1>6, <1>7, <1>8, <1>9 DEF Does, Steps, Ends

\* The configuration is read once more.
LEMMA ReadConfigDoes == ASSUME NEW a \in Requests, RunTypeOK, ReadConfig(a) PROVE Does(a)
<1>1. At(a, "readConfig") /\ Past(a, 1)
  BY DEF ReadConfig
<1>2. Cleared(a, 1) /\ todo' = [todo EXCEPT ![a] = todo'[a]] /\ result' = result
  BY <1>1, OnePast
<1>3. todo[a] # <<>> /\ todo[a][1] = "readConfig" /\ result[a] = "going"
  BY <1>1, AtFirst DEF RunTypeOK
<1>4. held'[a] = cfg /\ using'[a] = None
  BY DEF ReadConfig, Cross, RunTypeOK
<1>5. crossed'[a] = (switch # Idle)
  BY DEF ReadConfig, Cross, RunTypeOK
<1>6. Own(a)
  BY <1>2, SameAt DEF Own, RunTypeOK, ReadConfig, session, caches, hands, effects, switching, dryPast, Cross, Poison
<1>7. Hands(a, "readConfig")
  BY <1>4, <1>5, <1>2 DEF Hands, GivesKey, Mutating, ReadConfig, session, caches, hands, effects, switching, dryPast, Cross, Poison
<1>8. Uses(a, "readConfig")
  BY <1>4, <1>5, <1>2 DEF Uses, GivesKey, ReadConfig, session, caches, hands, effects, switching, dryPast, Cross, Poison
<1>9. Has(a, "readConfig")
  BY <1>4, <1>5, <1>2 DEF Has, Cost, RunTypeOK, ReadConfig, session, caches, hands, effects, switching, dryPast, Cross, Poison
<1> QED BY <1>2, <1>3, <1>6, <1>7, <1>8, <1>9 DEF Does, Steps, Ends

\* It is written.
LEMMA WriteConfigDoes == ASSUME NEW a \in Requests, RunTypeOK, WriteConfig(a) PROVE Does(a)
<1>1. At(a, "config") /\ Past(a, 1)
  BY DEF WriteConfig
<1>2. Cleared(a, 1) /\ todo' = [todo EXCEPT ![a] = todo'[a]] /\ result' = result
  BY <1>1, OnePast
<1>3. todo[a] # <<>> /\ todo[a][1] = "config" /\ result[a] = "going"
  BY <1>1, AtFirst DEF RunTypeOK
<1>4. Own(a)
  BY <1>2, SameAt DEF Own, RunTypeOK, WriteConfig, session, caches, hands, effects, switching, dryPast, Cross, Poison
<1>5. Hands(a, "config")
  BY <1>2 DEF Hands, GivesKey, Mutating, WriteConfig, session, caches, hands, effects, switching, dryPast, Cross, Poison
<1>6. Uses(a, "config")
  BY <1>2 DEF Uses, GivesKey, WriteConfig, session, caches, hands, effects, switching, dryPast, Cross, Poison
<1>7. Has(a, "config")
  BY <1>2 DEF Has, Cost, RunTypeOK, WriteConfig, session, caches, hands, effects, switching, dryPast, Cross, Poison
<1> QED BY <1>2, <1>3, <1>4, <1>5, <1>6, <1>7 DEF Does, Steps, Ends

\* What is passed over when an account or a client is known, or the account made up.
LEMMA PassedOver ==
    ASSUME NEW a \in Requests, RunTypeOK, InOrder(todo[a]), NEW step, At(a, step), NEW n \in 2..3,
           Past(a, n), \/ step \in {"account", "lookup"} /\ n = 3
                       \/ step = "ask" /\ n = 2
    PROVE  Cleared(a, n) /\ todo' = [todo EXCEPT ![a] = todo'[a]] /\ result' = result
<1> DEFINE s == todo[a]
<1>1. s \in Seq(Steps) /\ todo \in [Requests -> Seq(Steps)]
  BY DEF RunTypeOK
<1>2. Len(s) \in Nat /\ 1 <= Len(s) /\ s[1] = step /\ DOMAIN s = 1..Len(s)
  BY <1>1, AtFirst
<1>3. todo' = [todo EXCEPT ![a] = SubSeq(s, n + 1, Len(s))] /\ result' = result
  BY DEF Past
<1>4. todo'[a] = SubSeq(s, n + 1, Len(s))
  BY <1>1, <1>3
<1>5. Leads(s, "account", "ask") /\ Leads(s, "ask", "keep") /\ Leads(s, "lookup", "build") /\ Leads(s, "build", "store")
  BY DEF InOrder
<1> HIDE DEF s
<1>6. 1 \in DOMAIN s
  BY <1>2
<1>7. ASSUME step = "ask" /\ n = 2
      PROVE  Skips(s, n)
  <2>1. 1 < Len(s) /\ s[1 + 1] = "keep"
    BY ONLY <1>2, <1>5, <1>6, <1>7 DEF Leads
  <2>2. s[1] = "ask" /\ s[2] = "keep" /\ 2 <= Len(s)
    BY ONLY <1>2, <1>7, <2>1
  <2> QED BY ONLY <1>7, <2>2 DEF Skips
<1>8. ASSUME step \in {"account", "lookup"} /\ n = 3
      PROVE  Skips(s, n)
  <2>1. 1 < Len(s) /\ s[1 + 1] = IF step = "account" THEN "ask" ELSE "build"
    BY ONLY <1>2, <1>5, <1>6, <1>8 DEF Leads
  <2>2. 2 \in DOMAIN s /\ s[2] = IF step = "account" THEN "ask" ELSE "build"
    BY ONLY <1>2, <2>1
  <2>3. 2 < Len(s) /\ s[2 + 1] = IF step = "account" THEN "keep" ELSE "store"
    BY ONLY <1>5, <1>8, <2>2 DEF Leads
  <2>4. s[3] = (IF step = "account" THEN "keep" ELSE "store") /\ 3 <= Len(s)
    BY ONLY <1>2, <2>3
  <2> QED BY ONLY <1>2, <1>8, <2>2, <2>4 DEF Skips
<1>9. Skips(s, n)
  BY <1>7, <1>8
<1> QED BY <1>3, <1>4, <1>9 DEF Cleared, s

\* account_id, when it is known and when it is not.
LEMMA AccountKnownDoes == ASSUME NEW a \in Requests, RunTypeOK, InOrder(todo[a]), AccountKnown(a) PROVE Does(a)
<1>1. At(a, "account") /\ (Past(a, 3) \/ Past(a, 1))
  BY DEF AccountKnown, Account
<1>2. (Cleared(a, 3) \/ Cleared(a, 1)) /\ todo' = [todo EXCEPT ![a] = todo'[a]] /\ result' = result
  BY <1>1, OnePast, PassedOver
<1>3. todo[a] # <<>> /\ todo[a][1] = "account" /\ result[a] = "going"
  BY <1>1, AtFirst DEF RunTypeOK
<1>4. Own(a)
  BY <1>2, SameAt DEF Own, RunTypeOK, AccountKnown, session, caches, hands, effects, switching, dryPast, Cross, Poison
<1>5. Hands(a, "account")
  BY <1>2 DEF Hands, GivesKey, Mutating, AccountKnown, session, caches, hands, effects, switching, dryPast, Cross, Poison
<1>6. Uses(a, "account")
  BY <1>2 DEF Uses, GivesKey, AccountKnown, session, caches, hands, effects, switching, dryPast, Cross, Poison
<1>7. Has(a, "account")
  BY <1>2 DEF Has, Cost, RunTypeOK, AccountKnown, session, caches, hands, effects, switching, dryPast, Cross, Poison
<1> QED BY <1>2, <1>3, <1>4, <1>5, <1>6, <1>7 DEF Does, Steps, Ends

\* ep(), with a client that is kept or without.
LEMMA LookupDoes == ASSUME NEW a \in Requests, RunTypeOK, InOrder(todo[a]), Lookup(a) PROVE Does(a)
<1>1. At(a, "lookup") /\ (Past(a, 3) \/ Past(a, 1))
  BY DEF Lookup, Endpoint
<1>2. (Cleared(a, 3) \/ Cleared(a, 1)) /\ todo' = [todo EXCEPT ![a] = todo'[a]] /\ result' = result
  BY <1>1, OnePast, PassedOver
<1>3. todo[a] # <<>> /\ todo[a][1] = "lookup" /\ result[a] = "going"
  BY <1>1, AtFirst DEF RunTypeOK
<1>4. held'[a] = cfg /\ using'[a] = clients[cfg]
  BY DEF Lookup, Cross, RunTypeOK
<1>5. crossed'[a] = (switch # Idle)
  BY DEF Lookup, Cross, RunTypeOK
<1>6. Own(a)
  BY <1>2, SameAt DEF Own, RunTypeOK, Lookup, session, caches, hands, effects, switching, dryPast, Cross, Poison
<1>7. Hands(a, "lookup")
  BY <1>4, <1>5, <1>2 DEF Hands, GivesKey, Mutating, Lookup, session, caches, hands, effects, switching, dryPast, Cross, Poison
<1>8. Uses(a, "lookup")
  BY <1>4, <1>5, <1>2 DEF Uses, GivesKey, Lookup, session, caches, hands, effects, switching, dryPast, Cross, Poison
<1>9. Has(a, "lookup")
  BY <1>4, <1>5, <1>2 DEF Has, Cost, RunTypeOK, Lookup, session, caches, hands, effects, switching, dryPast, Cross, Poison
<1> QED BY <1>2, <1>3, <1>6, <1>7, <1>8, <1>9 DEF Does, Steps, Ends

\* The dry run gate.
LEMMA GateDoes == ASSUME NEW a \in Requests, RunTypeOK, Gate(a) PROVE Does(a)
<1>1. At(a, "gate") /\ IF dry THEN End(a, "dry") ELSE Past(a, 1)
  BY DEF Gate
<1>2. (IF dry THEN Stopped(a) ELSE Cleared(a, 1)) /\ todo' = [todo EXCEPT ![a] = todo'[a]] /\ result' = result
  BY <1>1, OnePast, IsStopped DEF Ends, Deciding
<1>3. todo[a] # <<>> /\ todo[a][1] = "gate" /\ result[a] = "going"
  BY <1>1, AtFirst DEF RunTypeOK
<1>4. Own(a)
  BY <1>2, SameAt DEF Own, RunTypeOK, Gate, session, caches, hands, effects, switching, dryPast, Cross, Poison
<1>5. Hands(a, "gate")
  BY <1>2 DEF Hands, GivesKey, Mutating, Gate, session, caches, hands, effects, switching, dryPast, Cross, Poison
<1>6. Uses(a, "gate")
  BY <1>2 DEF Uses, GivesKey, Gate, session, caches, hands, effects, switching, dryPast, Cross, Poison
<1>7. Has(a, "gate")
  BY <1>2 DEF Has, Cost, RunTypeOK, Gate, session, caches, hands, effects, switching, dryPast, Cross, Poison
<1> QED BY <1>2, <1>3, <1>4, <1>5, <1>6, <1>7 DEF Does, Steps, Ends

\* A call that reads answers.
LEMMA ReadDoes == ASSUME NEW a \in Requests, RunTypeOK, Read(a) PROVE Does(a)
<1>1. PICK step \in {"read", "plan"} : At(a, step) /\ (Past(a, 1) \/ (step = "plan" /\ End(a, "refused")))
  BY DEF Read
<1>2. (Cleared(a, 1) \/ Stopped(a)) /\ todo' = [todo EXCEPT ![a] = todo'[a]] /\ result' = result
  BY <1>1, OnePast, IsStopped DEF Ends, Deciding
<1>3. todo[a] # <<>> /\ todo[a][1] = step /\ result[a] = "going"
  BY <1>1, AtFirst DEF RunTypeOK
<1>4. Own(a)
  BY <1>2, SameAt DEF Own, RunTypeOK, Read, session, caches, hands, effects, switching, dryPast
<1>5. Hands(a, step)
  BY <1>1, <1>2 DEF Hands, GivesKey, Mutating, Read, hands, effects
<1>6. Uses(a, step)
  BY <1>1, <1>2 DEF Uses, GivesKey, Read, session, caches, hands
<1>7. Has(a, step)
  <2>1. Cost(step) = 0 /\ step \notin {"terminateFirst", "terminateLast"}
    BY <1>1 DEF Cost
  <2>2. own'[a] = own[a] /\ launched'[a] = launched[a] /\ launched[a] \in Nat
    BY DEF RunTypeOK, Read, effects
  <2> QED BY <2>1, <2>2 DEF Has
<1> QED BY <1>1, <1>2, <1>3, <1>4, <1>5, <1>6, <1>7 DEF Does, Steps, Ends

\* It raises.
LEMMA ReadFailsDoes ==
    ASSUME NEW a \in Requests, RunTypeOK, InOrder(todo[a]), ReadFails(a) PROVE Does(a)
<1>1. PICK step \in {"ask", "build", "read"} :
         /\ At(a, step)
         /\ \/ sample[a] /\ Past(a, IF step = "ask" THEN 2 ELSE 1)
            \/ \E how \in {"sampled", "failed"} : End(a, how)
  <2>1. PICK step \in {"ask", "build", "read"} : At(a, step)
    BY DEF ReadFails
  <2>2. At(a, "ask") <=> step = "ask"
    BY <2>1 DEF At
  <2> QED BY <2>1, <2>2 DEF ReadFails
<1>2. /\ \/ sample[a] /\ step = "ask" /\ Cleared(a, 2)
         \/ sample[a] /\ step # "ask" /\ Cleared(a, 1)
         \/ Stopped(a)
      /\ todo' = [todo EXCEPT ![a] = todo'[a]] /\ result' = result
  BY <1>1, OnePast, PassedOver, IsStopped DEF Ends
<1>3. todo[a] # <<>> /\ todo[a][1] = step /\ result[a] = "going"
  BY <1>1, AtFirst DEF RunTypeOK
<1>4. Own(a)
  BY <1>2, SameAt DEF Own, RunTypeOK, ReadFails, session, caches, hands, effects, switching, dryPast
<1>5. Hands(a, step)
  BY <1>1, <1>2 DEF Hands, GivesKey, Mutating, ReadFails, hands, effects
<1>6. Uses(a, step)
  BY <1>1, <1>2 DEF Uses, GivesKey, ReadFails, session, caches, hands
<1>7. Has(a, step)
  <2>1. Cost(step) = 0 /\ step \notin {"terminateFirst", "terminateLast"}
    BY <1>1 DEF Cost
  <2>2. own'[a] = own[a] /\ launched'[a] = launched[a] /\ launched[a] \in Nat
    BY DEF RunTypeOK, ReadFails, effects
  <2> QED BY <2>1, <2>2 DEF Has
<1> QED BY <1>1, <1>2, <1>3, <1>4, <1>5, <1>6, <1>7 DEF Does, Steps, Ends

\* RunMicrovm, some times.
LEMMA LaunchDoes ==
    ASSUME NEW a \in Requests, RunTypeOK, Launch(a) \/ LaunchAll(a) PROVE Does(a)
<1>1. PICK step \in Launching : At(a, step) /\ LaunchSome(a, Cost(step))
  BY DEF Launch, LaunchAll, Launching, Cost
<1>2. PICK k \in 0..Cost(step) :
         /\ launched' = [launched EXCEPT ![a] = @ + k]
         /\ own' = [own EXCEPT ![a] = @ \union ((launched[a] + 1)..(launched[a] + k))]
         /\ Past(a, 1) \/ End(a, "failed")
  BY <1>1 DEF LaunchSome
<1>3. (Cleared(a, 1) \/ Stopped(a)) /\ todo' = [todo EXCEPT ![a] = todo'[a]] /\ result' = result
  BY <1>1, <1>2, OnePast, IsStopped DEF Ends
<1>4. todo[a] # <<>> /\ todo[a][1] = step /\ result[a] = "going"
  BY <1>1, AtFirst DEF RunTypeOK
<1>5. /\ launched'[a] = launched[a] + k
      /\ own'[a] = own[a] \union ((launched[a] + 1)..(launched[a] + k))
  BY <1>2 DEF RunTypeOK
<1>6. Own(a)
  BY <1>1, <1>2, <1>3, SameAt DEF Own, RunTypeOK, LaunchSome, session, caches, hands, switching, dryPast
<1>7. Hands(a, step)
  <2>1. sent'[a] = TRUE
    BY <1>1 DEF LaunchSome, RunTypeOK
  <2> QED BY <1>1, <2>1 DEF Hands, GivesKey, Mutating, Launching, LaunchSome, hands
<1>8. Uses(a, step)
  BY <1>1 DEF Uses, GivesKey, Launching, LaunchSome, session, caches, hands
<1>9. Has(a, step)
  BY <1>1, <1>5 DEF Has, Launching
<1> QED BY <1>1, <1>3, <1>4, <1>6, <1>7, <1>8, <1>9 DEF Does, Steps, Ends, Launching

\* The first or the last microVM is terminated.
LEMMA TerminateDoes == ASSUME NEW a \in Requests, RunTypeOK, TerminateOne(a) PROVE Does(a)
<1>1. PICK step \in {"terminateFirst", "terminateLast"} : At(a, step)
  BY DEF TerminateOne
<1>2. At(a, "terminateFirst") <=> step = "terminateFirst"
  BY <1>1 DEF At
<1> DEFINE i == IF step = "terminateFirst" THEN 1 ELSE launched[a]
<1>3. \/ own' = [own EXCEPT ![a] = @ \ {i}] /\ Past(a, 1)
      \/ own' \in {own, [own EXCEPT ![a] = @ \ {i}]} /\ End(a, "failed")
  BY <1>2 DEF TerminateOne
<1>4. /\ (Cleared(a, 1) /\ own' = [own EXCEPT ![a] = @ \ {i}]) \/ Stopped(a)
      /\ todo' = [todo EXCEPT ![a] = todo'[a]] /\ result' = result
  BY <1>1, <1>3, OnePast, IsStopped DEF Ends
<1>5. todo[a] # <<>> /\ todo[a][1] = step /\ result[a] = "going"
  BY <1>1, AtFirst DEF RunTypeOK
<1>6. /\ own'[a] \subseteq own[a] /\ (Stopped(a) \/ i \notin own'[a])
      /\ own' = [own EXCEPT ![a] = own'[a]]
  <2>1. own \in [Requests -> SUBSET (1..Launches)]
    BY DEF RunTypeOK
  <2> HIDE DEF i
  <2>2. own' = own \/ own' = [own EXCEPT ![a] = own[a] \ {i}]
    BY <1>3
  <2> QED BY <1>4, <2>1, <2>2, SameAt
<1>7. Own(a)
  BY <1>4, <1>6, SameAt DEF Own, RunTypeOK, TerminateOne, session, caches, hands, switching, dryPast
<1>8. Hands(a, step)
  BY <1>1 DEF Hands, GivesKey, Mutating, TerminateOne, hands
<1>9. Uses(a, step)
  BY <1>1 DEF Uses, GivesKey, TerminateOne, session, caches, hands
<1>10. Has(a, step)
  <2>1. launched'[a] = launched[a] + 0 /\ 0 \in 0..Cost(step)
    BY <1>1 DEF TerminateOne, RunTypeOK, Cost
  <2> QED BY <1>1, <1>6, <2>1 DEF Has
<1> QED BY <1>1, <1>4, <1>5, <1>7, <1>8, <1>9, <1>10 DEF Does, Steps, Ends

\* The loops that poll.
LEMMA FollowDoes == ASSUME NEW a \in Requests, RunTypeOK, Follow(a) PROVE Does(a)
<1>1. PICK step \in {"settle", "follow"} : At(a, step) /\ Past(a, 1)
  BY DEF Follow
<1>2. Cleared(a, 1) /\ todo' = [todo EXCEPT ![a] = todo'[a]] /\ result' = result
  BY <1>1, OnePast
<1>3. todo[a] # <<>> /\ todo[a][1] = step /\ result[a] = "going"
  BY <1>1, AtFirst DEF RunTypeOK
<1>4. Own(a)
  BY <1>2, SameAt DEF Own, RunTypeOK, Follow, session, caches, hands, effects, switching, dryPast
<1>5. Hands(a, step)
  BY <1>1 DEF Hands, GivesKey, Mutating, Follow, hands, effects
<1>6. Uses(a, step)
  BY <1>1 DEF Uses, GivesKey, Follow, session, caches, hands
<1>7. Has(a, step)
  <2>1. Cost(step) = 0 /\ step \notin {"terminateFirst", "terminateLast"}
    BY <1>1 DEF Cost
  <2>2. own'[a] = own[a] /\ launched'[a] = launched[a] /\ launched[a] \in Nat
    BY DEF RunTypeOK, Follow, effects
  <2> QED BY <2>1, <2>2 DEF Has
<1> QED BY <1>1, <1>2, <1>3, <1>4, <1>5, <1>6, <1>7 DEF Does, Steps, Ends

\* Every step but the answer.
LEMMA StepDoes ==
    ASSUME NEW a \in Requests, RunTypeOK, InOrder(todo[a]), Step(a), ~Answer(a) PROVE Does(a)
BY ManagerDoes, ApiDoes, AccountKnownDoes, AskDoes, KeepAccountDoes, LookupDoes, BuildDoes, StoreDoes,
   MonitorKeyDoes, MonitorDoes, ReadDoes, ReadFailsDoes, GateDoes, MutateDoes, LaunchDoes,
   TerminateDoes, CycleDoes, WaitDoes, ReachDoes, FollowDoes, ReadConfigDoes, WriteConfigDoes
DEF Step

\* After a step, what was launched leaves room for what is left.
LEMMA Rooms ==
    ASSUME NEW s \in Seq(Steps), NEW k, NEW limit \in Nat, Affordable(s, k, limit), s # <<>>,
           NEW w \in 0..Cost(s[1])
    PROVE  /\ k + w \in 0..limit
           /\ \A n \in 1..3 : n <= Len(s) => Affordable(SubSeq(s, n + 1, Len(s)), k + w, limit)
           /\ \A how \in Ends : Affordable(<<how>>, k + w, limit)
<1>1. Len(s) \in Nat /\ 1 <= Len(s) /\ DOMAIN s = 1..Len(s) /\ 1 \in DOMAIN s
  OBVIOUS
<1>2. \A step \in Steps : Cost(step) \in Nat
  BY RunAssumption DEF Cost
<1>3. s[1] \in Steps
  BY <1>1
<1>4. Cost(s[1]) \in Nat /\ w \in Nat /\ w <= Cost(s[1])
  BY <1>2, <1>3
<1>5. PICK f \in [DOMAIN s -> 0..limit] : \A i \in DOMAIN s :
          (IF i = 1 THEN k ELSE f[i - 1]) + Cost(s[i]) <= f[i]
  BY DEF Affordable
<1>6. k \in Nat /\ f[1] \in 0..limit /\ k + Cost(s[1]) <= f[1]
  BY <1>1, <1>5 DEF Affordable
<1>7. k + w \in 0..limit /\ k + w <= f[1]
  BY <1>4, <1>6
<1>8. \A i \in 2..Len(s) : f[i] \in 0..limit /\ f[i - 1] \in 0..limit /\ f[i - 1] <= f[i]
  <2> SUFFICES ASSUME NEW i \in 2..Len(s)
               PROVE  f[i] \in 0..limit /\ f[i - 1] \in 0..limit /\ f[i - 1] <= f[i]
    OBVIOUS
  <2>1. i \in DOMAIN s /\ i - 1 \in DOMAIN s /\ i # 1
    BY <1>1
  <2>2. f[i] \in 0..limit /\ f[i - 1] \in 0..limit /\ s[i] \in Steps
    BY <1>5, <2>1
  <2>3. f[i - 1] + Cost(s[i]) <= f[i]
    BY <1>5, <2>1
  <2> QED BY <1>2, <2>2, <2>3
<1>9. ASSUME NEW n \in 1..3, n <= Len(s)
      PROVE  Affordable(SubSeq(s, n + 1, Len(s)), k + w, limit)
  <2> DEFINE u == SubSeq(s, n + 1, Len(s))
             m == Len(s) - n
  <2>1. n \in 0..Len(s)
    BY <1>1, <1>9
  <2>2. DOMAIN u = 1..m /\ \A i \in 1..m : u[i] = s[n + i]
    BY <2>1, Rest
  <2>3. m \in Nat /\ Len(s) = n + m /\ n \in Nat
    BY <1>1, <1>9
  <2> HIDE DEF u, m
  <2>4. f[n] \in 0..limit /\ k + w <= f[n]
    <3>1. CASE n = 1
      BY <1>6, <1>7, <3>1
    <3>2. CASE n = 2
      <4>1. f[2] \in 0..limit /\ f[1] <= f[2]
        BY <1>1, <1>8, <1>9, <3>2
      <4> QED BY <1>6, <1>7, <3>2, <4>1
    <3>3. CASE n = 3
      <4>1. f[2] \in 0..limit /\ f[1] <= f[2] /\ f[3] \in 0..limit /\ f[2] <= f[3]
        BY <1>1, <1>8, <1>9, <3>3
      <4> QED BY <1>6, <1>7, <3>3, <4>1
    <3> QED BY <3>1, <3>2, <3>3
  <2> DEFINE g == [i \in 1..m |-> f[n + i]]
  <2>5. g \in [1..m -> 0..limit]
    <3> SUFFICES ASSUME NEW i \in 1..m
                 PROVE  f[n + i] \in 0..limit
      OBVIOUS
    <3>1. n + i \in DOMAIN s
      BY <1>1, <2>3
    <3> QED BY <1>5, <3>1
  <2>6. ASSUME NEW i \in 1..m
        PROVE  (IF i = 1 THEN k + w ELSE g[i - 1]) + Cost(u[i]) <= g[i]
    <3>1. n + i \in DOMAIN s /\ n + i # 1 /\ u[i] = s[n + i] /\ g[i] = f[n + i]
      BY <1>1, <2>2, <2>3
    <3>2. f[(n + i) - 1] + Cost(u[i]) <= g[i]
      BY <1>5, <3>1
    <3>3. u[i] \in Steps /\ g[i] \in 0..limit
      BY <2>5, <3>1
    <3>4. Cost(u[i]) \in Nat
      BY <1>2, <3>3
    <3>5. CASE i = 1
      <4>1. (n + i) - 1 = n
        BY <2>3, <3>5
      <4> HIDE DEF g
      <4> QED BY ONLY <1>7, <2>4, <3>2, <3>3, <3>4, <3>5, <4>1
    <3>6. CASE i # 1
      <4>1. i - 1 \in 1..m /\ (n + i) - 1 = n + (i - 1)
        BY <2>3, <3>6
      <4>2. g[i - 1] = f[(n + i) - 1]
        BY <4>1
      <4> HIDE DEF g
      <4> QED BY <3>2, <3>6, <4>2
    <3> QED BY <3>5, <3>6
  <2> HIDE DEF g
  <2>7. \E h \in [DOMAIN u -> 0..limit] : \A i \in DOMAIN u :
            (IF i = 1 THEN k + w ELSE h[i - 1]) + Cost(u[i]) <= h[i]
    BY <2>2, <2>5, <2>6
  <2> QED BY <1>7, <2>7 DEF Affordable, u
<1>10. ASSUME NEW how \in Ends
       PROVE  Affordable(<<how>>, k + w, limit)
  <2> DEFINE u == <<how>>
             g == [i \in {1} |-> limit]
  <2>1. DOMAIN u = {1} /\ u[1] = how
    OBVIOUS
  <2>2. Cost(how) = 0
    BY DEF Cost, Ends
  <2>3. g \in [{1} -> 0..limit] /\ g[1] = limit
    OBVIOUS
  <2> HIDE DEF u, g
  <2>4. \A i \in DOMAIN u : (IF i = 1 THEN k + w ELSE g[i - 1]) + Cost(u[i]) <= g[i]
    BY <1>7, <2>1, <2>2, <2>3
  <2>5. \E h \in [DOMAIN u -> 0..limit] : \A i \in DOMAIN u :
            (IF i = 1 THEN k + w ELSE h[i - 1]) + Cost(u[i]) <= h[i]
    BY <2>1, <2>3, <2>4
  <2> QED BY <1>7, <2>5 DEF Affordable, u
<1> QED BY <1>7, <1>9, <1>10

\* What is left when some steps are past, and what is left when there is an answer.
LEMMA Left ==
    ASSUME NEW a \in Requests, RunTypeOK, NEW n, Cleared(a, n)
    PROVE  LET m == Len(todo[a]) - n
           IN  /\ n \in 1..3 /\ m \in Nat /\ Len(todo[a]) = n + m /\ n \in 0..Len(todo[a])
               /\ DOMAIN todo[a] = 1..(n + m) /\ todo[a] \in Seq(Steps)
               /\ todo'[a] \in Seq(Steps) /\ Len(todo'[a]) = m /\ DOMAIN todo'[a] = 1..m
               /\ \A i \in 1..m : todo'[a][i] = todo[a][n + i] /\ n + i \in 1..(n + m)
<1> DEFINE m == Len(todo[a]) - n
<1>1. todo[a] \in Seq(Steps)
  BY DEF RunTypeOK
<1>2. n \in 1..3 /\ n <= Len(todo[a]) /\ Len(todo[a]) \in Nat /\ DOMAIN todo[a] = 1..Len(todo[a])
  BY <1>1 DEF Cleared, Skips
<1>3. n \in 0..Len(todo[a]) /\ m \in Nat /\ Len(todo[a]) = n + m
  BY <1>2
<1>4. /\ todo'[a] \in Seq(Steps) /\ Len(todo'[a]) = m /\ DOMAIN todo'[a] = 1..m
      /\ \A i \in 1..m : todo'[a][i] = todo[a][n + i]
  BY <1>1, <1>3, Rest DEF Cleared
<1> HIDE DEF m
<1>5. \A i \in 1..m : n + i \in 1..(n + m)
  BY <1>2, <1>3
<1> QED BY <1>1, <1>2, <1>3, <1>4, <1>5 DEF m

\* What a request that is over has left: the word for how it ends, and nothing else.
LEMMA Over ==
    ASSUME NEW a, Stopped(a)
    PROVE  /\ todo'[a] \in Seq(Steps) /\ todo'[a] # <<>> /\ DOMAIN todo'[a] = {1} /\ todo'[a][1] \in Ends
           /\ todo'[a][1] \in {"dry", "refused"} => todo[a][1] \in Deciding
           /\ InOrder(todo'[a]) /\ Ended(todo'[a])
           /\ Comes(todo'[a], NeedsKey, GivesKey) /\ Comes(todo'[a], Mutating, {"gate"})
<1>1. PICK how \in Ends : /\ todo'[a] = <<how>>
                          /\ how \in {"dry", "refused"} => todo[a][1] \in Deciding
  BY DEF Stopped
<1>2. /\ <<how>> \in Seq(Steps) /\ InOrder(<<how>>)
      /\ Comes(<<how>>, NeedsKey, GivesKey) /\ Comes(<<how>>, Mutating, {"gate"})
  BY EndsInOrder
<1>3. <<how>> # <<>> /\ DOMAIN <<how>> = {1} /\ <<how>>[1] = how
  OBVIOUS
<1> QED BY <1>1, <1>2, <1>3 DEF Ended

\* A step that needs a key has one.
LEMMA KeyInHand ==
    ASSUME NEW s \in Seq(Steps), s # <<>>, Comes(s, NeedsKey, GivesKey)
    PROVE  s[1] \notin NeedsKey
<1>1. 1 \in DOMAIN s /\ \A j \in 1..(1 - 1) : FALSE
  OBVIOUS
<1> QED BY <1>1 DEF Comes

\* What is kept next was made just now.
LEMMA JustMade ==
    ASSUME NEW a \in Requests, RunTypeOK, PlanInv(a), Does(a),
           todo'[a] # <<>>, todo'[a][1] \in {"keep", "store"}
    PROVE  \/ todo[a][1] = "ask" /\ made'[a] = SessionOf(held[a])
           \/ todo[a][1] = "build" /\ made'[a] = SessionOf(cfg)
<1> DEFINE s == todo[a]
           u == todo'[a]
<1>1. PICK step \in Steps \ Ends : s # <<>> /\ s[1] = step /\ Hands(a, step)
  BY DEF Does
<1>2. u # <<>> /\ u[1] \in {"keep", "store"}
  OBVIOUS
<1> HIDE DEF s, u
<1>3. ~Stopped(a)
  BY <1>2, Over DEF Ends, u
<1>4. PICK n \in 1..3 : Cleared(a, n)
  BY <1>3 DEF Does
<1> DEFINE m == Len(s) - n
<1>5. /\ m \in Nat /\ Len(s) = n + m /\ DOMAIN s = 1..(n + m) /\ Len(u) = m /\ u \in Seq(Steps)
      /\ \A i \in 1..m : u[i] = s[n + i] /\ n + i \in 1..(n + m)
  BY <1>4, Left DEF s, u
<1> HIDE DEF m
<1>6. 1 \in 1..m
  BY <1>2, <1>5
<1>7. n + 1 \in DOMAIN s /\ s[n + 1] = u[1] /\ n + 1 > 1 /\ (n + 1) - 1 = n
  BY <1>5, <1>6
<1>8. s[n] \in {"ask", "build"}
  <2>1. Follows(s, "ask", "keep") /\ Follows(s, "build", "store")
    BY DEF PlanInv, InOrder, s
  <2> QED BY <1>2, <1>7, <2>1 DEF Follows
<1>9. n = 1
  BY <1>4, <1>8 DEF Cleared, Skips, s
<1>10. step \in {"ask", "build"}
  BY <1>1, <1>8, <1>9
<1>11. ~Cleared(a, 2)
  <2>1. SUFFICES ASSUME Cleared(a, 2)
                 PROVE  FALSE
    OBVIOUS
  <2>2. Len(todo'[a]) = Len(todo[a]) - 2 /\ Len(todo[a]) \in Nat
    BY <2>1, Left
  <2> QED BY <1>5, <1>9, <2>2 DEF s, u
<1>12. ~(sample[a] /\ step = "build")
  <2>1. 1 \in DOMAIN s
    BY <1>5, <1>6
  <2> QED BY <1>1, <2>1 DEF PlanInv, s
<1>13. \/ step = "ask" /\ made'[a] = SessionOf(held[a])
       \/ step = "build" /\ made'[a] = SessionOf(cfg)
  BY <1>1, <1>3, <1>10, <1>11, <1>12 DEF Hands
<1> QED BY <1>1, <1>13 DEF s

\* A step keeps what is left in order, with a key for it.
LEMMA PlanStep ==
    ASSUME NEW a \in Requests, RunTypeOK, SessionInv, PlanInv(a), Does(a)
    PROVE  PlanInv(a)' /\ todo'[a] \in Seq(Steps)
<1> DEFINE s == todo[a]
           u == todo'[a]
<1>1. PICK step \in Steps \ Ends : s # <<>> /\ s[1] = step /\ Own(a) /\ Hands(a, step)
  BY DEF Does
<1>2. Stopped(a) \/ \E n \in 1..3 : Cleared(a, n)
  BY DEF Does
<1>3. s \in Seq(Steps) /\ held[a] \in Keys \union {None} /\ cfg \in Keys
  BY DEF RunTypeOK
<1>4. InOrder(s) /\ (held[a] \in Keys \/ Comes(s, NeedsKey, GivesKey))
  BY DEF PlanInv
<1> HIDE DEF s, u
<1>5. u \in Seq(Steps) /\ InOrder(u)
  <2>1. CASE Stopped(a)
    BY <2>1, Over DEF u
  <2>2. ASSUME NEW n \in 1..3, Cleared(a, n)
        PROVE  u \in Seq(Steps) /\ InOrder(u)
    <3>1. n \in 0..Len(s) /\ u = SubSeq(s, n + 1, Len(s)) /\ u \in Seq(Steps)
      BY <2>2, Left DEF Cleared, s, u
    <3>2. InOrder(SubSeq(s, n + 1, Len(s)))
      BY <1>3, <1>4, <3>1, RestInOrder
    <3> QED BY <3>1, <3>2
  <2> QED BY <1>2, <2>1, <2>2
<1>6. held'[a] \in Keys \/ Comes(u, NeedsKey, GivesKey)
  <2>1. CASE Stopped(a)
    BY <2>1, Over DEF u
  <2>2. CASE held'[a] = cfg
    BY <1>3, <2>2
  <2>3. CASE held'[a] = held[a] /\ step \notin GivesKey /\ Comes(s, NeedsKey, GivesKey) /\ ~Stopped(a)
    <3>1. PICK n \in 1..3 : Cleared(a, n)
      BY <1>2, <2>3
    <3>2. n \in 0..Len(s) /\ u = SubSeq(s, n + 1, Len(s))
      BY <3>1, Left DEF Cleared, s, u
    <3>3. \A i \in 2..n : s[i] \notin GivesKey
      BY <3>1 DEF Cleared, Skips, GivesKey, s
    <3>4. \A i \in 1..n : s[i] \notin GivesKey
      <4> SUFFICES ASSUME NEW i \in 1..n
                   PROVE  s[i] \notin GivesKey
        OBVIOUS
      <4>1. i = 1 \/ i \in 2..n
        OBVIOUS
      <4> QED BY <1>1, <2>3, <3>3, <4>1
    <3> QED BY <1>3, <2>3, <3>2, <3>4, RestComes
  <2>4. held'[a] = cfg \/ (held'[a] = held[a] /\ step \notin GivesKey)
    BY <1>1 DEF Hands
  <2> QED BY <1>4, <2>1, <2>2, <2>3, <2>4
<1>7. ASSUME u # <<>>, u[1] \in {"keep", "store"}
      PROVE  made'[a] \in Client
  <2>1. \/ step = "ask" /\ made'[a] = SessionOf(held[a])
        \/ step = "build" /\ made'[a] = SessionOf(cfg)
    BY <1>1, <1>7, JustMade DEF s, u
  <2>2. step = "ask" => held[a] \in Keys
    BY <1>1, <1>3, <1>4, KeyInHand DEF NeedsKey
  <2>3. \A k \in Keys : SessionOf(k) \in Client
    BY DEF RunTypeOK, SessionOf, Client, Who, Identities
  <2> QED BY <1>3, <2>1, <2>2, <2>3
<1>8. ASSUME sample'[a], NEW i \in DOMAIN u, u[i] = "build"
      PROVE  FALSE
  <2>1. ~Stopped(a)
    BY <1>8, Over DEF Ends, u
  <2>2. PICK n \in 1..3 : Cleared(a, n)
    BY <1>2, <2>1
  <2> DEFINE m == Len(s) - n
  <2>3. /\ m \in Nat /\ DOMAIN s = 1..(n + m) /\ DOMAIN u = 1..m
        /\ \A j \in 1..m : u[j] = s[n + j] /\ n + j \in 1..(n + m)
    BY <2>2, Left DEF s, u
  <2> HIDE DEF m
  <2>4. n + i \in DOMAIN s /\ s[n + i] = "build" /\ 1 \in DOMAIN s
    BY <1>8, <2>3
  <2>5. CASE sample[a]
    BY <2>4, <2>5 DEF PlanInv, s
  <2>6. CASE step = "manager"
    <3>1. n + i < 1
      BY <1>1, <1>4, <2>4, <2>6 DEF InOrder, Precede
    <3> QED BY <2>3, <1>8, <3>1
  <2>7. sample'[a] = sample[a] \/ step = "manager"
    BY <1>1 DEF Hands
  <2> QED BY <1>8, <2>5, <2>6, <2>7
<1>9. PlanInv(a)'
  BY <1>5, <1>6, <1>7, <1>8 DEF PlanInv, u
<1> QED BY <1>5, <1>9 DEF u

\* A step sends nothing that dry run has not let pass.
LEMMA DryStep ==
    ASSUME NEW a \in Requests, RunTypeOK, DryInv(a), Does(a)
    PROVE  DryInv(a)'
<1> DEFINE s == todo[a]
           u == todo'[a]
<1>1. PICK step \in Steps \ Ends : s # <<>> /\ s[1] = step /\ Own(a) /\ Hands(a, step) /\ result[a] = "going"
  BY DEF Does
<1>2. Stopped(a) \/ \E n \in 1..3 : Cleared(a, n)
  BY DEF Does
<1>3. s \in Seq(Steps) /\ 1 \in DOMAIN s
  BY <1>1 DEF RunTypeOK
<1>4. UNCHANGED <<dry, result, wasLive, toggled>>
  BY <1>1 DEF Own, dryPast
<1>5. ~wasLive[a] => dry /\ Comes(s, Mutating, {"gate"})
  BY <1>1 DEF DryInv
<1> HIDE DEF s, u
<1>6. ~wasLive[a] => step \notin Mutating
  BY <1>1, <1>3, <1>5 DEF Comes
<1>7. sent'[a] => wasLive[a]
  BY <1>1, <1>6 DEF Hands, DryInv
<1>8. sample'[a] /\ ~toggled[a] => dry
  BY <1>1 DEF Hands, DryInv
<1>9. wasLive[a] \/ Comes(u, Mutating, {"gate"})
  <2>1. SUFFICES ASSUME ~wasLive[a], ~Stopped(a)
                 PROVE  Comes(u, Mutating, {"gate"})
    BY Over DEF u
  <2>2. step # "gate"
    BY <1>1, <1>5, <2>1 DEF Hands
  <2>3. PICK n \in 1..3 : Cleared(a, n)
    BY <1>2, <2>1
  <2>4. n \in 0..Len(s) /\ u = SubSeq(s, n + 1, Len(s))
    BY <2>3, Left DEF Cleared, s, u
  <2>5. \A i \in 1..n : s[i] # "gate"
    <3> SUFFICES ASSUME NEW i \in 1..n
                 PROVE  s[i] # "gate"
      OBVIOUS
    <3>1. i = 1 \/ i \in 2..n
      OBVIOUS
    <3>2. \A j \in 2..n : s[j] # "gate"
      BY <2>3 DEF Cleared, Skips, s
    <3> QED BY <1>1, <2>2, <3>1, <3>2
  <2> QED BY <1>3, <1>5, <2>1, <2>4, <2>5, RestComes
<1> QED BY <1>4, <1>7, <1>8, <1>9 DEF DryInv, u

\* What a handler of the playground may have running.
LEMMA Limits ==
    ASSUME NEW t \in Tasks
    PROVE  Sound(t) /\ t.most \in 0..Launches /\ Limit(t) \in 0..Launches /\ Limit(t) \in Nat
<1>1. Sound(t)
  BY TasksAreSound
<1> QED BY <1>1, RunAssumption DEF Sound, Limit

\* A step launches no more than its handler may have, and none once it is turned away.
LEMMA FootStep ==
    ASSUME NEW a \in Requests, RunTypeOK, PlanInv(a), FootInv(a), Does(a)
    PROVE  FootInv(a)' /\ launched'[a] \in 0..Launches /\ own'[a] \subseteq 1..Launches
<1> DEFINE s == todo[a]
           u == todo'[a]
           k == launched[a]
           k2 == launched'[a]
           limit == Limit(task[a])
<1>1. PICK step \in Steps \ Ends : s # <<>> /\ s[1] = step /\ Own(a) /\ Has(a, step) /\ result[a] = "going"
  BY DEF Does
<1>2. Stopped(a) \/ \E n \in 1..3 : Cleared(a, n)
  BY DEF Does
<1>3. s \in Seq(Steps) /\ 1 \in DOMAIN s /\ k \in Nat
  BY <1>1 DEF RunTypeOK
<1>4. UNCHANGED <<result, task>>
  BY <1>1 DEF Own
<1>5. /\ task[a] \in Tasks /\ own[a] \subseteq 1..k /\ Affordable(s, k, limit) /\ InOrder(s)
      /\ k > 0 => \A i \in DOMAIN s : s[i] \notin Deciding \union {"dry", "refused"}
      /\ ~Probes(task[a]) => PlainSteps(s)
  BY <1>1 DEF FootInv, PlanInv
<1>6. limit \in Nat /\ limit <= Launches
  BY <1>5, Limits, RunAssumption
<1>7. PICK w \in 0..Cost(step) : k2 = k + w /\ own'[a] \subseteq own[a] \union ((k + 1)..(k + w))
  BY <1>1 DEF Has
<1>8. Cost(step) \in Nat /\ w \in Nat
  BY RunAssumption DEF Cost
<1> HIDE DEF s, u, k, k2, limit
<1>9. /\ k + w \in 0..limit
      /\ \A n \in 1..3 : n <= Len(s) => Affordable(SubSeq(s, n + 1, Len(s)), k + w, limit)
      /\ \A how \in Ends : Affordable(<<how>>, k + w, limit)
  BY <1>1, <1>3, <1>5, <1>6, <1>7, Rooms
<1>10. own'[a] \subseteq 1..k2
  <2> SUFFICES ASSUME NEW i \in own'[a]
               PROVE  i \in 1..k2
    OBVIOUS
  <2>1. i \in 1..k \/ i \in (k + 1)..(k + w)
    BY <1>5, <1>7
  <2> QED BY <1>3, <1>7, <1>8, <2>1
<1>11. Affordable(u, k2, limit)
  <2>1. CASE Stopped(a)
    <3>1. PICK how \in Ends : u = <<how>>
      BY <2>1 DEF Stopped, u
    <3> QED BY <1>7, <1>9, <3>1
  <2>2. ASSUME NEW n \in 1..3, Cleared(a, n)
        PROVE  Affordable(u, k2, limit)
    <3>1. u = SubSeq(s, n + 1, Len(s)) /\ n <= Len(s)
      BY <2>2 DEF Cleared, Skips, s, u
    <3> QED BY <1>7, <1>9, <3>1
  <2> QED BY <1>2, <2>1, <2>2
<1>12. \A i \in DOMAIN u : \/ Stopped(a) /\ i = 1
                           \/ \E n \in 1..3 : /\ Cleared(a, n) /\ n + i \in DOMAIN s /\ u[i] = s[n + i] /\ i \in Nat
                                              /\ n + i # 1 /\ Len(s) # 1
  <2> SUFFICES ASSUME NEW i \in DOMAIN u, ~Stopped(a)
               PROVE  \E n \in 1..3 : /\ Cleared(a, n) /\ n + i \in DOMAIN s /\ u[i] = s[n + i] /\ i \in Nat
                                      /\ n + i # 1 /\ Len(s) # 1
    BY Over DEF u
  <2>1. PICK n \in 1..3 : Cleared(a, n)
    BY <1>2
  <2> DEFINE m == Len(s) - n
  <2>2. /\ m \in Nat /\ DOMAIN s = 1..(n + m) /\ DOMAIN u = 1..m /\ Len(s) = n + m
        /\ \A j \in 1..m : u[j] = s[n + j] /\ n + j \in 1..(n + m)
    BY <2>1, Left DEF s, u
  <2> HIDE DEF m
  <2>3. i \in 1..m /\ n + i # 1 /\ n + m # 1 /\ i \in Nat
    BY <2>2
  <2> QED BY <2>1, <2>2, <2>3
<1>13. ASSUME k2 > 0, NEW i \in DOMAIN u
       PROVE  u[i] \notin Deciding \union {"dry", "refused"}
  <2>1. CASE Stopped(a)
    <3>1. i = 1 /\ u[1] \in Ends /\ (u[1] \in {"dry", "refused"} => step \in Deciding)
      BY <1>1, <2>1, Over DEF s, u
    <3>2. u[1] \notin Deciding
      BY <3>1 DEF Ends, Deciding
    <3>3. step \notin Deciding
      <4>1. CASE k > 0
        BY <1>1, <1>3, <1>5, <4>1
      <4>2. CASE w > 0
        <5>1. step \in Launching
          BY <1>7, <4>2 DEF Cost, Launching
        <5> QED BY <5>1 DEF Launching, Deciding
      <4> QED BY <1>3, <1>7, <1>8, <1>13, <4>1, <4>2
    <3> QED BY <3>1, <3>2, <3>3
  <2>2. CASE ~Stopped(a)
    <3>1. PICK n \in 1..3 : n + i \in DOMAIN s /\ u[i] = s[n + i] /\ i \in Nat /\ n + i # 1 /\ Len(s) # 1
      BY <1>12, <2>2
    <3>2. CASE k > 0
      BY <1>5, <3>1, <3>2
    <3>3. CASE w > 0
      <4>1. step \in Launching
        BY <1>7, <3>3 DEF Cost, Launching
      <4>2. s[n + i] \notin Deciding
        <5>1. Precede(s, Deciding, Launching)
          BY <1>5 DEF InOrder
        <5>2. s[n + i] \in Deciding => n + i < 1
          BY <1>1, <1>3, <3>1, <4>1, <5>1 DEF Precede
        <5>3. DOMAIN s = 1..Len(s)
          BY <1>3
        <5>4. n + i >= 1
          BY <3>1, <5>3
        <5> QED BY <3>1, <5>2, <5>4
      <4>3. s[n + i] \notin Ends
        BY <1>5, <3>1 DEF InOrder
      <4> QED BY <3>1, <4>2, <4>3 DEF Ends
    <3> QED BY <1>3, <1>7, <1>8, <1>13, <3>2, <3>3
  <2> QED BY <2>1, <2>2
<1>14. ~Probes(task[a]) => PlainSteps(u)
  <2> SUFFICES ASSUME PlainSteps(s), NEW i \in DOMAIN u
               PROVE  u[i] \notin {"terminateFirst", "terminateLast"}
    BY <1>5 DEF PlainSteps
  <2>1. CASE Stopped(a)
    BY <2>1, Over DEF u, Ends
  <2>2. CASE ~Stopped(a)
    BY <1>12, <2>2 DEF PlainSteps
  <2> QED BY <2>1, <2>2
<1>15. FootInv(a)'
  <2>1. limit = Limit(task[a])'
    BY <1>4 DEF limit
  <2> QED BY <1>4, <1>5, <1>10, <1>11, <1>13, <1>14, <2>1 DEF FootInv, u, k2
<1>16. k2 \in 0..Launches
  BY <1>6, <1>7, <1>9, RunAssumption
<1>17. own'[a] \subseteq 1..Launches
  <2>1. \A i \in 1..k2 : i \in 1..Launches
    BY <1>16, RunAssumption
  <2> QED BY <1>10, <2>1
<1> QED BY <1>15, <1>16, <1>17 DEF k2

\* What is due stays due until it is done.
LEMMA StillDue ==
    ASSUME NEW s \in Seq(Steps), NEW n \in 0..Len(s), NEW i \in Nat, Due(s, n + i)
    PROVE  Due(SubSeq(s, n + 1, Len(s)), i)
<1> DEFINE u == SubSeq(s, n + 1, Len(s))
           m == Len(s) - n
<1>1. DOMAIN u = 1..m /\ \A j \in 1..m : u[j] = s[n + j]
  BY Rest
<1>2. m \in Nat /\ n \in Nat /\ DOMAIN s = 1..(n + m)
  OBVIOUS
<1> HIDE DEF u, m
<1>3. PICK k \in DOMAIN s : /\ k > n + i /\ s[k] = "terminateLast"
                            /\ \A j \in ((n + i) + 1)..(k - 1) : s[j] \notin Launching
  BY DEF Due
<1>4. k - n \in 1..m /\ n + (k - n) = k /\ k - n > i
  BY <1>2, <1>3
<1>5. u[k - n] = "terminateLast"
  BY <1>1, <1>3, <1>4
<1>6. ASSUME NEW j \in (i + 1)..((k - n) - 1)
      PROVE  u[j] \notin Launching
  <2>1. j \in 1..m /\ n + j \in ((n + i) + 1)..(k - 1)
    BY <1>2, <1>3, <1>4
  <2> QED BY <1>1, <1>3, <2>1
<1>7. Due(u, i)
  BY <1>1, <1>4, <1>5, <1>6 DEF Due
<1> QED BY <1>7 DEF u

\* A step of a probe keeps all but its first microVM for as long as it is timed.
LEMMA ProbeStep ==
    ASSUME NEW a \in Requests, RunTypeOK, PlanInv(a), FootInv(a), ProbeInv(a), Does(a)
    PROVE  ProbeInv(a)'
<1> DEFINE s == todo[a]
           u == todo'[a]
           k == launched[a]
           k2 == launched'[a]
<1>1. PICK step \in Steps \ Ends : s # <<>> /\ s[1] = step /\ Own(a) /\ Has(a, step) /\ result[a] = "going"
  BY DEF Does
<1>2. Stopped(a) \/ \E n \in 1..3 : Cleared(a, n)
  BY DEF Does
<1>3. s \in Seq(Steps) /\ 1 \in DOMAIN s /\ k \in Nat /\ Len(s) \in Nat /\ DOMAIN s = 1..Len(s)
  BY <1>1 DEF RunTypeOK
<1>4. UNCHANGED <<result, task>>
  BY <1>1 DEF Own
<1>5. SUFFICES ASSUME Probes(task[a])
               PROVE  /\ own'[a] \subseteq {1, k2}
                      /\ Ended(u) \/ Due(u, 0) \/ own'[a] \subseteq {1}
                      /\ ProbeSteps(u, k2)
                      /\ task[a].leaves = 0 =>
                            \/ Ended(u) \/ (u = <<>> /\ own'[a] = {})
                            \/ \E i \in DOMAIN u : u[i] = "terminateFirst"
  BY <1>4 DEF ProbeInv
<1>6. /\ own[a] \subseteq 1..k /\ InOrder(s)
      /\ own[a] \subseteq {1, k} /\ (Ended(s) \/ Due(s, 0) \/ own[a] \subseteq {1})
      /\ ProbeSteps(s, k)
      /\ task[a].leaves = 0 =>
            \/ Ended(s) \/ (s = <<>> /\ own[a] = {})
            \/ \E i \in DOMAIN s : s[i] = "terminateFirst"
  BY <1>1, <1>5 DEF FootInv, PlanInv, ProbeInv
<1>7. PICK w \in 0..Cost(step) : k2 = k + w /\ own'[a] \subseteq own[a] \union ((k + 1)..(k + w))
  BY <1>1 DEF Has
<1>8. /\ step = "terminateLast" => Stopped(a) \/ k \notin own'[a]
      /\ step = "terminateFirst" => Stopped(a) \/ 1 \notin own'[a]
  BY <1>1 DEF Has
<1> HIDE DEF s, u, k, k2
<1>9. ~Ended(s)
  BY <1>1, <1>3, <1>6 DEF InOrder, Ended
<1>10. step \in Launching => step = "launch" /\ (Due(s, 1) \/ k = 0)
  BY <1>1, <1>3, <1>6 DEF ProbeSteps
<1>11. step \in Launching => ~Due(s, 0)
  <2> SUFFICES ASSUME step \in Launching, Due(s, 0)
               PROVE  FALSE
    OBVIOUS
  <2>1. PICK j \in DOMAIN s : /\ j > 0 /\ s[j] = "terminateLast"
                              /\ \A i \in (0 + 1)..(j - 1) : s[i] \notin Launching
    BY DEF Due
  <2>2. j = 1 \/ 1 \in (0 + 1)..(j - 1)
    BY <1>3, <2>1
  <2> QED BY <1>1, <2>1, <2>2 DEF Launching
<1>12. w = 0 \/ (w = 1 /\ step = "launch" /\ own[a] \subseteq {1})
  <2>1. CASE step \in Launching
    <3>1. Cost(step) = 1
      BY <1>10, <2>1 DEF Cost
    <3> QED BY <1>6, <1>7, <1>9, <1>10, <1>11, <2>1, <3>1
  <2>2. CASE step \notin Launching
    <3>1. Cost(step) = 0
      BY <2>2 DEF Cost, Launching
    <3> QED BY <1>7, <3>1
  <2> QED BY <2>1, <2>2
<1>13. w = 0 => k2 = k /\ own'[a] \subseteq own[a]
  BY <1>3, <1>7
<1>14. w = 1 => k2 = k + 1 /\ own'[a] \subseteq {1, k + 1} /\ own'[a] \subseteq own[a] \union {k + 1}
  <2>1. (k + 1)..(k + 1) = {k + 1}
    BY <1>3
  <2> QED BY <1>7, <1>12, <2>1
<1>15. own'[a] \subseteq {1, k2}
  BY <1>6, <1>12, <1>13, <1>14
<1>16. CASE Stopped(a)
  <2>1. /\ Ended(u) /\ DOMAIN u = {1} /\ u[1] \in Ends
    BY <1>16, Over DEF u
  <2>2. ProbeSteps(u, k2)
    BY <2>1 DEF ProbeSteps, Ends, Launching
  <2> QED BY <1>15, <2>1, <2>2
<1>17. CASE ~Stopped(a)
  <2>1. PICK n \in 1..3 : Cleared(a, n)
    BY <1>2, <1>17
  <2> DEFINE m == Len(s) - n
  <2>2. /\ m \in Nat /\ DOMAIN s = 1..(n + m) /\ DOMAIN u = 1..m /\ Len(s) = n + m /\ n \in 0..Len(s)
        /\ \A j \in 1..m : u[j] = s[n + j] /\ n + j \in 1..(n + m)
        /\ u = SubSeq(s, n + 1, Len(s)) /\ u \in Seq(Steps) /\ Len(u) = m
    BY <2>1, Left DEF Cleared, s, u
  <2>3. /\ \A i \in 2..n : s[i] \in {"ask", "keep", "build", "store"}
        /\ n > 1 => s[1] \in {"account", "ask", "lookup"}
    BY <2>1 DEF Cleared, Skips, s
  <2> HIDE DEF m
  <2>4. \A i \in Nat : Due(s, n + i) => Due(u, i)
    BY <1>3, <2>2, StillDue
  <2>5. ASSUME step \in Launching
        PROVE  Due(u, 0) \/ own'[a] \subseteq {1}
    <3>1. n = 1
      BY <1>1, <1>10, <2>3, <2>5
    <3>2. CASE Due(s, 1)
      <4>1. Due(s, n + 0)
        BY <3>1, <3>2
      <4> QED BY <2>4, <4>1
    <3>3. CASE k = 0
      <4>1. own[a] = {}
        BY <1>6, <3>3
      <4> QED BY <1>12, <1>13, <1>14, <3>3, <4>1
    <3> QED BY <1>10, <2>5, <3>2, <3>3
  <2>6. ASSUME step \notin Launching
        PROVE  Due(u, 0) \/ own'[a] \subseteq {1}
    <3>1. w = 0
      BY <1>12, <2>6 DEF Launching
    <3>2. CASE own[a] \subseteq {1}
      BY <1>13, <3>1, <3>2
    <3>3. CASE Due(s, 0)
      <4>1. PICK j \in DOMAIN s : /\ j > 0 /\ s[j] = "terminateLast"
                                  /\ \A i \in (0 + 1)..(j - 1) : s[i] \notin Launching
        BY <3>3 DEF Due
      <4>2. CASE j > n
        <5>1. \A i \in (n + 1)..(j - 1) : s[i] \notin Launching
          <6> SUFFICES ASSUME NEW i \in (n + 1)..(j - 1)
                       PROVE  s[i] \notin Launching
            OBVIOUS
          <6>1. i \in (0 + 1)..(j - 1)
            BY <2>2
          <6> QED BY <4>1, <6>1
        <5>2. Due(s, n)
          BY <4>1, <4>2, <5>1 DEF Due
        <5>3. Due(s, n + 0)
          BY <5>2
        <5> QED BY <2>4, <5>3
      <4>3. CASE j <= n
        <5>1. j = 1
          <6>1. j = 1 \/ j \in 2..n
            BY <2>2, <4>1, <4>3
          <6> QED BY <2>3, <4>1, <6>1
        <5>2. step = "terminateLast"
          BY <1>1, <4>1, <5>1
        <5>3. k \notin own'[a]
          BY <1>8, <1>17, <5>2
        <5> QED BY <1>6, <1>13, <3>1, <5>3
      <4> QED BY <2>2, <4>1, <4>2, <4>3
    <3> QED BY <1>6, <1>9, <3>2, <3>3
  <2>7. ProbeSteps(u, k2)
    <3> SUFFICES ASSUME NEW i \in 1..m, u[i] \in Launching
                 PROVE  /\ u[i] = "launch"
                        /\ Due(u, i) \/ (k2 = 0 /\ \A j \in 1..(i - 1) : u[j] \notin Launching)
      BY <2>2 DEF ProbeSteps
    <3>1. n + i \in DOMAIN s /\ s[n + i] = u[i]
      BY <2>2
    <3>2. /\ u[i] = "launch"
          /\ Due(s, n + i) \/ (k = 0 /\ \A j \in 1..((n + i) - 1) : s[j] \notin Launching)
      BY <1>6, <3>1 DEF ProbeSteps
    <3>3. CASE Due(s, n + i)
      BY <2>4, <3>2, <3>3
    <3>4. CASE k = 0 /\ \A j \in 1..((n + i) - 1) : s[j] \notin Launching
      <4>1. 1 \in 1..((n + i) - 1)
        BY <2>2
      <4>2. step \notin Launching
        BY <1>1, <3>4, <4>1
      <4>3. k2 = 0
        BY <1>12, <1>13, <3>4, <4>2 DEF Launching
      <4>4. ASSUME NEW j \in 1..(i - 1)
            PROVE  u[j] \notin Launching
        <5>1. j \in 1..m /\ n + j \in 1..((n + i) - 1)
          BY <2>2
        <5> QED BY <2>2, <3>4, <5>1
      <4> QED BY <3>2, <4>3, <4>4
    <3> QED BY <3>2, <3>3, <3>4
  <2>8. ASSUME task[a].leaves = 0
        PROVE  (u = <<>> /\ own'[a] = {}) \/ \E i \in DOMAIN u : u[i] = "terminateFirst"
    <3>1. PICK i \in DOMAIN s : s[i] = "terminateFirst"
      BY <1>1, <1>6, <1>9, <2>8
    <3>2. i = Len(s)
      BY <1>6, <3>1 DEF InOrder
    <3>3. CASE i > n
      <4>1. i - n \in 1..m /\ n + (i - n) = i
        BY <2>2, <3>1, <3>3
      <4>2. u[i - n] = s[n + (i - n)]
        BY <2>2, <4>1
      <4> QED BY <2>2, <3>1, <4>1, <4>2
    <3>4. CASE i <= n
      <4>1. i = 1
        <5>1. i = 1 \/ i \in 2..n
          BY <2>2, <3>1, <3>4
        <5> QED BY <2>3, <3>1, <5>1
      <4>2. step = "terminateFirst" /\ Len(s) = 1
        BY <1>1, <3>1, <3>2, <4>1
      <4>3. m = 0 /\ n = 1
        <5>1. n + m = 1 /\ n \in 1..3 /\ m \in Nat
          BY <2>2, <4>2
        <5> QED BY ONLY <5>1
      <4>4. u = <<>>
        BY <2>2, <4>3
      <4>5. w = 0
        BY <1>12, <4>2
      <4>6. own[a] \subseteq {1}
        <5>1. ~Due(s, 0)
          <6> SUFFICES ASSUME NEW j \in DOMAIN s, s[j] = "terminateLast"
                       PROVE  FALSE
            BY DEF Due
          <6>1. j = 1
            BY <1>3, <4>2
          <6> QED BY <1>1, <4>2, <6>1
        <5> QED BY <1>6, <1>9, <5>1
      <4>7. own'[a] = {}
        BY <1>8, <1>13, <1>17, <4>2, <4>5, <4>6
      <4> QED BY <4>4, <4>7
    <3>5. i \in 1..(n + m)
      BY <2>2, <3>1
    <3>6. i > n \/ i <= n
      BY <2>2, <3>5
    <3> QED BY <3>3, <3>4, <3>6
  <2> QED BY <1>15, <2>5, <2>6, <2>7, <2>8
<1> QED BY <1>16, <1>17

\* A request that no switch has crossed sees none under way, and the session as it is.
LEMMA Uncrossed ==
    ASSUME NEW a \in Requests, SessionInv, result[a] = "going", ~crossed[a]
    PROVE  switch = Idle /\ Phase = "idle" /\ Phase \notin Clearing
BY DEF SessionInv, Going, Phase, Idle, Clearing

\* Until something is kept by a crossed request, all that is kept for the configured
\* key is the session's.
LEMMA AsConfigured ==
    ASSUME RunTypeOK, KeptInv, ~poisoned, Phase = "idle"
    PROVE  /\ sess[cfg] = Good /\ Good \in Client /\ Good # None /\ SessionOf(cfg) = Good
           /\ accounts[cfg] \in {None, Who(cfg)} /\ clients[cfg] \in {None, Good}
           /\ monitor # None /\ monitor.key = cfg => monitor.client = Good
           /\ cfg \in Keys
<1>1. Good \in Client /\ Good # None /\ cfg \in Keys
  BY RunAssumption DEF RunTypeOK, Good, Client, Who, Identities
<1>2. /\ sess[cfg] = Good /\ accounts[cfg] \in {None, Who(cfg)} /\ clients[cfg] \in {None, Good}
      /\ monitor # None /\ monitor.key = cfg => monitor.client = Good
  BY DEF KeptInv
<1> QED BY <1>1, <1>2 DEF SessionOf

\* What a step does to the sessions that are open.
LEMMA Opens ==
    ASSUME NEW a \in Requests, RunTypeOK, PlanInv(a), Does(a)
    PROVE  /\ UNCHANGED <<dry, env, traced, switching, task, result, dryPast>>
           /\ result[a] = "going"
           /\ UNCHANGED sess \/ \E key \in Keys : sess' = [sess EXCEPT ![key] = SessionOf(key)]
<1>1. PICK step \in Steps \ Ends : todo[a] # <<>> /\ todo[a][1] = step /\ Own(a) /\ Uses(a, step) /\ result[a] = "going"
  BY DEF Does
<1>2. todo[a] \in Seq(Steps) /\ cfg \in Keys
  BY DEF RunTypeOK
<1>3. step = "ask" => held[a] \in Keys
  BY <1>1, <1>2, KeyInHand DEF PlanInv, NeedsKey
<1>4. \/ UNCHANGED sess
      \/ OpenSession(cfg)
      \/ step = "ask" /\ OpenSession(held[a])
  BY <1>1 DEF Uses, KeepAccount, Store, Monitor, WriteConfig, caches
<1>5. UNCHANGED sess \/ \E key \in Keys : sess' = [sess EXCEPT ![key] = SessionOf(key)]
  BY <1>2, <1>3, <1>4 DEF OpenSession
<1> QED BY <1>1, <1>5 DEF Own

\* A step leaves the sessions as they should be.
LEMMA SessionStep ==
    ASSUME NEW a \in Requests, RunTypeOK, SessionInv, PlanInv(a), Does(a)
    PROVE  SessionInv'
<1>1. UNCHANGED <<env, traced, switch, result>>
  BY Opens DEF switching
<1>2. result[a] = "going"
  BY Opens
<1>3. \A k \in Keys : sess'[k] = sess[k] \/ sess'[k] = SessionOf(k)
  <2>1. sess \in [Keys -> Client \union {None}]
    BY DEF RunTypeOK
  <2>2. UNCHANGED sess \/ \E key \in Keys : sess' = [sess EXCEPT ![key] = SessionOf(key)]
    BY Opens
  <2> QED BY <2>1, <2>2
<1>4. \A k \in Keys : sess'[k] = None \/ (sess'[k] \in Client /\ sess'[k].hooks \in 0..1)
  <2>1. \A k \in Keys : [who |-> Who(k), hooks |-> 0] \in Client
    BY DEF RunTypeOK, Client, Who, Identities
  <2>2. \A k \in Keys : sess[k] = None \/ (sess[k] \in Client /\ sess[k].hooks \in 0..1)
    BY DEF SessionInv
  <2> SUFFICES ASSUME NEW k \in Keys
               PROVE  sess'[k] = None \/ (sess'[k] \in Client /\ sess'[k].hooks \in 0..1)
    OBVIOUS
  <2>3. [who |-> Who(k), hooks |-> 0].hooks \in 0..1
    OBVIOUS
  <2>4. \/ sess'[k] = sess[k]
        \/ sess'[k] = [who |-> Who(k), hooks |-> 0]
    BY <1>3 DEF SessionOf
  <2> QED BY <2>1, <2>2, <2>3, <2>4
<1>5. Phase \in Clearing \ {"sessions"} =>
         \A k \in Keys : sess'[k] \in {None, [who |-> Who(k), hooks |-> 0]}
  BY <1>3 DEF SessionInv, SessionOf
<1>6. switch # Idle => \A b \in Going : crossed'[b]
  <2>1. crossed'[a] = crossed[a] \/ crossed'[a] = (switch # Idle)
    BY DEF Does, Hands
  <2>2. crossed' = [crossed EXCEPT ![a] = crossed'[a]] /\ crossed \in [Requests -> BOOLEAN]
    BY DEF Does, Own, RunTypeOK
  <2>3. \A b \in Requests : b # a => crossed'[b] = crossed[b]
    BY <2>2
  <2>4. switch # Idle => \A b \in Going : crossed[b]
    BY DEF SessionInv
  <2>5. a \in Going
    BY <1>2 DEF Going
  <2>6. switch # Idle => crossed'[a]
    BY <2>1, <2>4, <2>5
  <2> QED BY <2>3, <2>4, <2>6 DEF Going
<1>7. /\ switch \in {Idle, <<"dry", "idle">>, <<"verify", "idle">>} \union (Clearing \X {"idle", "verify"})
      /\ Phase = "ensure" => traced = {}
  BY DEF SessionInv
<1>8. Phase' = Phase /\ Going' = Going /\ (\A k \in Keys : Who(k)' = Who(k))
  BY <1>1 DEF Phase, Going, Who
<1>9. \A k \in Keys : sess'[k] = None \/ (sess'[k] \in Client /\ (sess'[k]).hooks \in 0..1)
  BY <1>4
<1> QED BY <1>1, <1>4, <1>5, <1>6, <1>7, <1>8 DEF SessionInv

\* A step that keeps something, by a request that was not crossed, keeps it for the
\* session that is configured; one by another is known to have spoiled it.
LEMMA Keeps ==
    ASSUME NEW a \in Requests, RunTypeOK, SessionInv, KeptInv, PlanInv(a), ActInv(a), Does(a), ~poisoned'
    PROVE  /\ ~poisoned
           /\ \/ UNCHANGED <<accounts, clients, monitor, cfg>>
              \/ /\ ~crossed[a] /\ held[a] = cfg
                 /\ \/ /\ todo[a][1] = "keep" /\ UNCHANGED <<clients, monitor, cfg>>
                       /\ accounts' = [accounts EXCEPT ![cfg] = Who(cfg)]
                    \/ /\ todo[a][1] = "store" /\ UNCHANGED <<accounts, monitor, cfg>>
                       /\ clients' = [clients EXCEPT ![cfg] = Good] /\ using'[a] = Good
                    \/ /\ todo[a][1] = "monitor" /\ UNCHANGED <<accounts, clients, cfg>>
                       /\ monitor' = [key |-> cfg, client |-> Good] /\ using'[a] = Good
<1>1. PICK step \in Steps \ Ends : todo[a] # <<>> /\ todo[a][1] = step /\ Own(a) /\ Uses(a, step) /\ result[a] = "going"
  BY DEF Does
<1>2. todo[a] \in Seq(Steps) /\ using \in [Requests -> Client \union {None}]
  BY DEF RunTypeOK
<1>3. ~poisoned
  BY <1>1 DEF Uses, KeepAccount, Store, Monitor, WriteConfig, Poison
<1>4. ASSUME ~crossed[a], step \in NeedsKey
      PROVE  /\ held[a] = cfg /\ (step \in {"keep", "store"} => made[a] = Good)
             /\ SessionOf(cfg) = Good /\ clients[cfg] \in {None, Good} /\ Good # None
             /\ monitor # None /\ monitor.key = cfg => monitor.client = Good
  <2>1. Phase = "idle"
    BY <1>1, <1>4, Uncrossed
  <2>2. /\ SessionOf(cfg) = Good /\ clients[cfg] \in {None, Good} /\ Good # None
        /\ monitor # None /\ monitor.key = cfg => monitor.client = Good
    BY <1>3, <2>1, AsConfigured
  <2>3. step \in {"keep", "store"} => made[a] = Good
    BY <1>1, <1>3, <1>4 DEF ActInv
  <2>4. held[a] = cfg
    <3>1. held[a] = cfg \/ Comes(todo[a], NeedsKey, GivesKey)
      BY <1>1, <1>3, <1>4 DEF ActInv
    <3> QED BY <1>1, <1>2, <1>4, <3>1, KeyInHand
  <2> QED BY <2>2, <2>3, <2>4
<1>5. CASE UNCHANGED <<accounts, clients, monitor, cfg, poisoned>>
  BY <1>3, <1>5
<1>6. CASE KeepAccount(a)
  <2>1. ~crossed[a] /\ step = "keep" /\ UNCHANGED <<clients, monitor, cfg>>
    BY <1>1, <1>2, <1>6, AtFirst DEF KeepAccount, Poison, session
  <2>2. held[a] = cfg /\ made[a] = Good
    BY <1>4, <2>1 DEF NeedsKey
  <2>3. accounts' = [accounts EXCEPT ![cfg] = Good.who]
    BY <1>6, <2>2 DEF KeepAccount
  <2> QED BY <1>1, <1>3, <2>1, <2>2, <2>3 DEF Good
<1>7. CASE Store(a)
  <2>1. ~crossed[a] /\ step = "store" /\ UNCHANGED <<accounts, monitor, cfg>>
    BY <1>1, <1>2, <1>7, AtFirst DEF Store, Poison, session
  <2>2. held[a] = cfg /\ made[a] = Good /\ clients[cfg] \in {None, Good}
    BY <1>4, <2>1 DEF NeedsKey
  <2>3. clients' = [clients EXCEPT ![cfg] = Good] /\ using'[a] = Good
    <3>1. (IF clients[held[a]] = None THEN made[a] ELSE clients[held[a]]) = Good
      BY <2>2
    <3> HIDE DEF Good
    <3> QED BY <1>2, <1>7, <2>2, <3>1 DEF Store
  <2> QED BY <1>1, <1>3, <2>1, <2>2, <2>3
<1>8. CASE Monitor(a)
  <2>1. step = "monitor" /\ UNCHANGED <<accounts, clients, cfg>>
    BY <1>1, <1>2, <1>8, AtFirst DEF Monitor, session
  <2>2. CASE monitor # None /\ monitor.key = held[a]
    BY <1>3, <1>8, <2>1, <2>2 DEF Monitor
  <2>3. CASE ~(monitor # None /\ monitor.key = held[a])
    <3>1. ~crossed[a] /\ monitor' = [key |-> held[a], client |-> SessionOf(cfg)]
      BY <1>8, <2>3 DEF Monitor, Poison
    <3>2. held[a] = cfg /\ SessionOf(cfg) = Good
      BY <1>4, <2>1, <3>1 DEF NeedsKey
    <3>3. monitor' = [key |-> cfg, client |-> Good]
      BY <3>1, <3>2
    <3>4. using'[a] = monitor'.client
      BY <1>2, <1>8 DEF Monitor
    <3>5. using'[a] = Good
      BY <3>3, <3>4
    <3> QED BY <1>1, <1>3, <2>1, <3>1, <3>2, <3>3, <3>5
  <2> QED BY <2>2, <2>3
<1>9. CASE WriteConfig(a)
  <2>1. ~crossed[a] /\ step = "config" /\ UNCHANGED <<accounts, clients, monitor>> /\ cfg' = held[a]
    BY <1>1, <1>2, <1>9, AtFirst DEF WriteConfig, Poison, caches
  <2>2. held[a] = cfg
    BY <1>4, <2>1 DEF NeedsKey
  <2> QED BY <1>3, <2>1, <2>2
<1> QED BY <1>1, <1>5, <1>6, <1>7, <1>8, <1>9 DEF Uses

\* So what is kept stays what it should be.
LEMMA KeptStep ==
    ASSUME NEW a \in Requests, RunTypeOK, SessionInv, KeptInv, PlanInv(a), ActInv(a), Does(a)
    PROVE  KeptInv'
<1>1. SUFFICES ASSUME ~poisoned'
               PROVE  KeptInv'
  BY DEF KeptInv
<1>2. UNCHANGED <<env, switch>> /\ result[a] = "going" /\ Phase' = Phase
  BY Opens DEF switching, Phase
<1>3. ~poisoned /\ UNCHANGED cfg
  BY <1>1, Keeps
<1>4. Good' = Good /\ Who(cfg)' = Who(cfg)
  BY <1>2, <1>3 DEF Good, Who
<1>5. /\ accounts \in [Keys -> Identities \union {None}] /\ clients \in [Keys -> Client \union {None}]
      /\ sess \in [Keys -> Client \union {None}] /\ cfg \in Keys
  BY DEF RunTypeOK
<1>6. CASE UNCHANGED <<accounts, clients, monitor>>
  <2>1. /\ Phase \in {"clients", "traced", "ensure"} => \A k \in Keys : accounts'[k] = None
        /\ Phase \in {"traced", "ensure"} => monitor' = None /\ \A k \in Keys : clients'[k] = None
    BY <1>3, <1>6 DEF KeptInv
  <2>2. ASSUME Phase \in {"idle", "verify"}
        PROVE  /\ sess'[cfg] = Good /\ accounts'[cfg] \in {None, Who(cfg)} /\ clients'[cfg] \in {None, Good}
               /\ monitor' # None /\ monitor'.key = cfg => monitor'.client = Good
    <3>1. /\ sess[cfg] = Good /\ accounts[cfg] \in {None, Who(cfg)} /\ clients[cfg] \in {None, Good}
          /\ monitor # None /\ monitor.key = cfg => monitor.client = Good
      BY <1>3, <2>2 DEF KeptInv
    <3>2. Good # None
      BY RunAssumption DEF RunTypeOK, Good, Client, Who, Identities
    <3>3. sess'[cfg] = Good
      <4>1. UNCHANGED sess \/ \E key \in Keys : sess' = [sess EXCEPT ![key] = SessionOf(key)]
        BY Opens
      <4>2. SessionOf(cfg) = Good
        BY <3>1, <3>2 DEF SessionOf
      <4> QED BY <1>5, <3>1, <4>1, <4>2
    <3> QED BY <1>6, <3>1, <3>3
  <2> QED BY <1>2, <1>3, <1>4, <2>1, <2>2 DEF KeptInv
<1>7. CASE ~UNCHANGED <<accounts, clients, monitor>>
  <2>1. ~crossed[a]
    BY <1>1, <1>3, <1>7, Keeps
  <2>2. Phase = "idle"
    BY <1>2, <2>1, Uncrossed
  <2>3. /\ sess[cfg] = Good /\ accounts[cfg] \in {None, Who(cfg)} /\ clients[cfg] \in {None, Good}
        /\ monitor # None /\ monitor.key = cfg => monitor.client = Good
        /\ SessionOf(cfg) = Good
    BY <1>3, <2>2, AsConfigured
  <2>4. sess'[cfg] = Good
    <3>1. UNCHANGED sess \/ \E key \in Keys : sess' = [sess EXCEPT ![key] = SessionOf(key)]
      BY Opens
    <3> QED BY <1>5, <2>3, <3>1
  <2>5. \/ UNCHANGED <<clients, monitor>> /\ accounts' = [accounts EXCEPT ![cfg] = Who(cfg)]
        \/ UNCHANGED <<accounts, monitor>> /\ clients' = [clients EXCEPT ![cfg] = Good]
        \/ UNCHANGED <<accounts, clients>> /\ monitor' = [key |-> cfg, client |-> Good]
    BY <1>1, <1>7, Keeps
  <2>6. accounts'[cfg] \in {None, Who(cfg)}
    BY <1>5, <2>3, <2>5
  <2>7. clients'[cfg] \in {None, Good}
    BY <1>5, <2>3, <2>5
  <2>8. monitor' # None /\ monitor'.key = cfg => monitor'.client = Good
    BY <2>3, <2>5
  <2> QED BY <1>2, <1>3, <1>4, <2>2, <2>4, <2>6, <2>7, <2>8 DEF KeptInv
<1> QED BY <1>6, <1>7

\* A request that is not crossed goes on working with the session.
LEMMA ActStep ==
    ASSUME NEW a \in Requests, RunTypeOK, SessionInv, KeptInv, PlanInv(a), ActInv(a), Does(a)
    PROVE  ActInv(a)'
<1> DEFINE s == todo[a]
           u == todo'[a]
<1>1. PICK step \in Steps \ Ends : /\ s # <<>> /\ s[1] = step /\ Own(a) /\ Hands(a, step) /\ Uses(a, step)
                                   /\ result[a] = "going"
  BY DEF Does
<1>2. Stopped(a) \/ \E n \in 1..3 : Cleared(a, n)
  BY DEF Does
<1>3. SUFFICES ASSUME ~poisoned', ~crossed'[a]
               PROVE  ActInv(a)'
  BY DEF ActInv
<1>4. s \in Seq(Steps) /\ 1 \in DOMAIN s /\ InOrder(s)
  BY <1>1 DEF RunTypeOK, PlanInv
<1>5. UNCHANGED <<env, switch>>
  BY Opens DEF switching
<1>6. ~poisoned /\ UNCHANGED cfg
  BY <1>3, Keeps
<1>7. Phase = "idle"
  <2>1. CASE crossed'[a] = crossed[a]
    BY <1>1, <1>3, <2>1, Uncrossed
  <2>2. CASE crossed'[a] = (switch # Idle)
    <3>1. ~(switch # Idle)
      BY <1>3, <2>2
    <3> QED BY <3>1 DEF Phase, Idle
  <2> QED BY <1>1, <2>1, <2>2 DEF Hands
<1>8. /\ SessionOf(cfg) = Good /\ clients[cfg] \in {None, Good} /\ Good' = Good
  BY <1>5, <1>6, <1>7, AsConfigured DEF Good, Who
<1> HIDE DEF s, u
<1>9. crossed'[a] = crossed[a] \/ step \in GivesKey \union {"serve"}
  BY <1>1 DEF Hands
<1>10. ~crossed[a] => /\ using[a] \in {None, Good}
                      /\ held[a] = cfg \/ Comes(s, NeedsKey, GivesKey)
  BY <1>1, <1>6 DEF ActInv, s
<1>11. using'[a] \in {None, Good}
  <2>1. CASE using'[a] = using[a] /\ step \notin GivesKey \union {"serve", "store", "monitor"}
    BY <1>3, <1>9, <1>10, <2>1
  <2>2. CASE using'[a] \in {None, clients[cfg], SessionOf(cfg)}
    BY <1>8, <2>2
  <2>3. CASE Store(a)
    <3>1. step = "store" /\ (~poisoned' => ~crossed[a])
      BY <1>1, <1>4, <2>3, AtFirst DEF Store, Poison, s
    <3>2. made[a] = Good /\ held[a] = cfg
      <4>1. made[a] = Good
        BY <1>1, <1>3, <1>6, <3>1 DEF ActInv, s
      <4>2. step \in NeedsKey
        BY <3>1 DEF NeedsKey
      <4> QED BY <1>1, <1>3, <1>4, <1>10, <3>1, <4>1, <4>2, KeyInHand DEF s
    <3>3. using \in [Requests -> Client \union {None}]
      BY DEF RunTypeOK
    <3>4. using'[a] \in {made[a], clients[held[a]]}
      BY <2>3, <3>3 DEF Store
    <3> QED BY <1>8, <3>2, <3>4
  <2>4. CASE Monitor(a)
    <3>1. step = "monitor"
      BY <1>1, <1>4, <2>4, AtFirst DEF Monitor, s
    <3>2. ~crossed[a]
      BY <1>3, <1>9, <3>1 DEF GivesKey
    <3>3. held[a] = cfg
      <4>1. step \in NeedsKey
        BY <3>1 DEF NeedsKey
      <4> QED BY <1>1, <1>4, <1>10, <3>2, <4>1, KeyInHand
    <3>4. using'[a] = monitor'.client
      <4>1. using \in [Requests -> Client \union {None}]
        BY DEF RunTypeOK
      <4> QED BY <2>4, <4>1 DEF Monitor
    <3>5. CASE monitor # None /\ monitor.key = cfg
      <4>1. monitor' = monitor
        BY <2>4, <3>3, <3>5 DEF Monitor
      <4>2. monitor.client = Good
        BY <1>6, <1>7, <3>5, AsConfigured
      <4> QED BY <3>4, <4>1, <4>2
    <3>6. CASE ~(monitor # None /\ monitor.key = cfg)
      <4>1. monitor' = [key |-> cfg, client |-> SessionOf(cfg)]
        BY <2>4, <3>3, <3>6 DEF Monitor
      <4> QED BY <1>8, <3>4, <4>1
    <3> QED BY <3>5, <3>6
  <2> QED BY <1>1, <2>1, <2>2, <2>3, <2>4 DEF Uses
<1>12. held'[a] = cfg \/ Comes(u, NeedsKey, GivesKey)
  <2>1. SUFFICES ASSUME held'[a] # cfg, ~Stopped(a)
                 PROVE  Comes(u, NeedsKey, GivesKey)
    BY Over DEF u
  <2>2. held'[a] = held[a] /\ step \notin GivesKey
    BY <1>1, <2>1 DEF Hands
  <2>3. PICK n \in 1..3 : Cleared(a, n)
    BY <1>2, <2>1
  <2> DEFINE m == Len(s) - n
  <2>4. /\ m \in Nat /\ DOMAIN s = 1..(n + m) /\ DOMAIN u = 1..m /\ n \in 0..Len(s)
        /\ \A j \in 1..m : u[j] = s[n + j] /\ n + j \in 1..(n + m)
        /\ u = SubSeq(s, n + 1, Len(s))
    BY <2>3, Left DEF Cleared, s, u
  <2> HIDE DEF m
  <2>5. CASE ~crossed[a]
    <3>1. Comes(s, NeedsKey, GivesKey)
      BY <1>10, <2>1, <2>2, <2>5
    <3>2. \A i \in 2..n : s[i] \notin GivesKey
      BY <2>3 DEF Cleared, Skips, GivesKey, s
    <3>3. \A i \in 1..n : s[i] \notin GivesKey
      <4> SUFFICES ASSUME NEW i \in 1..n
                   PROVE  s[i] \notin GivesKey
        OBVIOUS
      <4>1. i = 1 \/ i \in 2..n
        OBVIOUS
      <4> QED BY <1>1, <2>2, <3>2, <4>1
    <3> QED BY <1>4, <2>4, <3>1, <3>3, RestComes
  <2>6. CASE step = "serve"
    <3> SUFFICES ASSUME NEW i \in 1..m, u[i] \in NeedsKey
                 PROVE  FALSE
      BY <2>4 DEF Comes
    <3>1. n + i \in DOMAIN s /\ s[n + i] \in NeedsKey /\ n + i >= 1
      BY <2>4
    <3>2. n + i < 1
      BY <1>1, <1>4, <2>6, <3>1 DEF InOrder, Precede
    <3> QED BY <3>1, <3>2
  <2> QED BY <1>3, <1>9, <2>2, <2>5, <2>6
<1>13. ASSUME u # <<>>, u[1] \in {"keep", "store"}
       PROVE  made'[a] = Good
  <2>1. \/ step = "ask" /\ made'[a] = SessionOf(held[a])
        \/ step = "build" /\ made'[a] = SessionOf(cfg)
    BY <1>1, <1>13, JustMade DEF s, u
  <2>2. step = "ask" => held[a] = cfg
    <3>1. step = "ask" => step \in NeedsKey /\ ~crossed[a]
      BY <1>3, <1>9 DEF NeedsKey, GivesKey
    <3> QED BY <1>1, <1>4, <1>10, <3>1, KeyInHand
  <2> QED BY <1>8, <2>1, <2>2
<1>14. ActInv(a)'
  BY <1>6, <1>8, <1>11, <1>12, <1>13 DEF ActInv, u
<1> QED BY <1>14

\* A step leaves every variable in its type.
LEMMA TypeStep ==
    ASSUME NEW a \in Requests, RunTypeOK, SessionInv, PlanInv(a), FootInv(a), Does(a)
    PROVE  RunTypeOK'
<1>1. PICK step \in Steps \ Ends : /\ todo[a] # <<>> /\ todo[a][1] = step /\ Own(a)
                                   /\ Hands(a, step) /\ Uses(a, step)
  BY DEF Does
<1>2. /\ todo[a] \in Seq(Steps) /\ cfg \in Keys /\ held[a] \in Keys \union {None}
      /\ made[a] \in Client \union {None} /\ using[a] \in Client \union {None}
      /\ clients \in [Keys -> Client \union {None}]
      /\ accounts \in [Keys -> Identities \union {None}] /\ sess \in [Keys -> Client \union {None}]
      /\ monitor = None \/ monitor \in [key : Keys, client : Client]
  BY DEF RunTypeOK
<1>3. step \in NeedsKey => held[a] \in Keys
  BY <1>1, <1>2, KeyInHand DEF PlanInv
<1>4. \A k \in Keys : SessionOf(k) \in Client
  BY DEF RunTypeOK, SessionOf, Client, Who, Identities
<1>5. held'[a] \in Keys \union {None}
  BY <1>1, <1>2 DEF Hands
<1>6. made'[a] \in Client \union {None}
  BY <1>1, <1>2, <1>3, <1>4 DEF Hands, NeedsKey
<1>7. sess' \in [Keys -> Client \union {None}]
  <2>1. UNCHANGED sess \/ \E key \in Keys : sess' = [sess EXCEPT ![key] = SessionOf(key)]
    BY Opens
  <2> QED BY <1>2, <1>4, <2>1
<1>8. /\ cfg' \in Keys /\ accounts' \in [Keys -> Identities \union {None}]
      /\ clients' \in [Keys -> Client \union {None}]
      /\ monitor' = None \/ monitor' \in [key : Keys, client : Client]
      /\ poisoned' \in BOOLEAN
      /\ using'[a] \in Client \union {None}
  <2>1. poisoned \in BOOLEAN /\ crossed[a] \in BOOLEAN
    BY DEF RunTypeOK
  <2>2. poisoned' = poisoned \/ poisoned' = (poisoned \/ crossed[a])
    BY <1>1 DEF Uses, KeepAccount, Store, Monitor, WriteConfig, Poison
  <2>3. poisoned' \in BOOLEAN
    BY <2>1, <2>2
  <2>4. using \in [Requests -> Client \union {None}]
    BY DEF RunTypeOK
  <2>5. CASE KeepAccount(a)
    <3>1. step = "keep" /\ UNCHANGED <<cfg, clients, monitor, using>>
      BY <1>1, <1>2, <2>5, AtFirst DEF KeepAccount, session, hands
    <3>2. made[a] \in Client /\ held[a] \in Keys
      BY <1>1, <1>3, <3>1 DEF PlanInv, NeedsKey
    <3>3. made[a].who \in Identities
      BY <3>2 DEF Client
    <3>4. accounts' \in [Keys -> Identities \union {None}]
      BY <1>2, <2>5, <3>2, <3>3 DEF KeepAccount
    <3> QED BY <1>2, <2>3, <3>1, <3>4
  <2>6. CASE Store(a)
    <3>1. step = "store" /\ UNCHANGED <<cfg, accounts, monitor>>
      BY <1>1, <1>2, <2>6, AtFirst DEF Store, session
    <3>2. made[a] \in Client /\ held[a] \in Keys
      BY <1>1, <1>3, <3>1 DEF PlanInv, NeedsKey
    <3>3. PICK client \in Client : clients' = [clients EXCEPT ![held[a]] = client] /\ using'[a] = client
      BY <1>2, <2>4, <2>6, <3>2 DEF Store
    <3> QED BY <1>2, <2>3, <3>1, <3>2, <3>3
  <2>7. CASE Monitor(a)
    <3>1. step = "monitor" /\ UNCHANGED <<cfg, accounts, clients>>
      BY <1>1, <1>2, <2>7, AtFirst DEF Monitor, session
    <3>2. held[a] \in Keys
      BY <1>3, <3>1 DEF NeedsKey
    <3>3. monitor' \in [key : Keys, client : Client]
      <4>1. CASE monitor # None /\ monitor.key = held[a]
        BY <1>2, <2>7, <4>1 DEF Monitor
      <4>2. CASE ~(monitor # None /\ monitor.key = held[a])
        BY <1>2, <1>4, <2>7, <3>2, <4>2 DEF Monitor
      <4> QED BY <4>1, <4>2
    <3>4. using'[a] = monitor'.client
      BY <2>4, <2>7 DEF Monitor
    <3> QED BY <1>2, <2>3, <3>1, <3>3, <3>4
  <2>8. CASE WriteConfig(a)
    <3>1. step = "config" /\ cfg' = held[a] /\ UNCHANGED <<accounts, clients, monitor, using>>
      BY <1>1, <1>2, <2>8, AtFirst DEF WriteConfig, caches, hands
    <3> QED BY <1>2, <1>3, <2>3, <3>1 DEF NeedsKey
  <2>9. CASE UNCHANGED <<accounts, clients, monitor, cfg, poisoned>>
    <3>1. using'[a] \in Client \union {None}
      <4>1. CASE Store(a) \/ Monitor(a)
        BY <2>6, <2>7, <4>1
      <4>2. CASE using'[a] = using[a] \/ using'[a] \in {None, clients[cfg], SessionOf(cfg)}
        BY <1>2, <1>4, <4>2
      <4> QED BY <1>1, <4>1, <4>2 DEF Uses
    <3> QED BY <1>2, <2>3, <2>9, <3>1
  <2> QED BY <1>1, <2>5, <2>6, <2>7, <2>8, <2>9 DEF Uses
<1>9. sample'[a] \in BOOLEAN /\ sent'[a] \in BOOLEAN
  <2>1. sample[a] \in BOOLEAN /\ dry \in BOOLEAN /\ sent[a] \in BOOLEAN
    BY DEF RunTypeOK
  <2> QED BY <1>1, <2>1 DEF Hands
<1>10. crossed'[a] \in BOOLEAN
  <2>1. crossed[a] \in BOOLEAN
    BY DEF RunTypeOK
  <2> QED BY <1>1, <2>1 DEF Hands
<1>11. todo'[a] \in Seq(Steps)
  BY PlanStep
<1>12. launched'[a] \in 0..Launches /\ own'[a] \in SUBSET (1..Launches)
  BY FootStep
<1>13. /\ todo' \in [Requests -> Seq(Steps)] /\ held' \in [Requests -> Keys \union {None}]
       /\ made' \in [Requests -> Client \union {None}] /\ using' \in [Requests -> Client \union {None}]
  BY <1>1, <1>5, <1>6, <1>8, <1>11 DEF Own, RunTypeOK
<1>14. /\ sample' \in [Requests -> BOOLEAN] /\ sent' \in [Requests -> BOOLEAN]
       /\ crossed' \in [Requests -> BOOLEAN]
  BY <1>1, <1>9, <1>10 DEF Own, RunTypeOK
<1>15. launched' \in [Requests -> 0..Launches] /\ own' \in [Requests -> SUBSET (1..Launches)]
  BY <1>1, <1>12 DEF Own, RunTypeOK
<1>16. UNCHANGED <<dry, env, traced, switch, switches, task, result, wasLive, toggled>>
  BY <1>1 DEF Own, switching, dryPast
<1> QED BY <1>7, <1>8, <1>13, <1>14, <1>15, <1>16 DEF RunTypeOK

\* What the invariant says of one request.
RequestInv(a) == RestInv(a) /\ PlanInv(a) /\ DryInv(a) /\ FootInv(a) /\ ProbeInv(a)

\* It stays true while others take their steps ...
LEMMA OthersKeep ==
    ASSUME NEW b \in Requests, Untouched(b), UNCHANGED dry, RequestInv(b)
    PROVE  RequestInv(b)'
<1>1. RestInv(b)'
  BY DEF Untouched, RestInv, RequestInv
<1>2. PlanInv(b)'
  BY DEF Untouched, PlanInv, RequestInv
<1>3. DryInv(b)'
  BY DEF Untouched, DryInv, RequestInv
<1>4. FootInv(b)'
  BY DEF Untouched, FootInv, RequestInv
<1>5. ProbeInv(b)'
  BY DEF Untouched, ProbeInv, RequestInv
<1> QED BY <1>1, <1>2, <1>3, <1>4, <1>5 DEF RequestInv

\* ... and so does what it acts as.
LEMMA OthersAct ==
    ASSUME NEW b \in Requests, Untouched(b), UNCHANGED <<env, cfg>>, poisoned => poisoned', ActInv(b)
    PROVE  ActInv(b)'
<1>1. Good' = Good
  BY DEF Good, Who
<1> QED BY <1>1 DEF Untouched, ActInv

\* Every step but the answer keeps the invariant.
LEMMA StepKeeps ==
    ASSUME RunInv, NEW a \in Requests, Step(a), ~Answer(a)
    PROVE  RunInv'
<1>1. /\ RunTypeOK /\ SessionInv /\ KeptInv
      /\ \A b \in Requests : RequestInv(b) /\ ActInv(b)
  BY DEF RunInv, RequestInv
<1>2. RestInv(a) /\ PlanInv(a) /\ DryInv(a) /\ FootInv(a) /\ ProbeInv(a) /\ ActInv(a)
  BY <1>1 DEF RequestInv
<1>3. Does(a)
  BY <1>1, <1>2, StepDoes DEF PlanInv
<1>4. RunTypeOK'
  BY <1>1, <1>2, <1>3, TypeStep
<1>5. SessionInv'
  BY <1>1, <1>2, <1>3, SessionStep
<1>6. KeptInv'
  BY <1>1, <1>2, <1>3, KeptStep
<1>7. RequestInv(a)' /\ ActInv(a)'
  <2>1. PlanInv(a)'
    BY <1>1, <1>2, <1>3, PlanStep
  <2>2. DryInv(a)'
    BY <1>1, <1>2, <1>3, DryStep
  <2>3. FootInv(a)'
    BY <1>1, <1>2, <1>3, FootStep
  <2>4. ProbeInv(a)'
    BY <1>1, <1>2, <1>3, ProbeStep
  <2>5. ActInv(a)'
    BY <1>1, <1>2, <1>3, ActStep
  <2>6. RestInv(a)'
    <3>1. result'[a] = "going"
      BY <1>1, <1>2, <1>3, Opens
    <3> QED BY <3>1 DEF RestInv
  <2> QED BY <2>1, <2>2, <2>3, <2>4, <2>5, <2>6 DEF RequestInv
<1>8. ASSUME NEW b \in Requests, b # a
      PROVE  RequestInv(b)' /\ ActInv(b)'
  <2>1. Untouched(b) /\ UNCHANGED <<dry, env>>
    BY <1>1, <1>3, <1>8 DEF Does, Own, Untouched, dryPast, RunTypeOK
  <2>2. RequestInv(b)'
    BY <1>1, <2>1, OthersKeep
  <2>3. CASE poisoned'
    BY <2>2, <2>3 DEF ActInv
  <2>4. CASE ~poisoned'
    <3>1. UNCHANGED cfg /\ ~poisoned
      BY <1>1, <1>2, <1>3, <2>4, Keeps
    <3>2. ActInv(b)'
      BY <1>1, <2>1, <3>1, OthersAct
    <3> QED BY <2>2, <3>2
  <2> QED BY <2>2, <2>3, <2>4
<1> QED BY <1>4, <1>5, <1>6, <1>7, <1>8 DEF RunInv, RequestInv

\* Nothing is left of a request that has been answered.
LEMMA AnswerKeeps ==
    ASSUME RunInv, NEW a \in Requests, Answer(a)
    PROVE  RunInv'
<1> USE DEF Answer, session, caches, switching
<1>1. /\ RunTypeOK /\ SessionInv /\ KeptInv
      /\ \A b \in Requests : RequestInv(b) /\ ActInv(b)
  BY DEF RunInv, RequestInv
<1>2. /\ result'[a] = "over" /\ task'[a] = None /\ todo'[a] = <<>> /\ launched'[a] = 0 /\ own'[a] = {}
      /\ held'[a] = None /\ made'[a] = None /\ using'[a] = None
  BY <1>1 DEF RunTypeOK
<1>3. /\ sample'[a] = FALSE /\ sent'[a] = FALSE /\ wasLive'[a] = FALSE /\ toggled'[a] = FALSE
      /\ crossed'[a] = FALSE
  BY <1>1 DEF RunTypeOK
<1>4. \A b \in Requests \ {a} : Untouched(b)
  BY <1>1 DEF RunTypeOK, Untouched
<1>5. RunTypeOK'
  <2>1. /\ result' \in [Requests -> {"idle", "going", "over"}] /\ task' \in [Requests -> Tasks \union {None}]
        /\ todo' \in [Requests -> Seq(Steps)] /\ held' \in [Requests -> Keys \union {None}]
        /\ made' \in [Requests -> Client \union {None}] /\ using' \in [Requests -> Client \union {None}]
    BY <1>1 DEF RunTypeOK
  <2>2. launched' \in [Requests -> 0..Launches] /\ own' \in [Requests -> SUBSET (1..Launches)]
    BY <1>1, RunAssumption DEF RunTypeOK
  <2>3. /\ sample' \in [Requests -> BOOLEAN] /\ sent' \in [Requests -> BOOLEAN]
        /\ wasLive' \in [Requests -> BOOLEAN] /\ toggled' \in [Requests -> BOOLEAN]
        /\ crossed' \in [Requests -> BOOLEAN]
    BY <1>1 DEF RunTypeOK
  <2>4. UNCHANGED <<session, caches, switching, poisoned>>
    OBVIOUS
  <2> QED BY <1>1, <2>1, <2>2, <2>3, <2>4 DEF RunTypeOK
<1>6. UNCHANGED <<session, caches, switching, poisoned>>
  OBVIOUS
<1> HIDE DEF Answer
<1>7. SessionInv'
  <2>1. \A b \in Going' : b \in Going /\ crossed'[b] = crossed[b]
    BY <1>2, <1>4 DEF Going, Untouched
  <2> QED BY <1>1, <1>6, <2>1 DEF SessionInv, Phase, Who
<1>8. KeptInv'
  BY <1>1, <1>6 DEF KeptInv, Phase, Good, Who
<1>9. RequestInv(a)' /\ ActInv(a)'
  <2>1. InOrder(<<>>) /\ Comes(<<>>, NeedsKey, GivesKey) /\ Comes(<<>>, Mutating, {"gate"})
    BY DEF InOrder, Comes, Leads, Follows, Precede
  <2>2. PlanInv(a)'
    BY <1>2, <1>3, <2>1 DEF PlanInv
  <2>3. DryInv(a)'
    BY <1>2, <1>3, <2>1 DEF DryInv
  <2>4. FootInv(a)' /\ ProbeInv(a)' /\ ActInv(a)' /\ RestInv(a)'
    BY <1>2, <1>3 DEF FootInv, ProbeInv, ActInv, RestInv
  <2> QED BY <2>2, <2>3, <2>4 DEF RequestInv
<1>10. ASSUME NEW b \in Requests, b # a
       PROVE  RequestInv(b)' /\ ActInv(b)'
  BY <1>1, <1>4, <1>6, <1>10, OthersKeep, OthersAct
<1> QED BY <1>5, <1>7, <1>8, <1>9, <1>10 DEF RunInv, RequestInv

\* A request begins with the steps of its handler, which is sound.
LEMMA BeginKeeps ==
    ASSUME RunInv, NEW a \in Requests, NEW t \in Tasks, Begin(a, t)
    PROVE  RunInv'
<1> USE DEF Begin, session, caches, switching, hands, effects
<1>1. /\ RunTypeOK /\ SessionInv /\ KeptInv
      /\ \A b \in Requests : RequestInv(b) /\ ActInv(b)
  BY DEF RunInv, RequestInv
<1>2. /\ result'[a] = "going" /\ task'[a] = t /\ todo'[a] = t.steps
  BY <1>1 DEF RunTypeOK
<1>3. wasLive'[a] = ~dry
  BY <1>1 DEF RunTypeOK
<1>4. crossed'[a] = (switch # Idle)
  BY <1>1 DEF RunTypeOK, Cross
<1>5. \A b \in Requests \ {a} : Untouched(b)
  BY <1>1 DEF RunTypeOK, Untouched, Cross
<1>6. UNCHANGED <<session, caches, switching, hands, effects, toggled, poisoned>>
  OBVIOUS
<1>7. /\ todo[a] = <<>> /\ using[a] = None /\ made[a] = None /\ held[a] = None
      /\ ~sample[a] /\ ~sent[a] /\ ~wasLive[a] /\ ~toggled[a] /\ launched[a] = 0 /\ own[a] = {}
  BY <1>1 DEF RequestInv, RestInv
<1>8. /\ t.steps \in Seq(Steps) /\ InOrder(t.steps)
      /\ Comes(t.steps, NeedsKey, GivesKey) /\ Comes(t.steps, Mutating, {"gate"})
      /\ Affordable(t.steps, 0, Limit(t))
      /\ Probes(t) => /\ ProbeSteps(t.steps, 0)
                      /\ t.leaves = 0 => \E i \in DOMAIN t.steps : t.steps[i] = "terminateFirst"
      /\ ~Probes(t) => PlainSteps(t.steps)
  BY TasksAreSound DEF Sound
<1>9. RunTypeOK'
  <2>1. /\ result' \in [Requests -> {"idle", "going", "over"}] /\ task' \in [Requests -> Tasks \union {None}]
        /\ todo' \in [Requests -> Seq(Steps)]
    BY <1>1, <1>8 DEF RunTypeOK
  <2>2. wasLive' \in [Requests -> BOOLEAN] /\ crossed' \in [Requests -> BOOLEAN]
    BY <1>1 DEF RunTypeOK, Cross
  <2> HIDE DEF Begin
  <2> QED BY <1>1, <1>6, <2>1, <2>2 DEF RunTypeOK
<1> HIDE DEF Begin
<1>10. SessionInv'
  <2>1. switch # Idle => \A b \in Going' : crossed'[b]
    <3>1. \A b \in Going' : b = a \/ (b \in Going /\ crossed'[b] = crossed[b])
      BY <1>5 DEF Going, Untouched
    <3>2. switch # Idle => \A b \in Going : crossed[b]
      BY <1>1 DEF SessionInv
    <3> QED BY <1>4, <3>1, <3>2
  <2> QED BY <1>1, <1>6, <2>1 DEF SessionInv, Phase, Who
<1>11. KeptInv'
  BY <1>1, <1>6 DEF KeptInv, Phase, Good, Who
<1>12. RequestInv(a)' /\ ActInv(a)'
  <2>1. t.steps # <<>> => t.steps[1] \notin {"keep", "store"}
    BY <1>8, KeyInHand DEF NeedsKey
  <2>2. PlanInv(a)'
    BY <1>2, <1>6, <1>7, <1>8, <2>1 DEF PlanInv
  <2>3. DryInv(a)'
    BY <1>2, <1>3, <1>6, <1>7, <1>8 DEF DryInv
  <2>4. FootInv(a)'
    BY <1>2, <1>6, <1>7, <1>8 DEF FootInv
  <2>5. ProbeInv(a)'
    BY <1>2, <1>6, <1>7, <1>8 DEF ProbeInv
  <2>6. ActInv(a)'
    BY <1>2, <1>6, <1>7, <1>8, <2>1 DEF ActInv
  <2>7. RestInv(a)'
    BY <1>2 DEF RestInv
  <2> QED BY <2>2, <2>3, <2>4, <2>5, <2>6, <2>7 DEF RequestInv
<1>13. ASSUME NEW b \in Requests, b # a
       PROVE  RequestInv(b)' /\ ActInv(b)'
  BY <1>1, <1>5, <1>6, <1>13, OthersKeep, OthersAct
<1> QED BY <1>9, <1>10, <1>11, <1>12, <1>13 DEF RunInv, RequestInv

\* A microVM that ends makes room.
LEMMA VMEndsKeeps ==
    ASSUME RunInv, NEW a \in Requests, VMEnds(a)
    PROVE  RunInv'
<1>1. /\ RunTypeOK /\ SessionInv /\ KeptInv
      /\ \A b \in Requests : RequestInv(b) /\ ActInv(b)
  BY DEF RunInv, RequestInv
<1>2. PICK i \in own[a] : own' = [own EXCEPT ![a] = @ \ {i}]
  BY DEF VMEnds
<1>3. /\ UNCHANGED <<dry, cfg, env, sess, accounts, clients, monitor, traced, switch, switches, task,
                     todo, result, held, made, using, sample, sent, launched, wasLive, toggled, crossed, poisoned>>
      /\ result[a] = "going"
  BY DEF VMEnds, session, caches, switching, hands, dryPast
<1>4. own \in [Requests -> SUBSET (1..Launches)]
  BY <1>1 DEF RunTypeOK
<1>5. own'[a] \subseteq own[a] /\ (\A b \in Requests \ {a} : own'[b] = own[b])
      /\ own' \in [Requests -> SUBSET (1..Launches)]
  BY <1>2, <1>4
<1>6. RunTypeOK'
  BY <1>1, <1>3, <1>5 DEF RunTypeOK
<1>7. SessionInv' /\ KeptInv'
  BY <1>1, <1>3 DEF SessionInv, KeptInv, Phase, Good, Going, Who
<1>8. ASSUME NEW b \in Requests
      PROVE  RequestInv(b)' /\ ActInv(b)'
  <2>1. own'[b] \subseteq own[b]
    BY <1>5
  <2>2. RequestInv(b) /\ ActInv(b)
    BY <1>1
  <2>3. RestInv(b)'
    BY <1>3, <2>1, <2>2 DEF RequestInv, RestInv
  <2>4. PlanInv(b)'
    BY <1>3, <2>2 DEF RequestInv, PlanInv
  <2>5. DryInv(b)'
    BY <1>3, <2>2 DEF RequestInv, DryInv
  <2>6. FootInv(b)'
    BY <1>3, <2>1, <2>2 DEF RequestInv, FootInv
  <2>7. ProbeInv(b)'
    BY <1>3, <2>1, <2>2 DEF RequestInv, ProbeInv
  <2>8. ActInv(b)'
    BY <1>3, <2>2 DEF ActInv, Good, Who
  <2> QED BY <2>3, <2>4, <2>5, <2>6, <2>7, <2>8 DEF RequestInv
<1> QED BY <1>6, <1>7, <1>8 DEF RunInv, RequestInv

\* A step of a switch crosses every request under way, and leaves it as it is.
LEMMA Crosses ==
    ASSUME RunInv, NEW from, NEW to, Switch(from, to), env' \in {"ambient", "pasted"},
           UNCHANGED <<dry, dryPast>> \/ \E value \in BOOLEAN : Turn(value)
    PROVE  /\ \A a \in Requests : RequestInv(a)' /\ ActInv(a)'
           /\ \A a \in Going' : crossed'[a]
           /\ crossed' \in [Requests -> BOOLEAN] /\ dry' \in BOOLEAN
           /\ wasLive' \in [Requests -> BOOLEAN] /\ toggled' \in [Requests -> BOOLEAN]
           /\ switch = from /\ switch' = to
           /\ UNCHANGED <<task, todo, result, held, made, using, sample, sent, launched, own, poisoned>>
<1>1. RunTypeOK /\ \A b \in Requests : RequestInv(b)
  BY DEF RunInv, RequestInv
<1>2. /\ switch = from /\ switch' = to
      /\ UNCHANGED <<task, todo, result, held, made, using, sample, sent, launched, own, poisoned>>
      /\ crossed' = [a \in Requests |-> crossed[a] \/ a \in Going]
  BY DEF Switch, hands, effects
<1>3. \A a \in Requests : crossed[a] \in BOOLEAN /\ dry \in BOOLEAN /\ wasLive[a] \in BOOLEAN /\ toggled[a] \in BOOLEAN
  BY <1>1 DEF RunTypeOK
<1>4. crossed' \in [Requests -> BOOLEAN]
  BY <1>2
<1>5. \A a \in Going' : crossed'[a]
  BY <1>2 DEF Going
<1>6. dry' \in BOOLEAN /\ wasLive' \in [Requests -> BOOLEAN] /\ toggled' \in [Requests -> BOOLEAN]
  <2>1. CASE UNCHANGED <<dry, dryPast>>
    BY <1>1, <2>1 DEF RunTypeOK, dryPast
  <2>2. CASE \E value \in BOOLEAN : Turn(value)
    BY <2>2 DEF Turn
  <2> QED BY <2>1, <2>2
<1>7. ASSUME NEW a \in Requests
      PROVE  RequestInv(a)' /\ ActInv(a)'
  <2>1. RequestInv(a)
    BY <1>1
  <2>2. PlanInv(a)' /\ FootInv(a)' /\ ProbeInv(a)'
    BY <1>2, <2>1 DEF RequestInv, PlanInv, FootInv, ProbeInv
  <2>3. ActInv(a)'
    BY <1>2, <1>5 DEF ActInv, Going
  <2>4. result[a] = "going" <=> a \in Going
    BY DEF Going
  <2>5. RestInv(a)' /\ DryInv(a)'
    <3>1. CASE UNCHANGED <<dry, dryPast>>
      <4>1. RestInv(a)'
        BY <1>2, <2>1, <2>4, <3>1 DEF RequestInv, RestInv, dryPast
      <4>2. DryInv(a)'
        BY <1>2, <2>1, <3>1 DEF RequestInv, DryInv, dryPast
      <4> QED BY <4>1, <4>2
    <3>2. ASSUME NEW value \in BOOLEAN, Turn(value)
          PROVE  RestInv(a)' /\ DryInv(a)'
      <4>1. dry' = value
        BY <3>2 DEF Turn
      <4>2. wasLive'[a] = (wasLive[a] \/ (a \in Going /\ ~value))
        BY <3>2 DEF Turn
      <4>3. toggled'[a] = (toggled[a] \/ (a \in Going /\ value # dry))
        BY <3>2 DEF Turn
      <4>4. RestInv(a)'
        BY <1>2, <2>1, <2>4, <4>2, <4>3 DEF RequestInv, RestInv
      <4>5. CASE a \in Going
        <5>1. ~dry' => wasLive'[a]
          BY <4>1, <4>2, <4>5
        <5>2. ~toggled'[a] => ~toggled[a] /\ dry' = dry
          BY <1>3, <4>1, <4>3, <4>5
        <5>3. wasLive'[a] /\ ~toggled'[a] => ~dry'
          BY <1>3, <2>1, <4>1, <4>2, <5>2 DEF RequestInv, DryInv
        <5>4. sample'[a] /\ ~toggled'[a] => dry'
          BY <1>2, <2>1, <5>2 DEF RequestInv, DryInv
        <5>5. wasLive'[a] \/ Comes(todo'[a], Mutating, {"gate"})
          BY <1>2, <2>1, <4>2 DEF RequestInv, DryInv
        <5>6. sent'[a] => wasLive'[a]
          BY <1>2, <2>1, <4>2 DEF RequestInv, DryInv
        <5> QED BY <4>4, <5>1, <5>3, <5>4, <5>5, <5>6 DEF DryInv
      <4>6. CASE a \notin Going
        <5>1. ~wasLive'[a] /\ ~sample'[a] /\ ~sent'[a] /\ result'[a] # "going"
          BY <1>2, <2>1, <2>4, <4>2, <4>6 DEF RequestInv, RestInv
        <5>2. Comes(todo'[a], Mutating, {"gate"})
          BY <1>2, <2>1, <2>4, <4>6 DEF RequestInv, RestInv, DryInv
        <5> QED BY <4>4, <5>1, <5>2 DEF DryInv
      <4> QED BY <4>5, <4>6
    <3> QED BY <3>1, <3>2
  <2> QED BY <2>2, <2>3, <2>5 DEF RequestInv
<1> QED BY <1>2, <1>4, <1>5, <1>6, <1>7

\* The switch that set_config begins.
LEMMA SwitchConfigKeeps == ASSUME RunInv, SwitchConfig PROVE RunInv'
<1>1. /\ Switch(Idle, <<"dry", "idle">>) /\ cfg' \in Keys
      /\ UNCHANGED <<dry, env, caches, dryPast>> /\ switches' = switches + 1 /\ switches < MaxSwitches
  BY DEF SwitchConfig, Start
<1>2. RunTypeOK /\ SessionInv
  BY DEF RunInv
<1>3. /\ \A a \in Requests : RequestInv(a)' /\ ActInv(a)'
      /\ \A a \in Going' : crossed'[a]
      /\ crossed' \in [Requests -> BOOLEAN] /\ dry' \in BOOLEAN
      /\ wasLive' \in [Requests -> BOOLEAN] /\ toggled' \in [Requests -> BOOLEAN]
      /\ switch = Idle /\ switch' = <<"dry", "idle">>
      /\ UNCHANGED <<task, todo, result, held, made, using, sample, sent, launched, own, poisoned>>
  BY <1>1, <1>2, Crosses DEF RunTypeOK
<1>4. UNCHANGED <<sess, accounts, clients, monitor, traced>> /\ switches' \in 0..MaxSwitches
  BY <1>1, <1>2, RunAssumption DEF caches, RunTypeOK
<1>5. RunTypeOK'
  BY <1>1, <1>2, <1>3, <1>4 DEF RunTypeOK
<1>6. Phase' = "dry"
  BY <1>3 DEF Phase
<1>7. SessionInv'
  BY <1>2, <1>3, <1>4, <1>6 DEF SessionInv, Clearing
<1>8. KeptInv'
  BY <1>6 DEF KeptInv
<1> QED BY <1>3, <1>5, <1>7, <1>8 DEF RunInv, RequestInv

\* Dry run is set, if it was given.
LEMMA SetDryKeeps == ASSUME RunInv, SetDry PROVE RunInv'
<1>1. /\ Switch(<<"dry", "idle">>, <<"sessions", "idle">>) /\ \E value \in BOOLEAN : Turn(value)
      /\ UNCHANGED <<cfg, env, caches, switches>>
  BY DEF SetDry
<1>2. RunTypeOK /\ SessionInv
  BY DEF RunInv
<1>3. /\ \A a \in Requests : RequestInv(a)' /\ ActInv(a)'
      /\ \A a \in Going' : crossed'[a]
      /\ crossed' \in [Requests -> BOOLEAN] /\ dry' \in BOOLEAN
      /\ wasLive' \in [Requests -> BOOLEAN] /\ toggled' \in [Requests -> BOOLEAN]
      /\ switch' = <<"sessions", "idle">>
      /\ UNCHANGED <<task, todo, result, held, made, using, sample, sent, launched, own, poisoned>>
  BY <1>1, <1>2, Crosses DEF RunTypeOK
<1>4. UNCHANGED <<sess, accounts, clients, monitor, traced>>
  BY <1>1 DEF caches
<1>5. RunTypeOK'
  BY <1>1, <1>2, <1>3, <1>4 DEF RunTypeOK
<1>6. Phase' = "sessions"
  BY <1>3 DEF Phase
<1>7. SessionInv'
  BY <1>2, <1>3, <1>4, <1>6 DEF SessionInv, Clearing
<1>8. KeptInv'
  BY <1>6 DEF KeptInv
<1> QED BY <1>3, <1>5, <1>7, <1>8 DEF RunInv, RequestInv

\* The switches that post_credentials and clear_credentials begin.
LEMMA CredentialsKeep == ASSUME RunInv, PostCredentials \/ ClearCredentials PROVE RunInv'
<1>1. PICK then \in {"idle", "verify"} :
         /\ Switch(Idle, <<"sessions", then>>) /\ cfg' \in {cfg, "profile", "static"}
         /\ env' \in {"ambient", "pasted"}
         /\ UNCHANGED <<dry, caches, dryPast>> /\ switches' = switches + 1 /\ switches < MaxSwitches
  BY DEF PostCredentials, ClearCredentials, Start
<1>2. RunTypeOK /\ SessionInv
  BY DEF RunInv
<1>3. /\ \A a \in Requests : RequestInv(a)' /\ ActInv(a)'
      /\ \A a \in Going' : crossed'[a]
      /\ crossed' \in [Requests -> BOOLEAN] /\ dry' \in BOOLEAN
      /\ wasLive' \in [Requests -> BOOLEAN] /\ toggled' \in [Requests -> BOOLEAN]
      /\ switch' = <<"sessions", then>>
      /\ UNCHANGED <<task, todo, result, held, made, using, sample, sent, launched, own, poisoned>>
  BY <1>1, Crosses
<1>4. UNCHANGED <<sess, accounts, clients, monitor, traced>> /\ switches' \in 0..MaxSwitches
  BY <1>1, <1>2, RunAssumption DEF caches, RunTypeOK
<1>5. cfg' \in Keys
  BY <1>1, <1>2 DEF RunTypeOK, Keys
<1>6. RunTypeOK'
  BY <1>1, <1>2, <1>3, <1>4, <1>5 DEF RunTypeOK
<1>7. Phase' = "sessions"
  BY <1>3 DEF Phase
<1>8. SessionInv'
  BY <1>2, <1>3, <1>4, <1>7 DEF SessionInv, Clearing
<1>9. KeptInv'
  BY <1>7 DEF KeptInv
<1> QED BY <1>3, <1>6, <1>8, <1>9 DEF RunInv, RequestInv

\* whoami, with which the switch is over.
LEMMA VerifyKeeps == ASSUME RunInv, Verify PROVE RunInv'
<1>1. /\ Switch(<<"verify", "idle">>, Idle) /\ \E value \in BOOLEAN : Turn(value)
      /\ UNCHANGED <<cfg, env, caches, switches>>
  BY DEF Verify
<1>2. RunTypeOK /\ SessionInv /\ KeptInv
  BY DEF RunInv
<1>3. /\ \A a \in Requests : RequestInv(a)' /\ ActInv(a)'
      /\ \A a \in Going' : crossed'[a]
      /\ crossed' \in [Requests -> BOOLEAN] /\ dry' \in BOOLEAN
      /\ wasLive' \in [Requests -> BOOLEAN] /\ toggled' \in [Requests -> BOOLEAN]
      /\ switch = <<"verify", "idle">> /\ switch' = Idle
      /\ UNCHANGED <<task, todo, result, held, made, using, sample, sent, launched, own, poisoned>>
  BY <1>1, <1>2, Crosses DEF RunTypeOK
<1>4. UNCHANGED <<sess, accounts, clients, monitor, traced>>
  BY <1>1 DEF caches
<1>5. RunTypeOK'
  <2>1. Idle \in {"idle", "dry", "verify", "sessions", "accounts", "clients", "traced", "ensure"}
                   \X {"idle", "verify"}
    BY DEF Idle
  <2> QED BY <1>1, <1>2, <1>3, <1>4, <2>1 DEF RunTypeOK
<1>6. Phase' = "idle" /\ Phase = "verify"
  BY <1>3 DEF Phase, Idle
<1>7. SessionInv'
  BY <1>2, <1>3, <1>4, <1>6 DEF SessionInv, Clearing
<1>8. KeptInv'
  <2>1. Good' = Good /\ Who(cfg)' = Who(cfg)
    BY <1>1 DEF Good, Who
  <2> QED BY <1>1, <1>2, <1>3, <1>4, <1>6, <2>1 DEF KeptInv
<1> QED BY <1>3, <1>5, <1>7, <1>8 DEF RunInv, RequestInv

\* What the reset throws away is gone from then on.
LEMMA ResetKeeps == ASSUME RunInv, NEW then \in {"idle", "verify"}, Reset(then) PROVE RunInv'
<1>1. /\ UNCHANGED <<session, switches, dryPast>>
      /\ \/ /\ Switch(<<"sessions", then>>, <<"accounts", then>>)
            /\ sess' = [k \in Keys |-> None] /\ UNCHANGED <<accounts, clients, monitor, traced>>
         \/ /\ Switch(<<"accounts", then>>, <<"clients", then>>)
            /\ accounts' = [k \in Keys |-> None] /\ UNCHANGED <<sess, clients, monitor, traced>>
         \/ /\ Switch(<<"clients", then>>, <<"traced", then>>)
            /\ clients' = [k \in Keys |-> None] /\ monitor' = None /\ UNCHANGED <<sess, accounts, traced>>
         \/ /\ Switch(<<"traced", then>>, <<"ensure", then>>)
            /\ traced' = {} /\ UNCHANGED <<sess, accounts, clients, monitor>>
         \/ /\ Switch(<<"ensure", then>>, <<then, "idle">>)
            /\ IF cfg \in traced THEN UNCHANGED <<sess, traced>>
               ELSE /\ sess' = [sess EXCEPT ![cfg] = [SessionOf(cfg) EXCEPT !.hooks = @ + 1]]
                    /\ traced' = traced \union {cfg}
            /\ UNCHANGED <<accounts, clients, monitor>>
  BY DEF Reset, ClearSessions, ClearAccounts, ClearClients, ClearTraced, EnsureTrace
<1>2. RunTypeOK /\ SessionInv /\ KeptInv
  BY DEF RunInv
<1>3. UNCHANGED <<dry, cfg, env, switches, wasLive, toggled>>
  BY <1>1 DEF session, dryPast
<1>4. ASSUME NEW from, NEW to, Switch(from, to)
      PROVE  /\ \A a \in Requests : RequestInv(a)' /\ ActInv(a)'
             /\ \A a \in Going' : crossed'[a]
             /\ crossed' \in [Requests -> BOOLEAN]
             /\ switch = from /\ switch' = to
             /\ UNCHANGED <<task, todo, result, held, made, using, sample, sent, launched, own, poisoned>>
  <2>1. env' \in {"ambient", "pasted"} /\ UNCHANGED <<dry, dryPast>>
    BY <1>1, <1>2, <1>3 DEF RunTypeOK
  <2> QED BY <1>4, <2>1, Crosses
<1>5. \E from, to : Switch(from, to)
  BY <1>1
<1>6. /\ \A a \in Requests : RequestInv(a)' /\ ActInv(a)'
      /\ \A a \in Going' : crossed'[a]
      /\ crossed' \in [Requests -> BOOLEAN]
      /\ UNCHANGED <<task, todo, result, held, made, using, sample, sent, launched, own, poisoned>>
  BY <1>4, <1>5
<1>7. /\ Good \in Client /\ Good' = Good /\ cfg \in Keys
      /\ \A k \in Keys : Who(k)' = Who(k) /\ [who |-> Who(k), hooks |-> 0] \in Client
  BY <1>2, <1>3 DEF RunTypeOK, Good, Client, Who, Identities
<1>8. /\ sess \in [Keys -> Client \union {None}] /\ accounts \in [Keys -> Identities \union {None}]
      /\ clients \in [Keys -> Client \union {None}]
      /\ monitor = None \/ monitor \in [key : Keys, client : Client]
      /\ traced \in SUBSET Keys
  BY <1>2 DEF RunTypeOK
<1> DEFINE Kept == /\ sess' \in [Keys -> Client \union {None}]
                   /\ accounts' \in [Keys -> Identities \union {None}]
                   /\ clients' \in [Keys -> Client \union {None}]
                   /\ monitor' = None \/ monitor' \in [key : Keys, client : Client]
                   /\ traced' \in SUBSET Keys
                   /\ switch' \in {"idle", "dry", "verify", "sessions", "accounts", "clients", "traced",
                                   "ensure"} \X {"idle", "verify"}
                   /\ SessionInv' /\ KeptInv'
<1>9. CASE /\ Switch(<<"sessions", then>>, <<"accounts", then>>)
           /\ sess' = [k \in Keys |-> None] /\ UNCHANGED <<accounts, clients, monitor, traced>>
  <2>1. switch' = <<"accounts", then>> /\ Phase' = "accounts" /\ switch = <<"sessions", then>>
    BY <1>4, <1>9 DEF Phase
  <2>2. sess' \in [Keys -> Client \union {None}] /\ \A k \in Keys : sess'[k] = None
    BY <1>9
  <2>3. SessionInv'
    BY <1>6, <2>1, <2>2 DEF SessionInv, Clearing
  <2>4. KeptInv'
    BY <2>1 DEF KeptInv
  <2>5. Kept
    BY <1>8, <1>9, <2>1, <2>2, <2>3, <2>4
  <2> QED BY <1>2, <1>3, <1>6, <2>5 DEF RunInv, RunTypeOK, RequestInv
<1>10. CASE /\ Switch(<<"accounts", then>>, <<"clients", then>>)
            /\ accounts' = [k \in Keys |-> None] /\ UNCHANGED <<sess, clients, monitor, traced>>
  <2>1. switch' = <<"clients", then>> /\ Phase' = "clients" /\ Phase = "accounts"
    BY <1>4, <1>10 DEF Phase
  <2>2. accounts' \in [Keys -> Identities \union {None}] /\ \A k \in Keys : accounts'[k] = None
    BY <1>10
  <2>3. SessionInv'
    <3>1. Phase \in Clearing \ {"sessions"}
      BY <2>1 DEF Clearing
    <3>2. \A k \in Keys : sess[k] \in {None, [who |-> Who(k), hooks |-> 0]}
      BY <1>2, <3>1 DEF SessionInv
    <3>3. \A k \in Keys : sess[k] = None \/ (sess[k] \in Client /\ sess[k].hooks \in 0..1)
      BY <1>2 DEF SessionInv
    <3> QED BY <1>6, <1>7, <1>10, <2>1, <3>2, <3>3 DEF SessionInv, Clearing
  <2>4. KeptInv'
    BY <2>1, <2>2 DEF KeptInv
  <2>5. Kept
    BY <1>8, <1>10, <2>1, <2>2, <2>3, <2>4
  <2> QED BY <1>2, <1>3, <1>6, <2>5 DEF RunInv, RunTypeOK, RequestInv
<1>11. CASE /\ Switch(<<"clients", then>>, <<"traced", then>>)
            /\ clients' = [k \in Keys |-> None] /\ monitor' = None /\ UNCHANGED <<sess, accounts, traced>>
  <2>1. switch' = <<"traced", then>> /\ Phase' = "traced" /\ Phase = "clients"
    BY <1>4, <1>11 DEF Phase
  <2>2. clients' \in [Keys -> Client \union {None}] /\ \A k \in Keys : clients'[k] = None
    BY <1>11
  <2>3. SessionInv'
    <3>1. Phase \in Clearing \ {"sessions"}
      BY <2>1 DEF Clearing
    <3>2. \A k \in Keys : sess[k] \in {None, [who |-> Who(k), hooks |-> 0]}
      BY <1>2, <3>1 DEF SessionInv
    <3>3. \A k \in Keys : sess[k] = None \/ (sess[k] \in Client /\ sess[k].hooks \in 0..1)
      BY <1>2 DEF SessionInv
    <3> QED BY <1>6, <1>7, <1>11, <2>1, <3>2, <3>3 DEF SessionInv, Clearing
  <2>4. KeptInv'
    BY <1>2, <1>6, <1>11, <2>1, <2>2 DEF KeptInv
  <2>5. Kept
    BY <1>8, <1>11, <2>1, <2>2, <2>3, <2>4
  <2> QED BY <1>2, <1>3, <1>6, <2>5 DEF RunInv, RunTypeOK, RequestInv
<1>12. CASE /\ Switch(<<"traced", then>>, <<"ensure", then>>)
            /\ traced' = {} /\ UNCHANGED <<sess, accounts, clients, monitor>>
  <2>1. switch' = <<"ensure", then>> /\ Phase' = "ensure" /\ Phase = "traced"
    BY <1>4, <1>12 DEF Phase
  <2>2. SessionInv'
    <3>1. Phase \in Clearing \ {"sessions"}
      BY <2>1 DEF Clearing
    <3>2. \A k \in Keys : sess[k] \in {None, [who |-> Who(k), hooks |-> 0]}
      BY <1>2, <3>1 DEF SessionInv
    <3>3. \A k \in Keys : sess[k] = None \/ (sess[k] \in Client /\ sess[k].hooks \in 0..1)
      BY <1>2 DEF SessionInv
    <3> QED BY <1>6, <1>7, <1>12, <2>1, <3>2, <3>3 DEF SessionInv, Clearing
  <2>3. KeptInv'
    BY <1>2, <1>6, <1>12, <2>1 DEF KeptInv
  <2>4. Kept
    BY <1>8, <1>12, <2>1, <2>2, <2>3
  <2> QED BY <1>2, <1>3, <1>6, <2>4 DEF RunInv, RunTypeOK, RequestInv
<1>13. CASE /\ Switch(<<"ensure", then>>, <<then, "idle">>)
            /\ IF cfg \in traced THEN UNCHANGED <<sess, traced>>
               ELSE /\ sess' = [sess EXCEPT ![cfg] = [SessionOf(cfg) EXCEPT !.hooks = @ + 1]]
                    /\ traced' = traced \union {cfg}
            /\ UNCHANGED <<accounts, clients, monitor>>
  <2>1. switch' = <<then, "idle">> /\ Phase' = then /\ Phase = "ensure"
    BY <1>4, <1>13 DEF Phase
  <2>2. traced = {} /\ \A k \in Keys : sess[k] \in {None, [who |-> Who(k), hooks |-> 0]}
    BY <1>2, <2>1 DEF SessionInv, Clearing
  <2>3. SessionOf(cfg) = [who |-> Who(cfg), hooks |-> 0]
    BY <1>7, <2>2 DEF SessionOf
  <2>4. [SessionOf(cfg) EXCEPT !.hooks = @ + 1] = Good
    BY <2>3 DEF Good
  <2>5. sess' = [sess EXCEPT ![cfg] = Good] /\ traced' = {cfg}
    BY <1>13, <2>2, <2>4
  <2>6. sess' \in [Keys -> Client \union {None}] /\ sess'[cfg] = Good
    BY <1>7, <1>8, <2>5
  <2>7. \A k \in Keys : sess'[k] = None \/ (sess'[k] \in Client /\ sess'[k].hooks \in 0..1)
    <3> SUFFICES ASSUME NEW k \in Keys
                 PROVE  sess'[k] = None \/ (sess'[k] \in Client /\ sess'[k].hooks \in 0..1)
      OBVIOUS
    <3>1. sess'[k] = sess[k] \/ sess'[k] = Good
      BY <1>7, <1>8, <2>5
    <3>2. sess[k] = None \/ (sess[k] \in Client /\ sess[k].hooks \in 0..1)
      BY <1>2 DEF SessionInv
    <3>3. Good.hooks = 1
      BY DEF Good
    <3> QED BY <1>7, <3>1, <3>2, <3>3
  <2>8. SessionInv'
    BY <1>6, <2>1, <2>7 DEF SessionInv, Clearing, Idle
  <2>9. KeptInv'
    <3>1. ~poisoned => (\A k \in Keys : accounts[k] = None) /\ monitor = None /\ \A k \in Keys : clients[k] = None
      BY <1>2, <2>1 DEF KeptInv
    <3>2. ~poisoned' => /\ sess'[cfg] = Good /\ accounts'[cfg] = None /\ clients'[cfg] = None /\ monitor' = None
      BY <1>6, <1>7, <1>13, <2>6, <3>1
    <3> QED BY <1>3, <1>7, <2>1, <3>2 DEF KeptInv
  <2>10. Kept
    BY <1>7, <1>8, <1>13, <2>1, <2>5, <2>6, <2>8, <2>9
  <2> QED BY <1>2, <1>3, <1>6, <2>10 DEF RunInv, RunTypeOK, RequestInv
<1> QED BY <1>1, <1>9, <1>10, <1>11, <1>12, <1>13

\* It holds to begin with.
LEMMA RunInitially == ASSUME RunInit PROVE RunInv
<1> USE DEF RunInit
<1>1. /\ InOrder(<<>>) /\ Comes(<<>>, NeedsKey, GivesKey) /\ Comes(<<>>, Mutating, {"gate"})
  BY DEF InOrder, Comes, Leads, Follows, Precede
<1>2. /\ cfg \in Keys /\ env = "ambient" /\ Good \in Client /\ Good.hooks = 1
      /\ sess = [k \in Keys |-> IF k = cfg THEN Good ELSE None]
  BY DEF Good, Client, Who, Identities
<1>3. RunTypeOK
  <2>1. switch \in {"idle", "dry", "verify", "sessions", "accounts", "clients", "traced", "ensure"}
                     \X {"idle", "verify"} /\ switches \in 0..MaxSwitches
    BY RunAssumption DEF Idle
  <2>2. sess \in [Keys -> Client \union {None}]
    BY <1>2
  <2>3. /\ sample \in [Requests -> BOOLEAN] /\ sent \in [Requests -> BOOLEAN]
        /\ wasLive \in [Requests -> BOOLEAN] /\ toggled \in [Requests -> BOOLEAN]
        /\ crossed \in [Requests -> BOOLEAN] /\ poisoned \in BOOLEAN
    OBVIOUS
  <2>4. launched \in [Requests -> 0..Launches] /\ own \in [Requests -> SUBSET (1..Launches)]
    BY RunAssumption
  <2>5. todo \in [Requests -> Seq(Steps)]
    OBVIOUS
  <2> QED BY <1>2, <2>1, <2>2, <2>3, <2>4, <2>5 DEF RunTypeOK
<1>4. SessionInv
  <2>1. Phase = "idle"
    BY DEF Phase, Idle
  <2>2. \A k \in Keys : sess[k] = None \/ (sess[k] \in Client /\ sess[k].hooks \in 0..1)
    BY <1>2
  <2> QED BY <2>1, <2>2 DEF SessionInv, Clearing
<1>5. KeptInv
  <2>1. Phase = "idle"
    BY DEF Phase, Idle
  <2> QED BY <1>2, <2>1 DEF KeptInv
<1>6. ASSUME NEW a \in Requests
      PROVE  /\ RestInv(a) /\ PlanInv(a) /\ DryInv(a) /\ FootInv(a) /\ ProbeInv(a) /\ ActInv(a)
  <2>1. result[a] = "idle" /\ todo[a] = <<>> /\ ~sample[a] /\ ~sent[a] /\ ~wasLive[a] /\ ~toggled[a] /\ ~crossed[a]
    OBVIOUS
  <2>2. RestInv(a)
    BY <2>1 DEF RestInv
  <2>3. PlanInv(a)
    BY <1>1, <2>1 DEF PlanInv
  <2>4. DryInv(a)
    BY <1>1, <2>1 DEF DryInv
  <2>5. FootInv(a) /\ ProbeInv(a) /\ ActInv(a)
    BY <2>1 DEF FootInv, ProbeInv, ActInv
  <2> QED BY <2>2, <2>3, <2>4, <2>5
<1> QED BY <1>3, <1>4, <1>5, <1>6 DEF RunInv

\* Every step keeps it.
LEMMA RunInductive == ASSUME RunInv, [RunNext]_runVars PROVE RunInv'
<1>1. ASSUME NEW a \in Requests, NEW t \in Tasks, Begin(a, t)
      PROVE  RunInv'
  BY <1>1, BeginKeeps
<1>2. ASSUME NEW a \in Requests, Step(a)
      PROVE  RunInv'
  BY <1>2, AnswerKeeps, StepKeeps
<1>3. ASSUME NEW a \in Requests, VMEnds(a)
      PROVE  RunInv'
  BY <1>3, VMEndsKeeps
<1>4. CASE SwitchConfig \/ PostCredentials \/ ClearCredentials
  BY <1>4, SwitchConfigKeeps, CredentialsKeep
<1>5. CASE SwitchOn
  BY <1>5, SetDryKeeps, VerifyKeeps, ResetKeeps DEF SwitchOn
<1>6. CASE UNCHANGED runVars
  <2>1. UNCHANGED <<dry, cfg, env, sess, accounts, clients, monitor, traced, switch, switches, task,
                    todo, result, held, made, using, sample, sent, launched, own, wasLive, toggled,
                    crossed, poisoned>>
    BY <1>6 DEF runVars, session, caches, switching, hands, effects, dryPast
  <2>2. RunTypeOK' /\ SessionInv' /\ KeptInv'
    BY <2>1 DEF RunInv, RunTypeOK, SessionInv, KeptInv, Phase, Good, Going, Who
  <2>3. ASSUME NEW a \in Requests
        PROVE  RequestInv(a)' /\ ActInv(a)'
    <3>1. Untouched(a)
      BY <2>1 DEF Untouched
    <3>2. RequestInv(a) /\ ActInv(a)
      BY DEF RunInv, RequestInv
    <3> QED BY <2>1, <3>1, <3>2, OthersKeep, OthersAct
  <2> QED BY <2>2, <2>3 DEF RunInv, RequestInv
<1> QED BY <1>1, <1>2, <1>3, <1>4, <1>5, <1>6 DEF RunNext

\* The invariant, for any requests, any handlers among Tasks, any launches and any
\* switches.
THEOREM RunInvariant == RunSpec => []RunInv
<1>1. RunInit => RunInv
  BY RunInitially
<1>2. RunInv /\ [RunNext]_runVars => RunInv'
  BY RunInductive
<1> QED BY <1>1, <1>2, PTL DEF RunSpec

-----------------------------------------------------------------------------
(* The properties. *)

\* No handler sends what changes something while dry run is on all the time it runs,
\* and a sample-aware manager sends nothing unless dry run is switched under it
\* (server.py:310-312, docs/playground.md:47).
THEOREM DryRunHolds == RunSpec => []DryRunSendsNothing
<1>1. RunInv => DryRunSendsNothing
  <2> SUFFICES ASSUME RunInv, NEW a \in Requests, sent[a]
               PROVE  wasLive[a] /\ (sample[a] => toggled[a])
    BY DEF DryRunSendsNothing, RunInv
  <2>1. DryInv(a)
    BY DEF RunInv
  <2> QED BY <2>1 DEF DryInv
<1> QED BY <1>1, RunInvariant, PTL

\* A request that no switch crosses acts as the session that is configured, through
\* clients that are hooked once, unless a crossed one has kept something
\* (client.py _session, server.py:739-750).
THEOREM ConfigurationHolds == RunSpec => []ActsAsConfigured
<1>1. RunInv => ActsAsConfigured
  <2> SUFFICES ASSUME RunInv, ~poisoned, NEW a \in Going, ~crossed[a]
               PROVE  /\ using[a] # None => using[a] = [who |-> Who(cfg), hooks |-> 1]
                      /\ switch = Idle => accounts[cfg] \in {None, Who(cfg)}
    BY DEF ActsAsConfigured
  <2>1. a \in Requests /\ result[a] = "going"
    BY DEF Going
  <2>2. ActInv(a) /\ KeptInv
    BY <2>1 DEF RunInv
  <2>3. using[a] # None => using[a] = Good
    BY <2>1, <2>2 DEF ActInv
  <2>4. switch = Idle => Phase = "idle"
    BY DEF Phase, Idle
  <2> QED BY <2>2, <2>3, <2>4 DEF KeptInv, Good
<1> QED BY <1>1, RunInvariant, PTL

\* A set of no more than n members, of those counted up to n.
LEMMA FewMembers ==
    ASSUME NEW n \in Nat, NEW m \in Nat, m <= n, NEW s, s \subseteq 1..m
    PROVE  Cardinality(s) <= n
<1>1. IsFiniteSet(1..m) /\ Cardinality(1..m) = m
  BY FS_Interval
<1>2. IsFiniteSet(s) /\ Cardinality(s) <= Cardinality(1..m) /\ Cardinality(s) \in Nat
  BY <1>1, FS_Subset, FS_CardinalityType
<1> QED BY <1>1, <1>2

\* No handler has more microVMs running than it says, or leaves others behind, and
\* one that was turned away has launched none (post_probe server.py:1780-1922,
\* _lease_many 1320-1413).
THEOREM FootprintHolds == RunSpec => []FootprintKept
<1>1. RunInv => FootprintKept
  <2> SUFFICES ASSUME RunInv, NEW a \in Going
               PROVE  /\ Cardinality(own[a]) <= task[a].most
                      /\ todo[a] = <<>> => Cardinality(own[a]) <= task[a].leaves
                      /\ todo[a] \in {<<"dry">>, <<"refused">>} => launched[a] = 0
    BY DEF FootprintKept
  <2>1. a \in Requests /\ result[a] = "going"
    BY DEF Going
  <2>2. FootInv(a) /\ ProbeInv(a) /\ RunTypeOK
    BY <2>1 DEF RunInv
  <2> DEFINE t == task[a]
  <2>3. /\ t \in Tasks /\ own[a] \subseteq 1..launched[a] /\ launched[a] \in 0..Limit(t)
        /\ launched[a] > 0 => \A i \in DOMAIN todo[a] : todo[a][i] \notin Deciding \union {"dry", "refused"}
    BY <2>1, <2>2 DEF FootInv, Affordable
  <2>4. Sound(t) /\ Limit(t) \in Nat /\ t.most \in Nat
    BY <2>3, Limits
  <2>5. todo[a] \in {<<"dry">>, <<"refused">>} => launched[a] = 0
    <3>1. ASSUME NEW how \in {"dry", "refused"}, todo[a] = <<how>>
          PROVE  ~(launched[a] > 0)
      <4>1. 1 \in DOMAIN todo[a] /\ todo[a][1] = how
        BY <3>1
      <4> QED BY <2>3, <4>1
    <3>2. launched[a] \in Nat
      BY <2>3, <2>4
    <3> QED BY <3>1, <3>2
  <2> HIDE DEF t
  <2>6. CASE ~Probes(t)
    <3>1. Limit(t) = t.most /\ t.leaves = t.most
      BY <2>4, <2>6 DEF Limit, Sound
    <3>2. Cardinality(own[a]) <= t.most
      BY <2>3, <2>4, <3>1, FewMembers
    <3> QED BY <2>5, <3>1, <3>2 DEF t
  <2>7. CASE Probes(t)
    <3>1. /\ own[a] \subseteq {1, launched[a]}
          /\ Ended(todo[a]) \/ Due(todo[a], 0) \/ own[a] \subseteq {1}
          /\ t.leaves = 0 => \/ Ended(todo[a]) \/ (todo[a] = <<>> /\ own[a] = {})
                             \/ \E i \in DOMAIN todo[a] : todo[a][i] = "terminateFirst"
      BY <2>1, <2>2, <2>7 DEF ProbeInv, t
    <3>2. t.most \in {1, 2} /\ t.leaves \in {0, 1}
      BY <2>4, <2>7 DEF Sound
    <3>3. Cardinality(own[a]) <= t.most
      <4>1. CASE t.most = 1
        <5>1. Limit(t) = 1
          BY <4>1 DEF Limit
        <5> QED BY <2>3, <4>1, <5>1, FewMembers
      <4>2. CASE t.most = 2
        <5>1. IsFiniteSet({1, launched[a]}) /\ Cardinality({1, launched[a]}) <= 2
          <6>1. CASE launched[a] = 1
            <7>1. {1, launched[a]} = {1}
              BY <6>1
            <7>2. IsFiniteSet({1}) /\ Cardinality({1}) = 1
              BY FS_Singleton
            <7> QED BY <7>1, <7>2
          <6>2. CASE launched[a] # 1
            <7>1. IsFiniteSet({1}) /\ Cardinality({1}) = 1
              BY FS_Singleton
            <7>2. {1, launched[a]} = {1} \union {launched[a]} /\ launched[a] \notin {1}
              BY <6>2
            <7>3. /\ IsFiniteSet({1} \union {launched[a]})
                  /\ Cardinality({1} \union {launched[a]}) = 1 + 1
              BY <7>1, <7>2, FS_AddElement
            <7> QED BY <7>2, <7>3
          <6> QED BY <6>1, <6>2
        <5>2. Cardinality(own[a]) <= Cardinality({1, launched[a]}) /\ Cardinality(own[a]) \in Nat
              /\ Cardinality({1, launched[a]}) \in Nat
          BY <3>1, <5>1, FS_Subset, FS_CardinalityType
        <5> QED BY <4>2, <5>1, <5>2
      <4> QED BY <3>2, <4>1, <4>2
    <3>4. ASSUME todo[a] = <<>>
          PROVE  Cardinality(own[a]) <= t.leaves
      <4>1. ~Ended(todo[a]) /\ ~Due(todo[a], 0) /\ DOMAIN todo[a] = {}
        BY <3>4 DEF Ended, Due
      <4>2. CASE t.leaves = 0
        <5>1. own[a] = {}
          BY <3>1, <4>1, <4>2
        <5> QED BY <4>2, <5>1, FS_EmptySet
      <4>3. CASE t.leaves = 1
        <5>1. own[a] \subseteq 1..1
          BY <3>1, <4>1
        <5> QED BY <4>3, <5>1, FewMembers
      <4> QED BY <3>2, <4>2, <4>3
    <3> QED BY <2>5, <3>3, <3>4 DEF t
  <2> QED BY <2>6, <2>7
<1> QED BY <1>1, RunInvariant, PTL
=============================================================================
