-------------------------- MODULE PlaygroundStore ---------------------------
(***************************************************************************)
(* What the playground keeps (src/microvm/playground/server.py): its jobs, *)
(* their runner threads, the trace of API calls and the session's settings *)
(* in memory, and state.json, which every thread writes through one shared *)
(* temporary file and a new process reads back.                            *)
(*                                                                         *)
(* Jobs are numbered in the order they are started.  What a job does is in *)
(* PlaygroundRun; here its body is the calls it traces and how it ends.    *)
(* Of the session's settings, dryRun is told apart of the PlaneConfig:     *)
(* save_state writes both, _load_state reads only the latter.              *)
(***************************************************************************)
EXTENDS Naturals, Sequences, SequencesExt

CONSTANTS
    NJobs,       \* bound: jobs started
    MaxCalls,    \* bound: entries pushed to the trace
    MaxTrace,    \* maxlen of the trace
    Keep,        \* jobs a saved state holds, the newest first
    MaxSettings, \* bound: the settings are numbered as they are made, 0 a process's own
    DryFlag,     \* processes are started with --dry-run
    EnvSet,      \* MVM_REGION, MVM_PROFILE or MVM_ARTIFACT_BUCKET is set
    MaxRestarts, \* bound: processes after the first
    NoFile,      \* the file is not there
    Broken       \* the content of a file that is not JSON

Jobs    == 1..NJobs
Req     == 0             \* a thread that answers requests of the page
Closing == NJobs + 1     \* the main thread, once the server stops
Threads == 0..(NJobs + 1)

ASSUME StoreAssumption ==
    /\ NJobs \in Nat /\ MaxCalls \in Nat /\ MaxRestarts \in Nat
    /\ MaxTrace \in Nat \ {0} /\ Keep \in Nat \ {0}
    /\ MaxSettings \in Nat /\ DryFlag \in BOOLEAN /\ EnvSet \in BOOLEAN

VARIABLES
    up,                        \* a process serves
    job,                       \* pg.jobs, one record per job
    trace, traceSeq,           \* pg.trace, pg._trace_seq
    settings, dryRun,          \* pg.cfg, pg.dry_run
    pc,                        \* where each thread is; a runner has one per job
    draft, fd,                 \* per thread: the state being saved, its open file
    tmp, main,                 \* the contents of state.json.tmp and of state.json
    restarts,
    overlapped,                \* history: two saves have run at the same time
    kept                       \* history: until then, the last state that was renamed

config == <<settings, dryRun>>
memory == <<job, trace, traceSeq, config>>
saving == <<draft, fd>>
files  == <<tmp, main>>
ghosts == <<overlapped, kept>>
vars   == <<up, memory, pc, saving, files, restarts, ghosts>>

Statuses == {"absent", "running", "done", "failed"}
Record   == [status : Statuses, result : BOOLEAN, error : {"none", "raised", "interrupted"},
             finished : BOOLEAN]
Absent   == [status |-> "absent", result |-> FALSE, error |-> "none", finished |-> FALSE]

Blank  == [jobs |-> [j \in Jobs |-> Absent], trace |-> <<>>, seq |-> 0,
           settings |-> 0, dryRun |-> DryFlag]
State  == [jobs : [Jobs -> Record], trace : Seq(1..MaxCalls), seq : 0..MaxCalls,
           settings : 0..MaxSettings, dryRun : BOOLEAN]

ASSUME FilesAssumption == NoFile \notin State /\ Broken \notin State

SaveSteps == {"collect", "describe", "results", "ends", "open", "write", "rename"}
RunSteps  == {"idle", "body", "result", "failure", "finish", "over"}

TypeOK ==
    /\ up \in BOOLEAN
    /\ job \in [Jobs -> Record]
    /\ trace \in Seq(1..MaxCalls) /\ Len(trace) <= MaxTrace /\ traceSeq \in 0..MaxCalls
    /\ settings \in 0..MaxSettings /\ dryRun \in BOOLEAN
    /\ pc \in [Threads -> RunSteps \union SaveSteps]
    /\ draft \in [Threads -> State] /\ fd \in [Threads -> {"none", "tmp", "main", "gone"}]
    /\ \A file \in {tmp, main} : file \in {NoFile, Broken} \/ file \in State
    /\ restarts \in 0..MaxRestarts
    /\ overlapped \in BOOLEAN /\ kept \in State

Init ==
    /\ up = TRUE
    /\ job = [j \in Jobs |-> Absent]
    /\ trace = <<>> /\ traceSeq = 0 /\ settings = 0 /\ dryRun = DryFlag
    /\ pc = [t \in Threads |-> "idle"]
    /\ draft = [t \in Threads |-> Blank] /\ fd = [t \in Threads |-> "none"]
    /\ tmp = NoFile /\ main = NoFile
    /\ restarts = 0
    /\ overlapped = FALSE /\ kept = Blank

Saving(t) == pc[t] \in SaveSteps
Goto(t, label) == pc' = [pc EXCEPT ![t] = label]

\* Thread t begins a save: is another one under way?
NoteOverlap(t) ==
    /\ overlapped' = (overlapped \/ \E u \in Threads \ {t} : Saving(u))
    /\ kept' = IF overlapped' THEN Blank ELSE kept

BeginSave(t) == Goto(t, "collect") /\ NoteOverlap(t)

\* save_state is over, whether it worked or not: a runner goes back to its job,
\* or ends; the main thread leaves the process.
Return(t) ==
    /\ pc' = [pc EXCEPT ![t] = IF t \in Jobs /\ ~job[t].finished THEN "body"
                               ELSE IF t \in Jobs THEN "over" ELSE "idle"]
    /\ draft' = [draft EXCEPT ![t] = Blank]
    /\ up' = (t # Closing)

-----------------------------------------------------------------------------
(* Jobs and requests. *)

\* start_job: the job is registered, then its thread starts, and the thread that
\* answers the request saves the state.
StartJob(j) ==
    /\ up /\ pc[Req] = "idle" /\ pc[Closing] = "idle"
    /\ job[j].status = "absent" /\ \A i \in 1..(j - 1) : job[i].status # "absent"
    /\ job' = [job EXCEPT ![j].status = "running"]
    /\ pc' = [pc EXCEPT ![j] = "body", ![Req] = "collect"]
    /\ NoteOverlap(Req)
    /\ UNCHANGED <<up, trace, traceSeq, config, saving, files, restarts>>

\* set_config: the new settings, then a save.
SetConfig ==
    /\ up /\ pc[Req] = "idle" /\ pc[Closing] = "idle" /\ settings < MaxSettings
    /\ settings' = settings + 1 /\ dryRun' \in BOOLEAN
    /\ BeginSave(Req)
    /\ UNCHANGED <<up, job, trace, traceSeq, saving, files, restarts>>

\* post_credentials: new settings for the process, and no save.
UseCredentials ==
    /\ up /\ pc[Req] = "idle" /\ pc[Closing] = "idle" /\ settings < MaxSettings
    /\ settings' = settings + 1 /\ dryRun' \in BOOLEAN
    /\ UNCHANGED <<up, job, trace, traceSeq, pc, saving, files, restarts, ghosts>>

\* _push_trace, from a call of the job or its dry run: at most every two seconds
\* the thread that pushed saves the state too.
PushTrace(j) ==
    /\ up /\ pc[j] = "body" /\ traceSeq < MaxCalls
    /\ traceSeq' = traceSeq + 1
    /\ LET full == Append(trace, traceSeq + 1)
       IN trace' = IF Len(full) > MaxTrace THEN Tail(full) ELSE full
    /\ \/ BeginSave(j)
       \/ UNCHANGED <<pc, ghosts>>
    /\ UNCHANGED <<up, job, config, saving, files, restarts>>

\* clear_trace: the entries go, their numbering goes on.
ClearTrace ==
    /\ up /\ pc[Req] = "idle" /\ trace # <<>>
    /\ trace' = <<>>
    /\ UNCHANGED <<up, job, traceSeq, config, pc, saving, files, restarts, ghosts>>

\* Mutant: the status is set before the result.
BodyReturnsDone(j) ==
    /\ up /\ pc[j] = "body"
    /\ job' = [job EXCEPT ![j].status = "done"]
    /\ Goto(j, "result")
    /\ UNCHANGED <<up, trace, traceSeq, config, saving, files, restarts, ghosts>>

\* The runner: the result and then the status, or the status and then the error.
BodyReturns(j) ==
    /\ up /\ pc[j] = "body"
    /\ job' = [job EXCEPT ![j].result = TRUE]
    /\ Goto(j, "result")
    /\ UNCHANGED <<up, trace, traceSeq, config, saving, files, restarts, ghosts>>

SetDone(j) ==
    /\ up /\ pc[j] = "result"
    /\ job' = [job EXCEPT ![j].status = "done"]
    /\ Goto(j, "finish")
    /\ UNCHANGED <<up, trace, traceSeq, config, saving, files, restarts, ghosts>>

BodyRaises(j) ==
    /\ up /\ pc[j] = "body"
    /\ job' = [job EXCEPT ![j].status = "failed"]
    /\ Goto(j, "failure")
    /\ UNCHANGED <<up, trace, traceSeq, config, saving, files, restarts, ghosts>>

SetError(j) ==
    /\ up /\ pc[j] = "failure"
    /\ job' = [job EXCEPT ![j].error = "raised"]
    /\ Goto(j, "finish")
    /\ UNCHANGED <<up, trace, traceSeq, config, saving, files, restarts, ghosts>>

\* finally: the end is stamped and the state is saved.
Finish(j) ==
    /\ up /\ pc[j] = "finish"
    /\ job' = [job EXCEPT ![j].finished = TRUE]
    /\ BeginSave(j)
    /\ UNCHANGED <<up, trace, traceSeq, config, saving, files, restarts>>

\* serve() leaves its loop and saves once more; the other threads are daemons
\* and run on until the process is gone.  (Bound: no request is being answered
\* then; the runners are the threads that race this save.)
CloseServer ==
    /\ up /\ pc[Closing] = "idle" /\ pc[Req] = "idle"
    /\ BeginSave(Closing)
    /\ UNCHANGED <<up, memory, saving, files, restarts>>

-----------------------------------------------------------------------------
(* save_state, a step at a time and without a lock around the steps. *)

Newest == {j \in Jobs : job[j].status # "absent" /\
              \A i \in Jobs : i >= j + Keep => job[i].status = "absent"}

\* The newest jobs, of which nothing is read yet, and, under the lock, a copy of the
\* trace.
Collect(t) ==
    /\ up /\ pc[t] = "collect"
    /\ draft' = [draft EXCEPT ![t] = [Blank EXCEPT
          !.jobs = [j \in Jobs |-> IF j \in Newest THEN [Absent EXCEPT !.status = "running"] ELSE Absent],
          !.trace = trace]]
    /\ Goto(t, "describe")
    /\ UNCHANGED <<up, memory, fd, files, restarts, ghosts>>

Listed(t) == {j \in Jobs : draft[t].jobs[j].status # "absent"}

\* The settings, and then to_dict of each job, which reads a field at a time while
\* the runner writes them: the status ...
Describe(t) ==
    /\ up /\ pc[t] = "describe"
    /\ draft' = [draft EXCEPT
          ![t].jobs = [j \in Jobs |-> IF j \in Listed(t) THEN [@[j] EXCEPT !.status = job[j].status]
                                     ELSE @[j]],
          ![t].settings = settings, ![t].dryRun = dryRun]
    /\ Goto(t, "results")
    /\ UNCHANGED <<up, memory, fd, files, restarts, ghosts>>

\* ... the result and the error, of which a job gets only one, so that nothing is lost
\* in taking them together ...
ReadResults(t) ==
    /\ up /\ pc[t] = "results"
    /\ draft' = [draft EXCEPT
          ![t].jobs = [j \in Jobs |-> IF j \in Listed(t)
                                     THEN [@[j] EXCEPT !.result = job[j].result, !.error = job[j].error]
                                     ELSE @[j]]]
    /\ Goto(t, "ends")
    /\ UNCHANGED <<up, memory, fd, files, restarts, ghosts>>

\* ... and the end; last comes the trace's number.
ReadEnds(t) ==
    /\ up /\ pc[t] = "ends"
    /\ draft' = [draft EXCEPT
          ![t].jobs = [j \in Jobs |-> IF j \in Listed(t) THEN [@[j] EXCEPT !.finished = job[j].finished]
                                     ELSE @[j]],
          ![t].seq = traceSeq]
    /\ Goto(t, "open")
    /\ UNCHANGED <<up, memory, fd, files, restarts, ghosts>>

\* Mutant: state.json is written in place.
OpenInPlace(t) ==
    /\ up /\ pc[t] = "open"
    /\ main' = Broken /\ fd' = [fd EXCEPT ![t] = "main"]
    /\ Goto(t, "write")
    /\ UNCHANGED <<up, memory, draft, tmp, restarts, ghosts>>

\* write_text opens state.json.tmp, or makes it, and truncates it.
Open(t) ==
    /\ up /\ pc[t] = "open"
    /\ tmp' = Broken /\ fd' = [fd EXCEPT ![t] = "tmp"]
    /\ Goto(t, "write")
    /\ UNCHANGED <<up, memory, draft, main, restarts, ghosts>>

\* The text goes to the file that was opened, whatever its name is by now; over
\* what another thread wrote or is writing there it may leave a mixture.
Written(t, old) ==
    {draft[t]} \union (IF old # Broken \/ \E u \in Threads \ {t} : fd[u] = fd[t]
                       THEN {Broken} ELSE {})

Write(t) ==
    /\ up /\ pc[t] = "write"
    /\ IF fd[t] = "tmp" THEN tmp' \in Written(t, tmp) ELSE UNCHANGED tmp
    /\ IF fd[t] = "main" THEN main' \in Written(t, main) ELSE UNCHANGED main
    /\ Goto(t, "rename")
    /\ UNCHANGED <<up, memory, saving, restarts, ghosts>>

\* What becomes of the open files when tmp takes the name of main.
Renamed(name) == CASE name = "tmp" -> "main" [] name = "main" -> "gone" [] OTHER -> name

\* tmp.replace(state.json); when another thread's rename took the file away it
\* raises, and save_state swallows that.
Rename(t) ==
    /\ up /\ pc[t] = "rename"
    /\ IF tmp = NoFile
       THEN /\ fd' = [fd EXCEPT ![t] = "none"]
            /\ UNCHANGED <<files, kept>>
       ELSE /\ main' = tmp /\ tmp' = NoFile
            /\ fd' = [u \in Threads |-> IF u = t THEN "none" ELSE Renamed(fd[u])]
            /\ kept' = IF overlapped THEN Blank ELSE draft[t]
    /\ Return(t)
    /\ UNCHANGED <<memory, restarts, overlapped>>

\* The jobs change under the copy, or the directory or the disk refuses: best
\* effort.
SaveFails(t) ==
    /\ up /\ pc[t] \in {"collect", "open", "write"}
    /\ fd' = [fd EXCEPT ![t] = "none"]
    /\ Return(t)
    /\ UNCHANGED <<memory, files, restarts, ghosts>>

-----------------------------------------------------------------------------
\* Mutant: a job comes back as it was saved.
InterruptedKept(r) == r

\* A job that was running when its process went away.
Interrupted(r) ==
    IF r.status = "running"
    THEN [r EXCEPT !.status = "failed", !.error = "interrupted", !.finished = TRUE]
    ELSE r

\* What _load_state finds: nothing when there is no file or it is not JSON.
Loaded == IF main \in {NoFile, Broken} THEN Blank ELSE main

\* Mutant: the numbering of the trace begins again.
RestartFromZero ==
    /\ restarts < MaxRestarts
    /\ restarts' = restarts + 1
    /\ up' = TRUE
    /\ job' = [j \in Jobs |-> Interrupted(Loaded.jobs[j])]
    /\ trace' = Loaded.trace /\ traceSeq' = 0
    /\ settings' = (IF EnvSet THEN 0 ELSE Loaded.settings) /\ dryRun' = DryFlag
    /\ pc' = [t \in Threads |-> "idle"]
    /\ draft' = [t \in Threads |-> Blank] /\ fd' = [t \in Threads |-> "none"]
    /\ UNCHANGED <<files, ghosts>>

\* The process has ended, or is killed between any two steps, and a new one
\* begins: __init__, _load_state, and serve().
Restart ==
    /\ restarts < MaxRestarts
    /\ restarts' = restarts + 1
    /\ up' = TRUE
    /\ job' = [j \in Jobs |-> Interrupted(Loaded.jobs[j])]
    /\ trace' = Loaded.trace /\ traceSeq' = Loaded.seq
    /\ settings' = (IF EnvSet THEN 0 ELSE Loaded.settings) /\ dryRun' = DryFlag
    /\ pc' = [t \in Threads |-> "idle"]
    /\ draft' = [t \in Threads |-> Blank] /\ fd' = [t \in Threads |-> "none"]
    /\ UNCHANGED <<files, ghosts>>

Serve ==
    \/ \E j \in Jobs : \/ StartJob(j) \/ PushTrace(j) \/ BodyReturns(j) \/ SetDone(j)
                       \/ BodyRaises(j) \/ SetError(j) \/ Finish(j)
    \/ SetConfig \/ UseCredentials \/ ClearTrace \/ CloseServer

Save ==
    \E t \in Threads :
        \/ Collect(t) \/ Describe(t) \/ ReadResults(t) \/ ReadEnds(t)
        \/ Open(t) \/ Write(t) \/ Rename(t) \/ SaveFails(t)

Next == Serve \/ Save \/ Restart

Spec == Init /\ [][Next]_vars

-----------------------------------------------------------------------------
(* Properties. *)

\* Every variable has its type, and a job said to be running has a thread in this
\* process that will end it, after any number of restarts (559-561); its end is
\* stamped only once decided.
RunningHasRunner ==
    /\ TypeOK
    /\ up => \A j \in Jobs :
        /\ job[j].status = "running" => pc[j] \notin {"idle", "over"}
        /\ job[j].finished => job[j].status \in {"done", "failed"}

\* A job that is done has its result wherever one looks: to_dict takes a lock the
\* runner does not and reads a field at a time, so it is the order of the runner's
\* assignments and the order of to_dict's reads that keep a saved state from a done
\* job without result (570-571, 80-92).
DoneHasResult ==
    /\ \A j \in Jobs : job[j].status = "done" => job[j].result
    /\ \A j \in Jobs : Loaded.jobs[j].status = "done" => Loaded.jobs[j].result

\* The trace is numbered in order, with no number given twice, over restarts too:
\* save_state copies the entries before it reads the number (514-520), and calls
\* traced in between must not come back as new ones.
TraceOrdered ==
    /\ \A a, b \in DOMAIN trace : a < b => trace[a] < trace[b]
    /\ \A a \in DOMAIN trace : trace[a] <= traceSeq

\* A process that starts finds the jobs, the trace and the PlaneConfig that the last
\* save that renamed its file recorded, wherever the one before it was killed, as
\* long as no two saves overlapped (495-550).
SavedStateSurvives ==
    [][(restarts' # restarts /\ ~overlapped) =>
          /\ \A j \in Jobs : job'[j] = Interrupted(kept.jobs[j])
          /\ trace' = kept.trace
          /\ settings' = IF EnvSet THEN 0 ELSE kept.settings]_vars

\* "Persistence: jobs and session settings survive a restart" (494), with dry_run
\* among the settings that are saved (505): a session switched to a dry run is still
\* one in the next process.
SettingsSurvive ==
    [][(restarts' # restarts /\ ~overlapped /\ ~EnvSet) =>
          settings' = kept.settings /\ dryRun' = kept.dryRun]_vars

=============================================================================
