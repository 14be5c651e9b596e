----------------------------- MODULE Telemetry ------------------------------
(***************************************************************************)
(* What a microVM tells of its work: the Job of hooks/server.py (a ring    *)
(* of log lines and the lease's state), the /events stream and the         *)
(* /status route that serve it, and the one reader attached to it: either  *)
(* EndpointClient.watch on the stream or the playground's _follow_status   *)
(* on the route.                                                           *)
(*                                                                         *)
(* A line is its sequence number.  The phase, the progress, the counters   *)
(* and the wording of a line are data no step depends on, and left out.    *)
(***************************************************************************)
EXTENDS Integers, FiniteSets, Sequences, SequencesExt

CONSTANTS
    RingSize,        \* Job.RING: lines kept
    TailSize,        \* Job.TAIL: lines in a snapshot taken without a cursor
    MaxLines,    \* bound: lines logged, the Reserved ones included
    MaxMisses,   \* polls in a row that may fail before _follow_status gives up
    WireCap,     \* bound: frames the connection holds before a write blocks
    None         \* a cursor that was never set

\* The lines a lease logs whatever the bound says: accepted, lost, delivered.
Reserved == 3

ASSUME TelemetryAssumption ==
    /\ RingSize \in Nat \ {0} /\ TailSize \in 1..RingSize
    /\ MaxLines \in Nat /\ Reserved <= MaxLines /\ MaxMisses \in Nat \ {0} /\ WireCap \in Nat \ {0}
    /\ None \notin Int

VARIABLES
    vm,       \* "up", or "down": terminated, its connections closed
    seq, ring,           \* Job.seq, Job._ring
    locked,   \* Job._lock is held across steps, by a snapshot being taken
    work,     \* where the thread that runs the lease is
    heart,    \* where the heartbeat thread is
    lease,    \* what LeaseContext.status reads: done, lost, error
    reader,   \* which reader is attached: "watch" or "follow"
    cpc, why, misses,         \* the reader: its place, why it ended
    got, last,                \* the lines it was handed, the snapshot that ended it
    tpc, todo, draft, due,    \* the serving thread: place, batch, snapshot, 5 s timer
    cursor,   \* the stream's seq, or the since of _follow_status
    wire,     \* frames on their way to the reader
    from,     \* history: lines up to this one were never promised to the reader
    overrun   \* history: lines pushed out of the ring before the reader's turn came

jobvars    == <<seq, ring>>
leasevars  == <<work, heart, lease>>
clientvars == <<reader, cpc, why, misses, got, last>>
servevars  == <<tpc, todo, draft, due, cursor>>
ghosts     == <<from, overrun>>
inside     == <<vm, jobvars, locked, leasevars>>
serving    == <<todo, draft, due>>
outside    == <<clientvars, servevars, wire, ghosts>>
vars == <<vm, jobvars, locked, leasevars, clientvars, servevars, wire, ghosts>>

Readers    == {"watch", "follow"}
Lines      == 1..MaxLines
Snapshots  == [seq : 0..MaxLines, lines : Seq(Lines),
               done : BOOLEAN, lost : BOOLEAN, error : BOOLEAN]
NoSnapshot == [seq |-> 0, lines |-> <<>>, done |-> FALSE, lost |-> FALSE, error |-> FALSE]
Frames     == [kind : {"line"}, n : Lines] \union [kind : {"snap"}, snap : Snapshots]

WorkStates  == {"boot", "reset", "published", "working", "phased", "done", "recorded",
                "settled", "unleased"}
ReaderStates == {"start", "wait", "reading", "sleep", "ended"}
ThreadStates == {"none", "accepted", "opened", "loop", "snap", "send", "since", "write", "sleep",
                 "asked", "over"}
Endings == {"none", "done", "failed", "lost", "deadline", "closed", "refused", "unreachable"}

TypeOK ==
    /\ vm \in {"up", "down"}
    /\ seq \in 0..MaxLines /\ ring \in Seq(Lines) /\ Len(ring) <= RingSize
    /\ locked \in BOOLEAN
    /\ work \in WorkStates /\ heart \in {"beating", "marked", "over"}
    /\ lease \in [done : BOOLEAN, lost : BOOLEAN, error : BOOLEAN]
    /\ reader \in Readers /\ cpc \in ReaderStates /\ why \in Endings
    /\ (why = "none") = (cpc # "ended")
    /\ misses \in 0..MaxMisses
    /\ got \in Seq(Lines) /\ last \in Snapshots
    /\ tpc \in ThreadStates /\ todo \in Seq(Lines) /\ draft \in Snapshots /\ due \in BOOLEAN
    /\ cursor \in 0..MaxLines \union {None}
    /\ wire \in Seq(Frames) /\ Len(wire) <= WireCap
    /\ from \in 0..MaxLines /\ overrun \subseteq Lines

Init ==
    /\ vm = "up"
    /\ seq = 0 /\ ring = <<>> /\ locked = FALSE
    /\ work = "boot" /\ heart = "over"
    /\ lease = [done |-> FALSE, lost |-> FALSE, error |-> FALSE]
    /\ reader \in Readers
    /\ cpc = "start" /\ why = "none" /\ misses = 0
    /\ got = <<>> /\ last = NoSnapshot
    /\ tpc = "none" /\ todo = <<>> /\ draft = NoSnapshot /\ due = TRUE
    /\ cursor = None
    /\ wire = <<>>
    /\ from = MaxLines /\ overrun = {}

-----------------------------------------------------------------------------
(* Job. *)

\* Lines the stream has copied from the ring and not yet handed over.
Taken == ToSet(todo) \union {f.n : f \in {g \in ToSet(wire) : g.kind = "line"}}

\* Job.log: number the line and append it to the ring, which drops its oldest.
Log ==
    /\ ~locked
    /\ seq' = seq + 1
    /\ LET full == Append(ring, seq + 1)
       IN ring' = IF Len(full) > RingSize THEN Tail(full) ELSE full
    /\ overrun' = overrun \union
          {n \in ToSet(ring) \ (ToSet(ring') \union ToSet(todo)) :
              n > from /\ (cursor = None \/ n > cursor)}

\* The newest count entries of the ring, oldest first.
Newest(count) == SubSeq(ring, Len(ring) - count + 1, Len(ring))

\* Mutant: the line at the cursor is handed out again.
SinceInclusive(n) == Newest(Cardinality({i \in DOMAIN ring : ring[i] >= n}))

\* Job.since: the kept lines above a cursor.  The ring holds its lines in order
\* (RingInv of TelemetryProofs), so they are its newest ones.
Since(n) == Newest(Cardinality({i \in DOMAIN ring : ring[i] > n}))

\* Mutant: the tail is cut from the wrong end.
SnapshotLinesOldest(since) ==
    IF since # None THEN Since(since)
    ELSE SubSeq(ring, 1, IF Len(ring) > TailSize THEN TailSize ELSE Len(ring))

\* The lines of Job.snapshot: those above since, or the newest TailSize ones.
SnapshotLines(since) ==
    IF since # None THEN Since(since)
    ELSE Newest(IF Len(ring) > TailSize THEN TailSize ELSE Len(ring))

(* The threads that log.  A line nothing waits for is logged only while the
   Reserved lines, which must still come, fit under the bound. *)

MayLog == vm = "up" /\ seq < MaxLines - Reserved

\* /run: Job.reset, before the application's hook.
RunResets ==
    /\ vm = "up" /\ work = "boot" /\ ~locked
    /\ work' = "reset"
    /\ UNCHANGED <<vm, jobvars, locked, heart, lease, outside>>

\* _maybe_start_lease: the lease is published on the job, or there is none.
Publish ==
    /\ vm = "up" /\ work = "reset"
    /\ \/ work' = "published" /\ heart' = "beating"
       \/ work' = "unleased" /\ UNCHANGED heart
    /\ UNCHANGED <<vm, jobvars, locked, lease, outside>>

\* Job.phase, first half: the name; the line that tells of it is logged after.
SetPhase ==
    /\ MayLog /\ work = "working" /\ ~locked
    /\ work' = "phased"
    /\ UNCHANGED <<vm, jobvars, locked, heart, lease, outside>>

\* A line the code logs on its way: "lease accepted", "phase: ...", and what
\* _deliver says of the delivery.
LogOnTheWay ==
    /\ vm = "up" /\ work \in {"published", "phased", "recorded"}
    /\ Log
    /\ work' = IF work = "recorded" THEN "settled" ELSE "working"
    /\ UNCHANGED <<vm, locked, heart, lease, clientvars, servevars, wire, from>>

\* A line of the application, or a warning of the heartbeat thread.
LogFreely ==
    /\ MayLog
    /\ Log
    /\ UNCHANGED <<vm, locked, leasevars, clientvars, servevars, wire, from>>

\* _deliver holds ctx._lock, which no reader takes: done and error are two steps.
DeliverDone ==
    /\ vm = "up" /\ work = "working"
    /\ lease' = [lease EXCEPT !.done = TRUE]
    /\ work' = "done"
    /\ UNCHANGED <<vm, jobvars, locked, heart, outside>>

DeliverError ==
    /\ vm = "up" /\ work = "done"
    /\ \E failed \in BOOLEAN : lease' = [lease EXCEPT !.error = failed]
    /\ work' = "recorded"
    /\ UNCHANGED <<vm, jobvars, locked, heart, outside>>

\* A heartbeat, or the delivery itself, met a closed token: lost is set outside
\* ctx._lock, before or after done, and the line that says so comes later.
MarkLost ==
    /\ vm = "up" /\ heart = "beating"
    /\ lease' = [lease EXCEPT !.lost = TRUE]
    /\ heart' = "marked"
    /\ UNCHANGED <<vm, jobvars, locked, work, outside>>

LogLost ==
    /\ vm = "up" /\ heart = "marked"
    /\ Log
    /\ heart' = "over"
    /\ UNCHANGED <<vm, locked, work, lease, clientvars, servevars, wire, from>>

\* The microVM is terminated: its threads stop where they are.
Kill ==
    /\ vm = "up"
    /\ vm' = "down"
    /\ UNCHANGED <<jobvars, locked, leasevars, outside>>

-----------------------------------------------------------------------------
(* Handler._events: the thread that serves a stream. *)

Gone == cpc = "ended"

\* The cursor is read, without the lock, before the client can see an answer.
CaptureCursor ==
    /\ vm = "up" /\ tpc = "accepted"
    /\ cursor' = seq
    /\ tpc' = "opened"
    /\ UNCHANGED <<inside, clientvars, serving, wire, ghosts>>

\* From here on the client is connected, and is promised every line.
SendHeaders ==
    /\ vm = "up" /\ tpc = "opened"
    /\ IF Gone
       THEN tpc' = "over" /\ UNCHANGED <<cpc, from>>
       ELSE tpc' = "loop" /\ cpc' = "reading" /\ from' = seq
    /\ UNCHANGED <<inside, reader, why, misses, got, last, serving, cursor, wire, overrun>>

\* The top of the loop: a snapshot when one is due, then the new lines.
\* Job.snapshot copies the lines and reads the lease's done under Job._lock.
Loop ==
    /\ vm = "up" /\ tpc = "loop"
    /\ IF due
       THEN /\ ~locked
            /\ draft' = [seq |-> seq, lines |-> SnapshotLines(None),
                         done |-> lease.done, lost |-> lease.lost, error |-> FALSE]
            /\ locked' = TRUE /\ tpc' = "snap"
       ELSE tpc' = "since" /\ UNCHANGED <<draft, locked>>
    /\ UNCHANGED <<vm, jobvars, leasevars, clientvars, todo, due, cursor, wire, ghosts>>

\* The server is stopping, or the hour of one stream is over.
StreamExpires ==
    /\ vm = "up" /\ tpc = "loop"
    /\ tpc' = "over"
    /\ UNCHANGED <<inside, clientvars, serving, cursor, wire, ghosts>>

\* LeaseContext.status reads error last, and the lock is released.
FinishSnapshot ==
    /\ vm = "up" /\ tpc = "snap"
    /\ draft' = [draft EXCEPT !.error = lease.error]
    /\ locked' = FALSE /\ tpc' = "send"
    /\ UNCHANGED <<vm, jobvars, leasevars, clientvars, todo, due, cursor, wire, ghosts>>

\* A write to a client that left raises, and ends the thread of a stream.
SendSnapshot ==
    /\ vm = "up" /\ tpc = "send" /\ Len(wire) < WireCap
    /\ wire' = IF Gone THEN wire ELSE Append(wire, [kind |-> "snap", snap |-> draft])
    /\ draft' = NoSnapshot
    /\ IF reader = "follow" THEN tpc' = "none" /\ UNCHANGED due
       ELSE IF Gone THEN tpc' = "over" /\ UNCHANGED due
       ELSE tpc' = "since" /\ due' = FALSE
    /\ UNCHANGED <<inside, clientvars, todo, cursor, ghosts>>

ReadSince ==
    /\ vm = "up" /\ tpc = "since" /\ ~locked
    /\ todo' = Since(cursor)
    /\ tpc' = "write"
    /\ UNCHANGED <<inside, clientvars, draft, due, cursor, wire, ghosts>>

\* Mutant: the cursor jumps to the job's seq instead of the line's.
WriteLineJumps ==
    /\ vm = "up" /\ tpc = "write" /\ todo # <<>> /\ Len(wire) < WireCap /\ ~Gone
    /\ cursor' = seq
    /\ wire' = Append(wire, [kind |-> "line", n |-> Head(todo)])
    /\ todo' = Tail(todo)
    /\ UNCHANGED <<inside, clientvars, tpc, draft, due, ghosts>>

WriteLine ==
    /\ vm = "up" /\ tpc = "write" /\ todo # <<>> /\ Len(wire) < WireCap
    /\ cursor' = Head(todo)
    /\ IF Gone
       THEN tpc' = "over" /\ todo' = <<>> /\ UNCHANGED wire
       ELSE /\ wire' = Append(wire, [kind |-> "line", n |-> Head(todo)])
            /\ todo' = Tail(todo)
            /\ UNCHANGED tpc
    /\ UNCHANGED <<inside, clientvars, draft, due, ghosts>>

\* _client_gone after each batch; otherwise the loop sleeps for 0.2 s.
CheckClient ==
    /\ vm = "up" /\ tpc = "write" /\ todo = <<>>
    /\ tpc' = IF Gone THEN "over" ELSE "sleep"
    /\ UNCHANGED <<inside, clientvars, serving, cursor, wire, ghosts>>

Wake ==
    /\ vm = "up" /\ tpc = "sleep"
    /\ tpc' = "loop"
    /\ UNCHANGED <<inside, clientvars, serving, cursor, wire, ghosts>>

\* Mutant: a snapshot is only due while there are lines to send.
SnapshotDueOnLines ==
    /\ vm = "up" /\ ~due /\ seq > cursor
    /\ due' = TRUE
    /\ UNCHANGED <<inside, clientvars, tpc, todo, draft, cursor, wire, ghosts>>

\* Five seconds have passed since the last snapshot.
SnapshotDue ==
    /\ vm = "up" /\ ~due
    /\ due' = TRUE
    /\ UNCHANGED <<inside, clientvars, tpc, todo, draft, cursor, wire, ghosts>>

\* The /status route: Job.snapshot above the since of the query.
AnswerStatus ==
    /\ vm = "up" /\ tpc = "asked" /\ ~locked
    /\ draft' = [seq |-> seq, lines |-> SnapshotLines(cursor),
                 done |-> lease.done, lost |-> lease.lost, error |-> FALSE]
    /\ from' = IF cursor = None THEN (IF seq > TailSize THEN seq - TailSize ELSE 0) ELSE from
    /\ locked' = TRUE /\ tpc' = "snap"
    /\ UNCHANGED <<vm, jobvars, leasevars, clientvars, todo, due, cursor, wire, overrun>>

-----------------------------------------------------------------------------
(* EndpointClient.watch. *)

End(reason) ==
    /\ cpc' = "ended" /\ why' = reason
    /\ wire' = <<>>

Connect ==
    /\ reader = "watch" /\ cpc = "start" /\ vm = "up"
    /\ cpc' = "wait" /\ tpc' = "accepted"
    /\ UNCHANGED <<inside, reader, why, misses, got, last, serving, cursor, wire, ghosts>>

\* A frame with a log line is yielded; a snapshot is yielded too, and ends the
\* watch when it says that the lease is done.
Yield ==
    /\ reader = "watch" /\ cpc = "reading" /\ wire # <<>>
    /\ LET frame == Head(wire)
       IN IF frame.kind = "line"
          THEN /\ got' = Append(got, frame.n)
               /\ wire' = Tail(wire)
               /\ UNCHANGED <<cpc, why, last>>
          ELSE /\ IF frame.snap.done
                  THEN End("done") /\ last' = frame.snap
                  ELSE wire' = Tail(wire) /\ UNCHANGED <<cpc, why, last>>
               /\ UNCHANGED got
    /\ UNCHANGED <<inside, reader, misses, servevars, ghosts>>

\* No answer, an answer other than 200, a broken connection, a read that times
\* out, or a stream the microVM closed.
StreamBreaks ==
    /\ reader = "watch" /\ cpc \in {"start", "wait", "reading"}
    /\ End("closed")
    /\ UNCHANGED <<inside, reader, misses, got, last, servevars, ghosts>>

\* The deadline is looked at when a line of the stream arrives.
WatchExpires ==
    /\ reader = "watch" /\ cpc = "reading" /\ wire # <<>>
    /\ End("deadline")
    /\ UNCHANGED <<inside, reader, misses, got, last, servevars, ghosts>>

-----------------------------------------------------------------------------
(* _follow_status of the playground. *)

Poll ==
    /\ reader = "follow" /\ cpc = "start" /\ tpc = "none"
    /\ cpc' = "wait" /\ tpc' = "asked"
    /\ UNCHANGED <<inside, reader, why, misses, got, last, serving, cursor, wire, ghosts>>

\* The snapshot's lines are copied as they come, its seq becomes the next since,
\* and the lease's state decides whether the polling goes on.
Follow ==
    /\ reader = "follow" /\ cpc = "wait" /\ wire # <<>>
    /\ LET snap == Head(wire).snap
       IN /\ got' = got \o snap.lines
          /\ cursor' = snap.seq
          /\ IF snap.done
             THEN End(IF snap.error THEN "failed" ELSE "done") /\ last' = snap
             ELSE /\ IF snap.lost THEN End("lost")
                     ELSE cpc' = "sleep" /\ wire' = <<>> /\ UNCHANGED why
                  /\ UNCHANGED last
    /\ misses' = 0
    /\ UNCHANGED <<inside, reader, tpc, serving, ghosts>>

\* The poll failed on its way there or back; the answer, if any, is lost.  (Bound:
\* it does not fail while its answer is being made.)
Miss ==
    /\ reader = "follow" /\ cpc = "wait" /\ (tpc \notin {"snap", "send"} \/ vm = "down")
    /\ misses' = misses + 1 /\ tpc' = "none"
    /\ IF misses + 1 >= MaxMisses THEN End("unreachable")
       ELSE cpc' = "sleep" /\ wire' = <<>> /\ UNCHANGED why
    /\ UNCHANGED <<inside, reader, got, last, serving, cursor, ghosts>>

\* EndpointError: the endpoint answered something other than 200.
Refused ==
    /\ reader = "follow" /\ cpc = "wait" /\ tpc = "asked"
    /\ tpc' = "none"
    /\ End("refused")
    /\ UNCHANGED <<inside, reader, misses, got, last, serving, cursor, ghosts>>

\* Two seconds later the loop looks at its deadline and polls again.
PollAgain ==
    /\ reader = "follow" /\ cpc = "sleep"
    /\ cpc' = "start"
    /\ UNCHANGED <<inside, reader, why, misses, got, last, servevars, wire, ghosts>>

StopFollowing ==
    /\ reader = "follow" /\ cpc = "start"
    /\ End("deadline")
    /\ UNCHANGED <<inside, reader, misses, got, last, servevars, ghosts>>

-----------------------------------------------------------------------------
WorkStep   == RunResets \/ Publish \/ SetPhase \/ LogOnTheWay \/ DeliverDone \/ DeliverError
HeartStep  == MarkLost \/ LogLost
StreamStep == \/ CaptureCursor \/ SendHeaders \/ Loop \/ FinishSnapshot \/ SendSnapshot \/ ReadSince
              \/ WriteLine \/ CheckClient \/ Wake
WatchStep  == Connect \/ Yield
FollowStep == Poll \/ Follow \/ PollAgain

Next ==
    \/ WorkStep \/ HeartStep \/ LogFreely \/ Kill
    \/ StreamStep \/ StreamExpires \/ SnapshotDue \/ AnswerStatus
    \/ WatchStep \/ StreamBreaks \/ WatchExpires
    \/ FollowStep \/ Miss \/ Refused \/ StopFollowing

Spec == Init /\ [][Next]_vars

(* The lease's thread and the serving thread run, time passes for the snapshot
   timer and the sleeps, and a reader takes what has arrived.  A terminated
   microVM closes the stream, and a poll of it fails.  Nothing else is assumed
   of the network, and no deadline has to come: the readers must end without. *)
Fairness ==
    /\ WF_vars(WorkStep) /\ WF_vars(LogLost)
    /\ WF_vars(StreamStep) /\ WF_vars(SnapshotDue) /\ WF_vars(AnswerStatus)
    /\ WF_vars(WatchStep) /\ WF_vars(FollowStep)
    /\ WF_vars(vm = "down" /\ (StreamBreaks \/ Miss))
    /\ WF_vars(tpc = "over" /\ StreamBreaks)

FairSpec == Spec /\ Fairness

-----------------------------------------------------------------------------
(* Properties. *)

\* The lines a reader is handed are in the order they were logged and none of
\* them is handed over twice, however the polls, the batches and the retries
\* interleave with the threads that log (server.py 578-642, 1181-1238).
InOrderOnce == TypeOK /\ \A i, j \in DOMAIN got : i < j => got[i] < got[j]

\* A line logged since the client is connected (the stream) or since the tail of
\* the first answer (the poll) and passed by the cursor has arrived or is on its
\* way, unless the ring dropped it before the reader's turn: the comment at
\* server.py:614 holds up to overruns of the ring, and only those.
OnlyOverrunsAreMissed ==
    cpc # "ended" /\ cursor # None =>
        \A n \in (from + 1)..cursor : n \in ToSet(got) \union Taken \union overrun

\* A reader that stops because the lease is done holds every line up to the
\* snapshot that told it: as a line, or in the snapshot's own lines.  What it may
\* lack was overrun, or was never streamed and is older than the snapshot's tail
\* (endpoint.py:166: the watch ends before the lines that follow the snapshot).
DoneReaderHasTheEnd ==
    why \in {"done", "failed"} =>
        \A n \in (from + 1)..last.seq :
            \/ n \in ToSet(got) \union ToSet(last.lines) \union overrun
            \/ reader = "watch" /\ n <= last.seq - TailSize /\ \A m \in ToSet(got) : n > m

\* Once the lease is done a connected reader ends without waiting for its
\* deadline, and then the thread that served it ends too, as long as the microVM
\* is up: a stream must bring a snapshot every so often though no line is logged.
ReadersEnd ==
    /\ (lease.done /\ cpc # "start") ~> (cpc = "ended")
    /\ (cpc = "ended") ~> (tpc \in {"none", "over"} \/ vm = "down")
=============================================================================
