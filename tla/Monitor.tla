------------------------------ MODULE Monitor ------------------------------
(***************************************************************************)
(* FleetMonitor.job_status (src/microvm/monitor.py): a sweep asks every    *)
(* RUNNING member of an image for its /status, on one pool of threads that *)
(* all sweeps share, under one deadline.  The job of a fan-out follows its *)
(* microVMs by such sweeps (_follow_fleet), while the page polls for its   *)
(* table (get_fleet_jobs) through the same monitor.                        *)
(*                                                                         *)
(* Time passes in ticks.  A good member answers at once.  A bad one fails, *)
(* or keeps its poll for as long as it likes: the timeout of a poll bounds *)
(* each wait for the network, and no wait for the token it may have to     *)
(* fetch first (src/microvm/endpoint.py, 93-97).                           *)
(***************************************************************************)
EXTENDS Naturals, Sequences, FiniteSets, Functions

CONSTANTS
    VMs,        \* the microVMs of the image
    Job, Page,  \* who sweeps: a job that follows the fleet, the page
    Workers,    \* the threads of the pool
    Timeout,    \* MEMBER_TIMEOUT_S, in ticks
    MaxQueue,   \* bound: entries left in the pool's queue when a sweep begins
    None

Sweepers == {Job, Page}

\* job_row: what is told apart of a snapshot ("over" is done or lost), and the row
\* of a member that gave none.
Row == {"working", "over", "unanswered"}

\* A future that was submitted; it is nobody's when its sweep has returned.
Poll == [by : Sweepers \union {None}, of : VMs]

ASSUME MonitorAssumption ==
    /\ Timeout \in Nat \ {0} /\ MaxQueue \in Nat
    /\ IsFiniteSet(VMs) /\ IsFiniteSet(Workers)
    /\ Job # Page
    /\ None \notin Sweepers /\ None \notin Row
    /\ \A members \in SUBSET VMs : members # None
    /\ None \notin Poll

VARIABLES
    bad,        \* members that are slow or whose /status fails
    vm, lease,  \* the state of a microVM and of its lease
    listed,     \* per sweeper: the members its sweep asks, None when it has none
    due,        \* per sweeper: ticks to the deadline of its sweep
    queue,      \* the pool's queue: polls nobody has begun, None for a cancelled one
    worker,     \* the poll each thread is at, or None
    answer,     \* per sweeper and member: its future's row, None while it is open
    rows,       \* per sweeper: what its last sweep returned, until the next begins
    following,  \* the job still follows
    settled,    \* it has seen all its microVMs settled
    away,       \* history: microVMs that have not been RUNNING
    pinned      \* history: sweepers whose last sweep saw time pass with no thread free

world  == <<bad, vm, lease, away>>
sweeps == <<listed, due, answer, rows, pinned>>
pool   == <<queue, worker>>
follow == <<following, settled>>
monitorVars == <<world, sweeps, pool, follow>>

MonitorTypeOK ==
    /\ bad \in SUBSET VMs
    /\ vm \in [VMs -> {"running", "suspended"}]
    /\ lease \in [VMs -> {"working", "over"}]
    /\ listed \in [Sweepers -> {None} \union SUBSET VMs]
    /\ due \in [Sweepers -> 0..Timeout]
    /\ queue \in Seq({None} \union Poll)
    /\ worker \in [Workers -> {None} \union Poll]
    /\ answer \in [Sweepers -> [VMs -> Row \union {None}]]
    /\ rows \in [Sweepers -> [VMs -> Row \union {None}]]
    /\ following \in BOOLEAN /\ settled \in BOOLEAN
    /\ away \in SUBSET VMs /\ pinned \in SUBSET Sweepers

Nothing == [m \in VMs |-> None]

\* The job has launched its microVMs and waited until all were RUNNING.
MonitorInit ==
    /\ bad \in SUBSET VMs
    /\ vm = [m \in VMs |-> "running"] /\ lease = [m \in VMs |-> "working"]
    /\ listed = [s \in Sweepers |-> None] /\ due = [s \in Sweepers |-> 0]
    /\ queue = <<>> /\ worker = [w \in Workers |-> None]
    /\ answer = [s \in Sweepers |-> Nothing] /\ rows = [s \in Sweepers |-> Nothing]
    /\ following = TRUE /\ settled = FALSE
    /\ away = {} /\ pinned = {}

-----------------------------------------------------------------------------
(* One sweep. *)

\* A poll of each RUNNING member is submitted, in the order the platform lists them.
Sweep(s) ==
    /\ listed[s] = None /\ Len(queue) <= MaxQueue
    /\ s = Job => following
    /\ LET members == {m \in VMs : vm[m] = "running"}
       IN /\ listed' = [listed EXCEPT ![s] = members]
          /\ \E order \in Bijection(1..Cardinality(members), members) :
                queue' = queue \o [i \in 1..Cardinality(members) |-> [by |-> s, of |-> order[i]]]
    /\ due' = [due EXCEPT ![s] = Timeout]
    /\ rows' = [rows EXCEPT ![s] = Nothing] /\ pinned' = pinned \ {s}
    /\ UNCHANGED <<world, worker, answer, follow>>

\* A free thread takes the oldest entry of the queue: one that was cancelled is dropped ...
Skip(w) ==
    /\ worker[w] = None /\ queue # <<>> /\ Head(queue) = None
    /\ queue' = Tail(queue)
    /\ UNCHANGED <<world, sweeps, worker, follow>>

\* ... and a poll is begun.
Take(w) ==
    /\ worker[w] = None /\ queue # <<>> /\ Head(queue) # None
    /\ worker' = [worker EXCEPT ![w] = Head(queue)]
    /\ queue' = Tail(queue)
    /\ UNCHANGED <<world, sweeps, follow>>

Answering(m) == m \notin bad /\ vm[m] = "running"

\* It ends, with a row for its future unless the sweep is over.  A microVM that is
\* not RUNNING does not answer.
PollEnds(w) ==
    /\ worker[w] # None
    /\ LET p == worker[w]
           says == IF Answering(p.of) THEN lease[p.of] ELSE "unanswered"
       IN answer' = IF p.by = None THEN answer ELSE [answer EXCEPT ![p.by][p.of] = says]
    /\ worker' = [worker EXCEPT ![w] = None]
    /\ UNCHANGED <<world, listed, due, rows, pinned, queue, follow>>

\* Mutant: the sweep is over with the first answer.
ReadyFirst(s) ==
    /\ listed[s] # None
    /\ due[s] = 0 \/ listed[s] = {} \/ \E m \in listed[s] : answer[s][m] # None

\* Every future is done, or the deadline has passed.
Ready(s) ==
    /\ listed[s] # None
    /\ due[s] = 0 \/ \A m \in listed[s] : answer[s][m] # None

\* One row per member; a future that is open gives a row that says so.
RowsOf(s) ==
    [m \in VMs |-> IF m \notin listed[s] THEN None
                   ELSE IF answer[s][m] = None THEN "unanswered" ELSE answer[s][m]]

\* Mutant: what did not answer counts as gone.
SettlesOnSilence(result) == \A m \in VMs : result[m] \in {None, "unanswered", "over"}

\* _follow_fleet: every microVM it wants is done, lost, or without a row, since it is
\* no longer RUNNING.
Settles(result) == \A m \in VMs : result[m] \in {None, "over"}

\* Mutant: a sweep that leaves its polls in the queue (without fut.cancel).
CollectLeaves(s) ==
    /\ Ready(s)
    /\ rows' = [rows EXCEPT ![s] = RowsOf(s)]
    /\ queue' = [i \in DOMAIN queue |-> IF queue[i] # None /\ queue[i].by = s
                                        THEN [by |-> None, of |-> queue[i].of] ELSE queue[i]]
    /\ worker' = [w \in Workers |-> IF worker[w] # None /\ worker[w].by = s
                                    THEN [worker[w] EXCEPT !.by = None] ELSE worker[w]]
    /\ listed' = [listed EXCEPT ![s] = None] /\ due' = [due EXCEPT ![s] = 0]
    /\ answer' = [answer EXCEPT ![s] = Nothing]
    /\ settled' = (settled \/ (s = Job /\ Settles(RowsOf(s))))
    /\ following' = (following /\ ~settled')
    /\ UNCHANGED <<world, pinned>>

\* The sweep returns: polls nobody has begun are cancelled where they wait, one that
\* runs goes on for nobody.
Collect(s) ==
    /\ Ready(s)
    /\ rows' = [rows EXCEPT ![s] = RowsOf(s)]
    /\ queue' = [i \in DOMAIN queue |-> IF queue[i] # None /\ queue[i].by = s THEN None
                                        ELSE queue[i]]
    /\ worker' = [w \in Workers |-> IF worker[w] # None /\ worker[w].by = s
                                    THEN [worker[w] EXCEPT !.by = None] ELSE worker[w]]
    /\ listed' = [listed EXCEPT ![s] = None] /\ due' = [due EXCEPT ![s] = 0]
    /\ answer' = [answer EXCEPT ![s] = Nothing]
    /\ settled' = (settled \/ (s = Job /\ Settles(RowsOf(s))))
    /\ following' = (following /\ ~settled')
    /\ UNCHANGED <<world, pinned>>

\* The job stops following after its timeout; the microVMs keep working.
StopFollowing ==
    /\ following /\ listed[Job] = None
    /\ following' = FALSE
    /\ UNCHANGED <<world, sweeps, pool, settled>>

-----------------------------------------------------------------------------
(* Time, which waits for what takes none, and the microVMs. *)

Waiting == {i \in DOMAIN queue : queue[i] # None}
Busy    == {w \in Workers : worker[w] # None}

Urgent ==
    \/ Busy # Workers /\ queue # <<>>
    \/ \E w \in Busy : Answering(worker[w].of)
    \/ \E s \in Sweepers : Ready(s)

TimePasses ==
    /\ ~Urgent
    /\ due' = [s \in Sweepers |-> IF due[s] > 0 THEN due[s] - 1 ELSE 0]
    /\ pinned' = IF Busy = Workers THEN pinned \union {s \in Sweepers : listed[s] # None} ELSE pinned
    /\ UNCHANGED <<world, listed, answer, rows, pool, follow>>

LeaseEnds(m) ==
    /\ vm[m] = "running" /\ lease[m] = "working"
    /\ lease' = [lease EXCEPT ![m] = "over"]
    /\ UNCHANGED <<bad, vm, away, sweeps, pool, follow>>

VMChanges(m) ==
    /\ vm' = [vm EXCEPT ![m] = IF @ = "running" THEN "suspended" ELSE "running"]
    /\ away' = away \union {m}
    /\ UNCHANGED <<bad, lease, sweeps, pool, follow>>

MonitorNext ==
    \/ \E s \in Sweepers : Sweep(s) \/ Collect(s)
    \/ \E w \in Workers : Skip(w) \/ Take(w) \/ PollEnds(w)
    \/ \E m \in VMs : LeaseEnds(m) \/ VMChanges(m)
    \/ StopFollowing \/ TimePasses

MonitorSpec == MonitorInit /\ [][MonitorNext]_monitorVars

-----------------------------------------------------------------------------
(* Properties. *)

\* The job says its fleet has settled only when every lease it launched is done or
\* lost, or its microVM has left RUNNING: a member that did not answer is neither
\* (1288-1317).
SettledIsTrue ==
    settled => \A m \in VMs : lease[m] = "over" \/ m \in away

\* Each thread and each place in the queue works for a sweep that is under way and
\* for a member it listed, once: what a slow sweep leaves behind is at most the
\* polls that run (128-133, 158-159).
NoBacklog ==
    /\ \A i \in Waiting :
          /\ queue[i].by # None /\ listed[queue[i].by] # None /\ queue[i].of \in listed[queue[i].by]
          /\ answer[queue[i].by][queue[i].of] = None
          /\ \A j \in Waiting : queue[i] = queue[j] => i = j
          /\ \A w \in Busy : worker[w] # queue[i]
    /\ \A w \in Busy : worker[w].by # None =>
          /\ listed[worker[w].by] # None /\ worker[w].of \in listed[worker[w].by]
          /\ answer[worker[w].by][worker[w].of] = None
          /\ \A v \in Busy : worker[v] = worker[w] => v = w

\* A member that answers and stays RUNNING is shown as unanswered only by a sweep
\* during which time passed with every thread of the pool held by polls of members
\* that do not answer, those of earlier sweeps included: neither the order of the
\* queue, nor the entries cancelled in it, nor the other sweeper, nor the deadline
\* alone can hide it (148-159).
GoodAreAnswered ==
    \A s \in Sweepers : \A m \in VMs :
        rows[s][m] = "unanswered" => m \in bad \union away \/ s \in pinned

FewBad == Cardinality(bad) * Cardinality(Sweepers) < Cardinality(Workers)

\* The comment in job_status: "one attempt, bounded by the member timeout: a dead
\* member must not pin a worker".  Then as long as the bad members, asked by every
\* sweep at once, leave the pool one thread, no other member that stays RUNNING is
\* ever shown as unanswered.
DeadDoNotPin ==
    FewBad => \A s \in Sweepers : \A m \in VMs :
                  rows[s][m] = "unanswered" => m \in bad \union away

=============================================================================
