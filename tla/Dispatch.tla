------------------------------ MODULE Dispatch ------------------------------
(***************************************************************************)
(* Fleet.dispatch (src/microvm/fleet.py, 414-487): one call that starts    *)
(* per_vm workers for each RUNNING microVM, which pull request bodies from *)
(* a shared queue and send them through their microVM's EndpointClient.    *)
(*                                                                         *)
(* The requests are those of Endpoint, whose variables are shared here: a  *)
(* worker's request runs through every step of EndpointClient.request, its *)
(* races on the cached token included.                                     *)
(***************************************************************************)
EXTENDS Naturals, Sequences

CONSTANTS
    Workers,      \* the worker threads of all microVMs
    VMs,          \* the fleet's RUNNING members, as listed when dispatch began
    VmOf,         \* the microVM each worker sends to
    Bodies,       \* how many request bodies there are
    MaxAttempts, MaxRevokes

ASSUME BodiesAssumption == Bodies \in Nat
ASSUME VmOfAssumption == VmOf \in [Workers -> VMs]
ASSUME AttemptsAssumption == MaxAttempts \in Nat \ {0} /\ MaxRevokes \in Nat

VARIABLES
    pc, attempt, held, status, token, due, revokes,  \* of Endpoint
    main,      \* the calling thread
    clients,   \* microVMs whose client has been built
    started,   \* workers started so far
    work,      \* the queue
    item,      \* per worker: the body it holds, or 0
    results,   \* per body: nothing yet, a response, or an error
    gone,      \* workers whose thread has ended
    killed     \* those ended by an exception from on_result

http == <<pc, attempt, held, status, token, due, revokes>>
call == <<main, clients, started>>
ends == <<gone, killed>>
vars == <<http, call, work, item, results, ends>>

Requests == INSTANCE Endpoint WITH Threads <- Workers, Clients <- VMs, ClientOf <- VmOf

Items == 1..Bodies

TypeOK ==
    /\ Requests!TypeOK
    /\ main \in {"starting", "joining", "returned", "raised"}
    /\ clients \subseteq VMs /\ started \subseteq Workers /\ killed \subseteq gone /\ gone \subseteq started
    /\ work \in Seq(Items)
    /\ item \in [Workers -> 0..Bodies]
    /\ results \in [Items -> {"none", "response", "error"}]

Init ==
    /\ Requests!Init
    /\ main = "starting" /\ clients = {} /\ started = {}
    /\ work = [i \in Items |-> i]
    /\ item = [w \in Workers |-> 0]
    /\ results = [i \in Items |-> "none"]
    /\ gone = {} /\ killed = {}

WorkersOf(vms) == {w \in Workers : VmOf[w] \in vms}

-----------------------------------------------------------------------------
(* The calling thread. *)

\* The next microVM's client: built once the last one's workers are started.
BuildClient(v) ==
    /\ main = "starting" /\ v \notin clients /\ started = WorkersOf(clients)
    /\ clients' = clients \union {v}
    /\ UNCHANGED <<http, main, started, work, item, results, ends>>

\* client_factory raises: the caller gets the exception, the workers go on.
BuildFails(v) ==
    /\ main = "starting" /\ v \notin clients /\ started = WorkersOf(clients)
    /\ main' = "raised"
    /\ UNCHANGED <<http, clients, started, work, item, results, ends>>

StartWorker(w) ==
    /\ main = "starting" /\ w \in WorkersOf(clients) \ started
    /\ started' = started \union {w}
    /\ UNCHANGED <<http, main, clients, work, item, results, ends>>

AllStarted ==
    /\ main = "starting" /\ clients = VMs /\ started = Workers
    /\ main' = "joining"
    /\ UNCHANGED <<http, clients, started, work, item, results, ends>>

\* Mutant: the first thread to end is waited for, not all of them.
JoinOne ==
    /\ main = "joining" /\ gone # {}
    /\ main' = "returned"
    /\ UNCHANGED <<http, clients, started, work, item, results, ends>>

\* Every thread has been joined.
Join ==
    /\ main = "joining" /\ gone = started
    /\ main' = "returned"
    /\ UNCHANGED <<http, clients, started, work, item, results, ends>>

-----------------------------------------------------------------------------
(* worker. *)

Running(w) == w \in started \ gone

\* Mutant: the body is read but stays in the queue.
TakePeek(w) ==
    /\ Running(w) /\ item[w] = 0 /\ work # <<>>
    /\ item' = [item EXCEPT ![w] = Head(work)]
    /\ Requests!Request(w)
    /\ UNCHANGED <<call, work, results, ends>>

\* get_nowait, and the request for the body begins.
Take(w) ==
    /\ Running(w) /\ item[w] = 0 /\ work # <<>>
    /\ item' = [item EXCEPT ![w] = Head(work)]
    /\ work' = Tail(work)
    /\ Requests!Request(w)
    /\ UNCHANGED <<call, results, ends>>

\* Mutant: get() for get_nowait(), which waits on the empty queue.
DrainedBlocks(w) ==
    /\ Running(w) /\ item[w] = 0 /\ work = <<>>
    /\ UNCHANGED vars

Drained(w) ==
    /\ Running(w) /\ item[w] = 0 /\ work = <<>>
    /\ gone' = gone \union {w}
    /\ UNCHANGED <<http, call, work, item, results, killed>>

Send(w) ==
    /\ Running(w) /\ item[w] # 0
    /\ Requests!Step(w)
    /\ UNCHANGED <<call, work, item, results, ends>>

\* The outcome is stored under the body's index, a request that raised as an
\* error; then on_result is called, outside the lock.  It may raise, which ends
\* the worker and nothing else.
Record(w) ==
    /\ Running(w) /\ item[w] # 0
    /\ Requests!Leave(w)
    /\ results' = [results EXCEPT ![item[w]] = IF pc[w] = "returned" THEN "response" ELSE "error"]
    /\ item' = [item EXCEPT ![w] = 0]
    /\ \/ UNCHANGED ends
       \/ gone' = gone \union {w} /\ killed' = killed \union {w}
    /\ UNCHANGED <<call, work>>

World ==
    /\ Requests!World
    /\ UNCHANGED <<call, work, item, results, ends>>

-----------------------------------------------------------------------------
Caller == AllStarted \/ Join \/ \E v \in VMs : BuildClient(v) \/ BuildFails(v)
Worker(w) == StartWorker(w) \/ Take(w) \/ Drained(w) \/ Send(w) \/ Record(w)

Next == Caller \/ (\E w \in Workers : Worker(w)) \/ World

Spec == Init /\ [][Next]_vars

\* Threads that can run do, and every request's step ends: requests and the
\* token API have timeouts.
Fairness ==
    /\ WF_vars(AllStarted) /\ WF_vars(Join)
    /\ \A v \in VMs : WF_vars(BuildClient(v) \/ BuildFails(v))
    /\ \A w \in Workers : WF_vars(Worker(w))

FairSpec == Spec /\ Fairness

-----------------------------------------------------------------------------
InHand == {i \in Items : \E w \in Workers : item[w] = i}
Queued == {i \in Items : \E k \in 1..Len(work) : work[k] = i}

\* Every body is at each moment in exactly one place: still queued, in the hands
\* of one worker, or answered: none is lost when a request raises, a token race
\* breaks it or a callback kills its worker, and none is sent for twice.
OnePlace ==
    /\ TypeOK
    /\ \A w, u \in Workers : item[w] # 0 /\ item[w] = item[u] => w = u
    /\ \A i \in Items :
           \/ i \in Queued /\ i \notin InHand /\ results[i] = "none"
           \/ i \notin Queued /\ i \in InHand /\ results[i] = "none"
           \/ i \notin Queued /\ i \notin InHand /\ results[i] # "none"

\* When dispatch returns no worker is left that could write to the list behind the
\* caller's back, and every body has its result, provided one worker was not
\* killed by the caller's own callback: it stays until the queue is empty, and
\* what the killed ones had taken is recorded.
ReturnedComplete ==
    main = "returned" =>
        /\ \A w \in Workers : ~Running(w)
        /\ killed # Workers => \A i \in Items : results[i] # "none"

\* dispatch comes back, however requests fail, tokens race and callbacks raise.
DispatchEnds == <>(main \in {"returned", "raised"})

=============================================================================
