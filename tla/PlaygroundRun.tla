--------------------------- MODULE PlaygroundRun ---------------------------
(***************************************************************************)
(* What the playground does with AWS (src/microvm/playground/server.py):   *)
(* every handler as the steps it takes in order, against the session that  *)
(* another request may switch under it - the dry run switch, the profile   *)
(* and region, the credentials - and the boto sessions, endpoint clients,  *)
(* monitor and account ids that are kept between requests and thrown away  *)
(* by a switch (client.py, _reset_aws_sessions).                           *)
(*                                                                         *)
(* A boto session is known by who it acts as and by how often its calls    *)
(* are traced; a microVM by the order in which its request launched it.    *)
(***************************************************************************)
EXTENDS Naturals, Sequences, FiniteSets, SequencesExt

CONSTANTS
    Requests,    \* bound: the requests to handlers, each made once
    Offered(_),  \* bound: the tasks a request may be
    Launches,    \* bound: launches of one request
    MaxSwitches, \* bound: requests that switch the session
    None

Keys == {"profile", "static"} \* (profile, region): a named profile, or none

Idle == <<"idle", "idle">> \* where a switch is, and what comes after its reset

VARIABLES
    dry, cfg, env,       \* pg.dry_run, pg.cfg, whose credentials a process finds
    sess, accounts,      \* client.py's _sessions and _accounts
    clients, monitor,    \* pg._ep_clients for one microVM, pg._monitor
    traced,              \* pg._traced
    switch, switches,    \* where the request that switches the session is
    task, todo, result,  \* what a request is, the steps it has left, whether it is over
    held, made, using,   \* the key it read, the client it is making, the client it uses
    sample,              \* its manager is a _SampleAwareManager
    sent,                \* it has sent a mutating call
    launched, own,       \* the microVMs it launched, and those that run
    wasLive, toggled,    \* history: dry run was off, was switched while it ran
    crossed, poisoned    \* history: see Cross and Poison

session == <<dry, cfg, env>>
caches  == <<sess, accounts, clients, monitor, traced>>
switching == <<switch, switches>>
hands   == <<held, made, using, sample>>
effects == <<sent, launched, own>>
dryPast == <<wasLive, toggled>>
runVars == <<session, caches, switching, task, todo, result, hands, effects, dryPast,
          crossed, poisoned>>

Who(key)   == IF key = "static" THEN env ELSE "profile"
Identities == {"ambient", "pasted", "profile"}
Client     == [who : Identities, hooks : 0..2]

ASSUME RunAssumption == Launches \in Nat \ {0} /\ MaxSwitches \in Nat /\ None \notin Client

-----------------------------------------------------------------------------
(* The handlers: their steps, the microVMs they may have running at any time, *)
(* and those they leave when they succeed.                                   *)

Task(steps, most, leaves) == [steps |-> steps, most |-> most, leaves |-> leaves]
Times(n, steps) == [i \in 1..(n * Len(steps)) |-> steps[((i - 1) % Len(steps)) + 1]]

Account   == <<"account", "ask", "keep">>        \* account_id, for the image's ARN
Endpoint  == <<"lookup", "build", "store">>      \* ep() of a microVM that is given
Monitoring == <<"key", "monitor">>               \* monitor()
Planned   == <<"manager">> \o Account \o <<"read", "gate">>

\* A dry run reads the account's number after its gate; that is left out.
PostBootstrap == {Task(<<"gate", "api", "mutate", "readConfig", "config">>, 0, 0)}

PostBuild == {Task(<<"api", "gate", "mutate">>, 0, 0)}

PostRun ==
    {Task(Planned \o Times(n, one), n, n) : n \in 1..Launches,
        one \in {<<"launch">>, <<"launch", "wait">>, <<"launch", "wait", "serve">>}}

\* Mutant: the verb is sent without a look at the dry run switch.
PostLifecycleUngated ==
    {Task(<<"manager", "mutate">> \o wait, 0, 0) : wait \in {<<>>, <<"wait">>}}

PostLifecycle ==
    {Task(<<"gate", "manager", "mutate">> \o wait, 0, 0) : wait \in {<<>>, <<"wait">>}}

PostLeaseRun ==
    {Task(Planned \o <<"launch">> \o wait, 1, 1) :
        wait \in {<<>>, <<"wait", "serve", "follow">>}}

\* The plan is judged before the job starts; the launches share a pool.
LeaseMany ==
    {Task(<<"manager", "plan">> \o Account \o <<"read", "gate", "launchAll">> \o wait,
          Launches, Launches) :
        wait \in {<<>>, Times(Launches, <<"wait">>) \o Monitoring \o <<"follow">>}}

PostScale == {Task(Planned \o <<"mutate", "read">>, 0, 0)}

PostFleetVerb == {Task(Planned \o <<"mutate">>, 0, 0)}

PostCall == {Task(<<"gate">> \o Endpoint \o <<"mutate">>, 0, 0)}

PostToken == {Task(<<"gate", "api", "mutate">>, 0, 0)}

\* Mutant: no launch is terminated but the probe.
PostProbeHoards ==
    {Task(<<"manager", "gate", "settle", "launch", "wait", "serve">>
            \o Times(n - 1, <<"settle", "launch", "wait", "serve">>)
            \o <<"serve", "cycle">> \o end,
          IF n > 1 THEN 2 ELSE 1, IF end = <<>> THEN 1 ELSE 0) :
        n \in 1..Launches, end \in {<<>>, <<"terminateFirst">>}}

\* Each launch but the first is terminated once it was timed; the first is kept
\* and called, perhaps suspended and resumed, and perhaps terminated.
PostProbe ==
    {Task(<<"manager", "gate", "settle", "launch", "wait", "serve">>
            \o Times(n - 1, <<"settle", "launch", "wait", "serve", "terminateLast">>)
            \o <<"serve", "cycle">> \o end,
          IF n > 1 THEN 2 ELSE 1, IF end = <<>> THEN 1 ELSE 0) :
        n \in 1..Launches, end \in {<<>>, <<"terminateFirst">>}}

GetVms == {Task(<<"manager">> \o Account \o <<"read">>, 0, 0)}

GetVmJob == {Task(Endpoint \o <<"read">>, 0, 0)}

GetFleetJobs == {Task(Monitoring \o Account \o <<"read">>, 0, 0)}

GetImages == {Task(<<"api", "read">>, 0, 0)}

Tasks == UNION {PostBootstrap, PostBuild, PostRun, PostLifecycle, PostLeaseRun, LeaseMany,
                PostScale, PostFleetVerb, PostCall, PostToken, PostProbe,
                GetVms, GetVmJob, GetFleetJobs, GetImages}

Ends  == {"sampled", "failed", "dry", "refused"}
Steps == Ends \union {"manager", "api", "account", "ask", "keep", "lookup", "build", "store",
                      "key", "monitor", "readConfig", "config", "read", "plan", "gate",
                      "mutate", "launch", "launchAll", "cycle", "terminateFirst",
                      "terminateLast", "wait", "serve", "follow", "settle"}

RunTypeOK ==
    /\ dry \in BOOLEAN /\ cfg \in Keys /\ env \in {"ambient", "pasted"}
    /\ sess \in [Keys -> Client \union {None}] /\ accounts \in [Keys -> Identities \union {None}]
    /\ clients \in [Keys -> Client \union {None}]
    /\ monitor = None \/ monitor \in [key : Keys, client : Client]
    /\ traced \in SUBSET Keys
    /\ switch \in {"idle", "dry", "verify", "sessions", "accounts", "clients", "traced", "ensure"}
                   \X {"idle", "verify"}
    /\ switches \in 0..MaxSwitches
    /\ task \in [Requests -> Tasks \union {None}]
    /\ todo \in [Requests -> Seq(Steps)]
    /\ result \in [Requests -> {"idle", "going", "over"}]
    /\ held \in [Requests -> Keys \union {None}]
    /\ made \in [Requests -> Client \union {None}] /\ using \in [Requests -> Client \union {None}]
    /\ sample \in [Requests -> BOOLEAN] /\ sent \in [Requests -> BOOLEAN]
    /\ launched \in [Requests -> 0..Launches]
    /\ own \in [Requests -> SUBSET (1..Launches)]
    /\ wasLive \in [Requests -> BOOLEAN] /\ toggled \in [Requests -> BOOLEAN]
    /\ crossed \in [Requests -> BOOLEAN] /\ poisoned \in BOOLEAN

\* __init__ has made the first session and hooked it.
RunInit ==
    /\ dry \in BOOLEAN /\ cfg \in Keys /\ env = "ambient"
    /\ sess = [k \in Keys |-> IF k = cfg THEN [who |-> Who(k), hooks |-> 1] ELSE None]
    /\ accounts = [k \in Keys |-> None] /\ clients = [k \in Keys |-> None]
    /\ monitor = None /\ traced = {cfg}
    /\ switch = Idle /\ switches = 0
    /\ task = [a \in Requests |-> None] /\ todo = [a \in Requests |-> <<>>]
    /\ result = [a \in Requests |-> "idle"]
    /\ held = [a \in Requests |-> None]
    /\ made = [a \in Requests |-> None] /\ using = [a \in Requests |-> None]
    /\ sample = [a \in Requests |-> FALSE] /\ sent = [a \in Requests |-> FALSE]
    /\ launched = [a \in Requests |-> 0] /\ own = [a \in Requests |-> {}]
    /\ wasLive = [a \in Requests |-> FALSE] /\ toggled = [a \in Requests |-> FALSE]
    /\ crossed = [a \in Requests |-> FALSE] /\ poisoned = FALSE

-----------------------------------------------------------------------------
(* One request. *)

Going == {a \in Requests : result[a] = "going"}

At(a, step) == result[a] = "going" /\ todo[a] # <<>> /\ Head(todo[a]) = step

\* n steps are behind a; it goes no further, and its answer says why.
Past(a, n)  == todo' = [todo EXCEPT ![a] = SubSeq(@, n + 1, Len(@))] /\ UNCHANGED result
End(a, how) == todo' = [todo EXCEPT ![a] = <<how>>] /\ UNCHANGED result

\* History: crossed[a] says that a switch was under way at some time since a last
\* read the session, poisoned that something was kept by a request it holds for.
Cross(a) == crossed' = [crossed EXCEPT ![a] = switch # Idle]
Poison(a) == poisoned' = (poisoned \/ crossed[a])

\* (Bound: the requests follow each other; what one keeps the next one finds.)
Begin(a, t) ==
    /\ result[a] = "idle" /\ Going = {} /\ t \in Offered(a)
    /\ result' = [result EXCEPT ![a] = "going"]
    /\ task' = [task EXCEPT ![a] = t] /\ todo' = [todo EXCEPT ![a] = t.steps]
    /\ wasLive' = [wasLive EXCEPT ![a] = ~dry]
    /\ Cross(a)
    /\ UNCHANGED <<session, caches, switching, hands, effects, toggled, poisoned>>

\* The answer is sent, and with the thread all it held is gone.
Answer(a) ==
    /\ result[a] = "going" /\ Range(todo[a]) \subseteq Ends
    /\ result' = [result EXCEPT ![a] = "over"]
    /\ task' = [task EXCEPT ![a] = None] /\ todo' = [todo EXCEPT ![a] = <<>>]
    /\ launched' = [launched EXCEPT ![a] = 0] /\ own' = [own EXCEPT ![a] = {}]
    /\ held' = [held EXCEPT ![a] = None] /\ made' = [made EXCEPT ![a] = None]
    /\ using' = [using EXCEPT ![a] = None]
    /\ sample' = [sample EXCEPT ![a] = FALSE] /\ sent' = [sent EXCEPT ![a] = FALSE]
    /\ wasLive' = [wasLive EXCEPT ![a] = FALSE] /\ toggled' = [toggled EXCEPT ![a] = FALSE]
    /\ crossed' = [crossed EXCEPT ![a] = FALSE]
    /\ UNCHANGED <<session, caches, switching, poisoned>>

\* client.py _session: one per key, made when it is first asked for.
SessionOf(key) == IF sess[key] = None THEN [who |-> Who(key), hooks |-> 0] ELSE sess[key]
OpenSession(key) == sess' = [sess EXCEPT ![key] = SessionOf(key)]

\* fm(): dry run decides the class of the manager, once.
Manager(a) ==
    /\ At(a, "manager")
    /\ sample' = [sample EXCEPT ![a] = dry]
    /\ held' = [held EXCEPT ![a] = cfg]
    /\ using' = [using EXCEPT ![a] = SessionOf(cfg)] /\ OpenSession(cfg)
    /\ Cross(a) /\ Past(a, 1)
    /\ UNCHANGED <<session, accounts, clients, monitor, traced, switching, task, made, effects,
                   dryPast, poisoned>>

\* ImageBuilder(pg.cfg), lambda_client(...), bootstrap(pg.cfg).
Api(a) ==
    /\ At(a, "api")
    /\ held' = [held EXCEPT ![a] = cfg]
    /\ using' = [using EXCEPT ![a] = SessionOf(cfg)] /\ OpenSession(cfg)
    /\ Cross(a) /\ Past(a, 1)
    /\ UNCHANGED <<session, accounts, clients, monitor, traced, switching, task, made, sample,
                   effects, dryPast, poisoned>>

\* account_id: is it known, ask, remember it.
AccountKnown(a) ==
    /\ At(a, "account")
    /\ Past(a, IF accounts[held[a]] # None THEN Len(Account) ELSE 1)
    /\ UNCHANGED <<session, caches, switching, task, hands, effects, dryPast, crossed, poisoned>>

Ask(a) ==
    /\ At(a, "ask")
    /\ made' = [made EXCEPT ![a] = SessionOf(held[a])] /\ OpenSession(held[a])
    /\ Past(a, 1)
    /\ UNCHANGED <<session, accounts, clients, monitor, traced, switching, task, held, using,
                   sample, effects, dryPast, crossed, poisoned>>

KeepAccount(a) ==
    /\ At(a, "keep")
    /\ accounts' = [accounts EXCEPT ![held[a]] = made[a].who]
    /\ Poison(a) /\ Past(a, 1)
    /\ UNCHANGED <<session, sess, clients, monitor, traced, switching, task, hands, effects,
                   dryPast, crossed>>

\* ep(): the key from the configuration, a client that is kept for it, or a new
\* one, of the configuration as it is by then, made outside the lock.
Lookup(a) ==
    /\ At(a, "lookup")
    /\ held' = [held EXCEPT ![a] = cfg]
    /\ using' = [using EXCEPT ![a] = clients[cfg]]
    /\ Past(a, IF clients[cfg] = None THEN 1 ELSE Len(Endpoint))
    /\ Cross(a)
    /\ UNCHANGED <<session, caches, switching, task, made, sample, effects, dryPast, poisoned>>

Build(a) ==
    /\ At(a, "build")
    /\ made' = [made EXCEPT ![a] = SessionOf(cfg)] /\ OpenSession(cfg)
    /\ Past(a, 1)
    /\ UNCHANGED <<session, accounts, clients, monitor, traced, switching, task, held, using,
                   sample, effects, dryPast, crossed, poisoned>>

Store(a) ==
    /\ At(a, "store")
    /\ LET kept == IF clients[held[a]] = None THEN made[a] ELSE clients[held[a]]
       IN /\ clients' = [clients EXCEPT ![held[a]] = kept]
          /\ using' = [using EXCEPT ![a] = kept]
    /\ Poison(a) /\ Past(a, 1)
    /\ UNCHANGED <<session, sess, accounts, monitor, traced, switching, task, held, made, sample,
                   effects, dryPast, crossed>>

\* monitor(): the key first, the rest under the lock.
MonitorKey(a) ==
    /\ At(a, "key")
    /\ held' = [held EXCEPT ![a] = cfg] /\ using' = [using EXCEPT ![a] = None]
    /\ Cross(a) /\ Past(a, 1)
    /\ UNCHANGED <<session, caches, switching, task, made, sample, effects, dryPast, poisoned>>

Monitor(a) ==
    /\ At(a, "monitor")
    /\ IF monitor # None /\ monitor.key = held[a]
       THEN UNCHANGED <<monitor, sess, poisoned>>
       ELSE /\ monitor' = [key |-> held[a], client |-> SessionOf(cfg)]
            /\ OpenSession(cfg) /\ Poison(a)
    /\ using' = [using EXCEPT ![a] = monitor'.client]
    /\ Past(a, 1)
    /\ UNCHANGED <<session, accounts, clients, traced, switching, task, held, made, sample,
                   effects, dryPast, crossed>>

\* A call that reads answers, and the plan of a fan-out is accepted or refused.
Read(a) ==
    /\ At(a, "read") \/ At(a, "plan")
    /\ \/ Past(a, 1)
       \/ At(a, "plan") /\ End(a, "refused")
    /\ UNCHANGED <<session, caches, switching, task, hands, effects, dryPast, crossed, poisoned>>

\* It raises.  A sample-aware manager answers all the same, and so does a handler
\* that only reads while dry run is on.
ReadFails(a) ==
    /\ At(a, "ask") \/ At(a, "build") \/ At(a, "read")
    /\ IF sample[a] THEN Past(a, IF At(a, "ask") THEN 2 ELSE 1)
       ELSE End(a, IF dry /\ "gate" \notin Range(task[a].steps) THEN "sampled" ELSE "failed")
    /\ UNCHANGED <<session, caches, switching, task, hands, effects, dryPast, crossed, poisoned>>

\* if pg.dry_run: what would have been sent goes to the trace.
Gate(a) ==
    /\ At(a, "gate")
    /\ IF dry THEN End(a, "dry") ELSE Past(a, 1)
    /\ UNCHANGED <<session, caches, switching, task, hands, effects, dryPast, crossed, poisoned>>

\* A mutating call other than a launch.
Mutate(a) ==
    /\ At(a, "mutate")
    /\ sent' = [sent EXCEPT ![a] = TRUE]
    /\ Past(a, 1) \/ End(a, "failed")
    /\ UNCHANGED <<session, caches, switching, task, hands, launched, own, dryPast, crossed,
                   poisoned>>

\* RunMicrovm, n times: some are carried out, and the call returns when all were.
LaunchSome(a, n) ==
    /\ sent' = [sent EXCEPT ![a] = TRUE]
    /\ \E k \in 0..n :
          /\ launched' = [launched EXCEPT ![a] = @ + k]
          /\ own' = [own EXCEPT ![a] = @ \union ((launched[a] + 1)..(launched[a] + k))]
          /\ (k = n /\ Past(a, 1)) \/ End(a, "failed")
    /\ UNCHANGED <<session, caches, switching, task, hands, dryPast, crossed, poisoned>>

Launch(a)    == At(a, "launch") /\ LaunchSome(a, 1)
LaunchAll(a) == At(a, "launchAll") /\ LaunchSome(a, Launches)

\* The first or the last microVM is terminated, or the call fails.
TerminateOne(a) ==
    /\ At(a, "terminateFirst") \/ At(a, "terminateLast")
    /\ LET i == IF At(a, "terminateFirst") THEN 1 ELSE launched[a]
       IN \/ own' = [own EXCEPT ![a] = @ \ {i}] /\ Past(a, 1)
          \/ own' \in {own, [own EXCEPT ![a] = @ \ {i}]} /\ End(a, "failed")
    /\ UNCHANGED <<session, caches, switching, task, hands, sent, launched, dryPast, crossed,
                   poisoned>>

\* The microVM is suspended and resumed, by a call or by a request, or is not.
Cycle(a) ==
    /\ At(a, "cycle")
    /\ sent' \in {sent, [sent EXCEPT ![a] = TRUE]}
    /\ Past(a, 1) \/ End(a, "failed")
    /\ UNCHANGED <<session, caches, switching, task, hands, launched, own, dryPast, crossed,
                   poisoned>>

\* wait_until: the state is reached, or it gives up.
Wait(a) ==
    /\ At(a, "wait")
    /\ Past(a, 1) \/ End(a, "failed")
    /\ UNCHANGED <<session, caches, switching, task, hands, effects, dryPast, crossed, poisoned>>

\* ep() of a microVM of its own, and the first request to it.
Reach(a) ==
    /\ At(a, "serve")
    /\ using' = [using EXCEPT ![a] = SessionOf(cfg)] /\ OpenSession(cfg)
    /\ Cross(a)
    /\ Past(a, 1) \/ End(a, "failed")
    /\ UNCHANGED <<session, accounts, clients, monitor, traced, switching, task, held, made, sample,
                   effects, dryPast, poisoned>>

\* The loops that poll until other microVMs are gone, the lease has ended, or the
\* time is over: the request goes on in each case.
Follow(a) ==
    /\ At(a, "settle") \/ At(a, "follow")
    /\ Past(a, 1)
    /\ UNCHANGED <<session, caches, switching, task, hands, effects, dryPast, crossed, poisoned>>

\* bootstrap's last step: a configuration made of the profile and region as they
\* are, and the names of what was created.
ReadConfig(a) ==
    /\ At(a, "readConfig")
    /\ held' = [held EXCEPT ![a] = cfg] /\ using' = [using EXCEPT ![a] = None]
    /\ Cross(a) /\ Past(a, 1)
    /\ UNCHANGED <<session, caches, switching, task, made, sample, effects, dryPast, poisoned>>

WriteConfig(a) ==
    /\ At(a, "config")
    /\ cfg' = held[a]
    /\ Poison(a) /\ Past(a, 1)
    /\ UNCHANGED <<dry, env, caches, switching, task, hands, effects, dryPast, crossed>>

\* The platform: a microVM ends by itself.  (Bound: while its request runs.)
VMEnds(a) ==
    /\ result[a] = "going"
    /\ \E i \in own[a] : own' = [own EXCEPT ![a] = @ \ {i}]
    /\ UNCHANGED <<session, caches, switching, task, todo, result, hands, sent, launched, dryPast,
                   crossed, poisoned>>

-----------------------------------------------------------------------------
(* One request after another that switches the session. *)

\* A step of the switch: it moves on, and the requests under way have crossed it.
Switch(from, to) ==
    /\ switch = from /\ switch' = to
    /\ crossed' = [a \in Requests |-> crossed[a] \/ a \in Going]
    /\ UNCHANGED <<task, todo, result, hands, effects, poisoned>>

Turn(value) ==
    /\ dry' = value
    /\ wasLive' = [a \in Requests |-> wasLive[a] \/ (a \in Going /\ ~value)]
    /\ toggled' = [a \in Requests |-> toggled[a] \/ (a \in Going /\ value # dry)]

Start == switches < MaxSwitches /\ switches' = switches + 1

\* set_config: the configuration, then dry run if it is given, then the reset.
SwitchConfig ==
    /\ Switch(Idle, <<"dry", "idle">>) /\ Start
    /\ cfg' \in Keys
    /\ UNCHANGED <<dry, env, caches, dryPast>>

SetDry ==
    /\ Switch(<<"dry", "idle">>, <<"sessions", "idle">>)
    /\ \E value \in BOOLEAN : Turn(value)
    /\ UNCHANGED <<cfg, env, caches, switches>>

\* post_credentials: a profile, which takes the static keys away, or static keys.
PostCredentials ==
    /\ Switch(Idle, <<"sessions", "verify">>) /\ Start
    /\ \/ cfg' = "profile" /\ env' = "ambient"
       \/ cfg' = "static" /\ env' = "pasted"
    /\ UNCHANGED <<dry, caches, dryPast>>

ClearCredentials ==
    /\ Switch(Idle, <<"sessions", "idle">>) /\ Start
    /\ env' = "ambient"
    /\ UNCHANGED <<dry, cfg, caches, dryPast>>

\* _reset_aws_sessions, one step per thing it throws away; then the new session's
\* calls are hooked, and with credentials the first of them is made.
ClearSessions(then) ==
    /\ Switch(<<"sessions", then>>, <<"accounts", then>>)
    /\ sess' = [k \in Keys |-> None]
    /\ UNCHANGED <<session, accounts, clients, monitor, traced, switches, dryPast>>

ClearAccounts(then) ==
    /\ Switch(<<"accounts", then>>, <<"clients", then>>)
    /\ accounts' = [k \in Keys |-> None]
    /\ UNCHANGED <<session, sess, clients, monitor, traced, switches, dryPast>>

\* Mutant: the monitor is kept.
ClearClientsOnly(then) ==
    /\ Switch(<<"clients", then>>, <<"traced", then>>)
    /\ clients' = [k \in Keys |-> None]
    /\ UNCHANGED <<session, sess, accounts, monitor, traced, switches, dryPast>>

ClearClients(then) ==
    /\ Switch(<<"clients", then>>, <<"traced", then>>)
    /\ clients' = [k \in Keys |-> None] /\ monitor' = None
    /\ UNCHANGED <<session, sess, accounts, traced, switches, dryPast>>

ClearTraced(then) ==
    /\ Switch(<<"traced", then>>, <<"ensure", then>>)
    /\ traced' = {}
    /\ UNCHANGED <<session, sess, accounts, clients, monitor, switches, dryPast>>

EnsureTrace(then) ==
    /\ Switch(<<"ensure", then>>, <<then, "idle">>)
    /\ IF cfg \in traced THEN UNCHANGED <<sess, traced>>
       ELSE /\ sess' = [sess EXCEPT ![cfg] = [SessionOf(cfg) EXCEPT !.hooks = @ + 1]]
            /\ traced' = traced \union {cfg}
    /\ UNCHANGED <<session, accounts, clients, monitor, switches, dryPast>>

\* whoami: when it answers, dry run is set if that was asked for.
Verify ==
    /\ Switch(<<"verify", "idle">>, Idle)
    /\ \E value \in BOOLEAN : Turn(value)
    /\ UNCHANGED <<cfg, env, caches, switches>>

Reset(then) == \/ ClearSessions(then) \/ ClearAccounts(then) \/ ClearClients(then)
               \/ ClearTraced(then) \/ EnsureTrace(then)

SwitchOn == SetDry \/ Verify \/ \E then \in {"idle", "verify"} : Reset(then)

Step(a) ==
    \/ Answer(a) \/ Manager(a) \/ Api(a) \/ AccountKnown(a) \/ Ask(a) \/ KeepAccount(a)
    \/ Lookup(a) \/ Build(a) \/ Store(a) \/ MonitorKey(a) \/ Monitor(a)
    \/ Read(a) \/ ReadFails(a) \/ Gate(a) \/ Mutate(a) \/ Launch(a) \/ LaunchAll(a)
    \/ TerminateOne(a) \/ Cycle(a) \/ Wait(a) \/ Reach(a) \/ Follow(a) \/ ReadConfig(a) \/ WriteConfig(a)

RunNext ==
    \/ \E a \in Requests : \/ \E t \in Tasks : Begin(a, t)
                           \/ Step(a) \/ VMEnds(a)
    \/ SwitchConfig \/ PostCredentials \/ ClearCredentials \/ SwitchOn

RunSpec == RunInit /\ [][RunNext]_runVars

-----------------------------------------------------------------------------
(* Properties. *)

\* Whatever a handler sends that changes something, dry run was off at some moment
\* while it ran: none of them, on any path through it, acts before it has looked
\* (docs/playground.md:47).  And a _SampleAwareManager, whose reads may be made up,
\* sends nothing that does, unless dry run was switched under the request (310-312).
DryRunSendsNothing ==
    /\ RunTypeOK
    /\ \A a \in Requests : sent[a] => wasLive[a] /\ (sample[a] => toggled[a])

\* A request that no switch crosses works with clients of the session as it is
\* configured: the same identity everywhere, its account, and each call traced
\* once.  Only what a crossed request kept may break this (739-750).
ActsAsConfigured ==
    ~poisoned => \A a \in Going : ~crossed[a] =>
        /\ using[a] # None => using[a] = [who |-> Who(cfg), hooks |-> 1]
        /\ switch = Idle => accounts[cfg] \in {None, Who(cfg)}

\* No request has more microVMs running at any time than its handler says, or
\* leaves others behind when it succeeds, and a dry or refused one has none.  A microVM
\* is taken off with the call that terminates it, and may be ending for a while longer.
FootprintKept ==
    \A a \in Going :
        /\ Cardinality(own[a]) <= task[a].most
        /\ todo[a] = <<>> => Cardinality(own[a]) <= task[a].leaves
        /\ todo[a] \in {<<"dry">>, <<"refused">>} => launched[a] = 0
=============================================================================
