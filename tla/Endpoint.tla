------------------------------ MODULE Endpoint ------------------------------
(***************************************************************************)
(* EndpointClient.request (src/microvm/endpoint.py): threads that share a  *)
(* client, its cached token, and the retry loop around one HTTP request.   *)
(*                                                                         *)
(* The threads of Fleet.dispatch share one client per microVM, and nothing *)
(* guards its cache.  A token is told apart only by whether the endpoint   *)
(* still takes it; the endpoint and the API that mints are external.       *)
(***************************************************************************)
EXTENDS Naturals

CONSTANTS
    Threads, Clients,
    ClientOf,      \* the client each thread uses
    MaxAttempts,   \* max_attempts of request
    MaxRevokes     \* bound: how often the endpoint stops taking the tokens it gave

VARIABLES
    pc, attempt,   \* per thread: where it is, and which attempt it is on
    held,          \* per thread: the token it was handed or is about to send
    status,        \* per thread: the answer it is about to judge
    token, due,    \* per client: _token, and time.time() > _token_expiry
    revokes

threads == <<pc, attempt, held, status>>
cache   == <<token, due>>

Tokens   == {"none", "good", "bad"}
Statuses == {"none", "ok", "429", "502", "403"}
Labels   == {"idle", "check", "mint", "store", "stamp", "read", "send", "judge",
             "sleep", "returned", "raised", "broken"}
Over     == {"returned", "raised", "broken"}

TypeOK ==
    /\ pc \in [Threads -> Labels]
    /\ attempt \in [Threads -> 0..MaxAttempts]
    /\ held \in [Threads -> Tokens]
    /\ status \in [Threads -> Statuses]
    /\ token \in [Clients -> Tokens]
    /\ due \in [Clients -> BOOLEAN]
    /\ revokes \in 0..MaxRevokes

Init ==
    /\ pc = [t \in Threads |-> "idle"]
    /\ attempt = [t \in Threads |-> 0]
    /\ held = [t \in Threads |-> "none"]
    /\ status = [t \in Threads |-> "none"]
    /\ token = [c \in Clients |-> "none"]
    /\ due = [c \in Clients |-> TRUE]
    /\ revokes = 0

Goto(t, label) == pc' = [pc EXCEPT ![t] = label]

-----------------------------------------------------------------------------
Request(t) ==
    /\ pc[t] = "idle"
    /\ attempt' = [attempt EXCEPT ![t] = 1]
    /\ Goto(t, "check")
    /\ UNCHANGED <<held, status, cache, revokes>>

\* request has returned or raised, and its locals are gone.
Leave(t) ==
    /\ pc[t] \in Over
    /\ attempt' = [attempt EXCEPT ![t] = 0]
    /\ Goto(t, "idle")
    /\ UNCHANGED <<held, status, cache, revokes>>

(* _auth_headers: the test of the cache, the API call that mints, the two
   assignments and the return are separate steps of an unguarded method. *)

Check(t) ==
    /\ pc[t] = "check"
    /\ LET c == ClientOf[t]
       IN Goto(t, IF token[c] = "none" \/ due[c] THEN "mint" ELSE "read")
    /\ UNCHANGED <<attempt, held, status, cache, revokes>>

Mint(t) ==
    /\ pc[t] = "mint"
    /\ held' = [held EXCEPT ![t] = "good"]
    /\ Goto(t, "store")
    /\ UNCHANGED <<attempt, status, cache, revokes>>

\* CreateMicrovmAuthToken raises, and so does request.
MintFails(t) ==
    /\ pc[t] = "mint"
    /\ Goto(t, "raised")
    /\ UNCHANGED <<attempt, held, status, cache, revokes>>

Store(t) ==
    /\ pc[t] = "store"
    /\ token' = [token EXCEPT ![ClientOf[t]] = held[t]]
    /\ held' = [held EXCEPT ![t] = "none"]
    /\ Goto(t, "stamp")
    /\ UNCHANGED <<attempt, status, due, revokes>>

Stamp(t) ==
    /\ pc[t] = "stamp"
    /\ due' = [due EXCEPT ![ClientOf[t]] = FALSE]
    /\ Goto(t, "read")
    /\ UNCHANGED <<attempt, held, status, token, revokes>>

\* return self._token, merged into the caller's headers: None cannot be merged
\* and raises a TypeError.
Read(t) ==
    /\ pc[t] = "read"
    /\ LET c == ClientOf[t]
       IN /\ held' = [held EXCEPT ![t] = token[c]]
          /\ Goto(t, IF token[c] = "none" THEN "broken" ELSE "send")
    /\ UNCHANGED <<attempt, status, cache, revokes>>

-----------------------------------------------------------------------------
\* The endpoint answers: 403 to a token it no longer takes, and otherwise what
\* the application (which may say 403 too), the rate limit or a resuming VM make
\* of the request.
Answered(t, s) ==
    /\ pc[t] = "send"
    /\ held[t] = "bad" => s = "403"
    /\ status' = [status EXCEPT ![t] = s]
    /\ held' = [held EXCEPT ![t] = "none"]
    /\ Goto(t, "judge")
    /\ UNCHANGED <<attempt, cache, revokes>>

\* A timeout or a broken connection is not retried.
SendFails(t) ==
    /\ pc[t] = "send"
    /\ held' = [held EXCEPT ![t] = "none"]
    /\ Goto(t, "raised")
    /\ UNCHANGED <<attempt, status, cache, revokes>>

\* After the last attempt the loop ends and the last answer is returned.
NextAttempt(t, label) ==
    IF attempt[t] < MaxAttempts
    THEN attempt' = [attempt EXCEPT ![t] = @ + 1] /\ Goto(t, label)
    ELSE Goto(t, "returned") /\ UNCHANGED attempt

\* 429 backs off; 502 is slept over while resume_patience lasts, which may end
\* before any attempt (then it is returned).
Busy(t) ==
    /\ pc[t] = "judge" /\ status[t] \in {"429", "502"}
    /\ NextAttempt(t, "sleep")
    /\ status' = [status EXCEPT ![t] = "none"]
    /\ UNCHANGED <<held, cache, revokes>>

\* 403: the cached token, whichever it is by now, is thrown away.
Forbidden(t) ==
    /\ pc[t] = "judge" /\ status[t] = "403" /\ attempt[t] < MaxAttempts
    /\ token' = [token EXCEPT ![ClientOf[t]] = "none"]
    /\ NextAttempt(t, "check")
    /\ status' = [status EXCEPT ![t] = "none"]
    /\ UNCHANGED <<held, due, revokes>>

Return(t) ==
    /\ pc[t] = "judge"
    /\ \/ status[t] \in {"ok", "502"}
       \/ status[t] = "403" /\ attempt[t] = MaxAttempts
    /\ status' = [status EXCEPT ![t] = "none"]
    /\ Goto(t, "returned")
    /\ UNCHANGED <<attempt, held, cache, revokes>>

WakeUp(t) ==
    /\ pc[t] = "sleep"
    /\ Goto(t, "check")
    /\ UNCHANGED <<attempt, held, status, cache, revokes>>

-----------------------------------------------------------------------------
\* 80% of a token's time to live has passed.
ComesDue(c) ==
    /\ ~due[c]
    /\ due' = [due EXCEPT ![c] = TRUE]
    /\ UNCHANGED <<threads, token, revokes>>

\* The endpoint stops taking a client's tokens, those on their way included.
Revoke(c) ==
    /\ revokes < MaxRevokes
    /\ LET spoil(k) == IF k = "good" THEN "bad" ELSE k
       IN /\ token' = [token EXCEPT ![c] = spoil(@)]
          /\ held' = [t \in Threads |-> IF ClientOf[t] = c THEN spoil(held[t]) ELSE held[t]]
    /\ revokes' = revokes + 1
    /\ UNCHANGED <<pc, attempt, status, due>>

-----------------------------------------------------------------------------
AuthStep(t) == Check(t) \/ Mint(t) \/ MintFails(t) \/ Store(t) \/ Stamp(t) \/ Read(t)
HttpStep(t) == \/ \E s \in Statuses \ {"none"} : Answered(t, s)
               \/ SendFails(t) \/ Busy(t) \/ Forbidden(t) \/ Return(t) \/ WakeUp(t)
Step(t) == AuthStep(t) \/ HttpStep(t)

World == \E c \in Clients : ComesDue(c) \/ Revoke(c)
=============================================================================
