----------------------------- MODULE AuthSession ------------------------------
(***************************************************************************)
(* A signed-in session (core/auki-auth/src/client.rs, domain.rs): the      *)
(* operations that share it one at a time, and its refresh tokens.  An     *)
(* imported ZITADEL session (zitadel_session.rs, zitadel.rs) refreshes and *)
(* saves in a worker of its own, which outlives the callers that wait for  *)
(* it; a user session refreshes inside the operation.                      *)
(*                                                                         *)
(* Refresh tokens are numbered in the order they are issued.  The provider *)
(* (external) accepts the newest one only, and consumes it, or, ZITADEL's, *)
(* lets it stand: its answer may be lost.  The host's store (external) may *)
(* refuse a save.                                                          *)
(***************************************************************************)
EXTENDS Naturals

CONSTANTS
    Callers,    \* concurrent operations of the clones of one session
    MaxToken    \* bound on refresh tokens

VARIABLES
    kind,       \* zitadel or user, fixed
    issued,     \* the provider: the only refresh token it accepts
    held,       \* the refresh token of the session
    expiring,   \* the access token is within EXPIRY_MARGIN of its expiry
    unsaved,    \* pending_save
    terminal,   \* login or configuration is required
    store,      \* the refresh token the host has saved
    worker,     \* the refresh and save slot: step, refresh, result
    call,       \* per caller: pc, operation, refresh budget, attempt
    lock,       \* who holds the session's state
    cached,     \* a data grant of the Domain is cached
    closed,     \* the session's CancellationToken
    closing,    \* close: no, wait, drain, done
    reused,     \* a consumed refresh token was submitted
    lost        \* an answer of the provider was lost with its request

vars == <<kind, issued, held, expiring, unsaved, terminal, store, worker, call, lock, cached,
          closed, closing, reused, lost>>

Free == "free"

\* What the theorems ask of the constants
SessionConstants ==
    /\ Free \notin Callers /\ "close" \notin Callers
    /\ MaxToken \in Nat \ {0}

NoCall == [pc |-> "idle", op |-> "authorize", used |-> FALSE, force |-> FALSE, attempt |-> 1,
           fresh |-> FALSE, hit |-> FALSE]
NoWorker == [step |-> "none", refresh |-> FALSE, result |-> "none"]

Init ==
    /\ kind \in {"zitadel", "user"}
    /\ issued = 1 /\ held = 1 /\ expiring \in BOOLEAN /\ unsaved = FALSE /\ terminal = "no"
    /\ store = 1 /\ worker = NoWorker
    /\ call = [c \in Callers |-> NoCall] /\ lock = Free /\ cached = FALSE
    /\ closed = FALSE /\ closing = "no" /\ reused = FALSE /\ lost = FALSE

sessionVars == <<held, unsaved, terminal, store>>
providerVars == <<issued, reused, lost>>
closeVars == <<closed, closing>>

At(c, pc) == call[c].pc = pc
Moves(c, pc) == call' = [call EXCEPT ![c].pc = pc]

\* The operation returns, and drops the lock if it holds it
Returns(c) ==
    /\ call' = [call EXCEPT ![c] = [NoCall EXCEPT !.pc = "done"]]
    /\ lock' = IF lock = c THEN Free ELSE lock

\* The access token nears its expiry
TimePasses ==
    /\ ~expiring /\ expiring' = TRUE
    /\ UNCHANGED <<kind, sessionVars, worker, call, lock, cached, closeVars, providerVars>>

-----------------------------------------------------------------------------
(* Operations of the session *)

\* authorize_peer, or domain_access and the listings, which exchange a grant first
Begin(c) ==
    /\ call[c].pc \in {"idle", "done"}
    /\ \E op \in {"authorize", "exchange"} :
         call' = [call EXCEPT ![c] = [NoCall EXCEPT !.pc = "lock", !.op = op]]
    /\ UNCHANGED <<kind, sessionVars, expiring, worker, lock, cached, closeVars, providerVars>>

\* lock_state: a cached grant that is fresh and was not rejected is used, after the
\* session had its say; a user session has its service bearer at hand
Lock(c) ==
    /\ At(c, "lock") /\ lock = Free /\ ~closed
    /\ lock' = c
    /\ \E hit \in {FALSE, cached /\ call[c].op = "exchange"} :
         /\ cached' \in (IF hit \/ call[c].op = "authorize" THEN {cached} ELSE {cached, FALSE})
         /\ call' = [call EXCEPT ![c] = [@ EXCEPT
                !.pc = IF kind = "zitadel" THEN "ready" ELSE IF hit THEN "hit" ELSE "use",
                !.hit = hit]]
    /\ UNCHANGED <<kind, sessionVars, expiring, worker, closeVars, providerVars>>

\* The session is closed, the caller cancels, or its future is dropped: a refresh of
\* a user session under way is lost with it
Leave(c) ==
    /\ call[c].pc \notin {"idle", "done"}
    /\ Returns(c)
    /\ lost' = (lost \/ At(c, "answer"))
    /\ UNCHANGED <<kind, sessionVars, expiring, worker, cached, closeVars, issued, reused>>

\* check_open
Required == terminal # "no"

\* ready, a worker in the slot: its result is taken once, an error returned to this
\* caller; a worker that died leaves an unknown rotation behind.  A wait
\* that runs into its limit leaves the worker where it is.
Join(c) ==
    /\ At(c, "ready") /\ worker.step # "none"
    /\ \/ /\ worker.step = "done" /\ worker.result = "ok"
          /\ call' = [call EXCEPT ![c].fresh = @ \/ worker.refresh]
          /\ worker' = NoWorker /\ UNCHANGED <<lock, terminal>>
       \/ /\ worker.step = "done" /\ worker.result # "ok"
          /\ worker' = NoWorker /\ Returns(c)
          /\ terminal' = IF worker.result = "dead" THEN "login" ELSE terminal
       \/ /\ worker.step # "done"
          /\ Returns(c) /\ UNCHANGED <<worker, terminal>>
    /\ UNCHANGED <<kind, held, unsaved, store, expiring, cached, closeVars, providerVars>>

\* A rejected save is always retried before any new rotation
SavesFirst == unsaved

Wanted(c) == ~call[c].fresh /\ (call[c].force \/ expiring)

\* ready, the slot empty: hand out the credentials, or start a worker
Ready(c) ==
    /\ At(c, "ready") /\ worker.step = "none"
    /\ \/ /\ Required /\ Returns(c) /\ UNCHANGED worker
       \/ /\ ~Required /\ ~SavesFirst /\ ~Wanted(c)
          /\ call' = [call EXCEPT ![c] =
                [@ EXCEPT !.pc = IF call[c].hit THEN "hit" ELSE "use",
                          !.used = call[c].used \/ call[c].fresh \/ call[c].force,
                          !.fresh = FALSE, !.force = FALSE]]
          /\ UNCHANGED <<worker, lock>>
       \/ /\ ~Required /\ (SavesFirst \/ Wanted(c))
          /\ worker' = [step |-> "start", refresh |-> Wanted(c) /\ ~SavesFirst, result |-> "none"]
          /\ UNCHANGED <<call, lock>>
    /\ UNCHANGED <<kind, sessionVars, expiring, cached, closeVars, providerVars>>

Hit(c) ==
    /\ At(c, "hit") /\ Returns(c)
    /\ UNCHANGED <<kind, sessionVars, expiring, worker, cached, closeVars, providerVars>>

\* The request with the access token succeeds: an authorization, or an exchanged
\* grant with its own request, which an imported session may repeat once with a
\* second exchange (a listing asks for the credentials again)
Succeeds(c) ==
    /\ At(c, "use")
    /\ \/ Returns(c) /\ cached' \in {cached, call[c].op = "exchange" \/ cached}
       \/ /\ kind = "zitadel" /\ call[c].op = "exchange" /\ call[c].attempt = 1
          /\ \E pc \in {"use", "ready"} :
                call' = [call EXCEPT ![c] = [@ EXCEPT !.attempt = 2, !.pc = pc]]
          /\ UNCHANGED <<lock, cached>>
    /\ UNCHANGED <<kind, sessionVars, expiring, worker, closeVars, providerVars>>

\* A failure other than 401
Fails(c) ==
    /\ At(c, "use") /\ Returns(c)
    /\ UNCHANGED <<kind, sessionVars, expiring, worker, cached, closeVars, providerVars>>

\* Only one refresh per operation
Retries(c) == ~call[c].used

\* 401: one refresh, then the whole operation again, or login is required
Unauthorized(c) ==
    /\ At(c, "use")
    /\ \/ /\ Retries(c) /\ kind = "zitadel"
          /\ call' = [call EXCEPT ![c] = [@ EXCEPT !.pc = "ready", !.force = TRUE]]
          /\ UNCHANGED <<lock, terminal>>
       \/ /\ Retries(c) /\ kind = "user"
          /\ call' = [call EXCEPT ![c] = [@ EXCEPT !.pc = "submit", !.used = TRUE]]
          /\ UNCHANGED <<lock, terminal>>
       \/ /\ ~Retries(c) /\ Returns(c)
          /\ terminal' = IF kind = "zitadel" THEN "login" ELSE terminal
    /\ UNCHANGED <<kind, held, unsaved, store, expiring, worker, cached, closeVars, providerVars>>

-----------------------------------------------------------------------------
(* A refresh token at the provider *)

\* The provider consumes the newest token, and refuses any other; one that does not
\* rotate answers without a refresh token
Submit == /\ reused' = (reused \/ held # issued)
          /\ issued' \in IF held # issued THEN {issued}
                         ELSE IF kind = "zitadel" THEN {issued, issued + 1}
                         ELSE {issued + 1}
Bounded == issued < MaxToken

\* refresh_service_bearer of a user session: the replacement is committed with the
\* answer, before the service token is exchanged
UserSubmits(c) ==
    /\ At(c, "submit")
    /\ \/ Bounded /\ Submit /\ Moves(c, "answer") /\ UNCHANGED lock
       \/ Returns(c) /\ UNCHANGED <<issued, reused>>
    /\ UNCHANGED <<kind, sessionVars, expiring, worker, cached, closeVars, lost>>

UserAnswered(c) ==
    /\ At(c, "answer")
    /\ \/ /\ held # issued /\ ~reused
          /\ held' = issued
          /\ \/ Moves(c, "use") /\ UNCHANGED lock
             \/ Returns(c)
          /\ UNCHANGED lost
       \/ Returns(c) /\ lost' = TRUE /\ UNCHANGED held
    /\ UNCHANGED <<kind, unsaved, terminal, store, expiring, worker, cached, closeVars, issued, reused>>

-----------------------------------------------------------------------------
(* The worker of a ZITADEL session; it keeps the session's state locked *)

WorkerAt(step) == worker.step = step
WorkerGoes(step) == worker' = [worker EXCEPT !.step = step]
WorkerEnds(result) == worker' = [worker EXCEPT !.step = "done", !.result = result]

WorkerStarts ==
    /\ WorkerAt("start")
    /\ IF closed \/ Required THEN WorkerEnds("failed")
       ELSE WorkerGoes(IF worker.refresh THEN "submit" ELSE "check")
    /\ UNCHANGED <<kind, sessionVars, expiring, call, lock, cached, closeVars, providerVars>>

\* Discovery may fail before the token is sent, or the provider refuses it
WorkerSubmits ==
    /\ WorkerAt("submit")
    /\ \/ Bounded /\ Submit /\ WorkerGoes("answer") /\ UNCHANGED terminal
       \/ /\ WorkerEnds("failed") /\ UNCHANGED <<issued, reused>>
          /\ terminal' \in {"no", "login", "configuration"}
    /\ UNCHANGED <<kind, held, unsaved, store, expiring, call, lock, cached, closeVars, lost>>

\* Mutant: a lost answer is taken for a passing failure
AfterLostAnswerTransient == terminal

\* RefreshOutcomeUnknown requires a new login
AfterLostAnswer == "login"

\* The replacement is committed before it is saved, with the old refresh token if the
\* answer has none; a lost answer is never retried
WorkerAnswered ==
    /\ WorkerAt("answer")
    /\ \/ /\ ~reused
          /\ held' = issued /\ unsaved' = TRUE /\ expiring' = FALSE
          /\ WorkerGoes("check") /\ UNCHANGED <<terminal, lost>>
       \/ /\ WorkerEnds("failed") /\ terminal' = AfterLostAnswer /\ lost' = TRUE
          /\ UNCHANGED <<held, unsaved, expiring>>
    /\ UNCHANGED <<kind, store, call, lock, cached, closeVars, issued, reused>>

\* The session may have closed meanwhile
WorkerChecks ==
    /\ WorkerAt("check")
    /\ IF closed THEN WorkerEnds("failed") ELSE WorkerGoes(IF unsaved THEN "save" ELSE "end")
    /\ UNCHANGED <<kind, sessionVars, expiring, call, lock, cached, closeVars, providerVars>>

\* Mutant: the save stays pending
SavedNot == unsaved

Saved == FALSE

\* The host acknowledges the save, or refuses it, having written or not
WorkerSaves ==
    /\ WorkerAt("save")
    /\ \/ store' = held /\ unsaved' = Saved /\ WorkerGoes("end")
       \/ store' \in {held, store} /\ WorkerEnds("failed") /\ UNCHANGED unsaved
    /\ UNCHANGED <<kind, held, terminal, expiring, call, lock, cached, closeVars, providerVars>>

WorkerFinishes ==
    /\ WorkerAt("end") /\ WorkerEnds(IF closed THEN "failed" ELSE "ok")
    /\ UNCHANGED <<kind, sessionVars, expiring, call, lock, cached, closeVars, providerVars>>

\* A panic, at any point
WorkerDies ==
    /\ worker.step \notin {"none", "done"} /\ WorkerEnds("dead")
    /\ lost' = (lost \/ WorkerAt("answer"))
    /\ UNCHANGED <<kind, sessionVars, expiring, call, lock, cached, closeVars, issued, reused>>

-----------------------------------------------------------------------------
(* close *)

Close ==
    /\ closing = "no"
    /\ closed' = TRUE /\ closing' = "wait"
    /\ UNCHANGED <<kind, sessionVars, expiring, worker, call, lock, cached, providerVars>>

\* The future of close is dropped; the session stays fenced, and it is called again
CloseDropped ==
    /\ closing \in {"wait", "drain"}
    /\ closing' = "no"
    /\ lock' = IF lock = "close" THEN Free ELSE lock
    /\ UNCHANGED <<kind, sessionVars, expiring, worker, call, cached, closed, providerVars>>

CloseLocks ==
    /\ closing = "wait" /\ lock = Free
    /\ lock' = "close" /\ closing' = "drain"
    /\ UNCHANGED <<kind, sessionVars, expiring, worker, call, cached, closed, providerVars>>

\* Only the worker's answer proves that a save cannot follow
Drained == worker.step \in {"none", "done"}

CloseReturns ==
    /\ closing = "drain" /\ Drained
    /\ worker' = IF worker.step = "done" THEN NoWorker ELSE worker
    /\ closing' = "done" /\ cached' = FALSE /\ lock' = Free
    /\ UNCHANGED <<kind, sessionVars, expiring, call, closed, providerVars>>

-----------------------------------------------------------------------------

CallStep(c) ==
    \/ Lock(c) \/ Join(c) \/ Ready(c) \/ Hit(c) \/ Succeeds(c) \/ Fails(c) \/ Unauthorized(c)
    \/ UserSubmits(c) \/ UserAnswered(c)

WorkerStep ==
    \/ WorkerStarts \/ WorkerSubmits \/ WorkerAnswered \/ WorkerChecks \/ WorkerSaves
    \/ WorkerFinishes \/ WorkerDies

Next ==
    \/ TimePasses \/ WorkerStep \/ Close \/ CloseDropped \/ CloseLocks \/ CloseReturns
    \/ \E c \in Callers : Begin(c) \/ CallStep(c) \/ Leave(c)

Spec == Init /\ [][Next]_vars

\* Requests have a time limit and the host answers a save; operations are polled, and
\* the session's lock is given in turn; callers notice a closed session.
Fairness ==
    /\ WF_vars(WorkerStep)
    /\ SF_vars(CloseLocks) /\ WF_vars(CloseReturns)
    /\ \A c \in Callers :
         /\ SF_vars(Lock(c)) /\ WF_vars(~At(c, "lock") /\ CallStep(c))
         /\ WF_vars(closed /\ Leave(c))

FairSpec == Spec /\ Fairness

-----------------------------------------------------------------------------
(* Properties *)

TypeOK ==
    /\ kind \in {"zitadel", "user"} /\ issued \in 1..MaxToken /\ held \in 1..issued
    /\ store \in 1..held /\ terminal \in {"no", "login", "configuration"}
    /\ worker.step \in {"none", "start", "submit", "answer", "check", "save", "end", "done"}
    /\ worker.result \in {"none", "ok", "failed", "dead"}
    /\ \A c \in Callers : call[c].pc \in {"idle", "lock", "ready", "hit", "use", "submit",
                                          "answer", "done"}
    /\ lock \in Callers \cup {Free, "close"} /\ closing \in {"no", "wait", "drain", "done"}

\* "Never submit the old token again": a ZITADEL session sends no refresh token twice,
\* whoever is cancelled, times out or dies, and whatever is lost.  A user session does
\* so only after an answer was lost with its caller.
ConsumedNeverReused == reused => kind = "user" /\ lost

\* ready: what an operation uses the host has saved, so that a restart of the
\* application finds a token that the provider still accepts.
UsedIsSaved ==
    kind = "zitadel" => \A c \in Callers : call[c].pc \in {"use", "hit"} => store = held

\* The worker submits the refresh token, rotated or not
WorkerSends == ~WorkerAt("answer") /\ worker'.step = "answer"

\* AuthSession::close: once it has returned, nothing is saved any more, so the host can
\* clear its storage, and nothing is submitted either.
ClosedIsSilent ==
    [][closing = "done" => store' = store /\ issued' = issued /\ ~WorkerSends]_vars

\* require_login and RefreshOutcomeUnknown: a session that needs a login never
\* recovers, nor submits its token again.
LoginStaysRequired ==
    [][terminal = "login" => terminal' = "login" /\ issued' = issued /\ reused' = reused
                             /\ ~WorkerSends]_vars

\* with_session and refresh: every operation gives the session back, one refresh at
\* most behind it, also when the refresh fails, hangs until its timeout or dies.
OperationReturns == \A c \in Callers : (lock = c) ~> (lock # c)

\* AuthSession::close: it waits for the refresh under way and for no caller that
\* stays, and returns.
SessionCloses == (closing = "wait") ~> (closing \in {"done", "no"})
=============================================================================
