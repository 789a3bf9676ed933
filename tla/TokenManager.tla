----------------------------- MODULE TokenManager -----------------------------
(***************************************************************************)
(* A machine's access token (core/auki-auth/src/machine/token_manager.rs)  *)
(* and the credential that owns it (core/auki-tasks/src/robot.rs,          *)
(* compute.rs, machine.rs).  Callers of get_access share one login; a      *)
(* background loop refreshes the token; stop ends both.  The registrar     *)
(* keeps the machine's presence; close ends everything.                    *)
(*                                                                         *)
(* tokio's Notify::notify_waiters wakes those who have already created     *)
(* their Notified future and leaves nothing behind for the others, so      *)
(* "about to wait" and "waiting" are different places.                     *)
(***************************************************************************)
EXTENDS Naturals, FiniteSets

CONSTANTS
    Callers,     \* tasks of owned_bearer
    MaxAttempts  \* max_retries + 1

Bg == "background"
Actors == Callers \cup {Bg}

\* What the theorems ask of the constants
ManagerConstants == IsFiniteSet(Callers) /\ Bg \notin Callers

VARIABLES
    kind,       \* robot or compute, fixed
    token,      \* State.token: none, valid, or due for a refresh
    backoff,    \* State.retry_not_before lies ahead
    inflight,   \* State.inflight: 0, or the Notify of the current login
    stopped,    \* TokenManager.stopped
    restarted,  \* start_bg reset it
    call,       \* per actor: get_access
    bg,         \* background_loop
    closed,     \* Owner.closed
    startup,    \* AukiRobotCredential::start, which holds Owner.startup
    registrar,  \* the presence task
    closer      \* close: 0, or the position in CloseSteps

tokenVars == <<token, backoff, inflight, stopped, restarted>>
ownerVars == <<closed, startup, registrar, closer>>
vars == <<kind, tokenVars, call, bg, ownerVars>>

\* on: the Notify waited for, or the attempt of one's own login
NoCall == [pc |-> "idle", on |-> 0]
Owning == {"reauth", "arming", "login", "cut"}

Init ==
    /\ kind \in {"robot", "compute"}
    /\ token = "none" /\ backoff = FALSE /\ inflight = 0
    /\ stopped = FALSE /\ restarted = FALSE
    /\ call = [a \in Actors |-> NoCall]
    /\ bg = "off"
    /\ closed = FALSE /\ startup = "no" /\ registrar = "none" /\ closer = 0

-----------------------------------------------------------------------------
(* Notify *)

\* stop_notify.notify_waiters(): who is waiting in a select sees the stop
CutLogin(c) == IF c.pc = "login" THEN [c EXCEPT !.pc = "cut"] ELSE c
StopBg(b) == IF b \in {"idle", "timer", "backoff"} THEN "done" ELSE b

\* state_notify.notify_waiters()
WakeBg(b) == IF b \in {"idle", "timer", "backoff"} THEN "check" ELSE b

\* Notify::new(): one nobody holds
NewNotify ==
    CHOOSE n \in 1..(Cardinality(Actors) + 1) :
        \A a \in Actors : call[a].pc \in {"holding", "waiting"} => call[a].on # n

\* The login's own Notify: callers that wait on it look at the state again
Woken(c, notify) == IF c.pc = "waiting" /\ c.on = notify THEN [pc |-> "entering", on |-> 0] ELSE c

\* The loop's call of get_access has returned
BgAfter(ok) ==
    CASE ok -> "check"
      [] ~ok /\ stopped -> "done"
      [] OTHER -> "armBackoff"

\* get_access returns to its caller
Returned(a, ok) == IF a = Bg THEN BgAfter(ok) ELSE bg

-----------------------------------------------------------------------------
(* get_access *)

\* owned_bearer: a closed credential starts no call
Enter(a) ==
    /\ a \in Callers
    /\ call[a].pc = "idle" /\ ~closed
    /\ call' = [call EXCEPT ![a] = [pc |-> "entering", on |-> 0]]
    /\ UNCHANGED <<kind, tokenVars, bg, ownerVars>>

Owner == inflight = 0

\* The block under the state lock: an answer, a login to wait for, or one's own
Decide(a) ==
    /\ call[a].pc = "entering"
    /\ \/ /\ stopped \/ token = "valid" \/ backoff
          /\ call' = [call EXCEPT ![a] = NoCall]
          /\ bg' = Returned(a, ~stopped /\ token = "valid")
          /\ UNCHANGED inflight
       \/ /\ ~stopped /\ token # "valid" /\ ~backoff /\ Owner
          /\ call' = [call EXCEPT ![a] = [pc |-> "reauth", on |-> 1]]
          /\ inflight' = NewNotify
          /\ UNCHANGED bg
       \/ /\ ~stopped /\ token # "valid" /\ ~backoff /\ ~Owner
          /\ call' = [call EXCEPT ![a] = [pc |-> "holding", on |-> inflight]]
          /\ UNCHANGED <<inflight, bg>>
    /\ UNCHANGED <<kind, token, backoff, stopped, restarted, ownerVars>>

\* notify.notified(), after the state lock is released
Register(a) ==
    /\ call[a].pc = "holding"
    /\ call' = [call EXCEPT ![a].pc = "waiting"]
    /\ UNCHANGED <<kind, tokenVars, bg, ownerVars>>

\* reauth: the stop flag, the Notified of stop_notify, the login
Reauth(a) ==
    /\ call[a].pc = "reauth"
    /\ call' = [call EXCEPT ![a].pc = IF stopped THEN "cut" ELSE "arming"]
    /\ UNCHANGED <<kind, tokenVars, bg, ownerVars>>

Arm(a) ==
    /\ call[a].pc = "arming"
    /\ call' = [call EXCEPT ![a].pc = "login"]
    /\ UNCHANGED <<kind, tokenVars, bg, ownerVars>>

\* The owner's second block: the result is stored and everybody waiting is woken
Finish(a, ok) ==
    /\ inflight' = 0
    /\ token' = IF ok THEN "valid" ELSE token
    /\ backoff' = ~ok
    /\ call' = [b \in Actors |-> IF b = a THEN NoCall ELSE Woken(call[b], inflight)]
    /\ bg' = IF a = Bg THEN BgAfter(ok) ELSE IF ok THEN WakeBg(bg) ELSE bg

\* The login ends; a failed attempt may be repeated
LoginEnds(a) ==
    /\ \/ call[a].pc = "login" /\ Finish(a, TRUE)
       \/ call[a].pc = "login" /\ call[a].on = MaxAttempts /\ Finish(a, FALSE)
       \/ call[a].pc = "cut" /\ Finish(a, FALSE)
       \/ /\ call[a].pc = "login" /\ call[a].on < MaxAttempts
          /\ call' = [call EXCEPT ![a] = [pc |-> "reauth", on |-> call[a].on + 1]]
          /\ UNCHANGED <<inflight, token, backoff, bg>>
    /\ UNCHANGED <<kind, stopped, restarted, ownerVars>>

\* Authenticator::reject of a robot, from its login or from its registrar: the
\* credential closes itself.  Compute registration can do the same.
Reject ==
    /\ ~closed
    /\ \/ kind = "robot" /\ (\E a \in Actors : call[a].pc = "login") /\ UNCHANGED registrar
       \/ registrar = "running" /\ registrar' = "done"
    /\ closed' = TRUE
    /\ UNCHANGED <<kind, tokenVars, call, bg, startup, closer>>

\* owned_bearer: the call is dropped once the credential is closed
DropCall(a) ==
    /\ a \in Callers
    /\ closed /\ call[a].pc # "idle"
    /\ call' = [call EXCEPT ![a] = NoCall]
    /\ UNCHANGED <<kind, tokenVars, bg, ownerVars>>

\* on_unauthorized_retry
OnUnauthorized ==
    /\ ~closed
    /\ token' = IF token = "none" THEN "none" ELSE "due"
    /\ backoff' = FALSE
    /\ bg' = WakeBg(bg)
    /\ UNCHANGED <<kind, inflight, stopped, restarted, call, ownerVars>>

\* Time: the token reaches its refresh time, the backoff ends
TimePasses ==
    /\ \/ token = "valid" /\ token' = "due" /\ UNCHANGED backoff
       \/ backoff /\ backoff' = FALSE /\ UNCHANGED token
    /\ UNCHANGED <<kind, inflight, stopped, restarted, call, bg, ownerVars>>

-----------------------------------------------------------------------------
(* background_loop *)

BgCheck ==
    /\ bg = "check"
    /\ bg' = IF stopped THEN "done" ELSE "target"
    /\ UNCHANGED <<kind, tokenVars, call, ownerVars>>

\* next_refresh_target
BgTarget ==
    /\ bg = "target"
    /\ bg' = CASE token = "none" -> "armIdle" [] token = "valid" -> "armTimer"
               [] OTHER -> "calling"
    /\ call' = IF token = "due" THEN [call EXCEPT ![Bg].pc = "entering"] ELSE call
    /\ UNCHANGED <<kind, tokenVars, ownerVars>>

\* The Notified futures of the selects are created
BgArm ==
    /\ bg \in {"armIdle", "armTimer", "armBackoff"}
    /\ bg' = CASE bg = "armIdle" -> "idle" [] bg = "armTimer" -> "timer" [] OTHER -> "backoff"
    /\ UNCHANGED <<kind, tokenVars, call, ownerVars>>

\* A sleep ends; a select on notifications alone has none
BgTimer ==
    /\ \/ /\ bg = "timer"
          /\ bg' = IF stopped THEN "done" ELSE "calling"
          /\ call' = IF stopped THEN call ELSE [call EXCEPT ![Bg].pc = "entering"]
       \/ bg = "backoff" /\ bg' = "check" /\ UNCHANGED call
    /\ UNCHANGED <<kind, tokenVars, ownerVars>>

-----------------------------------------------------------------------------
(* The credential: start, the registrar, close *)

\* start takes the startup lock and asks for a token
StartBegins ==
    /\ startup = "no" /\ ~closed
    /\ startup' = "bearer"
    /\ UNCHANGED <<kind, tokenVars, call, bg, closed, registrar, closer>>

\* The biased select looks at closed first: it drops the start, or the start
\* goes on to the end of the same poll.  A failed bearer ends the start too.
StartPolls ==
    /\ startup = "bearer"
    /\ \/ ~closed /\ token # "none" /\ startup' = "polled"
       \/ startup' = "no"
    /\ UNCHANGED <<kind, tokenVars, call, bg, closed, registrar, closer>>

\* start_bg (a robot's) resets the stop flag; the registrar is spawned
StartFinishes ==
    /\ startup = "polled"
    /\ startup' = "started" /\ registrar' = "running"
    /\ IF kind = "robot"
         THEN bg' = "check" /\ stopped' = FALSE /\ restarted' = stopped
         ELSE UNCHANGED <<bg, stopped, restarted>>
    /\ UNCHANGED <<kind, token, backoff, inflight, call, closed, closer>>

RegistrarEnds ==
    /\ registrar = "running" /\ closed
    /\ registrar' = "done"
    /\ UNCHANGED <<kind, tokenVars, call, bg, closed, startup, closer>>

\* What close awaits, in order
CloseSteps ==
    IF kind = "robot"
      THEN <<"stop1", "stop2", "join", "calls", "startup", "registrar", "returned">>
      ELSE <<"startup", "registrar", "stop1", "stop2", "join", "calls", "returned">>

Closing(step) == closer # 0 /\ CloseSteps[closer] = step

CloseBegins ==
    /\ closer = 0
    /\ closed' = TRUE /\ closer' = 1
    /\ UNCHANGED <<kind, tokenVars, call, bg, startup, registrar>>

\* stop: the flag and stop_notify
Stop1 ==
    /\ Closing("stop1")
    /\ stopped' = TRUE
    /\ call' = [a \in Actors |-> CutLogin(call[a])]
    /\ bg' = StopBg(bg)
    /\ closer' = closer + 1
    /\ UNCHANGED <<kind, token, backoff, inflight, restarted, closed, startup, registrar>>

\* stop: the state, and everybody who waits on it
Stop2 ==
    /\ Closing("stop2")
    /\ token' = "none" /\ backoff' = FALSE /\ inflight' = 0
    /\ call' = [a \in Actors |-> Woken(call[a], inflight)]
    /\ bg' = WakeBg(bg)
    /\ closer' = closer + 1
    /\ UNCHANGED <<kind, stopped, restarted, closed, startup, registrar>>

\* The background task, the guards of the calls, the startup lock, the registrar
CloseWaits ==
    /\ \/ Closing("join") /\ bg \in {"off", "done"}
       \/ Closing("calls") /\ \A c \in Callers : call[c].pc = "idle"
       \/ Closing("startup") /\ startup \in {"no", "started"}
       \/ Closing("registrar") /\ registrar \in {"none", "done"}
    /\ closer' = closer + 1
    /\ UNCHANGED <<kind, tokenVars, call, bg, closed, startup, registrar>>

-----------------------------------------------------------------------------

CallStep(a) == Decide(a) \/ Register(a) \/ Reauth(a) \/ Arm(a) \/ LoginEnds(a) \/ DropCall(a)
BgStep == BgCheck \/ BgTarget \/ BgArm \/ BgTimer
CloseStep == Stop1 \/ Stop2 \/ CloseWaits

Next ==
    \/ \E a \in Actors : Enter(a) \/ CallStep(a)
    \/ OnUnauthorized \/ TimePasses \/ Reject \/ BgStep
    \/ StartBegins \/ StartPolls \/ StartFinishes \/ RegistrarEnds
    \/ CloseBegins \/ CloseStep

Spec == Init /\ [][Next]_vars

\* A started call is polled, a login answers or fails, timers end, time passes,
\* close is polled to its end.
Fairness ==
    /\ \A a \in Actors : WF_vars(CallStep(a))
    /\ WF_vars(BgStep)
    /\ WF_vars(TimePasses)
    /\ WF_vars(StartPolls \/ StartFinishes)
    /\ WF_vars(RegistrarEnds)
    /\ WF_vars(CloseStep)

FairSpec == Spec /\ Fairness

-----------------------------------------------------------------------------
(* Properties *)

TypeOK ==
    /\ kind \in {"robot", "compute"}
    /\ token \in {"none", "valid", "due"} /\ backoff \in BOOLEAN
    /\ inflight \in 0..(Cardinality(Actors) + 1)
    /\ stopped \in BOOLEAN /\ restarted \in BOOLEAN
    /\ \A a \in Actors :
          call[a].pc \in {"idle", "entering", "holding", "waiting"} \cup Owning
    /\ bg \in {"off", "check", "target", "armIdle", "armTimer", "armBackoff",
               "idle", "timer", "backoff", "calling", "done"}
    /\ closed \in BOOLEAN /\ startup \in {"no", "bearer", "polled", "started"}
    /\ registrar \in {"none", "running", "done"} /\ closer \in 0..7

\* get_access: however many callers race the background loop, one login runs at a
\* time.  (A start that overlaps close resets the stop flag; then two can.)
SingleLogin ==
    ~restarted => Cardinality({a \in Actors : call[a].pc \in Owning}) <= 1

\* close: when it returns, the registrar that calls DDS for this machine and every
\* call it had let in are over, whatever start was doing meanwhile.
CloseOutlivesAll ==
    Closing("returned") =>
        /\ registrar \in {"none", "done"} /\ startup # "bearer" /\ startup # "polled"
        /\ \A c \in Callers : call[c].pc = "idle"

\* get_access: a login that began is over some time, and leaves the next caller
\* free to begin another; only a closed credential may keep its marker.
LoginEndsOrCloses == (inflight # 0) ~> (inflight = 0 \/ closed)

\* stop joins a background loop that waits where its notifications do not reach: it
\* read the stop flag before stop and armed its select after the token was cleared, or
\* waits for a login that has ended; or start_bg has taken the stop back
Unheard == Closing("join") /\ (bg = "idle" \/ call[Bg].pc = "waiting" \/ restarted)

\* close: it returns, unless stop joins a background loop that never hears of it.
CloseReturnsIfHeard == (closer # 0) ~> (Closing("returned") \/ []Unheard)

\* get_access: a caller that waits for somebody else's login is woken when it ends
\* (concurrent_access_triggers_single_login: "assert!(tokens.iter().all(|t| t ==
\* "token-1"))").  It is not: the Notified future is created after the lock.
EveryWaitEnds == \A c \in Callers : (call[c].pc = "waiting") ~> (call[c].pc # "waiting")
=============================================================================
