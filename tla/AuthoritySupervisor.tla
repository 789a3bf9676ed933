------------------------- MODULE AuthoritySupervisor -------------------------
(***************************************************************************)
(* The supervisor of a peer's Domain authority                             *)
(* (core/auki-sdk/src/authority.rs, AuthorityInner).  Updates replace the  *)
(* credential under update_lock; a pull driver renews it or an external    *)
(* host pushes it; readers take it for requests and, when a service        *)
(* rejects it, ask for a refresh under refresh_lock; anybody who looks     *)
(* marks it expired; stop and a terminal authentication failure end it.    *)
(* Statuses are sent on a watch channel after the state lock is released,  *)
(* except by fail_authentication.                                          *)
(*                                                                         *)
(* A credential is the moment it expires, which the DDS fixes by the       *)
(* moment it was issued, so a newer credential expires later.              *)
(***************************************************************************)
EXTENDS Naturals

CONSTANTS
    Hosts,       \* callers of ExternalAuthorityHandle::replace
    Readers,     \* callers of authorization_parts
    Refreshers,  \* callers of refresh_after_unauthorized
    MaxCred      \* bound on credentials, and on the clock

Credentials == 1..MaxCred
Revisions == 0..MaxCred
Driver == "driver"
Nobody == "nobody"
Updaters == Hosts \cup {Driver}

\* What the theorems ask of the constants
SupervisorConstants ==
    /\ Nobody \notin Hosts /\ Driver \notin Hosts /\ Nobody \notin Refreshers
    /\ MaxCred \in Nat \ {0}

VARIABLES
    mode,       \* AuthorityMode, fixed
    now,        \* the wall clock
    stopped,    \* AuthorityState.stopped
    cancelled,  \* the shutdown token
    current,    \* AuthorityState.current: revision, credential, available
    installed,  \* the credential the transport holds
    status,     \* the watch channel
    sending,    \* revisions whose Expired status is computed and not sent
    stopping,   \* Stopped is computed and not sent
    updateLock,
    refreshLock,
    update,     \* per updater: apply_update
    renewal,    \* the pull driver
    read,       \* per reader: authorization_parts
    refresh,    \* per refresher: refresh_after_unauthorized
    request     \* the pending refresh request or trigger (rejected revision)

stateVars == <<stopped, cancelled, current, installed>>
statusVars == <<status, sending, stopping>>
lockVars == <<updateLock, refreshLock>>
vars == <<mode, now, stateVars, statusVars, lockVars, update, renewal, read, refresh, request>>

Expired(c) == c <= now
IsStopped == stopped \/ cancelled
Idle == [pc |-> "idle", cred |-> 0]
Status(kind, revision) == [kind |-> kind, revision |-> revision]

\* The supervisor is returned to its caller with the first credential installed
Init ==
    /\ mode \in {"pull", "external"}
    /\ now = 0
    /\ stopped = FALSE /\ cancelled = FALSE
    /\ current = [revision |-> 1, cred |-> 1, available |-> TRUE]
    /\ installed = 1
    /\ status = Status("ready", 1)
    /\ sending = {} /\ stopping = FALSE
    /\ updateLock = Nobody /\ refreshLock = Nobody
    /\ update = [u \in Updaters |-> Idle]
    /\ renewal = IF mode = "pull" THEN "waiting" ELSE "done"
    /\ read = [r \in Readers |-> [pc |-> "idle", revision |-> 0, cred |-> 0]]
    /\ refresh = [f \in Refreshers |-> [pc |-> "idle", rejected |-> 0]]
    /\ request = 0

-----------------------------------------------------------------------------
(* apply_update *)

\* The driver goes back to its loop, or leaves it when the supervisor stopped
DriverAfter(u) ==
    renewal' = IF u # Driver THEN renewal ELSE IF IsStopped THEN "done" ELSE "waiting"

EndUpdate(u) ==
    /\ update' = [update EXCEPT ![u] = Idle]
    /\ updateLock' = Nobody
    /\ DriverAfter(u)

Replace(u, c) ==
    /\ update[u].pc = "idle"
    /\ update' = [update EXCEPT ![u] = [pc |-> "locking", cred |-> c]]
    /\ UNCHANGED <<mode, now, stateVars, statusVars, lockVars, read, refresh, request>>

\* ExternalAuthorityHandle::replace
HostReplaces(u, c) ==
    /\ mode = "external" /\ u \in Hosts
    /\ Replace(u, c)
    /\ UNCHANGED renewal

\* validate_update: not expired, and the same credential or a newer one
Valid(c) == ~Expired(c) /\ c >= current.cred

\* The update lock is obtained and the update validated
LockUpdate(u) ==
    /\ update[u].pc = "locking"
    /\ updateLock = Nobody
    /\ \/ /\ ~IsStopped /\ Valid(update[u].cred)
          /\ update' = [update EXCEPT ![u].pc = "keys"]
          /\ updateLock' = u
          /\ UNCHANGED renewal
       \/ EndUpdate(u)     \* stopped, refused here, or refused for its keys
    /\ UNCHANGED <<mode, now, stateVars, statusVars, refreshLock, read, refresh, request>>

\* install_verification_keys returns; an equal credential ends the update
InstallKeys(u) ==
    /\ update[u].pc = "keys"
    /\ \/ /\ ~IsStopped /\ update[u].cred # current.cred
          /\ update' = [update EXCEPT ![u].pc = "credential"]
          /\ UNCHANGED <<updateLock, renewal>>
       \/ EndUpdate(u)
    /\ UNCHANGED <<mode, now, stateVars, statusVars, refreshLock, read, refresh, request>>

\* install_credential: the transport takes the credential or refuses it
InstallCredential(u) ==
    /\ update[u].pc = "credential"
    /\ \/ /\ ~Expired(update[u].cred) /\ update[u].cred > installed
          /\ installed' = update[u].cred
          /\ update' = [update EXCEPT ![u].pc = "commit"]
          /\ UNCHANGED <<updateLock, renewal>>
       \/ EndUpdate(u) /\ UNCHANGED installed
    /\ UNCHANGED <<mode, now, stopped, cancelled, current, statusVars, refreshLock,
                   read, refresh, request>>

\* The state is replaced under its lock, unless the supervisor stopped
Commit(u) ==
    /\ update[u].pc = "commit"
    /\ IF IsStopped
         THEN EndUpdate(u) /\ UNCHANGED current
         ELSE /\ current' = [revision |-> current.revision + 1,
                             cred |-> update[u].cred, available |-> TRUE]
              /\ update' = [update EXCEPT ![u].pc = "send"]
              /\ UNCHANGED <<updateLock, renewal>>
    /\ UNCHANGED <<mode, now, stopped, cancelled, installed, statusVars, refreshLock,
                   read, refresh, request>>

\* Ready is sent once the state lock is released
SendReady(u) ==
    /\ update[u].pc = "send"
    /\ status' = Status("ready", current.revision)
    /\ update' = [update EXCEPT ![u].pc = "clear"]
    /\ UNCHANGED <<mode, now, stateVars, sending, stopping, lockVars, renewal,
                   read, refresh, request>>

\* An external request is withdrawn, and the update lock released
ClearRequest(u) ==
    /\ update[u].pc = "clear"
    /\ request' = IF mode = "external" THEN 0 ELSE request
    /\ EndUpdate(u)
    /\ UNCHANGED <<mode, now, stateVars, statusVars, refreshLock, read, refresh>>

\* The future is dropped while it waits: by the host, or with the driver's task
DropUpdate(u) ==
    /\ update[u].pc \in {"locking", "keys", "credential"}
    /\ u \in Hosts \/ stopped
    /\ update' = [update EXCEPT ![u] = Idle]
    /\ updateLock' = IF updateLock = u THEN Nobody ELSE updateLock
    /\ renewal' = IF u = Driver THEN "done" ELSE renewal
    /\ UNCHANGED <<mode, now, stateVars, statusVars, refreshLock, read, refresh, request>>

-----------------------------------------------------------------------------
(* run_pull_driver and renew_once *)

\* A timer or a trigger wakes the driver; a stopped supervisor ends it
DriverWakes ==
    /\ renewal = "waiting"
    /\ renewal' = IF IsStopped THEN "done" ELSE "renewing"
    /\ UNCHANGED <<mode, now, stateVars, statusVars, lockVars, update, read, refresh, request>>

\* The DDS answers with a credential, which is then applied
Renewed(c) ==
    /\ renewal = "renewing"
    /\ ~IsStopped /\ ~Expired(c)
    /\ renewal' = "applying"
    /\ Replace(Driver, c)

\* A retryable failure, the attempt's deadline, or the end of the supervisor
RenewalFails ==
    /\ renewal = "renewing"
    /\ renewal' = IF IsStopped THEN "done" ELSE "waiting"
    /\ UNCHANGED <<mode, now, stateVars, statusVars, lockVars, update, read, refresh, request>>

\* fail_authentication: the status is sent under the state lock
FailAuthentication ==
    /\ renewal = "renewing"
    /\ ~stopped
    /\ stopped' = TRUE /\ cancelled' = TRUE
    /\ current' = [current EXCEPT !.available = FALSE]
    /\ status' = Status("failed", 0)
    /\ renewal' = "done"
    /\ UNCHANGED <<mode, now, installed, sending, stopping, lockVars, update, read, refresh,
                   request>>

-----------------------------------------------------------------------------
(* Expiry and the end *)

Tick ==
    /\ now < MaxCred
    /\ now' = now + 1
    /\ UNCHANGED <<mode, stateVars, statusVars, lockVars, update, renewal, read, refresh, request>>

\* expire_if_due, called by everyone and by the expiry driver: the mark ...
ExpireIfDue ==
    /\ ~IsStopped
    /\ current.available /\ Expired(current.cred)
    /\ current' = [current EXCEPT !.available = FALSE]
    /\ sending' = sending \cup {current.revision}
    /\ UNCHANGED <<mode, now, stopped, cancelled, installed, status, stopping, lockVars,
                   update, renewal, read, refresh, request>>

\* ... and the status, after the lock is released
SendExpired ==
    /\ \E revision \in sending :
         /\ sending' = sending \ {revision}
         /\ status' = Status("expired", revision)
    /\ UNCHANGED <<mode, now, stateVars, stopping, lockVars, update, renewal, read, refresh,
                   request>>

\* The host cancels the parent token
HostCancels ==
    /\ ~cancelled
    /\ cancelled' = TRUE
    /\ UNCHANGED <<mode, now, stopped, current, installed, statusVars, lockVars, update,
                   renewal, read, refresh, request>>

\* stop: by the host, or by expire_if_due once the token is cancelled
Stop ==
    /\ ~stopped
    /\ stopped' = TRUE
    /\ current' = [current EXCEPT !.available = FALSE]
    /\ stopping' = TRUE
    /\ UNCHANGED <<mode, now, cancelled, installed, status, sending, lockVars, update,
                   renewal, read, refresh, request>>

SendStopped ==
    /\ stopping
    /\ stopping' = FALSE
    /\ status' = Status("stopped", 0)
    /\ cancelled' = TRUE
    /\ UNCHANGED <<mode, now, stopped, current, installed, sending, lockVars, update,
                   renewal, read, refresh, request>>

-----------------------------------------------------------------------------
(* authorization_parts *)

ReadHeader(r) ==
    /\ read[r].pc # "held"
    /\ ~stopped /\ current.available
    /\ read' = [read EXCEPT ![r] = [pc |-> "held", revision |-> current.revision,
                                    cred |-> current.cred]]
    /\ UNCHANGED <<mode, now, stateVars, statusVars, lockVars, update, renewal, refresh, request>>

\* The second look: still the current credential, and not expired
StillCurrent(r) ==
    /\ current.available
    /\ current.revision = read[r].revision
    /\ ~Expired(current.cred)

ReturnHeader(r) ==
    /\ read[r].pc = "held"
    /\ read' = [read EXCEPT ![r] = [pc |-> IF StillCurrent(r) THEN "ok" ELSE "idle",
                                    revision |-> 0, cred |-> 0]]
    /\ UNCHANGED <<mode, now, stateVars, statusVars, lockVars, update, renewal, refresh, request>>

-----------------------------------------------------------------------------
(* refresh_after_unauthorized *)

\* How a call stands once it returned: with a revision that was replaced, or an error
Ended(rejected, result) ==
    IF result = "ok" THEN [pc |-> "ok", rejected |-> rejected] ELSE [pc |-> "idle", rejected |-> 0]

FinishRefresh(f, result) ==
    /\ refresh' = [refresh EXCEPT ![f] = Ended(refresh[f].rejected, result)]
    /\ refreshLock' = IF refreshLock = f THEN Nobody ELSE refreshLock

\* refresh_deadline: what a look at the state says of the rejected revision
Look(rejected) ==
    IF stopped \/ ~current.available THEN "failed"
    ELSE IF current.revision > rejected THEN "ok"
    ELSE "proceed"

\* A service rejected a credential somebody had read
BeginRefresh(f, rejected) ==
    /\ refresh[f].pc \in {"idle", "ok"}
    /\ refresh' = [refresh EXCEPT ![f] =
          IF Look(rejected) = "proceed" THEN [pc |-> "first", rejected |-> rejected]
          ELSE Ended(rejected, Look(rejected))]
    /\ UNCHANGED <<mode, now, stateVars, statusVars, lockVars, update, renewal, read, request>>

\* The refresh lock is obtained; somebody may have refreshed meanwhile
TakeRefreshLock(f) ==
    /\ refresh[f].pc = "first"
    /\ refreshLock = Nobody
    /\ IF Look(refresh[f].rejected) = "proceed"
         THEN /\ refresh' = [refresh EXCEPT ![f].pc = "second"]
              /\ refreshLock' = f
         ELSE FinishRefresh(f, Look(refresh[f].rejected))
    /\ UNCHANGED <<mode, now, stateVars, statusVars, updateLock, update, renewal, read, request>>

\* Under the update lock, the request is sent and the lock released
SendRequest(f) ==
    /\ refresh[f].pc = "second"
    /\ updateLock = Nobody
    /\ IF Look(refresh[f].rejected) = "proceed"
         THEN /\ request' = refresh[f].rejected
              /\ refresh' = [refresh EXCEPT ![f].pc = "waiting"]
              /\ UNCHANGED refreshLock
         ELSE /\ FinishRefresh(f, Look(refresh[f].rejected))
              /\ UNCHANGED request
    /\ UNCHANGED <<mode, now, stateVars, statusVars, updateLock, update, renewal, read>>

\* Mutant: any Ready status ends the wait
RefreshedByAnyReady(f) == status.kind = "ready"

RefreshedBy(f) == status.kind = "ready" /\ status.revision > refresh[f].rejected

\* wait_for_revision
SeeStatus(f) ==
    /\ refresh[f].pc = "waiting"
    /\ \/ RefreshedBy(f) /\ FinishRefresh(f, "ok")
       \/ status.kind \in {"expired", "stopped", "failed"} /\ FinishRefresh(f, "failed")
       \/ cancelled /\ FinishRefresh(f, "failed")
    /\ UNCHANGED <<mode, now, stateVars, statusVars, updateLock, update, renewal, read, request>>

\* The deadline of the refresh passes, or its caller drops it
RefreshTimesOut(f) ==
    /\ refresh[f].pc \in {"first", "second", "waiting"}
    /\ FinishRefresh(f, "failed")
    /\ UNCHANGED <<mode, now, stateVars, statusVars, updateLock, update, renewal, read, request>>

-----------------------------------------------------------------------------
UpdateStep(u) ==
    LockUpdate(u) \/ InstallKeys(u) \/ InstallCredential(u) \/ Commit(u) \/ SendReady(u)
    \/ ClearRequest(u)

Next ==
    \/ \E u \in Updaters : UpdateStep(u) \/ DropUpdate(u)
    \/ \E u \in Hosts, c \in Credentials : HostReplaces(u, c)
    \/ \E c \in Credentials : Renewed(c)
    \/ DriverWakes \/ RenewalFails \/ FailAuthentication
    \/ Tick \/ ExpireIfDue \/ SendExpired \/ HostCancels \/ Stop \/ SendStopped
    \/ \E r \in Readers : ReadHeader(r) \/ ReturnHeader(r)
    \/ \E f \in Refreshers : \E rejected \in 1..current.revision : BeginRefresh(f, rejected)
    \/ \E f \in Refreshers :
         TakeRefreshLock(f) \/ SendRequest(f) \/ SeeStatus(f) \/ RefreshTimesOut(f)

Spec == Init /\ [][Next]_vars

\* Tasks are polled, timers fire, attempts end at their deadline, and the lock
\* is handed out in the order it was asked for; nothing is assumed of the host,
\* the services or the DDS.
Fairness ==
    /\ \A u \in Updaters : WF_vars(UpdateStep(u)) /\ SF_vars(LockUpdate(u))
    /\ WF_vars(RenewalFails)
    /\ WF_vars(IsStopped /\ DriverWakes)
    /\ WF_vars(ExpireIfDue) /\ WF_vars(cancelled /\ Stop)
    /\ \A f \in Refreshers : WF_vars(RefreshTimesOut(f))

FairSpec == Spec /\ Fairness

-----------------------------------------------------------------------------
(* Properties *)

Statuses == {Status("ready", n) : n \in 1..MaxCred} \cup {Status("expired", n) : n \in 1..MaxCred}
            \cup {Status("stopped", 0), Status("failed", 0)}

TypeOK ==
    /\ now \in 0..MaxCred
    /\ current \in [revision : 1..MaxCred, cred : Credentials, available : BOOLEAN]
    /\ installed \in Credentials
    /\ status \in Statuses /\ sending \subseteq Revisions
    /\ updateLock \in Updaters \cup {Nobody} /\ refreshLock \in Refreshers \cup {Nobody}
    /\ \A u \in Updaters : update[u].cred \in 0..MaxCred
    /\ request \in Revisions

\* A refresh that reports success was followed by a newer revision, whichever
\* of the three looks at the state or the status ended it (authority.rs,
\* refresh_after_unauthorized).
RefreshedMeansReplaced ==
    \A f \in Refreshers : refresh[f].pc = "ok" => current.revision > refresh[f].rejected

\* Between updates, the transport signs in with the credential the supervisor
\* hands to services, whatever was refused, dropped or timed out before.
TransportAgrees ==
    ~stopped /\ ~cancelled /\ (\A u \in Updaters : update[u].pc # "commit")
        => installed = current.cred

\* A reader is never given a credential that was replaced, had expired or
\* belonged to a stopped supervisor when it was returned.
AuthorizationIsCurrent ==
    [][\A r \in Readers :
         read[r].pc = "held" /\ read'[r].pc = "ok" =>
             ~stopped /\ ~Expired(read[r].cred) /\ read[r].cred = current.cred]_vars

\* The credential that expired is withdrawn, with nobody reading it.
ExpiryIsNoticed ==
    current.available /\ Expired(current.cred) ~> ~current.available \/ ~Expired(current.cred)

\* Every refresh returns, and lets the next one in.
RefreshReturns ==
    \A f \in Refreshers :
        refresh[f].pc \in {"first", "second", "waiting"} ~> refresh[f].pc \in {"ok", "idle"}

\* A stop ends the driver, and every update ends: shutdown awaits both.
ShutdownReturns ==
    /\ stopped ~> renewal = "done"
    /\ \A u \in Updaters : update[u].pc # "idle" ~> update[u].pc = "idle"
=============================================================================
