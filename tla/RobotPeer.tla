------------------------------ MODULE RobotPeer ------------------------------
(***************************************************************************)
(* A robot's own peer, which outlives its tasks                            *)
(* (core/auki-tasks/src/robot_peer.rs).  One driver task starts the peer   *)
(* in the assigned Domain, renews its grant while it runs and stops it;    *)
(* callers of start wait for the driver's answer, close awaits its end.    *)
(* A grant is the moment it expires.                                       *)
(***************************************************************************)
EXTENDS Naturals

CONSTANTS
    Waiters,   \* callers of RobotPeer::start
    MaxGrant   \* bound on grants, and on the clock

Grants == 1..MaxGrant

\* What the theorems ask of the constants
RobotConstants == MaxGrant \in Nat

VARIABLES
    now,           \* the wall clock
    closed,        \* State.closed
    hostClosed,    \* the host asked for it: close, Drop or the runtime's token
    failure,       \* State.failure
    ready,         \* State.ready
    cleanupFailed, \* State.cleanup_failed
    driver,        \* where drive is
    result,        \* what drive's inner block returned
    grant,         \* the driver's grant
    peer,          \* the peer: none, up, fenced or leaked, and its grant
    stopped,       \* the peer stopped by itself
    rejected,      \* AukiRobotCredential::failed
    waiter,        \* per caller of start
    closing        \* close

stateVars == <<closed, hostClosed, failure, ready, cleanupFailed>>
driverVars == <<driver, result, grant>>
vars == <<now, stateVars, driverVars, peer, stopped, rejected, waiter, closing>>

Expired(g) == g <= now
NoPeer == [state |-> "none", grant |-> 0]

Init ==
    /\ now = 0
    /\ closed = FALSE /\ hostClosed = FALSE
    /\ failure = "none" /\ ready = "none" /\ cleanupFailed = FALSE
    /\ driver = "none" /\ result = "none" /\ grant = 0
    /\ peer = NoPeer /\ stopped = FALSE /\ rejected = FALSE
    /\ waiter = [w \in Waiters |-> "idle"]
    /\ closing = "no"

-----------------------------------------------------------------------------
(* start *)

\* Under the driver's mutex: a closed peer refuses, the first caller spawns.
\* The mutex is held by a close that awaits the driver.
Start(w) ==
    /\ waiter[w] = "idle"
    /\ closing # "awaiting"
    /\ IF closed
         THEN /\ waiter' = [waiter EXCEPT ![w] = IF failure = "none" THEN "closed" ELSE "failed"]
              /\ UNCHANGED driver
         ELSE /\ waiter' = [waiter EXCEPT ![w] = "waiting"]
              /\ driver' = IF driver = "none" THEN "domain" ELSE driver
    /\ UNCHANGED <<now, stateVars, result, grant, peer, stopped, rejected, closing>>

\* The driver's answer, the caller's own cancellation or the end of the peer
StartReturns(w) ==
    /\ waiter[w] = "waiting"
    /\ waiter' = [waiter EXCEPT ![w] =
          IF ready # "none" THEN (IF ready = "ok" THEN "ok" ELSE "failed")
          ELSE IF failure = "none" THEN "closed" ELSE "failed"]
    /\ ready # "none" \/ closed
    /\ UNCHANGED <<now, stateVars, driverVars, peer, stopped, rejected, closing>>

StartCancelled(w) ==
    /\ waiter[w] = "waiting"
    /\ waiter' = [waiter EXCEPT ![w] = "cancelled"]
    /\ UNCHANGED <<now, stateVars, driverVars, peer, stopped, rejected, closing>>

-----------------------------------------------------------------------------
(* drive: starting the peer *)

\* The inner block of drive returns
Leave(outcome) == driver' = "leaving" /\ result' = outcome

\* assigned_domain_id: a Domain, none, or an error
ResolveDomain ==
    /\ driver = "domain"
    /\ \/ driver' = "grant" /\ UNCHANGED <<result, ready>>
       \/ Leave("ok") /\ ready' = "ok"
       \/ Leave("error") /\ UNCHANGED ready
    /\ UNCHANGED <<now, closed, hostClosed, failure, cleanupFailed, grant, peer, stopped,
                   rejected, waiter, closing>>

\* The first peer_grant; the host's close is looked at first
FirstGrant ==
    /\ driver = "grant"
    /\ \/ /\ ~closed /\ ~rejected
          /\ \E g \in Grants : ~Expired(g) /\ grant' = g
          /\ driver' = "starting" /\ UNCHANGED result
       \/ Leave("error") /\ UNCHANGED grant
    /\ UNCHANGED <<now, stateVars, peer, stopped, rejected, waiter, closing>>

\* TaskPeerFactory::start: the peer is up, startup failed and was rolled back,
\* or the rollback failed too
StartPeer ==
    /\ driver = "starting"
    /\ \/ /\ peer' = [state |-> "up", grant |-> grant]
          /\ IF closed THEN Leave("error") /\ UNCHANGED ready
             ELSE /\ driver' = "loop" /\ ready' = "ok" /\ UNCHANGED result
       \/ Leave("error") /\ UNCHANGED <<peer, ready>>
       \/ Leave("cleanup") /\ peer' = [state |-> "leaked", grant |-> 0] /\ UNCHANGED ready
    /\ UNCHANGED <<now, closed, hostClosed, failure, cleanupFailed, grant, stopped, rejected,
                   waiter, closing>>

-----------------------------------------------------------------------------
(* drive: renewing *)

\* The top of the loop and its select: an expired grant, the close and a peer
\* that stopped end it; a refresh request or the timer starts a renewal
LoopTop ==
    /\ driver = "loop"
    /\ \/ Expired(grant) /\ Leave("error")
       \/ ~Expired(grant) /\ closed /\ Leave("ok")
       \/ ~Expired(grant) /\ stopped /\ Leave("error")
       \/ ~Expired(grant) /\ ~closed /\ ~stopped /\ driver' = "exchange" /\ UNCHANGED result
    /\ UNCHANGED <<now, stateVars, grant, peer, stopped, rejected, waiter, closing>>

\* Mutant: a renewal that times out is retried whatever the grant
RetriesAlways(retryable) == TRUE

\* What a failed or late renewal leads to
Retries(retryable) == ~rejected /\ ~Expired(grant) /\ retryable

RenewalEnds(retryable) ==
    /\ IF closed THEN Leave("ok")
       ELSE IF Retries(retryable) THEN driver' = "loop" /\ UNCHANGED result
       ELSE Leave("error")
    /\ UNCHANGED grant

\* peer_grant inside the renewal: a grant for the peer, an error or the timeout
Exchange ==
    /\ driver = "exchange"
    /\ \/ /\ ~rejected
          /\ \E g \in Grants : ~Expired(g) /\ peer' = [peer EXCEPT !.grant = g]
          /\ driver' = "adopt" /\ UNCHANGED <<result, grant>>
       \/ \E retryable \in BOOLEAN : RenewalEnds(retryable) /\ UNCHANGED peer
    /\ UNCHANGED <<now, stateVars, stopped, rejected, waiter, closing>>

\* The driver takes the renewed grant, or gives up after the peer took it
Adopt ==
    /\ driver = "adopt"
    /\ \/ ~closed /\ grant' = peer.grant /\ driver' = "loop" /\ UNCHANGED result
       \/ RenewalEnds(TRUE)
    /\ UNCHANGED <<now, stateVars, peer, stopped, rejected, waiter, closing>>

-----------------------------------------------------------------------------
(* drive: the end *)

\* The failure is stored before the token is cancelled
StoreFailure ==
    /\ driver = "leaving"
    /\ cleanupFailed' = (cleanupFailed \/ result = "cleanup")
    /\ failure' = IF result # "ok" /\ (~closed \/ result = "cleanup") THEN result ELSE failure
    /\ driver' = "publishing"
    /\ UNCHANGED <<now, closed, hostClosed, ready, result, grant, peer, stopped, rejected,
                   waiter, closing>>

\* Then everybody waiting is told, and the peer is fenced
Publish ==
    /\ driver = "publishing"
    /\ closed' = (closed \/ failure # "none")
    /\ ready' = IF ready # "none" THEN ready ELSE result
    /\ driver' = "shutdown"
    /\ peer' = IF peer.state = "up" THEN [peer EXCEPT !.state = "fenced"] ELSE peer
    /\ UNCHANGED <<now, hostClosed, failure, cleanupFailed, result, grant, stopped, rejected,
                   waiter, closing>>

\* The peer is shut down; a failure is recorded for close
ShutdownPeer ==
    /\ driver = "shutdown"
    /\ \/ /\ peer.state = "fenced"
          /\ peer' = [state |-> "leaked", grant |-> 0]
          /\ cleanupFailed' = TRUE
       \/ /\ peer' = IF peer.state = "fenced" THEN NoPeer ELSE peer
          /\ UNCHANGED cleanupFailed
    /\ driver' = "done"
    /\ UNCHANGED <<now, closed, hostClosed, failure, ready, result, grant, stopped, rejected,
                   waiter, closing>>

-----------------------------------------------------------------------------
(* The host, the peer and time *)

\* close: the token, then the driver's mutex
Close ==
    /\ closing # "awaiting"
    /\ closed' = TRUE /\ hostClosed' = TRUE
    /\ closing' = "awaiting"
    /\ UNCHANGED <<now, failure, ready, cleanupFailed, driverVars, peer, stopped, rejected, waiter>>

\* close returns when the driver has ended; its future may also be dropped
CloseReturns ==
    /\ closing = "awaiting"
    /\ driver \in {"none", "done"}
    /\ closing' = IF cleanupFailed THEN "failed" ELSE "ok"
    /\ UNCHANGED <<now, stateVars, driverVars, peer, stopped, rejected, waiter>>

CloseDropped ==
    /\ closing = "awaiting"
    /\ closing' = "no"
    /\ UNCHANGED <<now, stateVars, driverVars, peer, stopped, rejected, waiter>>

\* Drop, or the runtime's own token
Dropped ==
    /\ ~closed
    /\ closed' = TRUE /\ hostClosed' = TRUE
    /\ UNCHANGED <<now, failure, ready, cleanupFailed, driverVars, peer, stopped, rejected,
                   waiter, closing>>

PeerStops ==
    /\ peer.state = "up" /\ ~stopped
    /\ stopped' = TRUE
    /\ UNCHANGED <<now, stateVars, driverVars, peer, rejected, waiter, closing>>

CredentialRejected ==
    /\ ~rejected
    /\ rejected' = TRUE
    /\ UNCHANGED <<now, stateVars, driverVars, peer, stopped, waiter, closing>>

Tick ==
    /\ now < MaxGrant
    /\ now' = now + 1
    /\ UNCHANGED <<stateVars, driverVars, peer, stopped, rejected, waiter, closing>>

Drive ==
    ResolveDomain \/ FirstGrant \/ StartPeer \/ LoopTop \/ Exchange \/ Adopt
    \/ StoreFailure \/ Publish \/ ShutdownPeer

Next ==
    \/ \E w \in Waiters : Start(w) \/ StartReturns(w) \/ StartCancelled(w)
    \/ Drive
    \/ Close \/ CloseReturns \/ CloseDropped \/ Dropped
    \/ PeerStops \/ CredentialRejected \/ Tick

Spec == Init /\ [][Next]_vars

\* The driver and the callers are polled: every await of the driver is bounded
\* by a timer, the factory's startup limit or the token
Fairness ==
    /\ WF_vars(Drive)
    /\ \A w \in Waiters : WF_vars(StartReturns(w))
    /\ WF_vars(CloseReturns)

FairSpec == Spec /\ Fairness

-----------------------------------------------------------------------------
(* Properties *)

TypeOK ==
    /\ now \in 0..MaxGrant
    /\ failure \in {"none", "error", "cleanup"} /\ ready \in {"none", "ok", "error", "cleanup"}
    /\ driver \in {"none", "domain", "grant", "starting", "loop", "exchange", "adopt",
                   "leaving", "publishing", "shutdown", "done"}
    /\ peer \in [state : {"none", "up", "fenced", "leaked"}, grant : 0..MaxGrant]
    /\ waiter \in [Waiters -> {"idle", "waiting", "ok", "closed", "failed", "cancelled"}]
    /\ closing \in {"no", "awaiting", "ok", "failed"}

\* close says Ok only when no peer is left, however the driver ended and
\* whether or not an earlier close was dropped half way (robot_peer.rs, close).
CloseIsHonest ==
    closing \in {"ok", "failed"} =>
        /\ peer.state \notin {"up", "fenced"}
        /\ (closing = "ok") = (peer.state = "none")

\* A caller of start is told "closed" only when the host closed the peer: a
\* failure of the driver reaches everybody as that failure.
FailureReachesWaiters ==
    \A w \in Waiters : waiter[w] = "closed" => hostClosed

\* A peer whose grant expired, whose credential was rejected for good or whose
\* transport stopped does not stay up.
LostPeerGoes ==
    /\ (driver = "loop" /\ Expired(grant)) ~> (peer.state # "up" \/ ~Expired(grant))
    /\ (peer.state = "up" /\ (stopped \/ rejected)) ~> (peer.state # "up")

\* Once closed, the driver ends and close can return.
ClosedEnds == (closed /\ driver # "none") ~> (driver = "done")
=============================================================================
