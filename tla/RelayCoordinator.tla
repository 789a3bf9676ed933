-------------------------- MODULE RelayCoordinator --------------------------
(***************************************************************************)
(* The relay booking coordinator (core/auki-sdk/src/relay/coordinator.rs): *)
(* one actor that keeps a relay reservation and a published route for      *)
(* every ready slot of a DMS booking.  The actor spawns a reservation      *)
(* worker per slot and a cleanup task per retired slot; they report back   *)
(* through one event channel, and the relay transport reports the loss of  *)
(* a reservation through a broadcast that can overtake that channel.       *)
(*                                                                         *)
(* A fence is <<slot, generation>>: the generation is fresh for every      *)
(* attempt, and the record of the attempt keeps the assignment epoch.  An  *)
(* assignment id and its reservation epoch are one number here, `epoch'.   *)
(* The DMS, the relay transport and time are the environment.              *)
(***************************************************************************)
EXTENDS Naturals, Sequences, FiniteSets

CONSTANTS
    Slots,           \* slots of the booking
    Relays,          \* relay providers
    MaxEpoch,        \* bound on DMS assignments per slot
    MaxGen,          \* bound on local attempts (workers) per slot
    MaxHandle,       \* bound on transport reservations
    Disturbances,    \* what the environment does in a run, see below
    CallsTimeOut,    \* cancelling a reservation or joining a worker may fail
    StartRollsBack   \* dropping backend.start never loses a minted handle:
                     \* what RelayReservationBackend::start demands

ASSUME BoundsAreNaturals ==
    MaxEpoch \in Nat /\ MaxGen \in Nat /\ MaxHandle \in Nat

ASSUME SwitchesAreBoolean == CallsTimeOut \in BOOLEAN /\ StartRollsBack \in BOOLEAN

ASSUME DisturbancesAreKinds ==
    Disturbances \subseteq {"reassign",  \* the DMS moves a slot on its own
                            "ready",     \* a slot gets its relay later
                            "lapse",     \* an authorization runs out
                            "end",       \* the booking ends
                            "fail",      \* the actor's loop fails
                            "force"}     \* the owner does not wait for a stop

Gens == 1..MaxGen
Handles == 1..MaxHandle
Fences == Slots \X Gens
NoHandle == 0
NoSlot == "none"

VARIABLES
    dms,        \* slot assignments held by the DMS
    booked,     \* the booking is active at the DMS
    res,        \* reservations of the relay transport
    notices,    \* failure broadcasts about a handle not received yet
    snap,       \* self.snapshot
    lapsed,     \* slots whose authorized_until, by self.snapshot, has passed
    slot,       \* self.slots
    retiring,   \* self.retiring, with the state of the cleanup task
    gens,       \* generations used per slot
    worker,     \* the reservation workers
    chan,       \* the child event channel
    chanOpen,   \* event_rx is not closed
    timers,     \* delayed RetryFailure tasks
    pending,    \* self.pending_relay_failures
    detached,   \* handles of self.detached_cleanups
    routes,     \* fences whose route is in the catalog
    regClosed,  \* the FencedRouteCatalog is permanently fenced
    forcing,    \* fence_all done, force_shutdown about to be cancelled
    phase,      \* where the actor is
    blocked,    \* slot whose cleanup the actor awaits inside a handler
    exit,       \* why it left its loop
    failed      \* a cleanup of the final drain failed

dmsVars == <<dms, booked>>
transportVars == <<res, notices>>
localVars == <<slot, retiring, gens, worker, routes>>
actorVars == <<snap, lapsed, pending, detached>>
queueVars == <<chan, chanOpen, timers>>
endVars == <<regClosed, forcing, phase, blocked, exit, failed>>
vars == <<dmsVars, transportVars, localVars, actorVars, queueVars, endVars>>

Vacant == [gen |-> 0, epoch |-> 0, relay |-> "none", state |-> "vacant",
           handle |-> NoHandle, worker |-> FALSE]

NotRetiring == [gen |-> 0, epoch |-> 0, relay |-> "none", action |-> "none",
                join |-> FALSE, todo |-> {}, err |-> FALSE, done |-> FALSE,
                polled |-> FALSE]

NoWorker == [pc |-> "off", relay |-> "none", h |-> NoHandle, err |-> FALSE,
             cancelled |-> FALSE]

Retiring(s) == retiring[s].gen # 0

Event(kind, f, h) == [kind |-> kind, fence |-> f, h |-> h]

\* mpsc send: the receiver may have been closed
Sent(e) == IF chanOpen THEN Append(chan, e) ELSE chan

-----------------------------------------------------------------------------
(* The actor's own state, as one record that the handlers transform *)

Local == [slot |-> slot, retiring |-> retiring, gens |-> gens,
          worker |-> worker, routes |-> routes]

SetLocal(l) ==
    /\ slot' = l.slot
    /\ retiring' = l.retiring
    /\ gens' = l.gens
    /\ worker' = l.worker
    /\ routes' = l.routes

\* Mutant: an absent handle is cancelled like a handle
HandleSetUnchecked(h) == {h}

HandleSet(h) == IF h = NoHandle THEN {} ELSE {h}

Tombstoned(rs, going) == rs \ going

\* Mutant: the slot is looked up, not removed
RemovedNone(sl, ss) == sl

Removed(sl, ss) == [s \in Slots |-> IF s \in ss THEN Vacant ELSE sl[s]]

\* begin_retirement: the route is tombstoned first, then the slot moves to
\* `retiring', its worker is cancelled and its cleanup task starts
RetireSlots(l, ss, action) ==
    LET fence(s) == <<s, l.slot[s].gen>>
        going == {fence(s) : s \in ss}
    IN [l EXCEPT
          !.routes = Tombstoned(@, going),
          !.slot = Removed(@, ss),
          !.worker = [f \in Fences |->
                        IF f \in going THEN [@[f] EXCEPT !.cancelled = TRUE]
                                       ELSE @[f]],
          !.retiring = [s \in Slots |->
              IF s \notin ss THEN @[s]
              ELSE [gen |-> l.slot[s].gen, epoch |-> l.slot[s].epoch,
                    relay |-> l.slot[s].relay, action |-> action[s],
                    join |-> l.slot[s].worker,
                    todo |-> HandleSet(l.slot[s].handle),
                    err |-> FALSE, done |-> FALSE, polled |-> FALSE]]]

Retire(l, s, what) == RetireSlots(l, {s}, [t \in {s} |-> what])

\* A slot the snapshot no longer assigns this way
Stale(l, sn, s) ==
    /\ l.slot[s].state # "vacant"
    /\ ~sn[s].ready \/ sn[s].epoch # l.slot[s].epoch

\* refresh_authority of a confirmed slot answers false once fenced
RefreshRefused(l, s) == regClosed /\ l.slot[s].state = "confirmed"

\* apply_current_snapshot
Leaving(l, sn, lp) ==
    {s \in Slots : /\ l.slot[s].state # "vacant"
                   /\ Stale(l, sn, s) \/ s \in lp \/ RefreshRefused(l, s)}

Reconciled(l, sn, lp) ==
    RetireSlots(l, Leaving(l, sn, lp),
                [s \in Slots |-> IF ~Stale(l, sn, s) /\ s \in lp
                                THEN "remove" ELSE "reconcile"])

Entering(l, sn, lp) ==
    {s \in Slots : /\ l.slot[s].state = "vacant"
                   /\ l.retiring[s].gen = 0
                   /\ sn[s].ready
                   /\ s \notin lp
                   /\ l.gens[s] < MaxGen}

StartWorkers(l, sn, ss) ==
    [l EXCEPT
       !.gens = [s \in Slots |-> IF s \in ss THEN @[s] + 1 ELSE @[s]],
       !.slot = [s \in Slots |->
           IF s \in ss
           THEN [gen |-> l.gens[s] + 1, epoch |-> sn[s].epoch,
                 relay |-> sn[s].relay, state |-> "reserving",
                 handle |-> NoHandle, worker |-> TRUE]
           ELSE @[s]],
       !.worker = [f \in Fences |->
           IF f[1] \in ss /\ f[2] = l.gens[f[1]] + 1
           THEN [NoWorker EXCEPT !.pc = "dial", !.relay = sn[f[1]].relay]
           ELSE @[f]]]

ApplySnapshot(l, sn, lp) ==
    LET kept == Reconciled(l, sn, lp)
    IN StartWorkers(kept, sn, Entering(kept, sn, lp))

\* snapshot_has_fence, is_current, is_reserving
SnapshotHas(sn, s, epoch) == sn[s].epoch = epoch
IsCurrent(f) ==
    slot[f[1]].gen = f[2] /\ SnapshotHas(snap, f[1], slot[f[1]].epoch)
IsReserving(f) == IsCurrent(f) /\ slot[f[1]].state = "reserving"

\* Every way out of the loop closes the event channel, retires every slot and
\* turns every retirement into a removal.  force_fence also closes the registry
\* at once; stop and fence_control_plane leave that to the end.  Nobody reads
\* broadcasts, evidence about them or deadlines any more
Drain(l, why) ==
    LET all == RetireSlots(l, {s \in Slots : l.slot[s].state # "vacant"},
                           [s \in Slots |-> "remove"])
    IN /\ SetLocal([all EXCEPT !.retiring =
                      [s \in Slots |-> IF @[s].gen = 0 THEN @[s]
                                       ELSE [@[s] EXCEPT !.action = "remove"]]])
       /\ chan' = <<>>
       /\ chanOpen' = FALSE
       /\ timers' = {}
       /\ regClosed' = (regClosed \/ why \in {"failed", "forced"})
       /\ forcing' = (forcing /\ why # "forced")
       /\ phase' = "draining"
       /\ blocked' = NoSlot
       /\ exit' = why
       /\ failed' = FALSE
       /\ notices' = {}
       /\ pending' = {}
       /\ lapsed' = {}

-----------------------------------------------------------------------------
(* The relay transport *)

Up(h) == res[h].state \in {"pending", "publishable"}

Broadcast(h) ==
    notices' = IF phase \in {"running", "awaiting"} THEN notices \cup {h} ELSE notices

\* Unpublished or ConfirmationRejected is broadcast as teardown starts
TearDown(h) ==
    /\ res' = [res EXCEPT ![h].state = "canceling"]
    /\ Broadcast(h)

TransportConfirms(h) ==
    /\ res[h].state = "pending"
    /\ res' = [res EXCEPT ![h].state = "publishable"]
    /\ UNCHANGED <<dmsVars, notices, localVars, actorVars, queueVars, endVars>>

TransportLoses(h) ==
    /\ Up(h)
    /\ TearDown(h)
    /\ UNCHANGED <<dmsVars, localVars, actorVars, queueVars, endVars>>

\* The request was dispatched, but the caller of start no longer takes the reply
DispatchUnclaimed(h) ==
    /\ res[h].state = "dispatching"
    /\ \A f \in Fences : worker[f].h # h
    /\ TearDown(h)
    /\ UNCHANGED <<dmsVars, localVars, actorVars, queueVars, endVars>>

\* Listener and connections are closed: Canceled is broadcast
TransportReleases(h) ==
    /\ res[h].state = "canceling"
    /\ res' = [res EXCEPT ![h].state = "gone"]
    /\ Broadcast(h)
    /\ UNCHANGED <<dmsVars, localVars, actorVars, queueVars, endVars>>

\* cancel_reservation_with_timeout: ask for teardown, then wait for its end
CancelBegins(h) == Up(h) /\ TearDown(h)
CancelEnds(h) == res[h].state = "gone" /\ UNCHANGED transportVars
CancelFails == CallsTimeOut /\ UNCHANGED res

-----------------------------------------------------------------------------
(* The reservation worker of one fence *)

Moved(f, pc) == worker' = [worker EXCEPT ![f].pc = pc]

WorkerFrame == UNCHANGED <<dmsVars, slot, retiring, gens, routes, actorVars,
                           chanOpen, timers, endVars>>

\* backend.start: the transport mints a handle unless the relay has one
Mint(f, h) ==
    /\ worker[f].pc = "dial"
    /\ res[h].state = "free"
    /\ \A g \in Handles : g < h => res[g].state # "free"
    /\ \A g \in Handles : res[g].relay = worker[f].relay
                            => res[g].state \in {"free", "gone"}
    /\ res' = [res EXCEPT ![h] = [state |-> "dispatching", relay |-> worker[f].relay]]
    /\ worker' = [worker EXCEPT ![f].pc = "minted", ![f].h = h]
    /\ UNCHANGED <<notices, chan>>
    /\ WorkerFrame

\* ReservationDispatched: the reply to backend.start is in the oneshot ...
Answer(f) ==
    /\ worker[f].pc = "minted"
    /\ res' = [res EXCEPT ![worker[f].h].state = "pending"]
    /\ Moved(f, "answered")
    /\ UNCHANGED <<notices, chan>>
    /\ WorkerFrame

\* ... and the attempt task has taken it out
AttemptEnds(f) ==
    /\ worker[f].pc = "answered"
    /\ Moved(f, "started")
    /\ UNCHANGED <<transportVars, chan>>
    /\ WorkerFrame

\* ReservationDispatchFailed, or a connection lost before the reply
AttemptFails(f) ==
    /\ worker[f].pc = "minted"
    /\ worker' = [worker EXCEPT ![f].pc = "dial", ![f].h = NoHandle]
    /\ TearDown(worker[f].h)
    /\ UNCHANGED chan
    /\ WorkerFrame

\* finish_reservation_worker: report Failed; if nobody listens, cancel here
Finish(f, h) ==
    /\ worker' = [worker EXCEPT
                    ![f].pc = IF ~chanOpen /\ h # NoHandle THEN "release" ELSE "done",
                    ![f].h = h]
    /\ chan' = Sent(Event("Failed", f, h))

ReportStarted(f) ==
    /\ worker[f].pc = "started"
    /\ Moved(f, IF chanOpen THEN "waiting" ELSE "release")
    /\ chan' = Sent(Event("Started", f, worker[f].h))
    /\ UNCHANGED transportVars
    /\ WorkerFrame

\* backend.wait answered Ok; the reservation may be lost again before Confirmed
\* is in the channel
WaitSucceeds(f) ==
    /\ worker[f].pc = "waiting"
    /\ res[worker[f].h].state = "publishable"
    /\ Moved(f, "confirmed")
    /\ UNCHANGED <<transportVars, chan>>
    /\ WorkerFrame

ReportConfirmed(f) ==
    /\ worker[f].pc = "confirmed"
    /\ Moved(f, IF chanOpen THEN "done" ELSE "release")
    /\ chan' = Sent(Event("Confirmed", f, worker[f].h))
    /\ UNCHANGED transportVars
    /\ WorkerFrame

\* The wait timed out, or failed in a way that is not retried
WaitEnds(f) ==
    /\ worker[f].pc = "waiting"
    /\ Finish(f, worker[f].h)
    /\ UNCHANGED transportVars
    /\ WorkerFrame

\* The wait failed in a retryable way: the worker cancels the handle itself
WaitRetries(f) ==
    /\ worker[f].pc = "waiting"
    /\ ~Up(worker[f].h)
    /\ Moved(f, "retry")
    /\ UNCHANGED <<transportVars, chan>>
    /\ WorkerFrame

RetryBegins(f) ==
    /\ worker[f].pc = "retry"
    /\ \/ /\ CancelEnds(worker[f].h)
          /\ worker' = [worker EXCEPT ![f].pc = IF chanOpen THEN "dial" ELSE "done",
                                      ![f].h = NoHandle]
          /\ chan' = Sent(Event("Retrying", f, worker[f].h))
       \/ /\ CancelFails /\ UNCHANGED notices
          /\ Finish(f, worker[f].h)
    /\ WorkerFrame

\* The event channel was closed: the worker releases its own handle
Release(f) ==
    /\ worker[f].pc = "release"
    /\ \/ CancelBegins(worker[f].h) /\ UNCHANGED worker
       \/ /\ CancelEnds(worker[f].h)
          /\ worker' = [worker EXCEPT ![f].pc = "done", ![f].h = NoHandle]
       \/ /\ CancelFails /\ UNCHANGED notices
          /\ worker' = [worker EXCEPT ![f].pc = "done", ![f].h = NoHandle,
                                      ![f].err = TRUE]
    /\ UNCHANGED chan
    /\ WorkerFrame

\* abort_reservation_start: a finished attempt yields its handle; a pending one
\* is dropped, and the node will find that nobody takes its reply.  A reply
\* already in the oneshot is dropped with it, unless start rolls back
Kept(f) == IF worker[f].pc \in {"started", "waiting"} THEN worker[f].h ELSE NoHandle

AbortAttempt(f) ==
    IF worker[f].pc = "answered" /\ StartRollsBack /\ Up(worker[f].h)
    THEN TearDown(worker[f].h)
    ELSE UNCHANGED transportVars

\* The slot was retired while the attempt or the wait was pending
Abandon(f) ==
    /\ worker[f].cancelled
    /\ worker[f].pc \in {"dial", "minted", "answered", "started", "waiting"}
    /\ worker' = [worker EXCEPT ![f].pc = "done", ![f].h = Kept(f)]
    /\ AbortAttempt(f)
    /\ UNCHANGED chan
    /\ WorkerFrame

\* The retry budget is spent, or the dial failed for good
GiveUp(f) ==
    /\ worker[f].pc \in {"dial", "minted", "answered", "started"}
    /\ Finish(f, Kept(f))
    /\ AbortAttempt(f)
    /\ WorkerFrame

WorkerNext(f) ==
    \/ \E h \in Handles : Mint(f, h)
    \/ Answer(f) \/ AttemptEnds(f) \/ AttemptFails(f) \/ GiveUp(f)
    \/ ReportStarted(f) \/ WaitSucceeds(f) \/ ReportConfirmed(f)
    \/ WaitEnds(f) \/ WaitRetries(f) \/ RetryBegins(f) \/ Release(f) \/ Abandon(f)

-----------------------------------------------------------------------------
(* The cleanup task of a retired slot, and the detached cleanups *)

CleanupFrame == UNCHANGED <<dmsVars, slot, gens, routes, actorVars, chanOpen,
                            timers, endVars>>

\* Mutant: the handle a worker returns is dropped
ReturnedNone(f) == {}

Returned(f) == HandleSet(worker[f].h)

\* The worker returned: cancel the handle it still owned as well
CleanupJoins(s) ==
    LET f == <<s, retiring[s].gen>>
    IN /\ Retiring(s) /\ retiring[s].join
       /\ worker[f].pc = "done"
       /\ retiring' = [retiring EXCEPT
                         ![s].join = FALSE,
                         ![s].todo = @ \cup Returned(f),
                         ![s].err = worker[f].err]
       /\ worker' = [worker EXCEPT ![f] = NoWorker]
       /\ UNCHANGED <<transportVars, chan>>
       /\ CleanupFrame

\* The worker did not return in time and is aborted with what it owned
CleanupAborts(s) ==
    LET f == <<s, retiring[s].gen>>
    IN /\ CallsTimeOut
       /\ Retiring(s) /\ retiring[s].join
       /\ retiring' = [retiring EXCEPT ![s].join = FALSE, ![s].err = TRUE]
       /\ worker' = [worker EXCEPT ![f] = NoWorker]
       /\ UNCHANGED <<transportVars, chan>>
       /\ CleanupFrame

CleanupCancels(s) ==
    /\ Retiring(s) /\ ~retiring[s].join
    /\ \E h \in retiring[s].todo :
         \/ CancelBegins(h) /\ UNCHANGED retiring
         \/ /\ CancelEnds(h)
            /\ retiring' = [retiring EXCEPT ![s].todo = @ \ {h}]
         \/ /\ CancelFails /\ UNCHANGED notices
            /\ retiring' = [retiring EXCEPT ![s].todo = @ \ {h}, ![s].err = TRUE]
    /\ UNCHANGED <<worker, chan>>
    /\ CleanupFrame

\* Mutant: CleanupComplete is not sent
CleanupDoneSilently(s) ==
    /\ Retiring(s) /\ ~retiring[s].done
    /\ ~retiring[s].join /\ retiring[s].todo = {}
    /\ retiring' = [retiring EXCEPT ![s].done = TRUE]
    /\ UNCHANGED <<transportVars, worker, chan>>
    /\ CleanupFrame

CleanupDone(s) ==
    /\ Retiring(s) /\ ~retiring[s].done
    /\ ~retiring[s].join /\ retiring[s].todo = {}
    /\ retiring' = [retiring EXCEPT ![s].done = TRUE]
    /\ chan' = Sent(Event("CleanupComplete", <<s, retiring[s].gen>>, NoHandle))
    /\ UNCHANGED <<transportVars, worker>>
    /\ CleanupFrame

CleanupNext(s) ==
    CleanupJoins(s) \/ CleanupAborts(s) \/ CleanupCancels(s) \/ CleanupDone(s)

DetachedBegins(h) ==
    /\ h \in detached
    /\ CancelBegins(h)
    /\ UNCHANGED <<dmsVars, localVars, actorVars, queueVars, endVars>>

\* Mutant: the final drain does not join the detached cleanups
JoinsDetachedOnlyRunning == phase = "running"

JoinsDetached == phase \in {"running", "draining"}

\* join_next yields Ok, in the loop or in the final drain
DetachedEnds(h) ==
    /\ h \in detached
    /\ JoinsDetached
    /\ CancelEnds(h)
    /\ detached' = detached \ {h}
    /\ UNCHANGED <<dmsVars, localVars, snap, lapsed, pending, queueVars, endVars>>

\* join_next yields an error: it ends the loop, or fails the final drain
DetachedFails(h) ==
    /\ h \in detached
    /\ CancelFails
    /\ detached' = detached \ {h}
    /\ \/ phase = "running" /\ Drain(Local, "failed")
       \/ /\ phase = "draining"
          /\ failed' = TRUE
          /\ UNCHANGED <<localVars, queueVars, notices, lapsed, pending, regClosed,
                         forcing, phase, blocked, exit>>
    /\ UNCHANGED <<dmsVars, snap>>

-----------------------------------------------------------------------------
(* handle_child_event *)

Hears(kind) == phase = "running" /\ chan # <<>> /\ Head(chan).kind = kind

Consumed == chan' = Tail(chan) /\ UNCHANGED <<chanOpen, timers>>

\* The event's handle belongs to no current attempt: cancel it on the side
Disown(h) ==
    /\ pending' = pending \ {h}
    /\ detached' = detached \cup {h}

StartsCurrent(e) ==
    /\ slot[e.fence[1]].gen = e.fence[2]
    /\ slot[e.fence[1]].state = "reserving"
    /\ slot[e.fence[1]].handle = NoHandle

\* Mutant: evidence about the started handle itself is pruned too
SupersededWithOwn(h, new) == res[h].relay = res[new].relay /\ h <= new

\* Evidence about an older handle of the same relay
Superseded(h, new) == res[h].relay = res[new].relay /\ h < new

OnStarted ==
    LET e == Head(chan)
        s == e.fence[1]
    IN /\ Hears("Started")
       /\ Consumed
       /\ \/ /\ StartsCurrent(e)
             /\ slot' = [slot EXCEPT ![s].handle = e.h]
             /\ pending' = {h \in pending : ~Superseded(h, e.h)}
             /\ UNCHANGED detached
          \/ /\ ~StartsCurrent(e)
             /\ Disown(e.h)
             /\ UNCHANGED slot
       /\ UNCHANGED <<dmsVars, transportVars, retiring, gens, worker, routes,
                      snap, lapsed, endVars>>

\* join_slot_worker: the worker that sent this event has returned
Joined(l, f) == [l EXCEPT !.slot[f[1]].worker = FALSE, !.worker[f] = NoWorker]

ConfirmsCurrent(e) ==
    /\ IsReserving(e.fence)
    /\ slot[e.fence[1]].handle = e.h

\* FencedRouteCatalog::publish refuses: fenced, out of authority, or a route
\* of that relay is still there
PublishRefused(s) ==
    \/ regClosed
    \/ s \in lapsed
    \/ \E f \in routes : slot[f[1]].relay = slot[s].relay

ConfirmedTooLate ==
    /\ Hears("Confirmed") /\ ~ConfirmsCurrent(Head(chan))
    /\ Consumed
    /\ Disown(Head(chan).h)
    /\ UNCHANGED <<dmsVars, transportVars, localVars, snap, lapsed, endVars>>

\* The transport's failure broadcast overtook this confirmation
ConfirmedButLost ==
    LET e == Head(chan)
    IN /\ Hears("Confirmed") /\ ConfirmsCurrent(e)
       /\ e.h \in pending
       /\ Consumed
       /\ pending' = pending \ {e.h}
       /\ SetLocal(Retire(Joined(Local, e.fence), e.fence[1], "report"))
       /\ UNCHANGED <<dmsVars, transportVars, snap, lapsed, detached, endVars>>

ConfirmedAndPublished ==
    LET e == Head(chan)
        s == e.fence[1]
    IN /\ Hears("Confirmed") /\ ConfirmsCurrent(e)
       /\ e.h \notin pending
       /\ ~PublishRefused(s)
       /\ Consumed
       /\ SetLocal([Joined(Local, e.fence) EXCEPT
                      !.slot[s].state = "confirmed",
                      !.routes = @ \cup {e.fence}])
       /\ UNCHANGED <<dmsVars, transportVars, actorVars, endVars>>

\* publish failed: the actor stays in the handler until the cleanup is over
ConfirmedButRefused ==
    LET e == Head(chan)
        s == e.fence[1]
    IN /\ Hears("Confirmed") /\ ConfirmsCurrent(e)
       /\ e.h \notin pending
       /\ PublishRefused(s)
       /\ Consumed
       /\ SetLocal(Retire(Joined(Local, e.fence), s, "remove"))
       /\ phase' = "awaiting"
       /\ blocked' = s
       /\ UNCHANGED <<dmsVars, transportVars, actorVars, regClosed, forcing, exit, failed>>

OnRetrying ==
    LET e == Head(chan)
        s == e.fence[1]
    IN /\ Hears("Retrying")
       /\ Consumed
       /\ pending' = pending \ {e.h}
       /\ slot' = IF /\ slot[s].gen = e.fence[2]
                     /\ slot[s].state = "reserving"
                     /\ slot[s].handle = e.h
                  THEN [slot EXCEPT ![s].handle = NoHandle] ELSE slot
       /\ UNCHANGED <<dmsVars, transportVars, retiring, gens, worker, routes,
                      snap, lapsed, detached, endVars>>

OnFailed ==
    LET e == Head(chan)
        s == e.fence[1]
        owned == [Joined(Local, e.fence) EXCEPT
                    !.slot[s].handle = IF @ = NoHandle THEN e.h ELSE @]
    IN /\ Hears("Failed") /\ IsReserving(e.fence)
       /\ Consumed
       /\ pending' = pending \ {e.h}
       /\ SetLocal(Retire(owned, s, "report"))
       /\ UNCHANGED <<dmsVars, transportVars, snap, lapsed, detached, endVars>>

FailedTooLate ==
    LET e == Head(chan)
    IN /\ Hears("Failed") /\ ~IsReserving(e.fence)
       /\ Consumed
       /\ detached' = detached \cup HandleSet(e.h)
       /\ UNCHANGED <<dmsVars, transportVars, localVars, snap, lapsed, pending, endVars>>

-----------------------------------------------------------------------------
(* Failure reports, retirements, snapshots *)

\* validate_snapshot of the client: ready slots have distinct providers
DistinctProviders(d) ==
    \A s, t \in Slots :
        s # t /\ d[s].ready /\ d[t].ready => d[s].relay # d[t].relay

\* How the DMS may reassign a slot that is still at this epoch
Reassigned(s, epoch) ==
    IF dms[s].epoch # epoch THEN {dms}
    ELSE {d \in {[dms EXCEPT ![s] = a] :
                   a \in IF epoch < MaxEpoch
                         THEN [epoch : {epoch + 1}, relay : Relays, ready : BOOLEAN]
                         ELSE {[dms[s] EXCEPT !.ready = FALSE]}} :
            DistinctProviders(d)}

\* apply_snapshot of what a control call answered; by now some of its
\* authorizations may be over
ApplyAnswer(l, answer) ==
    /\ snap' = answer
    /\ \E lp \in SUBSET IF "lapse" \in Disturbances THEN Slots ELSE {} :
         /\ lapsed' = lp
         /\ SetLocal(ApplySnapshot(l, answer, lp))

\* report_failure, for a slot that is now in state "reporting"
ReportApplied(l, f) ==
    /\ booked
    /\ \E d \in Reassigned(f[1], l.slot[f[1]].epoch) :
         dms' = d /\ ApplyAnswer(Retire(l, f[1], "reconcile"), d)
    /\ Consumed
    /\ UNCHANGED <<booked, notices, pending, endVars>>

\* Deferred because a renewal or an expiry is near, or failed in a retryable
\* way: a call that timed out may have taken effect
ReportRetried(l, f) ==
    /\ dms' \in Reassigned(f[1], l.slot[f[1]].epoch) \cup {dms}
    /\ timers' = timers \cup {f}
    /\ chan' = Tail(chan)
    /\ SetLocal(l)
    /\ UNCHANGED <<booked, snap, lapsed, notices, pending, chanOpen, endVars>>

ReportRefused(l, f) ==
    /\ booked
    /\ SetLocal(l)
    /\ Consumed
    /\ UNCHANGED <<dmsVars, snap, lapsed, notices, pending, endVars>>

ReportEnds(l, f) ==
    /\ ~booked
    /\ Drain(l, "ended")
    /\ UNCHANGED <<dmsVars, snap>>

Report(l, f) ==
    \/ ReportApplied(l, f) \/ ReportRetried(l, f)
    \/ ReportRefused(l, f) \/ ReportEnds(l, f)

OnRetryFailure ==
    LET f == Head(chan).fence
    IN /\ Hears("RetryFailure")
       /\ \/ IsCurrent(f) /\ Report(Local, f)
          \/ /\ ~IsCurrent(f)
             /\ Consumed
             /\ UNCHANGED <<dmsVars, localVars, snap, lapsed, notices, pending, endVars>>
       /\ UNCHANGED <<res, detached>>

TimerFires(f) ==
    /\ f \in timers
    /\ timers' = timers \ {f}
    /\ chan' = Sent(Event("RetryFailure", f, NoHandle))
    /\ UNCHANGED <<dmsVars, transportVars, localVars, actorVars, chanOpen, endVars>>

\* finish_retirement: an error leaves the completed cleanup in `retiring'
Reaped(s) == [Local EXCEPT !.retiring[s] = NotRetiring]
Unreaped(s) == [Local EXCEPT !.retiring[s].polled = TRUE]

Reporting(s) ==
    [Reaped(s) EXCEPT !.slot[s] =
        [gen |-> retiring[s].gen, epoch |-> retiring[s].epoch,
         relay |-> retiring[s].relay, state |-> "reporting",
         handle |-> NoHandle, worker |-> FALSE]]

FinishedByReport(s) ==
    retiring[s].action = "report" /\ SnapshotHas(snap, s, retiring[s].epoch)

OnCleanupComplete ==
    LET e == Head(chan)
        s == e.fence[1]
        r == retiring[s]
    IN /\ Hears("CleanupComplete")
       /\ r.gen = e.fence[2]
       /\ \/ /\ r.err
             /\ Drain(Unreaped(s), "failed")
             /\ UNCHANGED <<dmsVars, snap>>
          \/ /\ ~r.err
             /\ FinishedByReport(s)
             /\ Report(Reporting(s), e.fence)
          \/ /\ ~r.err
             /\ ~FinishedByReport(s)
             /\ SetLocal(IF r.action = "remove" THEN Reaped(s)
                         ELSE ApplySnapshot(Reaped(s), snap, lapsed))
             /\ Consumed
             /\ UNCHANGED <<dmsVars, snap, lapsed, notices, pending, endVars>>
       /\ UNCHANGED <<res, detached>>

\* The handler of a refused publication gets its cleanup's result
RefusedCleanupEnds ==
    /\ phase = "awaiting" /\ retiring[blocked].done
    /\ Drain(IF retiring[blocked].err THEN Unreaped(blocked) ELSE Reaped(blocked),
             "failed")
    /\ UNCHANGED <<dmsVars, res, snap, detached>>

\* Mutant: a handle is mapped to a slot by Peer ID
ConfirmedForPeer(h) ==
    {s \in Slots : slot[s].state = "confirmed" /\ slot[s].relay = res[h].relay}

\* Mutant: confirmed slots are not looked up
ConfirmedForNone(h) == {}

\* confirmed_fence_for_handle
ConfirmedFor(h) == {s \in Slots : slot[s].state = "confirmed" /\ slot[s].handle = h}

\* What is held back until the generation of the handle is consumed
Evidence(h) ==
    IF \E s \in Slots : slot[s].state = "reserving" /\ slot[s].relay = res[h].relay
    THEN pending \cup {h} ELSE pending

\* observe_relay_failure
ObserveFailure(h) ==
    LET hit == ConfirmedFor(h)
    IN /\ phase = "running"
       /\ h \in notices
       /\ notices' = notices \ {h}
       /\ \/ /\ hit # {}
             /\ pending' = pending \ {h}
             /\ SetLocal(RetireSlots(Local, hit, [s \in hit |-> "report"]))
          \/ /\ hit = {}
             /\ pending' = Evidence(h)
             /\ UNCHANGED localVars
       /\ UNCHANGED <<dmsVars, res, snap, lapsed, detached, queueVars, endVars>>

\* poll and renew, answered with the booking
RefreshBooking ==
    /\ phase = "running" /\ booked
    /\ ApplyAnswer(Local, dms)
    /\ UNCHANGED <<dmsVars, transportVars, pending, detached, queueVars, endVars>>

\* poll or renew answered that the booking is over, or no renewal fits before
\* the authority ends: fence_control_plane
AuthorityEnds ==
    /\ phase = "running"
    /\ ~booked \/ lapsed # {}
    /\ Drain(Local, "ended")
    /\ UNCHANGED <<dmsVars, res, snap, detached>>

\* expire_local_authority
ExpireLocalAuthority ==
    LET due == {s \in lapsed : slot[s].state \in {"reserving", "confirmed"}}
    IN /\ phase = "running"
       /\ due # {}
       /\ SetLocal(RetireSlots(Local, due, [s \in due |-> "remove"]))
       /\ UNCHANGED <<dmsVars, transportVars, actorVars, queueVars, endVars>>

\* Every other error of the loop: lagged broadcast, foreign booking, a stopped
\* transport
ActorFails ==
    /\ "fail" \in Disturbances
    /\ phase = "running"
    /\ Drain(Local, "failed")
    /\ UNCHANGED <<dmsVars, res, snap, detached>>

-----------------------------------------------------------------------------
(* Stopping *)

\* CoordinatorCommand::Stop
Stop ==
    /\ phase = "running"
    /\ Drain(Local, "stop")
    /\ UNCHANGED <<dmsVars, res, snap, detached>>

\* The graceful timeout passed, or the coordinator was dropped: fence_all from
\* outside the actor ...
FenceRegistry ==
    /\ "force" \in Disturbances
    /\ phase \in {"running", "awaiting", "draining", "deleting"}
    /\ exit # "forced" /\ ~forcing
    /\ forcing' = TRUE
    /\ regClosed' = TRUE
    /\ routes' = {}
    /\ UNCHANGED <<dmsVars, transportVars, slot, retiring, gens, worker,
                   actorVars, queueVars, phase, blocked, exit, failed>>

\* ... then force_shutdown drops whatever the actor awaits; force_fence drains
\* what is left, and the errors met so far are forgotten
ForceShutdown ==
    /\ forcing
    /\ phase \in {"running", "awaiting", "draining", "deleting"}
    /\ Drain(Local, "forced")
    /\ UNCHANGED <<dmsVars, res, snap, detached>>

\* Mutant: the result of a drained cleanup is ignored
DrainErrorIgnored(s) == failed

DrainError(s) == failed \/ retiring[s].err

\* drain_cleanup_tasks awaits each cleanup; tokio panics when a JoinHandle that
\* has already yielded is awaited again, and Drop for CoordinatorActor aborts
\* everything else
DrainOne(s) ==
    /\ phase = "draining"
    /\ Retiring(s) /\ retiring[s].done /\ ~retiring[s].polled
    /\ failed' = DrainError(s)
    /\ SetLocal(Reaped(s))
    /\ UNCHANGED <<dmsVars, transportVars, actorVars, queueVars, regClosed, forcing,
                   phase, blocked, exit>>

DrainPanics(s) ==
    /\ phase = "draining"
    /\ Retiring(s) /\ retiring[s].polled
    /\ phase' = "panicked"
    /\ regClosed' = TRUE
    /\ detached' = {}
    /\ SetLocal([Local EXCEPT !.routes = {},
                              !.retiring = [t \in Slots |-> NotRetiring],
                              !.worker = [f \in Fences |-> NoWorker]])
    /\ UNCHANGED <<dmsVars, transportVars, snap, lapsed, pending, queueVars,
                   forcing, blocked, exit, failed>>

Ends ==
    /\ phase' = "ended"
    /\ regClosed' = TRUE
    /\ routes' = {}

NothingLeft == (\A s \in Slots : ~Retiring(s)) /\ detached = {}

Drained ==
    /\ phase = "draining"
    /\ NothingLeft
    /\ \/ Ends
       \/ /\ exit = "stop" /\ ~failed
          /\ phase' = "deleting"
          /\ UNCHANGED <<regClosed, routes>>
    /\ UNCHANGED <<dmsVars, transportVars, slot, retiring, gens, worker, actorVars,
                   queueVars, forcing, blocked, exit, failed>>

DeleteBooking ==
    /\ phase = "deleting"
    /\ \/ booked' = FALSE /\ UNCHANGED failed
       \/ failed' = TRUE /\ UNCHANGED booked
    /\ Ends
    /\ UNCHANGED <<dms, transportVars, slot, retiring, gens, worker, actorVars,
                   queueVars, forcing, blocked, exit>>

-----------------------------------------------------------------------------
(* The DMS and time *)

EnvFrame == UNCHANGED <<transportVars, localVars, snap, pending, detached,
                        queueVars, endVars>>

Reassign(s) ==
    /\ "reassign" \in Disturbances
    /\ phase = "running" /\ booked
    /\ dms' \in Reassigned(s, dms[s].epoch) \ {dms}
    /\ UNCHANGED <<booked, lapsed>>
    /\ EnvFrame

BecomeReady(s) ==
    /\ "ready" \in Disturbances
    /\ phase = "running" /\ booked
    /\ ~dms[s].ready
    /\ dms' = [dms EXCEPT ![s].ready = TRUE]
    /\ DistinctProviders(dms')
    /\ UNCHANGED <<booked, lapsed>>
    /\ EnvFrame

EndBooking ==
    /\ "end" \in Disturbances
    /\ phase = "running" /\ booked
    /\ booked' = FALSE
    /\ UNCHANGED <<dms, lapsed>>
    /\ EnvFrame

Lapse(s) ==
    /\ "lapse" \in Disturbances
    /\ phase = "running"
    /\ s \notin lapsed
    /\ lapsed' = lapsed \cup {s}
    /\ UNCHANGED dmsVars
    /\ EnvFrame

-----------------------------------------------------------------------------
(* Specification *)

Assignments == [epoch : 1..MaxEpoch, relay : Relays, ready : BOOLEAN]

\* start_with_backends: the actor starts with the booking applied
Init ==
    /\ dms \in [Slots -> {a \in Assignments : a.epoch = 1}]
    /\ DistinctProviders(dms)
    /\ booked = TRUE
    /\ res = [h \in Handles |-> [state |-> "free", relay |-> "none"]]
    /\ notices = {}
    /\ snap = dms
    /\ lapsed = {}
    /\ regClosed = FALSE
    /\ LET started == ApplySnapshot(
               [slot |-> [s \in Slots |-> Vacant],
                retiring |-> [s \in Slots |-> NotRetiring],
                gens |-> [s \in Slots |-> 0],
                worker |-> [f \in Fences |-> NoWorker],
                routes |-> {}], dms, {})
       IN /\ slot = started.slot
          /\ retiring = started.retiring
          /\ gens = started.gens
          /\ worker = started.worker
          /\ routes = started.routes
    /\ chan = <<>>
    /\ chanOpen = TRUE
    /\ timers = {}
    /\ pending = {}
    /\ detached = {}
    /\ forcing = FALSE
    /\ phase = "running"
    /\ blocked = NoSlot
    /\ exit = "none"
    /\ failed = FALSE

TransportNext(h) ==
    \/ TransportConfirms(h) \/ TransportLoses(h)
    \/ DispatchUnclaimed(h) \/ TransportReleases(h)

DetachedNext(h) == DetachedBegins(h) \/ DetachedEnds(h) \/ DetachedFails(h)

ChildEventNext ==
    \/ OnStarted
    \/ ConfirmedTooLate \/ ConfirmedButLost
    \/ ConfirmedAndPublished \/ ConfirmedButRefused
    \/ OnRetrying
    \/ OnFailed \/ FailedTooLate
    \/ OnRetryFailure
    \/ OnCleanupComplete

StopNext ==
    \/ RefusedCleanupEnds
    \/ ForceShutdown
    \/ \E s \in Slots : DrainOne(s) \/ DrainPanics(s)
    \/ Drained
    \/ DeleteBooking

DMSNext == EndBooking \/ \E s \in Slots : Reassign(s) \/ BecomeReady(s) \/ Lapse(s)

Next ==
    \/ \E h \in Handles : TransportNext(h) \/ DetachedNext(h) \/ ObserveFailure(h)
    \/ \E f \in Fences : WorkerNext(f) \/ TimerFires(f)
    \/ \E s \in Slots : CleanupNext(s)
    \/ ChildEventNext
    \/ RefreshBooking \/ AuthorityEnds \/ ExpireLocalAuthority \/ ActorFails
    \/ Stop \/ FenceRegistry \/ StopNext
    \/ DMSNext

Spec == Init /\ [][Next]_vars

\* Tasks that are ready run; a biased select takes the cancellation first; the
\* transport finishes a teardown; the actor keeps receiving
Fairness ==
    /\ \A h \in Handles : /\ WF_vars(TransportReleases(h))
                          /\ WF_vars(DispatchUnclaimed(h))
                          /\ WF_vars(DetachedNext(h))
                          /\ WF_vars(ObserveFailure(h))
    /\ \A f \in Fences : WF_vars(WorkerNext(f)) /\ WF_vars(Abandon(f))
    /\ \A s \in Slots : WF_vars(CleanupNext(s))
    /\ WF_vars(ChildEventNext)
    /\ WF_vars(StopNext)

FairSpec == Spec /\ Fairness

-----------------------------------------------------------------------------
(* Properties *)

WorkerStates == {"off", "dial", "minted", "answered", "started", "waiting",
                 "confirmed", "retry", "release", "done"}
EventKinds == {"Started", "Confirmed", "Retrying", "Failed", "RetryFailure",
               "CleanupComplete"}
AnyHandle == Handles \cup {NoHandle}
AnyRelay == Relays \cup {"none"}

\* Every variable of the actor and of its children has the shape the code gives it
TypeOK ==
    /\ dms \in [Slots -> Assignments] /\ snap \in [Slots -> Assignments]
    /\ booked \in BOOLEAN
    /\ res \in [Handles -> [state : {"free", "dispatching", "pending", "publishable", "canceling",
                                     "gone"}, relay : AnyRelay]]
    /\ notices \subseteq Handles /\ pending \subseteq Handles
    /\ detached \subseteq Handles
    /\ lapsed \subseteq Slots
    /\ slot \in [Slots -> [gen : Gens \cup {0}, epoch : 0..MaxEpoch, relay : AnyRelay,
                           state : {"vacant", "reserving", "confirmed", "reporting"},
                           handle : AnyHandle, worker : BOOLEAN]]
    /\ retiring \in [Slots -> [gen : Gens \cup {0}, epoch : 0..MaxEpoch,
                               relay : AnyRelay,
                               action : {"none", "reconcile", "report", "remove"},
                               join : BOOLEAN, todo : SUBSET Handles, err : BOOLEAN,
                               done : BOOLEAN, polled : BOOLEAN]]
    /\ gens \in [Slots -> 0..MaxGen]
    /\ worker \in [Fences -> [pc : WorkerStates, relay : AnyRelay, h : AnyHandle,
                              err : BOOLEAN, cancelled : BOOLEAN]]
    /\ chan \in Seq([kind : EventKinds, fence : Fences, h : AnyHandle])
    /\ timers \subseteq Fences /\ routes \subseteq Fences
    /\ chanOpen \in BOOLEAN /\ regClosed \in BOOLEAN /\ forcing \in BOOLEAN
    /\ failed \in BOOLEAN
    /\ phase \in {"running", "awaiting", "draining", "deleting", "ended", "panicked"}
    /\ blocked \in Slots \cup {NoSlot}
    /\ exit \in {"none", "stop", "ended", "failed", "forced"}

Names(h, kinds) == \E i \in 1..Len(chan) : chan[i].h = h /\ chan[i].kind \in kinds

\* A published route belongs to a confirmed slot of that very generation, and
\* its reservation is up unless the transport's notice of the loss is still on
\* its way or already held as evidence (publish_confirmed_route against the
\* broadcast that overtakes Started and Confirmed)
RouteHasReservation ==
    \A f \in routes :
        LET s == slot[f[1]]
        IN /\ s.gen = f[2] /\ s.state = "confirmed"
           /\ res[s.handle].state = "publishable" \/ s.handle \in notices

\* No cleanup cancels the reservation of a current attempt: late Started,
\* Confirmed and Failed events of an older generation disown only their own
\* handle (handle_child_event, spawn_detached_cleanup)
NoFriendlyFire ==
    \A s \in Slots :
        slot[s].handle # NoHandle =>
            /\ slot[s].handle \notin detached
            /\ \A t \in Slots : slot[s].handle \notin retiring[t].todo

Owned(h) ==
    \/ \E s \in Slots : slot[s].handle = h \/ h \in retiring[s].todo
    \/ \E f \in Fences : worker[f].h = h
    \/ Names(h, {"Started", "Confirmed", "Failed"})
    \/ h \in detached

\* "Start must be cancellation-safe" and what it is for: as long as the actor
\* lives, every reservation the transport keeps up has somebody who will
\* cancel it
ReservationsAreOwned ==
    phase # "panicked" => \A h \in Handles : Up(h) => Owned(h)

\* A stop that reports success left no reservation and no route behind, however
\* the workers, the cleanups and buffered events were interleaved with it
GracefulStopReleasesAll ==
    phase = "ended" /\ exit = "stop" /\ ~failed =>
        routes = {} /\ \A h \in Handles : ~Up(h)

\* A confirmed slot is reported to the DMS as failed only when its own
\* reservation is down: evidence about an older handle of the same relay never
\* takes a healthy route away
HealthyNotReported ==
    [][\A s \in Slots :
          /\ slot[s].state = "confirmed"
          /\ retiring'[s].gen = slot[s].gen
          /\ retiring'[s].action = "report"
          => res[slot[s].handle].state # "publishable"]_vars

\* The actor never gives up its cleanups half way: it observes the result of
\* each one, also when an earlier one failed
NeverAbandonsCleanups == phase # "panicked"

\* A route whose reservation is gone is withdrawn
LostRouteWithdrawn ==
    \A f \in Fences :
        f \in routes /\ ~Up(slot[f[1]].handle) ~> f \notin routes

\* Whatever made the actor leave its loop, it ends
DrainEnds == (phase \in {"draining", "awaiting"}) ~> (phase = "ended")

\* A retirement ends: the slot is free again for the next assignment
RetirementEnds ==
    \A s \in Slots : Retiring(s) ~> ~Retiring(s)
=============================================================================
