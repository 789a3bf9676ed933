----------------------------- MODULE PeerRuntime ------------------------------
(***************************************************************************)
(* One native peer (core/auki-sdk/src/peer_runtime.rs, status.rs): its     *)
(* startup with the undoing of a failed one, the monitor that turns the    *)
(* state of its parts into a status, the ordered shutdown, the drop of the *)
(* owner or of a shutdown under way, and those who wait for the peer's     *)
(* end.  The parts themselves (transport, authority supervisor, relay      *)
(* coordinator, publisher, protocols) are modelled elsewhere; here each is *)
(* up, failing on its own, or taken down.                                  *)
(***************************************************************************)
EXTENDS Naturals, Sequences

CONSTANTS
    Waiters,        \* callers of wait_stopped
    MaxChanges      \* bound on signals that come and go

VARIABLES
    config,         \* relay configured (hence required), advertising configured
    phase,          \* of the owner: the step of start_with_authority, then its life
    todo,           \* stages of an undo or of a shutdown still to run
    node,           \* the transport
    authority,      \* the authority supervisor's status
    relay,          \* the relay booking coordinator
    booking,        \* a relay booking exists at the DMS
    confirmed,      \* the catalog holds a confirmed relay route
    publisher,      \* the DDS publisher
    running,        \* ContextLifecycle: protocol contexts accept new work
    protocols,      \* mounted servers: serving, aborted or joined
    status,         \* what the watch channel holds
    shuttingDown,   \* of PeerStatusController
    monitor,        \* pc of monitor_runtime, with the verdict it is to publish
    stopMonitor,    \* monitor_shutdown
    dirty,          \* watched signals that changed since the monitor consumed them
    failures,       \* ShutdownFailures
    exit,           \* per waiter: what wait_stopped returned
    changes

parts == <<node, authority, relay, booking, confirmed, publisher, running, protocols>>
vars == <<config, phase, todo, parts, status, shuttingDown, monitor, stopMonitor, dirty,
          failures, exit, changes>>

Failed(kind) == <<"failed", kind>>
Kinds == {"transport", "authority", "authentication", "relay", "supervisor", "cleanup"}
Statuses == {<<"ready">>, <<"authorityUnavailable">>, <<"relayUnavailable">>, <<"stopping">>,
             <<"stopped">>} \cup {Failed(k) : k \in Kinds}
NoExit == <<"none">>

IsTerminal(s) == s[1] \in {"failed", "stopping", "stopped"}
IsFinal(s) == s[1] \in {"failed", "stopped"}

Init ==
    /\ config \in [relay : BOOLEAN, advertise : BOOLEAN]
    /\ phase = "node" /\ todo = <<>>
    /\ node = "none" /\ authority = "none" /\ relay = "none" /\ booking = FALSE
    /\ confirmed = FALSE /\ publisher = "none" /\ running = TRUE /\ protocols = "serving"
    /\ status = <<"none">> /\ shuttingDown = FALSE
    /\ monitor = [pc |-> "none", verdict |-> NoExit] /\ stopMonitor = FALSE
    /\ dirty = {} /\ failures = {} /\ exit = [w \in Waiters |-> NoExit] /\ changes = 0

-----------------------------------------------------------------------------
(* What the signals say *)

NodeDead == node \in {"dead", "down"}
RelayFailed == relay = "failed"

\* observed_status
Observed ==
    CASE NodeDead -> Failed("transport")
      [] ~NodeDead /\ authority = "stopped" -> Failed("authority")
      [] ~NodeDead /\ authority = "refused" -> Failed("authentication")
      [] ~NodeDead /\ authority \in {"ready", "expired"} /\ RelayFailed -> Failed("relay")
      [] ~NodeDead /\ authority = "expired" /\ ~RelayFailed -> <<"authorityUnavailable">>
      [] ~NodeDead /\ authority = "ready" /\ ~RelayFailed /\ config.relay /\ ~confirmed
           -> <<"relayUnavailable">>
      [] OTHER -> <<"ready">>

\* startup_readiness
StartupRefused == RelayFailed \/ NodeDead \/ authority \in {"stopped", "refused"}
StartupReady == ~StartupRefused /\ authority = "ready" /\ (config.relay => confirmed)

Live == phase = "live"

\* The parts change by themselves; relay health is a level, the rest is watched
Change(signal) ==
    /\ changes < MaxChanges /\ changes' = changes + 1
    /\ dirty' = dirty \cup {signal}
    /\ UNCHANGED <<config, phase, todo, booking, publisher, running, protocols, status,
                   shuttingDown, monitor, stopMonitor, failures, exit>>

NodeFails == node = "up" /\ node' = "dead" /\ Change("node")
             /\ UNCHANGED <<authority, relay, confirmed>>

AuthorityChanges ==
    /\ \/ authority = "ready" /\ authority' \in {"expired", "refused", "stopped"}
       \/ authority = "expired" /\ authority' \in {"ready", "refused", "stopped"}
    /\ Change("authority") /\ UNCHANGED <<node, relay, confirmed>>

RoutesChange ==
    /\ relay = "up" /\ confirmed' = ~confirmed
    /\ Change("routes") /\ UNCHANGED <<node, authority, relay>>

RelayFails ==
    /\ relay = "up" /\ relay' = "failed" /\ changes < MaxChanges /\ changes' = changes + 1
    /\ UNCHANGED <<config, phase, todo, node, authority, booking, confirmed, publisher,
                   running, protocols, status, shuttingDown, monitor, stopMonitor, dirty,
                   failures, exit>>

\* A watched sender goes away
SignalCloses ==
    /\ Live \/ phase = "ready"
    /\ Change("closed") /\ UNCHANGED <<node, authority, relay, confirmed>>

-----------------------------------------------------------------------------
(* start_with_authority *)

\* Mutant: a start that fails late forgets the relay coordinator
UndoOfNoRelay == IF phase \in {"ready", "discovery"}
                 THEN <<"authority", "lifecycle", "node">> ELSE <<>>

\* What each failure of startup undoes, in its order
UndoOf ==
    CASE phase \in {"ready", "discovery"} -> <<"relay", "authority", "lifecycle", "node">>
      [] phase = "relay" -> <<"authority", "node">>
      [] phase \in {"listen", "authority"} -> <<"node">>
      [] OTHER -> <<>>

StartFails ==
    /\ phase' = "undo" /\ todo' = UndoOf
    /\ UNCHANGED <<config, parts, status, shuttingDown, monitor, stopMonitor, dirty,
                   failures, exit, changes>>

startRest == <<config, todo, running, protocols, status, shuttingDown, monitor,
               stopMonitor, dirty, failures, exit, changes>>

StartNode ==
    /\ phase = "node" /\ phase' = "listen" /\ node' = "up"
    /\ UNCHANGED <<startRest, authority, relay, booking, confirmed, publisher>>

\* The listeners are bound, the catalog built; a dead transport fails here too
Listen ==
    /\ phase = "listen" /\ ~NodeDead /\ phase' = "authority"
    /\ UNCHANGED <<startRest, parts>>

StartAuthority ==
    /\ phase = "authority" /\ authority' = "ready" /\ phase' = "relay"
    /\ UNCHANGED <<startRest, node, relay, booking, confirmed, publisher>>

\* A coordinator that starts has its booking; a refusal that may be retried is retried
StartRelay ==
    /\ phase = "relay" /\ phase' = "ready"
    /\ IF config.relay THEN relay' = "up" /\ booking' = TRUE ELSE UNCHANGED <<relay, booking>>
    /\ UNCHANGED <<startRest, node, authority, confirmed, publisher>>

StartStepFails == phase \in {"node", "listen", "authority", "discovery"} /\ StartFails

RelayStartFails == phase = "relay" /\ config.relay /\ StartFails

\* wait_until_ready; waiting in `changed', it sees a signal sooner or later
BecomesReady ==
    /\ phase = "ready" /\ StartupReady
    /\ phase' = "discovery" /\ status' = Observed /\ dirty' \in SUBSET dirty /\ dirty \cap {"closed"} \subseteq dirty'
    /\ UNCHANGED <<config, todo, parts, shuttingDown, monitor, stopMonitor, failures, exit,
                   changes>>

\* Waiting, it also sees that nobody is left to signal
StartupIsRefused ==
    /\ phase = "ready" /\ (StartupRefused \/ (~StartupReady /\ "closed" \in dirty))
    /\ StartFails

\* The publisher is started, then the controller and its monitor are built
GoLive ==
    /\ phase = "discovery" /\ phase' = "live"
    /\ publisher' = IF config.advertise THEN "up" ELSE "none"
    /\ monitor' = [monitor EXCEPT !.pc = "check"]
    /\ UNCHANGED <<config, todo, node, authority, relay, booking, confirmed, running,
                   protocols, status, shuttingDown, stopMonitor, dirty, failures, exit, changes>>

Ended(part, to) == IF part = "none" THEN "none" ELSE to

\* Drop cannot await: the relay's actor and the transport's task end on their own
Leaving(part) == IF part \in {"none", "down"} THEN part ELSE "closing"

\* The start's future is dropped, a step or its undoing half way: its locals go, the
\* booking is left to its TTL
DropStart ==
    /\ phase \in {"listen", "authority", "relay", "ready", "discovery", "undo"}
    /\ phase' = "abandoned" /\ todo' = <<>>
    /\ node' = Leaving(node) /\ authority' = Ended(authority, "ended")
    /\ relay' = Leaving(relay) /\ confirmed' = FALSE
    /\ UNCHANGED <<config, booking, publisher, running, protocols, status, shuttingDown,
                   monitor, stopMonitor, dirty, failures, exit, changes>>

-----------------------------------------------------------------------------
(* PeerStatusController and monitor_runtime *)

Update(s) == status' = IF shuttingDown THEN status ELSE s

monitorRest == <<config, phase, todo, node, authority, relay, booking, confirmed,
                 shuttingDown, stopMonitor, failures, exit, changes>>

\* abort_all
AbortAll == running' = FALSE /\ protocols' = "aborted"

\* The first half of a terminal branch: abort_all and the publisher's cancellation
Fence(verdict) ==
    /\ monitor' = [pc |-> "fenced", verdict |-> verdict] /\ AbortAll
    /\ publisher' = IF publisher = "up" THEN "canceled" ELSE publisher
    /\ UNCHANGED status

\* Top of the loop, for a snapshot that is not terminal
MonitorLooks ==
    /\ monitor.pc = "check" /\ ~IsTerminal(Observed)
    /\ Update(Observed) /\ monitor' = [monitor EXCEPT !.pc = "wait"]
    /\ UNCHANGED <<monitorRest, publisher, running, protocols, dirty>>

MonitorFences ==
    /\ monitor.pc = "check" /\ IsTerminal(Observed) /\ Fence(Observed)
    /\ UNCHANGED <<monitorRest, dirty>>

\* The verdict is published; the other half of the branch
MonitorPublishes ==
    /\ monitor.pc = "fenced" /\ Update(monitor.verdict)
    /\ monitor' = [monitor EXCEPT !.pc = "done"]
    /\ UNCHANGED <<monitorRest, publisher, running, protocols, dirty>>

\* The select is biased towards the shutdown; an abort of the task ends it here too
MonitorStops ==
    /\ monitor.pc = "wait" /\ stopMonitor /\ monitor' = [monitor EXCEPT !.pc = "done"]
    /\ UNCHANGED <<monitorRest, publisher, running, protocols, status, dirty>>

\* changed: the sources of the select besides the relay's health
Watched == dirty \ {"closed"}

MonitorWakes ==
    /\ monitor.pc = "wait" /\ ~stopMonitor
    /\ \/ \E s \in Watched : dirty' = dirty \ {s}
       \/ RelayFailed /\ UNCHANGED dirty
    /\ monitor' = [monitor EXCEPT !.pc = "check"]
    /\ UNCHANGED <<monitorRest, publisher, running, protocols, status>>

MonitorIsOrphaned ==
    /\ monitor.pc = "wait" /\ ~stopMonitor /\ "closed" \in dirty
    /\ Fence(Failed("supervisor"))
    /\ UNCHANGED <<monitorRest, dirty>>

-----------------------------------------------------------------------------
(* shutdown and Drop *)

\* begin_shutdown
BeginShutdown ==
    /\ shuttingDown' = TRUE
    /\ status' = IF shuttingDown THEN status ELSE <<"stopping">>

\* What constructing the future does at once, and what its body is to do
Shutdown ==
    /\ Live /\ phase' = "shutdown"
    /\ running' = FALSE /\ BeginShutdown /\ stopMonitor' = TRUE
    /\ publisher' = IF publisher = "up" THEN "canceled" ELSE publisher
    /\ todo' = <<"monitor", "publisher", "relay", "lifecycle", "protocols", "authority", "node">>
    /\ UNCHANGED <<config, node, authority, relay, booking, confirmed, protocols, monitor,
                   dirty, failures, exit, changes>>

\* ShutdownFailures keeps what each stage reports
FailureOf(stage, ok) == IF ok THEN {} ELSE {stage}

\* A stage runs whatever the ones before it reported; ok: without a failure
Stage(stage, ok) ==
    /\ stage = "monitor" => monitor.pc = "done"
    /\ ok \/ stage \in {"publisher", "relay", "protocols", "node"}
    /\ publisher' = IF stage = "publisher" THEN Ended(publisher, "down") ELSE publisher
    /\ relay' = IF stage = "relay" THEN Ended(relay, "down") ELSE relay
    /\ booking' = (booking /\ ~(stage = "relay" /\ ok))
    /\ confirmed' = (confirmed /\ stage # "lifecycle")
    /\ protocols' = IF stage = "protocols" THEN "joined" ELSE protocols
    /\ authority' = IF stage = "authority" THEN "ended" ELSE authority
    /\ node' = IF stage = "node" THEN "down" ELSE node
    /\ failures' = failures \cup FailureOf(stage, ok)

RunStage ==
    /\ phase \in {"shutdown", "undo"} /\ todo # <<>>
    /\ \E ok \in BOOLEAN : Stage(Head(todo), ok)
    /\ todo' = Tail(todo)
    /\ UNCHANGED <<config, phase, running, status, shuttingDown, monitor, stopMonitor, dirty,
                   exit, changes>>

\* The undo of a failed start is over
StartReturnsError ==
    /\ phase = "undo" /\ todo = <<>> /\ phase' = "failed"
    /\ UNCHANGED <<config, todo, parts, status, shuttingDown, monitor, stopMonitor, dirty,
                   failures, exit, changes>>

\* finish_shutdown
FinishShutdown ==
    /\ phase = "shutdown" /\ todo = <<>> /\ phase' = "closed"
    /\ status' = IF failures = {} THEN <<"stopped">> ELSE Failed("cleanup")
    /\ shuttingDown' = TRUE
    /\ UNCHANGED <<config, todo, parts, monitor, stopMonitor, dirty, failures, exit, changes>>

\* Drop of the owner, or of its shutdown's future: everything local goes, without
\* an answer from the DMS; a task of its own shuts the transport down
DropPeer ==
    /\ phase \in {"live", "shutdown"} /\ phase' = "dropped" /\ todo' = <<>>
    /\ running' = FALSE /\ BeginShutdown /\ stopMonitor' = TRUE
    /\ publisher' = Ended(publisher, "down")
    /\ relay' = Leaving(relay) /\ confirmed' = FALSE
    /\ authority' = "ended" /\ protocols' = (IF protocols = "joined" THEN "joined" ELSE "aborted")
    /\ node' = Leaving(node)
    /\ UNCHANGED <<config, booking, monitor, dirty, failures, exit, changes>>

\* run_coordinator_actor after a forced shutdown
RelayGone ==
    /\ relay = "closing" /\ relay' = "down"
    /\ UNCHANGED <<config, phase, todo, node, authority, booking, confirmed, publisher,
                   running, protocols, status, shuttingDown, monitor, stopMonitor, dirty,
                   failures, exit, changes>>

\* shutdown_now; after an abandoned start the last owner of the transport, which
\* may be the relay's actor, is gone
NodeGone ==
    /\ node = "closing" /\ (phase = "abandoned" => relay # "closing")
    /\ node' = "down"
    /\ UNCHANGED <<config, phase, todo, authority, relay, booking, confirmed, publisher,
                   running, protocols, status, shuttingDown, monitor, stopMonitor, dirty,
                   failures, exit, changes>>

-----------------------------------------------------------------------------
(* wait_for_stopped_status *)

\* The owner and the monitor each hold a sender of the watch channel
SendersGone == phase \in {"closed", "dropped"} /\ monitor.pc = "done"

\* Mutant: a closed channel is not a result
OrphanExitNone == NoExit

OrphanExit == Failed("supervisor")

WaiterReturns(w) ==
    /\ exit[w] = NoExit
    /\ \/ IsFinal(status) /\ exit' = [exit EXCEPT ![w] = status]
       \/ SendersGone /\ ~IsFinal(status) /\ exit' = [exit EXCEPT ![w] = OrphanExit]
    /\ UNCHANGED <<config, phase, todo, parts, status, shuttingDown, monitor, stopMonitor,
                   dirty, failures, changes>>

-----------------------------------------------------------------------------
Signals == NodeFails \/ AuthorityChanges \/ RoutesChange \/ RelayFails \/ SignalCloses

Startup ==
    \/ StartNode \/ Listen \/ StartAuthority \/ StartRelay \/ StartStepFails
    \/ RelayStartFails \/ BecomesReady \/ StartupIsRefused \/ GoLive \/ DropStart

Monitoring ==
    \/ MonitorLooks \/ MonitorFences \/ MonitorPublishes \/ MonitorStops \/ MonitorWakes
    \/ MonitorIsOrphaned

Stopping == Shutdown \/ RunStage \/ StartReturnsError \/ FinishShutdown \/ DropPeer
            \/ RelayGone \/ NodeGone

Next == Signals \/ Startup \/ Monitoring \/ Stopping \/ \E w \in Waiters : WaiterReturns(w)

Spec == Init /\ [][Next]_vars

\* Spawned tasks run and awaited stages end: each has a timeout or a barrier of its
\* own.  Nothing is assumed of the parts, of the owner, or of startup.
Fairness ==
    /\ WF_vars(Monitoring) /\ WF_vars(RunStage)
    /\ WF_vars(StartReturnsError \/ FinishShutdown) /\ WF_vars(RelayGone)
    /\ WF_vars(NodeGone)
    /\ \A w \in Waiters : WF_vars(WaiterReturns(w))

FairSpec == Spec /\ Fairness

-----------------------------------------------------------------------------
TypeOK ==
    /\ phase \in {"node", "listen", "authority", "relay", "ready", "discovery", "live",
                  "undo", "failed", "abandoned", "shutdown", "closed", "dropped"}
    /\ node \in {"none", "up", "dead", "closing", "down"}
    /\ authority \in {"none", "ready", "expired", "refused", "stopped", "ended"}
    /\ relay \in {"none", "up", "failed", "closing", "down"}
    /\ booking \in BOOLEAN /\ confirmed \in BOOLEAN /\ running \in BOOLEAN
    /\ publisher \in {"none", "up", "canceled", "down"}
    /\ protocols \in {"serving", "aborted", "joined"}
    /\ status \in Statuses \cup {<<"none">>}
    /\ \A w \in Waiters : exit[w] = NoExit \/ IsFinal(exit[w])

(* Nobody sees the peer's end while a retained protocol handle still        *)
(* accepts work: monitor_runtime and shutdown fence before they publish.    *)
EndIsFenced ==
    (IsTerminal(status) \/ \E w \in Waiters : exit[w] # NoExit) => ~running

(* A waiter told that the peer stopped can rely on it: the booking is       *)
(* deleted, the servers are joined, and nothing of the peer runs.           *)
StoppedMeansGone ==
    (\E w \in Waiters : exit[w] = <<"stopped">>) =>
        /\ node = "down" /\ authority = "ended" /\ relay \in {"none", "down"}
        /\ ~booking /\ ~confirmed /\ protocols = "joined"
        /\ publisher \in {"none", "down"}

(* A start that returns an error, at whatever step and whatever its parts   *)
(* did meanwhile, leaves none of them running.                              *)
FailedStartLeavesNothing ==
    phase = "failed" =>
        /\ node \in {"none", "down"} /\ authority \in {"none", "ended"}
        /\ relay \in {"none", "down"} /\ publisher = "none"

(* No ready status follows a terminal one, whatever order the monitor, the  *)
(* shutdown and the drop take their turns in (AukiPeerStatus::is_terminal). *)
TerminalStays == [][IsTerminal(status) => IsTerminal(status')]_vars

(* A part that fails for good is noticed, also when it failed between the   *)
(* last check of startup and the start of the monitor.                      *)
FailureIsNoticed == (Live /\ IsTerminal(Observed)) ~> IsTerminal(status)

(* Once the peer is being shut down or was dropped every waiter returns,    *)
(* also when the shutdown's future is dropped half way.                     *)
WaitersReturn == (phase \in {"closed", "dropped"}) ~> (\A w \in Waiters : exit[w] # NoExit)

(* A peer dropped, as a start, a shutdown or while it ran, goes in the end  *)
(* although nobody waits: its transport, which its relay may outlive, too.  *)
DroppedPeerGoes ==
    (phase \in {"abandoned", "dropped"}) ~>
        (node \in {"none", "down"} /\ relay \in {"none", "down"})
=============================================================================
