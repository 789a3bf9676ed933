---------------------------- MODULE MCComponents -----------------------------
(***************************************************************************)
(* The components of a peer and of a machine that keep state of their own, *)
(* side by side. They share no variable here: a behaviour is one of a      *)
(* single component, its `subject', while the others stay where they       *)
(* begin, and the configuration names the subjects and the bounds of each. *)
(* This module adds nothing to the components; it lets one run ask the     *)
(* same question of all of them.                                           *)
(***************************************************************************)
EXTENDS DomainKeys, MachineParts, PeerParts

CONSTANT Subjects   \* the components of a run

VARIABLE subject     \* never changes

-----------------------------------------------------------------------------
\* Nothing that fairness speaks of is enabled in an initial state: a component that
\* stays there keeps no other from being fair
MCInit ==
    /\ subject \in Subjects
    /\ Init
       /\ (subject # "keys" =>
             ring = FromKeys([generation |-> 0, current |-> CHOOSE k \in Keys : TRUE, previous |-> NoKey]))
    /\ TaskRuntime!Init
    /\ RobotPeer!Init
    /\ TokenManager!Init /\ (subject # "credential" => token_kind = "robot")
    /\ AuthSession!Init /\ (subject # "session" => auth_kind = "user" /\ ~auth_expiring)
    /\ AuthoritySupervisor!Init /\ (subject # "authority" => sup_mode = "pull")
    /\ RelayReservations!Init
    /\ CircuitHops!Init
    /\ TargetedStreams!Init
    /\ AdmissionCache!Init
    /\ NodeObservations!Init
    /\ ProtocolServers!Init
    /\ Advertiser!Init /\ (subject # "advertiser" => adv_kind = "native" /\ adv_local = CHOOSE v \in adv_Values : TRUE)
    /\ PeerRuntime!Init /\ (subject # "peer" => peer_config.relay /\ peer_config.advertise)

\* The subject moves
MCNext ==
    /\ UNCHANGED subject
    /\ \/ subject = "keys"
          /\ UNCHANGED <<task_vars, robot_vars, token_vars, auth_vars, sup_vars,
                         res_vars, hop_vars, str_vars, adm_vars, obs_vars,
                         prot_vars, adv_vars, peer_vars>>
          /\ Next
       \/ subject = "task"
          /\ UNCHANGED <<vars, robot_vars, token_vars, auth_vars, sup_vars,
                         res_vars, hop_vars, str_vars, adm_vars, obs_vars,
                         prot_vars, adv_vars, peer_vars>>
          /\ TaskRuntime!Next
       \/ subject = "robot peer"
          /\ UNCHANGED <<vars, task_vars, token_vars, auth_vars, sup_vars, res_vars,
                         hop_vars, str_vars, adm_vars, obs_vars, prot_vars,
                         adv_vars, peer_vars>>
          /\ RobotPeer!Next
       \/ subject = "credential"
          /\ UNCHANGED <<vars, task_vars, robot_vars, auth_vars, sup_vars, res_vars,
                         hop_vars, str_vars, adm_vars, obs_vars, prot_vars,
                         adv_vars, peer_vars>>
          /\ TokenManager!Next
       \/ subject = "session"
          /\ UNCHANGED <<vars, task_vars, robot_vars, token_vars, sup_vars,
                         res_vars, hop_vars, str_vars, adm_vars, obs_vars,
                         prot_vars, adv_vars, peer_vars>>
          /\ AuthSession!Next
       \/ subject = "authority"
          /\ UNCHANGED <<vars, task_vars, robot_vars, token_vars, auth_vars,
                         res_vars, hop_vars, str_vars, adm_vars, obs_vars,
                         prot_vars, adv_vars, peer_vars>>
          /\ AuthoritySupervisor!Next
       \/ subject = "reservations"
          /\ UNCHANGED <<vars, task_vars, robot_vars, token_vars, auth_vars,
                         sup_vars, hop_vars, str_vars, adm_vars, obs_vars,
                         prot_vars, adv_vars, peer_vars>>
          /\ RelayReservations!Next
       \/ subject = "circuits"
          /\ UNCHANGED <<vars, task_vars, robot_vars, token_vars, auth_vars,
                         sup_vars, res_vars, str_vars, adm_vars, obs_vars,
                         prot_vars, adv_vars, peer_vars>>
          /\ CircuitHops!Next
       \/ subject = "streams"
          /\ UNCHANGED <<vars, task_vars, robot_vars, token_vars, auth_vars,
                         sup_vars, res_vars, hop_vars, adm_vars, obs_vars,
                         prot_vars, adv_vars, peer_vars>>
          /\ TargetedStreams!Next
       \/ subject = "admissions"
          /\ UNCHANGED <<vars, task_vars, robot_vars, token_vars, auth_vars,
                         sup_vars, res_vars, hop_vars, str_vars, obs_vars,
                         prot_vars, adv_vars, peer_vars>>
          /\ AdmissionCache!Next
       \/ subject = "observations"
          /\ UNCHANGED <<vars, task_vars, robot_vars, token_vars, auth_vars,
                         sup_vars, res_vars, hop_vars, str_vars, adm_vars,
                         prot_vars, adv_vars, peer_vars>>
          /\ NodeObservations!Next
       \/ subject = "protocols"
          /\ UNCHANGED <<vars, task_vars, robot_vars, token_vars, auth_vars,
                         sup_vars, res_vars, hop_vars, str_vars, adm_vars, obs_vars,
                         adv_vars, peer_vars>>
          /\ ProtocolServers!Next
       \/ subject = "advertiser"
          /\ UNCHANGED <<vars, task_vars, robot_vars, token_vars, auth_vars,
                         sup_vars, res_vars, hop_vars, str_vars, adm_vars, obs_vars,
                         prot_vars, peer_vars>>
          /\ Advertiser!Next
       \/ subject = "peer"
          /\ UNCHANGED <<vars, task_vars, robot_vars, token_vars, auth_vars,
                         sup_vars, res_vars, hop_vars, str_vars, adm_vars, obs_vars,
                         prot_vars, adv_vars>>
          /\ PeerRuntime!Next

mcvars == <<subject, vars, task_vars, robot_vars, token_vars, auth_vars, sup_vars,
            res_vars, hop_vars, str_vars, adm_vars, obs_vars, prot_vars, adv_vars,
            peer_vars>>

MCSpec == MCInit /\ [][MCNext]_mcvars

\* Runs ask either these subjects for what must happen, or the others
MachineFairSpec ==
    /\ MCSpec
    /\ TaskRuntime!Fairness
    /\ RobotPeer!Fairness
    /\ TokenManager!Fairness
    /\ AuthSession!Fairness
    /\ AuthoritySupervisor!Fairness

PeerFairSpec ==
    /\ MCSpec
    /\ RelayReservations!Fairness
    /\ CircuitHops!Fairness
    /\ TargetedStreams!Fairness
    /\ ProtocolServers!Fairness
    /\ Advertiser!Fairness
    /\ PeerRuntime!Fairness

-----------------------------------------------------------------------------
\* Of the components only the subject is asked: the others are in one of the states it
\* begins in when it is its turn.

\* Every component keeps its type.
ComponentsTypeOK ==
    /\ subject = "keys" => TypeOK
    /\ subject = "task" => TaskRuntime!TypeOK
    /\ subject = "robot peer" => RobotPeer!TypeOK
    /\ subject = "credential" => TokenManager!TypeOK
    /\ subject = "session" => AuthSession!TypeOK
    /\ subject = "authority" => AuthoritySupervisor!TypeOK
    /\ subject = "reservations" => RelayReservations!TypeOK
    /\ subject = "circuits" => CircuitHops!TypeOK
    /\ subject = "streams" => TargetedStreams!TypeOK
    /\ subject = "admissions" => AdmissionCache!TypeOK
    /\ subject = "observations" => NodeObservations!TypeOK
    /\ subject = "protocols" => ProtocolServers!TypeOK
    /\ subject = "advertiser" => Advertiser!TypeOK
    /\ subject = "peer" => PeerRuntime!TypeOK

\* runtime.rs, heartbeat and flush: a task's events reach the DMS in order and none
\* twice, and a receipt stands for a task whose events are all there.
DmsSeesWholeTask ==
    /\ subject = "task" => TaskRuntime!EventsArriveOnce
    /\ subject = "task" => TaskRuntime!ReceiptAfterEvents

\* What a component says of its end is what happened: a close that returns Ok left no
\* peer, login, handler or stream behind (runtime.rs, robot_peer.rs, robot.rs,
\* compute.rs, protocols.rs, peer_runtime.rs), a failure reaches everyone who waits
\* for it (robot_peer.rs, start), a start that fails leaves nothing running, and
\* nobody sees the end of a peer that still accepts work (peer_runtime.rs).
OutcomesAreHonest ==
    /\ subject = "task" => TaskRuntime!CloseIsHonest
    /\ subject = "robot peer" => RobotPeer!CloseIsHonest
    /\ subject = "robot peer" => RobotPeer!FailureReachesWaiters
    /\ subject = "credential" => TokenManager!CloseOutlivesAll
    /\ subject = "protocols" => ProtocolServers!JoinedMeansQuiet
    /\ subject = "peer" => PeerRuntime!EndIsFenced
    /\ subject = "peer" => PeerRuntime!StoppedMeansGone
    /\ subject = "peer" => PeerRuntime!FailedStartLeavesNothing

\* What a component shows to the others is there: a published reservation has its
\* connection and its listener (transport.rs), an advertised protocol a server that
\* runs, until the peer is fenced (served_protocols.rs), a selected circuit is up
\* (circuit_hop.rs), no admission is offered whose failure was recorded
\* (source_admission.rs), a peer is shown as authenticated while it is connected and
\* until its authentication expires, to a snapshot and to whoever follows the events
\* (observation.rs, known_peers.rs), and between updates the transport holds the
\* supervisor's credential (authority.rs).
ShownIsBacked ==
    /\ subject = "reservations" => RelayReservations!PublishedIsBacked
    /\ subject = "protocols" => ProtocolServers!AdvertisedIsServed
    /\ subject = "circuits" => CircuitHops!SelectionFollowsCircuits
    /\ subject = "authority" => AuthoritySupervisor!TransportAgrees
    /\ subject = "admissions" => AdmissionCache!FailedLeaseIsGone
    /\ subject = "observations" => NodeObservations!AuthenticatedIsConnected
    /\ subject = "observations" => NodeObservations!EventsAddUp
    /\ subject = "observations" => NodeObservations!FollowerAgrees
    /\ subject = "observations" => NodeObservations!DriverIsArmed

\* Whoever asks, one login is under way at a time (token_manager.rs, get_access), and
\* one request for the same admission (source_admission.rs, authorize).
SingleFlight ==
    /\ subject = "credential" => TokenManager!SingleLogin
    /\ subject = "admissions" => AdmissionCache!SingleFlight

\* zitadel_session.rs, refresh and ready: a refresh token is never submitted twice,
\* and what an operation uses has been saved.
RotationIsSafe ==
    /\ subject = "session" => AuthSession!ConsumedNeverReused
    /\ subject = "session" => AuthSession!UsedIsSaved

\* authority.rs, refresh_after_unauthorized: success means a newer revision.
RefreshedMeansReplaced == subject = "authority" => AuthoritySupervisor!RefreshedMeansReplaced

\* relay_client.rs: a reservation is accepted by its own answer only.
AcceptanceIsOwn == subject = "reservations" => RelayReservations!AcceptanceIsOwn

\* circuit_hop.rs: a circuit that is held is never closed by the node.
HeldCircuitStaysUp == subject = "circuits" => CircuitHops!HeldCircuitStaysUp

\* runtime.rs: the permit returns when handler and peer of the lease are gone.
PermitCoversLease == TaskRuntime!PermitCoversLease

\* What a component acts on is true when it acts: no stale credential is handed out
\* (authority.rs, current), and a relay connection is retired only for a stall that
\* no success interrupted (targeted_stream.rs, timed_out).
ActsOnCurrentState ==
    /\ AuthoritySupervisor!AuthorizationIsCurrent
    /\ TargetedStreams!RetiredWasStalled

\* What is over stays over: a lease that lost its authority before the last look at it
\* is never reported (runtime.rs, complete and fail), a cancelled reservation is
\* reported gone with its last connection and dial only (transport.rs), a closed
\* session saves and submits nothing and one that needs a login never recovers
\* (client.rs, zitadel_session.rs), behind the fence nothing is mounted and a drained
\* peer advertises nothing (context.rs, protocols.rs), no ready status follows a
\* terminal one (status.rs), and a peer reported gone is next reported to appear, if
\* ever, and never after the end of the node (observation.rs).
NothingAfterTheEnd ==
    /\ TaskRuntime!ReceiptIsLast
    /\ RelayReservations!CancelClosesEverything
    /\ AuthSession!ClosedIsSilent
    /\ AuthSession!LoginStaysRequired
    /\ ProtocolServers!FenceHolds
    /\ PeerRuntime!TerminalStays
    /\ NodeObservations!EventsAlternate

\* What stops a machine gets through: the task loop ends and its close gets past lease
\* and robot peer to the credential's close (runtime.rs), a closed robot peer ends
\* (robot_peer.rs), so does a login that began, and the credential's close returns
\* unless it joins a background loop that cannot hear it (token_manager.rs, stop);
\* the close of a session returns (client.rs), and the driver of a credential and
\* every update of it end (authority.rs, shutdown).
MachineClosingEnds ==
    /\ TaskRuntime!StopEndsLoop
    /\ TaskRuntime!CloseReachesMachine
    /\ RobotPeer!ClosedEnds
    /\ TokenManager!LoginEndsOrCloses
    /\ TokenManager!CloseReturnsIfHeard
    /\ AuthSession!SessionCloses
    /\ AuthoritySupervisor!ShutdownReturns

\* A data call waits for one renewal at most (access.rs), every operation gives its
\* session back (client.rs), and refresh_after_unauthorized is answered
\* (authority.rs).
MachineCallsReturn ==
    /\ TaskRuntime!DataCallReturns
    /\ AuthSession!OperationReturns
    /\ AuthoritySupervisor!RefreshReturns

\* Lost authority takes the task's peer down (runtime.rs), a robot's peer without its
\* grant or its transport does not stay up (robot_peer.rs), and a credential that
\* expired is withdrawn though nobody reads it (authority.rs).
LostAuthorityTakesEffect ==
    /\ TaskRuntime!RevokedPeerGoes
    /\ RobotPeer!LostPeerGoes
    /\ AuthoritySupervisor!ExpiryIsNoticed

\* Whoever stops a part of a peer is answered: a cancelled reservation is gone
\* (transport.rs), a server nobody owns ends with its handlers and streams
\* (runtime.rs), a cancelled publisher leaves no advertisement (discovery.rs), and
\* every waiter of wait_stopped returns (peer_runtime.rs).
PeerClosingEnds ==
    /\ RelayReservations!CancelReturns
    /\ ProtocolServers!LetGoEnds
    /\ Advertiser!CancelledAdGoes
    /\ PeerRuntime!WaitersReturn

\* start_relay_reservation and whoever opens or closes a route (transport.rs) or a
\* stream (targeted_stream.rs) are answered.
PeerCallsReturn ==
    /\ RelayReservations!StartReturns
    /\ CircuitHops!OpenReturns
    /\ TargetedStreams!OpenReturns

\* A circuit nobody holds goes (circuit_hop.rs), a start of the publisher that fails
\* or is dropped leaves no advertisement (discovery.rs), and a peer dropped while it
\* starts, runs or shuts down goes with its transport and its relay (peer_runtime.rs).
UnheldGoes ==
    /\ CircuitHops!UnheldCircuitGoes
    /\ Advertiser!UnownedAdGoes
    /\ PeerRuntime!DroppedPeerGoes

\* The tracker lists what the peer has for good (discovery.rs), a stalled relay
\* connection goes (targeted_stream.rs), and a part that fails for good is noticed
\* (peer_runtime.rs, monitor_runtime).
ChangesAreNoticed ==
    /\ Advertiser!TrackerCatchesUp
    /\ TargetedStreams!RetiredCloses
    /\ PeerRuntime!FailureIsNoticed

=============================================================================
