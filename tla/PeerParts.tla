------------------------------ MODULE PeerParts -------------------------------
(***************************************************************************)
(* The components of a peer that keep state of their own, each with its    *)
(* constants and variables: relay reservations, circuits, targeted         *)
(* streams, source admissions, observations of other peers, the servers of *)
(* application protocols, the advertisement and the runtime itself.        *)
(***************************************************************************)
EXTENDS Naturals

CONSTANTS res_Callers, res_MaxGen, res_MaxConn, res_MaxQueued
VARIABLES res_node, res_call, res_upq, res_wire, res_contexts, res_circuit,
          res_nextConn
res_vars == <<res_node, res_call, res_upq, res_wire, res_contexts, res_circuit,
    res_nextConn>>
RelayReservations == INSTANCE RelayReservationsProofs WITH
    Callers <- res_Callers, MaxGen <- res_MaxGen, MaxConn <- res_MaxConn,
    MaxQueued <- res_MaxQueued, node <- res_node, call <- res_call,
    upq <- res_upq, wire <- res_wire, contexts <- res_contexts,
    circuit <- res_circuit, nextConn <- res_nextConn

CONSTANTS hop_Openers, hop_Permits, hop_MaxConn
VARIABLES hop_op, hop_cmds, hop_table, hop_waiters, hop_net, hop_free, hop_unread
hop_vars == <<hop_op, hop_cmds, hop_table, hop_waiters, hop_net, hop_free,
    hop_unread>>
CircuitHops == INSTANCE CircuitHops WITH
    Openers <- hop_Openers, Permits <- hop_Permits, MaxConn <- hop_MaxConn,
    op <- hop_op, cmds <- hop_cmds, table <- hop_table, waiters <- hop_waiters,
    net <- hop_net, free <- hop_free, unread <- hop_unread

CONSTANTS str_MaxRequests, str_Conns, str_Capacity, str_Threshold, str_Window, str_IdleReset, str_MaxTime
VARIABLES str_now, str_swarm, str_conn, str_call, str_commands, str_pending,
          str_handler, str_progress, str_closes, str_history
str_vars == <<str_now, str_swarm, str_conn, str_call, str_commands, str_pending,
    str_handler, str_progress, str_closes, str_history>>
TargetedStreams == INSTANCE TargetedStreamsProofs WITH
    MaxRequests <- str_MaxRequests, Conns <- str_Conns, Capacity <- str_Capacity,
    Threshold <- str_Threshold, Window <- str_Window, IdleReset <- str_IdleReset,
    MaxTime <- str_MaxTime, now <- str_now, swarm <- str_swarm, conn <- str_conn,
    call <- str_call, commands <- str_commands, pending <- str_pending,
    handler <- str_handler, progress <- str_progress, closes <- str_closes,
    history <- str_history

CONSTANTS adm_Callers, adm_Keys, adm_Ttl, adm_MaxEntry, adm_MaxLease, adm_MaxTime
VARIABLES adm_now, adm_map, adm_gate, adm_cached, adm_made, adm_issued, adm_call,
          adm_refused
adm_vars == <<adm_now, adm_map, adm_gate, adm_cached, adm_made, adm_issued, adm_call,
    adm_refused>>
AdmissionCache == INSTANCE AdmissionCache WITH
    Callers <- adm_Callers, Keys <- adm_Keys, Ttl <- adm_Ttl,
    MaxEntry <- adm_MaxEntry, MaxLease <- adm_MaxLease, MaxTime <- adm_MaxTime,
    now <- adm_now, map <- adm_map, gate <- adm_gate, cached <- adm_cached,
    made <- adm_made, issued <- adm_issued, call <- adm_call,
    refused <- adm_refused

CONSTANTS obs_Peers, obs_Domains, obs_MaxLive, obs_Streams, obs_Capacity, obs_MaxTime, obs_Lives
VARIABLES obs_now, obs_status, obs_connections, obs_verified, obs_owner, obs_batch,
          obs_call, obs_driver, obs_changed, obs_queue, obs_lagged, obs_follower,
          obs_told
obs_vars == <<obs_now, obs_status, obs_connections, obs_verified, obs_owner,
    obs_batch, obs_call, obs_driver, obs_changed, obs_queue, obs_lagged, obs_follower,
    obs_told>>
NodeObservations == INSTANCE NodeObservationsProofs WITH
    Peers <- obs_Peers, Domains <- obs_Domains, MaxLive <- obs_MaxLive,
    Streams <- obs_Streams, Capacity <- obs_Capacity, MaxTime <- obs_MaxTime,
    Lives <- obs_Lives, now <- obs_now, status <- obs_status,
    connections <- obs_connections, verified <- obs_verified, owner <- obs_owner,
    batch <- obs_batch, call <- obs_call, driver <- obs_driver,
    changed <- obs_changed, queue <- obs_queue, lagged <- obs_lagged,
    follower <- obs_follower, told <- obs_told

CONSTANTS prot_Users, prot_Protocols, prot_Concurrency, prot_Capacity, prot_MaxGen, prot_MaxStreams
VARIABLES prot_running, prot_registrations, prot_next, prot_served, prot_accepting,
          prot_server, prot_queue, prot_handlers, prot_user, prot_shut, prot_streams
prot_vars == <<prot_running, prot_registrations, prot_next, prot_served,
    prot_accepting, prot_server, prot_queue, prot_handlers, prot_user, prot_shut,
    prot_streams>>
ProtocolServers == INSTANCE ProtocolServers WITH
    Users <- prot_Users, Protocols <- prot_Protocols,
    Concurrency <- prot_Concurrency, Capacity <- prot_Capacity,
    MaxGen <- prot_MaxGen, MaxStreams <- prot_MaxStreams, running <- prot_running,
    registrations <- prot_registrations, next <- prot_next, served <- prot_served,
    accepting <- prot_accepting, server <- prot_server, queue <- prot_queue,
    handlers <- prot_handlers, user <- prot_user, shut <- prot_shut,
    streams <- prot_streams

CONSTANTS adv_Values, adv_Attempts, adv_MaxLate
VARIABLES adv_kind, adv_local, adv_changed, adv_authority, adv_noticed, adv_cancel,
          adv_owner, adv_task, adv_ad, adv_late
adv_vars == <<adv_kind, adv_local, adv_changed, adv_authority, adv_noticed,
    adv_cancel, adv_owner, adv_task, adv_ad, adv_late>>
Advertiser == INSTANCE Advertiser WITH
    Values <- adv_Values, Attempts <- adv_Attempts, MaxLate <- adv_MaxLate,
    kind <- adv_kind, local <- adv_local, changed <- adv_changed,
    authority <- adv_authority, noticed <- adv_noticed, cancel <- adv_cancel,
    owner <- adv_owner, task <- adv_task, ad <- adv_ad, late <- adv_late

CONSTANTS peer_Waiters, peer_MaxChanges
VARIABLES peer_config, peer_phase, peer_todo, peer_node, peer_authority, peer_relay,
          peer_booking, peer_confirmed, peer_publisher, peer_running, peer_protocols,
          peer_status, peer_shuttingDown, peer_monitor, peer_stopMonitor, peer_dirty,
          peer_failures, peer_exit, peer_changes
peer_vars == <<peer_config, peer_phase, peer_todo, peer_node, peer_authority,
    peer_relay, peer_booking, peer_confirmed, peer_publisher, peer_running,
    peer_protocols, peer_status, peer_shuttingDown, peer_monitor, peer_stopMonitor,
    peer_dirty, peer_failures, peer_exit, peer_changes>>
PeerRuntime == INSTANCE PeerRuntime WITH
    Waiters <- peer_Waiters, MaxChanges <- peer_MaxChanges, config <- peer_config,
    phase <- peer_phase, todo <- peer_todo, node <- peer_node,
    authority <- peer_authority, relay <- peer_relay, booking <- peer_booking,
    confirmed <- peer_confirmed, publisher <- peer_publisher,
    running <- peer_running, protocols <- peer_protocols, status <- peer_status,
    shuttingDown <- peer_shuttingDown, monitor <- peer_monitor,
    stopMonitor <- peer_stopMonitor, dirty <- peer_dirty,
    failures <- peer_failures, exit <- peer_exit, changes <- peer_changes

\* What the theorems about the components of a peer ask of their constants
ASSUME PeerConstants ==
    /\ RelayReservations!ReservationConstants
    /\ CircuitHops!HopConstants
    /\ TargetedStreams!StreamConstants
    /\ AdmissionCache!CacheConstants
    /\ NodeObservations!ObservationConstants
    /\ ProtocolServers!ProtocolConstants
    /\ Advertiser!AdvertiserConstants
=============================================================================
