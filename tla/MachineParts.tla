----------------------------- MODULE MachineParts -----------------------------
(***************************************************************************)
(* The components of a machine that keep state of their own, each with its *)
(* constants and variables: managed tasks, the peer of a robot, a machine  *)
(* credential, a signed-in session and the supervisor of an authority.     *)
(***************************************************************************)
EXTENDS Naturals

CONSTANTS task_MaxTasks, task_MaxEvents, task_MaxQueue, task_Faults
VARIABLES task_dms, task_wire, task_pc, task_task, task_err, task_outcome, task_hb,
          task_batch, task_queue, task_logged, task_handler, task_revoked, task_valid,
          task_peer, task_cancelled, task_closed, task_closing, task_robotFailed, task_permit,
          task_cleanupFailed, task_leaked, task_abandoned
task_vars == <<task_dms, task_wire, task_pc, task_task, task_err, task_outcome,
    task_hb, task_batch, task_queue, task_logged, task_handler, task_revoked,
    task_valid, task_peer, task_cancelled, task_closed, task_closing, task_robotFailed,
    task_permit,
    task_cleanupFailed, task_leaked, task_abandoned>>
TaskRuntime == INSTANCE TaskRuntime WITH
    MaxTasks <- task_MaxTasks, MaxEvents <- task_MaxEvents,
    MaxQueue <- task_MaxQueue, Faults <- task_Faults, dms <- task_dms,
    wire <- task_wire, pc <- task_pc, task <- task_task, err <- task_err,
    outcome <- task_outcome, hb <- task_hb, batch <- task_batch,
    queue <- task_queue, logged <- task_logged, handler <- task_handler,
    revoked <- task_revoked, valid <- task_valid, peer <- task_peer,
    cancelled <- task_cancelled, closed <- task_closed, closing <- task_closing,
    robotFailed <- task_robotFailed,
    permit <- task_permit, cleanupFailed <- task_cleanupFailed,
    leaked <- task_leaked, abandoned <- task_abandoned

CONSTANTS robot_Waiters, robot_MaxGrant
VARIABLES robot_now, robot_closed, robot_hostClosed, robot_failure, robot_ready,
          robot_cleanupFailed, robot_driver, robot_result, robot_grant, robot_peer,
          robot_stopped, robot_rejected, robot_waiter, robot_closing
robot_vars == <<robot_now, robot_closed, robot_hostClosed, robot_failure, robot_ready,
    robot_cleanupFailed, robot_driver, robot_result, robot_grant, robot_peer,
    robot_stopped, robot_rejected, robot_waiter, robot_closing>>
RobotPeer == INSTANCE RobotPeer WITH
    Waiters <- robot_Waiters, MaxGrant <- robot_MaxGrant, now <- robot_now,
    closed <- robot_closed, hostClosed <- robot_hostClosed,
    failure <- robot_failure, ready <- robot_ready,
    cleanupFailed <- robot_cleanupFailed, driver <- robot_driver,
    result <- robot_result, grant <- robot_grant, peer <- robot_peer,
    stopped <- robot_stopped, rejected <- robot_rejected, waiter <- robot_waiter,
    closing <- robot_closing

CONSTANTS token_Callers, token_MaxAttempts
VARIABLES token_kind, token_token, token_backoff, token_inflight, token_stopped,
          token_restarted, token_call, token_bg, token_closed, token_startup,
          token_registrar, token_closer
token_vars == <<token_kind, token_token, token_backoff, token_inflight, token_stopped,
    token_restarted, token_call, token_bg, token_closed, token_startup,
    token_registrar, token_closer>>
TokenManager == INSTANCE TokenManager WITH
    Callers <- token_Callers, MaxAttempts <- token_MaxAttempts,
    kind <- token_kind, token <- token_token, backoff <- token_backoff,
    inflight <- token_inflight, stopped <- token_stopped,
    restarted <- token_restarted, call <- token_call, bg <- token_bg,
    closed <- token_closed, startup <- token_startup,
    registrar <- token_registrar, closer <- token_closer

CONSTANTS auth_Callers, auth_MaxToken
VARIABLES auth_kind, auth_issued, auth_held, auth_expiring, auth_unsaved,
          auth_terminal, auth_store, auth_worker, auth_call, auth_lock, auth_cached,
          auth_closed, auth_closing, auth_reused, auth_lost
auth_vars == <<auth_kind, auth_issued, auth_held, auth_expiring, auth_unsaved,
    auth_terminal, auth_store, auth_worker, auth_call, auth_lock, auth_cached,
    auth_closed, auth_closing, auth_reused, auth_lost>>
AuthSession == INSTANCE AuthSession WITH
    Callers <- auth_Callers, MaxToken <- auth_MaxToken, kind <- auth_kind,
    issued <- auth_issued, held <- auth_held, expiring <- auth_expiring,
    unsaved <- auth_unsaved, terminal <- auth_terminal, store <- auth_store,
    worker <- auth_worker, call <- auth_call, lock <- auth_lock,
    cached <- auth_cached, closed <- auth_closed, closing <- auth_closing,
    reused <- auth_reused, lost <- auth_lost

CONSTANTS sup_Hosts, sup_Readers, sup_Refreshers, sup_MaxCred
VARIABLES sup_mode, sup_now, sup_stopped, sup_cancelled, sup_current, sup_installed,
          sup_status, sup_sending, sup_stopping, sup_updateLock, sup_refreshLock,
          sup_update, sup_renewal, sup_read, sup_refresh, sup_request
sup_vars == <<sup_mode, sup_now, sup_stopped, sup_cancelled, sup_current,
    sup_installed, sup_status, sup_sending, sup_stopping, sup_updateLock,
    sup_refreshLock, sup_update, sup_renewal, sup_read, sup_refresh, sup_request>>
AuthoritySupervisor == INSTANCE AuthoritySupervisor WITH
    Hosts <- sup_Hosts, Readers <- sup_Readers, Refreshers <- sup_Refreshers,
    MaxCred <- sup_MaxCred, mode <- sup_mode, now <- sup_now,
    stopped <- sup_stopped, cancelled <- sup_cancelled, current <- sup_current,
    installed <- sup_installed, status <- sup_status, sending <- sup_sending,
    stopping <- sup_stopping, updateLock <- sup_updateLock,
    refreshLock <- sup_refreshLock, update <- sup_update, renewal <- sup_renewal,
    read <- sup_read, refresh <- sup_refresh, request <- sup_request

\* What the theorems about the components of a machine ask of their constants
ASSUME MachineConstants ==
    /\ TaskRuntime!TaskConstants
    /\ RobotPeer!RobotConstants
    /\ TokenManager!ManagerConstants
    /\ AuthSession!SessionConstants
    /\ AuthoritySupervisor!SupervisorConstants
=============================================================================
