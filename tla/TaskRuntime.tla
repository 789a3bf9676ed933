----------------------------- MODULE TaskRuntime -----------------------------
(***************************************************************************)
(* The managed task loop of a machine (core/auki-tasks/src/runtime.rs):    *)
(* AukiDmsTasks::run claims one task at a time, TaskLease::execute_managed *)
(* runs the application's handler next to the heartbeats that keep the     *)
(* lease, flushes the handler's events, releases the task's peer and sends *)
(* one receipt.  The data credential the handler uses (access.rs) may      *)
(* revoke the lease on its own; the host may cancel, close the runtime or  *)
(* drop the running future at any moment; the DMS may cancel the task; and *)
(* a request whose reply is lost may still take effect.                    *)
(*                                                                         *)
(* The DMS, the handler, the peer transport and time are the environment.  *)
(* A task's events are numbered in the order log_event accepted them.      *)
(***************************************************************************)
EXTENDS Naturals, Sequences

CONSTANTS
    MaxTasks,      \* tasks the DMS hands out
    MaxEvents,     \* events a handler logs
    MaxQueue,      \* capacity of the event queue (1024 in the code)
    Faults         \* what goes wrong in a run, of
                   \*   "network": requests and replies are lost
                   \*   "expire":  the local deadline of a lease passes
                   \*   "cancel":  the DMS cancels tasks
                   \*   "invalid": the DMS answers with a grant that is refused
                   \*   "peer":    a peer stops, or its cleanup fails
                   \*   "unauthorized": the DMS refuses a bearer
                   \*   "abandon": the host drops the running future

Tasks == 1..MaxTasks
NoTask == 0

\* What the theorems ask of the constants
TaskConstants == MaxTasks \in Nat /\ MaxEvents \in Nat /\ MaxQueue \in Nat

VARIABLES
    dms,          \* per task: its state and the events the DMS holds
    wire,         \* requests on their way to the DMS
    pc,           \* where run / execute_managed is
    task,         \* the leased task
    err,          \* the error this lease will return
    outcome,      \* what the handler returned
    hb,           \* the heartbeat in flight
    batch,        \* number of events in it
    queue,        \* TaskContext.events
    logged,       \* per task: events log_event accepted
    handler,      \* the application's handler
    revoked,      \* TaskCredential::revoke has run
    valid,        \* the lease deadline is still ahead
    peer,         \* the task's peer
    cancelled,    \* the host's cancellation token
    closed,       \* Owner.closed
    closing,      \* AukiDmsTasks::close
    robotFailed,  \* the peer_cleanup of close: the robot's peer
    permit,       \* Owner.active is free
    cleanupFailed,\* Owner.cleanup_failed
    leaked,       \* a peer was not shut down cleanly
    abandoned     \* a running future was dropped

dmsVars == <<dms, wire>>
leaseVars == <<task, err, outcome, hb, batch, queue, handler, revoked, valid>>
hostVars == <<cancelled, closed, closing, robotFailed, abandoned>>
peerVars == <<peer, cleanupFailed, leaked>>
vars == <<dmsVars, pc, leaseVars, logged, hostVars, peerVars, permit>>

\* TaskContext::is_cancelled: the credential's token is a child of Owner.closed
IsCancelled == revoked \/ closed

\* execute_managed and start_peer watch both tokens
Interrupted == cancelled \/ closed

Request(kind, events) == [kind |-> kind, task |-> task, events |-> events]

-----------------------------------------------------------------------------
(* The end of a lease *)

\* keeps_claiming and the match in run: what ends the loop
KeepsClaiming(e) ==
    CASE e \in {"none", "handler"} -> TRUE
      [] e = "transient" -> ~closed
      [] e = "cancelled" -> ~cancelled /\ ~closed
      [] OTHER -> FALSE

\* TaskLease is dropped: data access is revoked and the permit returns
LeaseEnds(e) ==
    /\ pc' = IF KeepsClaiming(e) THEN "poll" ELSE "ended"
    /\ task' = NoTask
    /\ err' = e
    /\ outcome' = "none"
    /\ hb' = "idle" /\ batch' = 0 /\ queue' = <<>>
    /\ handler' = "off"
    /\ revoked' = TRUE /\ valid' = FALSE
    /\ permit' = TRUE

\* finish_resources: the peer is fenced and shut down, and a failure is kept
ShutDown(failing) ==
    /\ peer' = "none"
    /\ leaked' = (leaked \/ failing)
    /\ cleanupFailed' = (cleanupFailed \/ failing)

MayFail == IF "peer" \in Faults /\ peer # "none" THEN BOOLEAN ELSE {FALSE}

\* The lease ends without a receipt, once the handler is gone
Cleanup ==
    /\ pc = "cleanup"
    /\ \E failing \in MayFail :
         /\ ShutDown(failing)
         /\ LeaseEnds(IF failing THEN "cleanup" ELSE err)
    /\ UNCHANGED <<dmsVars, logged, hostVars>>

-----------------------------------------------------------------------------
(* run: claiming *)

\* The host calls run, once
RunBegins ==
    /\ pc = "off"
    /\ pc' = "poll"
    /\ UNCHANGED <<dmsVars, leaseVars, logged, hostVars, peerVars, permit>>

\* The claim takes the only permit
Claim ==
    /\ pc = "poll"
    /\ ~Interrupted
    /\ permit
    /\ permit' = FALSE
    /\ pc' = "claiming"
    /\ UNCHANGED <<dmsVars, leaseVars, logged, hostVars, peerVars>>

RunEnds ==
    /\ pc = "poll"
    /\ Interrupted
    /\ pc' = "ended"
    /\ UNCHANGED <<dmsVars, leaseVars, logged, hostVars, peerVars, permit>>

\* TaskCredential::new and TaskContext of the lease the DMS gave
Claimed(t) ==
    /\ pc = "claiming"
    /\ dms[t].state = "queued"
    /\ dms' = [dms EXCEPT ![t].state = "leased"]
    /\ task' = t
    /\ pc' = "first"
    /\ revoked' = FALSE /\ valid' = TRUE
    /\ UNCHANGED <<wire, err, outcome, hb, batch, queue, handler, logged, hostVars,
                   peerVars, permit>>

NoWork ==
    /\ pc = "claiming"
    /\ pc' = "poll"
    /\ permit' = TRUE
    /\ UNCHANGED <<dmsVars, leaseVars, logged, hostVars, peerVars>>

\* The claim failed, was refused or was interrupted; a lease the DMS gave is
\* nobody's
ClaimLost ==
    /\ pc = "claiming"
    /\ \/ dms' = dms
       \/ \E t \in Tasks : /\ dms[t].state = "queued"
                           /\ dms' = [dms EXCEPT ![t].state = "leased"]
    /\ \/ Interrupted /\ pc' = "ended"
       \/ "network" \in Faults /\ pc' = "poll"
       \/ "invalid" \in Faults /\ pc' = "ended"
    /\ err' = IF pc' = "poll" THEN "transient" ELSE IF Interrupted THEN "cancelled" ELSE "fatal"
    /\ permit' = TRUE
    /\ UNCHANGED <<wire, task, outcome, hb, batch, queue, handler, revoked, valid,
                   logged, hostVars, peerVars>>

-----------------------------------------------------------------------------
(* heartbeat: the sole owner of the lease and of the event queue *)

\* Mutant: the handler is dropped with the heartbeat
AfterFailureAtOnce == "cleanup"

\* Where a failed heartbeat takes execute_managed: a handler that was entered
\* is awaited first
AfterFailure == IF handler = "off" THEN "cleanup" ELSE "joining"

\* Every error of heartbeat() or heartbeat_loop() revokes the context
HeartbeatError(e) ==
    /\ pc' = AfterFailure
    /\ err' = e
    /\ revoked' = TRUE
    /\ hb' = "idle" /\ batch' = 0

\* The stages in which heartbeat() may be called: before the peer, in
\* heartbeat_loop, and to flush before the receipt
SendHeartbeat ==
    /\ pc \in {"first", "running", "flush"}
    /\ hb = "idle"
    /\ ~IsCancelled /\ valid
    /\ hb' = "sent"
    /\ batch' = Len(queue)
    /\ wire' = wire \cup {Request("heartbeat", queue)}
    /\ UNCHANGED <<dms, pc, task, err, outcome, queue, handler, revoked, valid, logged,
                   hostVars, peerVars, permit>>

\* Only the acknowledged prefix is retired: events may have arrived meanwhile
Drained == SubSeq(queue, batch + 1, Len(queue))

\* A task owns a peer, unless there is no factory or its optional grant is absent
AfterHeartbeat ==
    CASE pc = "first" -> {"peer", "running"}
      [] pc = "flush" -> {"report"}
      [] OTHER -> {pc}

\* grant.send_replace wakes a data call that waits for a renewal
Woken == IF handler = "calling" THEN "answered" ELSE handler

\* The reply renews the deadline
HeartbeatSucceeds ==
    /\ hb = "ok"
    /\ ~IsCancelled
    /\ queue' = Drained
    /\ hb' = "idle" /\ batch' = 0
    /\ valid' = TRUE
    /\ handler' = Woken
    /\ pc' \in AfterHeartbeat
    /\ UNCHANGED <<dmsVars, task, err, outcome, revoked, logged, hostVars, peerVars, permit>>

\* TaskCredential::update refuses: the task was cancelled, or the grant is not
\* the task's.  The events were acknowledged all the same
HeartbeatRefused ==
    /\ \/ hb = "refused" /\ HeartbeatError("cancelled")
       \/ hb = "ok" /\ "invalid" \in Faults /\ HeartbeatError("fatal")
    /\ queue' = Drained
    /\ UNCHANGED <<dmsVars, task, outcome, handler, valid, logged, hostVars, peerVars, permit>>

\* 409 for a task that is gone, a lost reply, or the deadline
HeartbeatFails ==
    /\ \/ hb = "refused"
       \/ hb # "idle" /\ ("network" \in Faults \/ ~valid)
    /\ HeartbeatError("transient")
    /\ UNCHANGED <<dmsVars, task, outcome, queue, handler, valid, logged, hostVars,
                   peerVars, permit>>

\* The biased select of heartbeat() prefers the tokens; the request is dropped
HeartbeatInterrupted ==
    /\ hb # "idle"
    /\ IsCancelled
    /\ HeartbeatError("cancelled")
    /\ UNCHANGED <<dmsVars, task, outcome, queue, handler, valid, logged, hostVars,
                   peerVars, permit>>

\* remaining() at the top of heartbeat_loop or of heartbeat(), the token, or
\* the peer's end
LoopEnds ==
    /\ hb = "idle"
    /\ pc \in {"first", "running", "draining", "flush"}
    /\ \/ IsCancelled /\ HeartbeatError("cancelled")
       \/ ~valid /\ HeartbeatError("transient")
       \/ pc = "running" /\ peer = "stopped" /\ HeartbeatError("fatal")
    /\ UNCHANGED <<dmsVars, task, outcome, queue, handler, valid, logged, hostVars,
                   peerVars, permit>>

-----------------------------------------------------------------------------
(* execute_managed *)

\* The host's token or the runtime's, seen by a select before anything else
Interrupt ==
    /\ Interrupted
    /\ pc \in {"first", "running", "draining"}
    /\ HeartbeatError(IF closed THEN "closed" ELSE "cancelled")
    /\ UNCHANGED <<dmsVars, task, outcome, queue, handler, valid, logged, hostVars,
                   peerVars, permit>>

\* The flush, and the stages of complete and fail
Reporting == {"flush", "report", "released", "asking", "receipt", "reasking", "rereceipt"}

\* start_peer keeps awaiting the startup; the report goes on as well
RevokeOnly ==
    /\ \/ pc = "peer" /\ Interrupted
       \/ pc \in Reporting /\ cancelled
    /\ ~revoked
    /\ revoked' = TRUE
    /\ UNCHANGED <<dmsVars, pc, task, err, outcome, hb, batch, queue, handler, valid,
                   logged, hostVars, peerVars, permit>>

\* Startup can consume lease time
PeerStarts ==
    /\ pc = "peer"
    /\ peer' = "up"
    /\ \/ ~IsCancelled /\ valid /\ pc' = "running" /\ UNCHANGED <<err, revoked>>
       \/ /\ IsCancelled \/ ~valid
          /\ pc' = "cleanup" /\ revoked' = TRUE
          /\ err' = IF IsCancelled THEN "cancelled" ELSE "transient"
    /\ UNCHANGED <<dmsVars, task, outcome, hb, batch, queue, handler, valid, logged,
                   hostVars, cleanupFailed, leaked, permit>>

\* No grant, or the startup failed; its rollback may have failed as well
PeerStartFails ==
    /\ pc = "peer"
    /\ pc' = "cleanup" /\ revoked' = TRUE
    /\ \E failing \in IF "peer" \in Faults THEN BOOLEAN ELSE {FALSE} :
         ShutDown(failing) /\ err' = IF failing THEN "cleanup" ELSE "fatal"
    /\ UNCHANGED <<dmsVars, task, outcome, hb, batch, queue, handler, valid, logged,
                   hostVars, permit>>

\* The handler is polled last: never without authority
EnterHandler ==
    /\ pc = "running" /\ handler = "off" /\ outcome = "none"
    /\ ~Interrupted /\ ~revoked /\ valid
    /\ handler' = "running"
    /\ UNCHANGED <<dmsVars, pc, task, err, outcome, hb, batch, queue, revoked, valid,
                   logged, hostVars, peerVars, permit>>

\* Mutant: the bound is checked after the push
QueueHasRoomForOneMore == Len(queue) <= MaxQueue

\* The event queue rejects new events when it is full
QueueHasRoom == Len(queue) < MaxQueue

\* log_event
LogEvent ==
    /\ handler = "running"
    /\ ~IsCancelled
    /\ QueueHasRoom
    /\ logged[task] < MaxEvents
    /\ logged' = [logged EXCEPT ![task] = @ + 1]
    /\ queue' = Append(queue, logged[task] + 1)
    /\ UNCHANGED <<dmsVars, pc, task, err, outcome, hb, batch, handler, revoked, valid,
                   hostVars, peerVars, permit>>

\* domain_access with a rejected bearer: wait for the next renewal, once
CallData ==
    /\ handler = "running"
    /\ ~IsCancelled
    /\ handler' = IF valid THEN "calling" ELSE handler
    /\ revoked' = (revoked \/ ~valid)
    /\ UNCHANGED <<dmsVars, pc, task, err, outcome, hb, batch, queue, valid, logged,
                   hostVars, peerVars, permit>>

\* Mutant: the wait watches the renewal only
DataReturnsWhenRenewed ==
    /\ handler = "answered"
    /\ handler' = "running"
    /\ revoked' = (revoked \/ ~valid)
    /\ UNCHANGED <<dmsVars, pc, task, err, outcome, hb, batch, queue, valid, logged,
                   hostVars, peerVars, permit>>

\* Renewed, closed, or past the deadline: then wait_closed revokes the lease
DataReturns ==
    /\ \/ handler = "answered"
       \/ handler = "calling" /\ (IsCancelled \/ ~valid)
    /\ handler' = "running"
    /\ revoked' = (revoked \/ ~valid)
    /\ UNCHANGED <<dmsVars, pc, task, err, outcome, hb, batch, queue, valid, logged,
                   hostVars, peerVars, permit>>

\* Mutant: the heartbeat in flight is dropped when the handler returns
HandlerReturnsAtOnce ==
    /\ handler = "running"
    /\ pc = "running"
    /\ handler' = "off"
    /\ \E o \in {"ok", "failed"} : outcome' = o
    /\ pc' = "flush"
    /\ hb' = "idle" /\ batch' = 0
    /\ UNCHANGED <<dmsVars, task, err, queue, revoked, valid, logged,
                   hostVars, peerVars, permit>>

\* The heartbeat in flight is awaited; a result of a revoked lease is discarded
HandlerReturns ==
    /\ handler = "running"
    /\ handler' = "off"
    /\ \/ pc = "running" /\ pc' = "draining" /\ \E o \in {"ok", "failed"} : outcome' = o
       \/ pc = "joining" /\ pc' = "cleanup" /\ UNCHANGED outcome
    /\ UNCHANGED <<dmsVars, task, err, hb, batch, queue, revoked, valid, logged,
                   hostVars, peerVars, permit>>

\* heartbeat_loop saw heartbeat_stop; the events left are still to be flushed
HeartbeatStopped ==
    /\ pc = "draining" /\ hb = "idle"
    /\ ~Interrupted /\ ~revoked
    /\ pc' = "flush"
    /\ UNCHANGED <<dmsVars, leaseVars, logged, hostVars, peerVars, permit>>

\* complete and fail: finish_resources first
ReleaseResources ==
    /\ pc = "report"
    /\ \E failing \in MayFail :
         /\ ShutDown(failing)
         /\ \/ ~failing /\ pc' = "released" /\ UNCHANGED <<leaseVars, permit>>
            \/ failing /\ LeaseEnds("cleanup")
    /\ UNCHANGED <<dmsVars, logged, hostVars>>

\* is_cancelled() and remaining(): the last look at the authority of the lease
AdmitReceipt ==
    /\ pc = "released"
    /\ \/ ~IsCancelled /\ valid /\ pc' = "asking" /\ UNCHANGED <<leaseVars, permit>>
       \/ /\ IsCancelled \/ ~valid
          /\ LeaseEnds(IF IsCancelled THEN "cancelled" ELSE "transient")
    /\ UNCHANGED <<dmsVars, logged, hostVars, peerVars>>

\* DmsClient::complete and fail: the bearer is awaited, a whole login perhaps, and
\* then the request leaves.  Nothing looks at the lease any more
PostReceipt ==
    /\ pc \in {"asking", "reasking"}
    /\ \/ /\ wire' = wire \cup {Request(outcome, <<>>)}
          /\ pc' = IF pc = "asking" THEN "receipt" ELSE "rereceipt"
          /\ UNCHANGED <<leaseVars, permit>>
       \/ /\ "network" \in Faults \/ ~valid
          /\ LeaseEnds("transient")
          /\ UNCHANGED wire
    /\ UNCHANGED <<dms, logged, hostVars, peerVars>>

\* A first 401 is answered by one more attempt with a new bearer
ReceiptUnauthorized ==
    /\ "unauthorized" \in Faults
    /\ pc \in {"receipt", "rereceipt"}
    /\ Request(outcome, <<>>) \in wire
    /\ wire' = wire \ {Request(outcome, <<>>)}
    /\ \/ pc = "receipt" /\ pc' = "reasking" /\ UNCHANGED <<leaseVars, permit>>
       \/ pc = "rereceipt" /\ LeaseEnds("transient")
    /\ UNCHANGED <<dms, logged, hostVars, peerVars>>

\* The reply, the request's timeout or the DMS's refusal
ReceiptEnds ==
    /\ pc \in {"receipt", "rereceipt"}
    /\ \/ /\ dms[task].state = outcome
          /\ LeaseEnds(IF outcome = "failed" THEN "handler" ELSE "none")
       \/ /\ \/ "network" \in Faults \/ ~valid
             \/ Request(outcome, <<>>) \notin wire /\ dms[task].state # outcome
          /\ LeaseEnds("transient")
    /\ UNCHANGED <<dmsVars, logged, hostVars, peerVars>>

-----------------------------------------------------------------------------
(* The host *)

HostCancels ==
    /\ ~cancelled
    /\ cancelled' = TRUE
    /\ UNCHANGED <<dmsVars, pc, leaseVars, logged, closed, closing, robotFailed, abandoned,
                   peerVars, permit>>

CloseBegins ==
    /\ closing = "no"
    /\ closing' = "waiting"
    /\ closed' = TRUE
    /\ UNCHANGED <<dmsVars, pc, leaseVars, logged, cancelled, robotFailed, abandoned,
                   peerVars, permit>>

\* close keeps the permit until it returns
CloseAcquires ==
    /\ closing = "waiting"
    /\ permit
    /\ permit' = FALSE
    /\ closing' = "robot"
    /\ UNCHANGED <<dmsVars, pc, leaseVars, logged, cancelled, closed, robotFailed, abandoned,
                   peerVars>>

\* robot_peer.close(), see RobotPeer; without a robot's peer it succeeds
RobotPeerCloses ==
    /\ closing = "robot"
    /\ closing' = "machine"
    /\ \E failing \in IF "peer" \in Faults THEN BOOLEAN ELSE {FALSE} :
         robotFailed' = failing /\ leaked' = (leaked \/ failing)
    /\ UNCHANGED <<dmsVars, pc, leaseVars, logged, cancelled, closed, abandoned, peer,
                   cleanupFailed, permit>>

\* machine.close() has returned, see TokenManager
CloseEnds ==
    /\ closing = "machine"
    /\ closing' = IF cleanupFailed \/ robotFailed THEN "failed" ELSE "ok"
    /\ permit' = TRUE
    /\ UNCHANGED <<dmsVars, pc, leaseVars, logged, cancelled, closed, robotFailed, abandoned,
                   peerVars>>

\* The future is dropped: TaskLease::drop revokes and shuts the peer down on
\* the side; the request in flight is not taken back
Abandon ==
    /\ "abandon" \in Faults
    /\ pc \notin {"off", "poll", "ended"}
    /\ abandoned' = TRUE
    /\ LeaseEnds("closed")
    /\ peer' = IF peer = "none" THEN "none" ELSE "orphan"
    /\ UNCHANGED <<dmsVars, logged, cancelled, closed, closing, robotFailed, cleanupFailed,
                   leaked>>

OrphanEnds ==
    /\ peer = "orphan"
    /\ peer' = "none"
    /\ UNCHANGED <<dmsVars, pc, leaseVars, logged, hostVars, cleanupFailed, leaked, permit>>

-----------------------------------------------------------------------------
(* The DMS, the peer and time *)

Serve(m) ==
    /\ m \in wire
    /\ wire' = wire \ {m}
    /\ LET t == m.task
           current == dms[t].state = "leased"
       IN /\ dms' = IF ~current THEN dms
                    ELSE IF m.kind = "heartbeat"
                    THEN [dms EXCEPT ![t].log = @ \o m.events]
                    ELSE [dms EXCEPT ![t].state = m.kind]
          /\ hb' = IF m.kind = "heartbeat" /\ t = task /\ hb = "sent"
                   THEN IF current THEN "ok" ELSE "refused"
                   ELSE hb
    /\ UNCHANGED <<pc, task, err, outcome, batch, queue, handler, revoked, valid, logged,
                   hostVars, peerVars, permit>>

DmsCancels(t) ==
    /\ "cancel" \in Faults
    /\ dms[t].state \in {"queued", "leased"}
    /\ dms' = [dms EXCEPT ![t].state = "canceled"]
    /\ UNCHANGED <<wire, pc, leaseVars, logged, hostVars, peerVars, permit>>

PeerStops ==
    /\ "peer" \in Faults
    /\ peer = "up"
    /\ peer' = "stopped"
    /\ UNCHANGED <<dmsVars, pc, leaseVars, logged, hostVars, cleanupFailed, leaked, permit>>

Expire ==
    /\ "expire" \in Faults
    /\ task # NoTask /\ valid
    /\ valid' = FALSE
    /\ UNCHANGED <<dmsVars, pc, task, err, outcome, hb, batch, queue, handler, revoked,
                   logged, hostVars, peerVars, permit>>

-----------------------------------------------------------------------------
(* Specification *)

Init ==
    /\ dms = [t \in Tasks |-> [state |-> "queued", log |-> <<>>]]
    /\ wire = {}
    /\ pc = "off"
    /\ task = NoTask /\ err = "none" /\ outcome = "none"
    /\ hb = "idle" /\ batch = 0 /\ queue = <<>>
    /\ logged = [t \in Tasks |-> 0]
    /\ handler = "off"
    /\ revoked = TRUE /\ valid = FALSE
    /\ peer = "none"
    /\ cancelled = FALSE /\ closed = FALSE /\ closing = "no" /\ robotFailed = FALSE
    /\ permit = TRUE
    /\ cleanupFailed = FALSE /\ leaked = FALSE /\ abandoned = FALSE

HeartbeatNext ==
    \/ SendHeartbeat \/ HeartbeatSucceeds \/ HeartbeatRefused
    \/ HeartbeatFails \/ HeartbeatInterrupted \/ LoopEnds

ClaimNext == Claim \/ RunEnds \/ NoWork \/ ClaimLost \/ \E t \in Tasks : Claimed(t)

ExecuteNext ==
    \/ Interrupt \/ RevokeOnly \/ PeerStarts \/ PeerStartFails
    \/ HeartbeatStopped \/ ReleaseResources \/ AdmitReceipt \/ PostReceipt
    \/ ReceiptUnauthorized \/ ReceiptEnds \/ Cleanup

HandlerNext == EnterHandler \/ LogEvent \/ CallData \/ DataReturns \/ HandlerReturns

CloseNext == CloseBegins \/ CloseAcquires \/ RobotPeerCloses \/ CloseEnds

HostNext == RunBegins \/ HostCancels \/ CloseNext \/ Abandon \/ OrphanEnds

DmsNext == \E m \in wire : Serve(m)

Next ==
    \/ ClaimNext \/ HeartbeatNext \/ ExecuteNext \/ HandlerNext \/ HostNext
    \/ DmsNext \/ \E t \in Tasks : DmsCancels(t)
    \/ PeerStops \/ Expire

Spec == Init /\ [][Next]_vars

\* Requests are answered or time out, the runner is polled, a peer's startup is
\* bounded, and a handler observes cancellation and returns (TaskHandler).  The
\* robot's peer closes (RobotPeer, ClosedEnds); whether the machine's credential
\* does is TokenManager's to say, so nothing is assumed of CloseEnds
Fairness ==
    /\ WF_vars(ClaimNext) /\ WF_vars(ExecuteNext)
    /\ WF_vars(HeartbeatNext)
    /\ WF_vars(DmsNext)
    /\ WF_vars(EnterHandler) /\ WF_vars(DataReturns)
    /\ WF_vars(IsCancelled /\ HandlerReturns)
    /\ WF_vars(CloseAcquires) /\ WF_vars(RobotPeerCloses)

FairSpec == Spec /\ Fairness

-----------------------------------------------------------------------------
(* Properties *)

Numbered(s) == \A i \in 1..Len(s) : s[i] = i

\* Every field of the runtime, the lease and the context has its shape
TypeOK ==
    /\ pc \in {"off", "poll", "claiming", "first", "peer", "running", "joining", "draining",
               "flush", "report", "released", "asking", "receipt", "reasking", "rereceipt",
               "cleanup", "ended"}
    /\ task \in Tasks \cup {NoTask}
    /\ err \in {"none", "cancelled", "transient", "fatal", "cleanup", "closed", "handler"}
    /\ outcome \in {"none", "ok", "failed"}
    /\ hb \in {"idle", "sent", "ok", "refused"}
    /\ batch \in 0..MaxEvents
    /\ queue \in Seq(1..MaxEvents) /\ Len(queue) <= MaxQueue /\ batch <= Len(queue)
    /\ handler \in {"off", "running", "calling", "answered"}
    /\ peer \in {"none", "up", "stopped", "orphan"}
    /\ closing \in {"no", "waiting", "robot", "machine", "ok", "failed"}
    /\ \A b \in {revoked, valid, cancelled, closed, permit, cleanupFailed, leaked,
                 robotFailed, abandoned} : b \in BOOLEAN

\* "Calls are ordered by enqueueing; acknowledged events are removed before the
\* next batch": whatever is lost, dropped or answered late, the DMS holds the
\* accepted events of a task in order, none missing in between and none twice
EventsArriveOnce ==
    \A t \in Tasks : Numbered(dms[t].log) /\ Len(dms[t].log) <= logged[t]

\* "Flush the final progress/events before publishing a result": a receipt at
\* the DMS stands for a task whose events are all there
ReceiptAfterEvents ==
    \A t \in Tasks : dms[t].state \in {"ok", "failed"} => Len(dms[t].log) = logged[t]

\* The stages behind the last look at the authority
Admitted == {"asking", "receipt", "reasking", "rereceipt"}

\* "Revocation stops the flush/report before admission": a lease that was cancelled
\* or ran out before complete or fail looked at it for the last time is never
\* reported, and that look comes after the handler, its heartbeat and its peer are
\* gone.  What happens to the lease behind it stops no receipt, nor its repetition
ReceiptIsLast ==
    [][/\ pc' \in Admitted =>
            /\ pc \in Admitted \/ (~IsCancelled /\ valid)
            /\ handler = "off" /\ hb = "idle" /\ peer = "none"
       /\ \A m \in wire' \ wire : m.kind # "heartbeat" => pc' \in Admitted]_vars

\* The permit covers the whole lease: it returns only when the handler that was
\* entered has returned (an entered handler is awaited, however the lease ended)
\* and the task's peer is down, unless the host dropped the running future
PermitCoversLease ==
    [][~permit /\ permit' /\ ~abandoned' => handler = "off" /\ peer' = "none"]_vars

\* close "retains peer cleanup failures so cancellation cannot hide them", and
\* returns only when there is nothing left to clean up
CloseIsHonest ==
    closing = "ok" /\ ~abandoned =>
        ~leaked /\ peer = "none" /\ handler = "off"

\* Cancelling or closing ends the loop, whatever the handler, a data call, the
\* DMS and the network were doing
StopEndsLoop == ((cancelled \/ closed) /\ pc # "off") ~> (pc = "ended")

\* close gets past the lease and the robot's peer; the credential is left
CloseReachesMachine == (closing = "waiting") ~> (closing \in {"machine", "ok", "failed"})

\* A data call whose bearer was rejected waits for at most one renewal
DataCallReturns == (handler = "calling") ~> (handler # "calling")

\* Lost authority takes the task's peer down
RevokedPeerGoes ==
    (revoked /\ peer \in {"up", "stopped"}) ~> (peer \notin {"up", "stopped"})
=============================================================================
