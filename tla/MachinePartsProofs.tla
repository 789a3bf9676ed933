-------------------------- MODULE MachinePartsProofs --------------------------
(***************************************************************************)
(* What holds of the components of a machine, for every value of their     *)
(* constants: its managed tasks, the peer of a robot, its credential, a    *)
(* signed-in session and the supervisor of its authority.  Each section    *)
(* types one component, states the invariant that its steps keep, and      *)
(* draws the component's properties from it.                               *)
(***************************************************************************)
EXTENDS MachineParts, SequenceTheorems, FiniteSetTheorems, TLAPS

-----------------------------------------------------------------------------
(* The runtime of managed tasks (auki-task-runtime), for any number of     *)
(* tasks and of events and any length of its queue.                        *)

TaskEvents == Seq(1..task_MaxEvents)
TaskRequest == [kind : {"heartbeat", "ok", "failed"}, task : TaskRuntime!Tasks, events : TaskEvents]
DmsRecord == [state : {"queued", "leased", "canceled", "ok", "failed"}, log : TaskEvents]

\* The stages of a lease that no heartbeat has failed
SoundStages == {"first", "peer", "running", "draining"} \cup TaskRuntime!Reporting

\* The stages in which a receipt may be under way, and those in which no event is left
Posted == {"receipt", "rereceipt"}
Flushed == {"report", "released"} \cup TaskRuntime!Admitted

\* The stages of close that hold the permit
Holding == {"robot", "machine"}

\* The fields of the runtime and of the lease, and the DMS with its requests
TaskType ==
    /\ TaskRuntime!TypeOK
    /\ task_dms \in [TaskRuntime!Tasks -> DmsRecord]
    /\ task_wire \in SUBSET TaskRequest
    /\ task_logged \in [TaskRuntime!Tasks -> 0..task_MaxEvents]

\* What the loop holds in which stage: the permit while it claims or leases, a handler
\* while it runs or is joined, a heartbeat where one may be sent, a peer until it is
\* released; and what close has seen
StageInv ==
    /\ task_task = TaskRuntime!NoTask <=> task_pc \in {"off", "poll", "claiming", "ended"}
    /\ task_permit <=> task_pc \in {"off", "poll", "ended"} /\ task_closing \notin Holding
    /\ task_closing \in Holding \cup {"ok"} => task_pc \in {"off", "poll", "ended"}
    /\ task_task = TaskRuntime!NoTask => task_queue = <<>> /\ task_handler = "off"
    /\ task_handler # "off" => task_pc \in {"running", "joining"}
    /\ task_hb # "idle" => task_pc \in {"first", "running", "draining", "flush"}
    /\ task_hb = "idle" => task_batch = 0
    /\ task_pc \in {"draining"} \cup TaskRuntime!Reporting => task_outcome # "none"
    /\ task_pc \in {"joining", "cleanup"} => task_revoked
    /\ task_peer \in {"up", "stopped"} =>
          task_pc \in {"running", "joining", "draining", "flush", "report", "cleanup"}
    /\ task_peer = "orphan" => task_abandoned
    /\ task_abandoned => task_pc = "ended"
    /\ task_leaked <=> task_cleanupFailed \/ task_robotFailed
    /\ task_closing # "no" => task_closed
    /\ task_robotFailed => task_closing \in {"machine", "failed"}
    /\ task_closing = "ok" => ~task_cleanupFailed

\* The events of a request follow those that the DMS holds
Follows(m) ==
    /\ Len(task_dms[m.task].log) + Len(m.events) <= task_logged[m.task]
    /\ \A i \in 1..Len(m.events) : m.events[i] = Len(task_dms[m.task].log) + i

\* At the DMS and on the way to it: a task that nobody claimed has no events, one
\* request of a task is under way at a time, and a receipt comes after all events
WireInv ==
    /\ \A t \in TaskRuntime!Tasks : task_dms[t].state = "queued" =>
          /\ task_logged[t] = 0 /\ task_dms[t].log = <<>> /\ t # task_task
          /\ \A m \in task_wire : m.task # t
    /\ \A m \in task_wire : m.kind = "heartbeat" => Follows(m)
    /\ \A m \in task_wire : m.kind # "heartbeat" =>
          /\ Len(task_dms[m.task].log) = task_logged[m.task]
          /\ m.task = task_task => task_pc \in Posted
    /\ \A t \in TaskRuntime!Tasks : task_dms[t].state \in {"ok", "failed"} /\ t = task_task
        => task_pc \in TaskRuntime!Admitted
    /\ \A m, n \in task_wire : m.task = n.task => m = n

\* The queue of the lease holds the last events that log_event accepted; in a sound
\* lease the DMS holds the ones before, and those of a heartbeat it answered
QueueInv ==
    task_task # TaskRuntime!NoTask =>
        /\ Len(task_queue) <= task_logged[task_task]
        /\ \A i \in 1..Len(task_queue) : task_queue[i] = task_logged[task_task] - Len(task_queue) + i
        /\ task_pc \in SoundStages /\ task_hb \in {"idle", "sent"} =>
              Len(task_dms[task_task].log) + Len(task_queue) = task_logged[task_task]
        /\ task_hb = "ok" => Len(task_dms[task_task].log) + Len(task_queue) = task_logged[task_task] + task_batch
        /\ task_pc \in SoundStages \ Posted /\ task_hb # "sent"
            => \A m \in task_wire : m.task # task_task
        /\ task_hb = "sent" => TaskRuntime!Request("heartbeat", SubSeq(task_queue, 1,
            task_batch)) \in task_wire
        /\ task_pc = "flush" /\ task_hb # "idle" => task_batch = Len(task_queue)
        /\ task_pc \in Flushed => task_queue = <<>>

TaskInv ==
    /\ TaskType /\ StageInv /\ WireInv /\ QueueInv
    /\ TaskRuntime!EventsArriveOnce /\ TaskRuntime!ReceiptAfterEvents

-----------------------------------------------------------------------------
(* The stages *)

LEMMA TaskInit ==
    ASSUME TaskRuntime!TaskConstants
    PROVE  TaskRuntime!Init => TaskInv
<1> SUFFICES ASSUME TaskRuntime!Init PROVE TaskInv
  OBVIOUS
<1>1. TaskType
  <2>0. <<>> \in Seq(1..task_MaxEvents) /\ Len(<<>>) = 0
    OBVIOUS
  <2>1. TaskRuntime!TypeOK
    <3>1. \A b \in {task_revoked, task_valid, task_cancelled, task_closed, task_permit,
             task_cleanupFailed, task_leaked, task_robotFailed, task_abandoned} : b \in BOOLEAN
      BY DEF TaskRuntime!Init
    <3>2. /\ task_queue \in Seq(1..task_MaxEvents) /\ Len(task_queue) <= task_MaxQueue
          /\ task_batch <= Len(task_queue)
          /\ task_batch \in 0..task_MaxEvents
      BY <2>0 DEF TaskRuntime!TaskConstants, TaskRuntime!Init
    <3> QED BY <3>1, <3>2 DEF TaskRuntime!Init, TaskRuntime!TypeOK, TaskRuntime!NoTask
  <2>2. [state |-> "queued", log |-> <<>>] \in DmsRecord
    BY DEF DmsRecord, TaskEvents
  <2> QED BY <2>1, <2>2 DEF TaskRuntime!TaskConstants, TaskRuntime!Init, TaskType
<1>2. StageInv
  BY DEF TaskRuntime!Init, StageInv, TaskRuntime!NoTask, TaskRuntime!Reporting, Holding
<1>3. WireInv /\ QueueInv
  BY DEF TaskRuntime!Init, WireInv, QueueInv, TaskRuntime!NoTask, TaskRuntime!Tasks
<1>4. TaskRuntime!EventsArriveOnce /\ TaskRuntime!ReceiptAfterEvents
  BY DEF TaskRuntime!Init, TaskRuntime!EventsArriveOnce, TaskRuntime!ReceiptAfterEvents,
         TaskRuntime!Numbered
<1> QED BY <1>1, <1>2, <1>3, <1>4 DEF TaskInv

LEMMA StageStep ==
    ASSUME TaskRuntime!TaskConstants, TaskType, StageInv, [TaskRuntime!Next]_(TaskRuntime!vars)
    PROVE  StageInv'
<1> USE DEF StageInv, TaskRuntime!NoTask, TaskRuntime!Reporting, Holding
<1>0. TaskRuntime!TypeOK
  BY DEF TaskType
<1>1. CASE TaskRuntime!ClaimNext
  <2>1. CASE TaskRuntime!Claim
    BY <1>0, <2>1
       DEF TaskRuntime!TypeOK, TaskRuntime!Claim, TaskRuntime!dmsVars, TaskRuntime!leaseVars,
           TaskRuntime!hostVars, TaskRuntime!peerVars, TaskRuntime!Interrupted
  <2>2. CASE TaskRuntime!RunEnds
    BY <1>0, <2>2
       DEF TaskRuntime!TypeOK, TaskRuntime!RunEnds, TaskRuntime!dmsVars, TaskRuntime!leaseVars,
           TaskRuntime!hostVars, TaskRuntime!peerVars
  <2>3. CASE TaskRuntime!NoWork
    BY <1>0, <2>3
       DEF TaskRuntime!TypeOK, TaskRuntime!NoWork, TaskRuntime!dmsVars, TaskRuntime!leaseVars,
           TaskRuntime!hostVars, TaskRuntime!peerVars
  <2>4. CASE TaskRuntime!ClaimLost
    BY <1>0, <2>4
       DEF TaskRuntime!TypeOK, TaskRuntime!ClaimLost, TaskRuntime!dmsVars, TaskRuntime!leaseVars,
           TaskRuntime!hostVars, TaskRuntime!peerVars
  <2>5. CASE \E t \in TaskRuntime!Tasks : TaskRuntime!Claimed(t)
    BY <1>0, <2>5
       DEF TaskRuntime!TypeOK, TaskRuntime!Claimed, TaskRuntime!dmsVars, TaskRuntime!leaseVars,
           TaskRuntime!hostVars, TaskRuntime!peerVars, TaskRuntime!Tasks
  <2> QED BY <1>1, <2>1, <2>2, <2>3, <2>4, <2>5 DEF TaskRuntime!ClaimNext
<1>2. CASE TaskRuntime!HeartbeatNext
  <2>1. CASE TaskRuntime!SendHeartbeat
    BY <1>0, <2>1
       DEF TaskRuntime!TypeOK, TaskRuntime!SendHeartbeat, TaskRuntime!dmsVars, TaskRuntime!leaseVars,
           TaskRuntime!hostVars, TaskRuntime!peerVars
  <2>2. CASE TaskRuntime!HeartbeatSucceeds
    BY <1>0, <2>2
       DEF TaskRuntime!TypeOK, TaskRuntime!HeartbeatSucceeds, TaskRuntime!dmsVars,
           TaskRuntime!leaseVars, TaskRuntime!hostVars, TaskRuntime!peerVars,
           TaskRuntime!AfterHeartbeat, TaskRuntime!Woken, TaskRuntime!Drained
  <2>3. CASE TaskRuntime!HeartbeatRefused
    BY <1>0, <2>3
       DEF TaskRuntime!TypeOK, TaskRuntime!HeartbeatRefused, TaskRuntime!dmsVars,
           TaskRuntime!leaseVars, TaskRuntime!hostVars, TaskRuntime!peerVars,
           TaskRuntime!HeartbeatError, TaskRuntime!AfterFailure, TaskRuntime!Drained
  <2>4. CASE TaskRuntime!HeartbeatFails
    BY <1>0, <2>4
       DEF TaskRuntime!TypeOK, TaskRuntime!HeartbeatFails, TaskRuntime!dmsVars, TaskRuntime!leaseVars,
           TaskRuntime!hostVars, TaskRuntime!peerVars, TaskRuntime!HeartbeatError,
           TaskRuntime!AfterFailure
  <2>5. CASE TaskRuntime!HeartbeatInterrupted
    BY <1>0, <2>5
       DEF TaskRuntime!TypeOK, TaskRuntime!HeartbeatInterrupted, TaskRuntime!dmsVars,
           TaskRuntime!leaseVars, TaskRuntime!hostVars, TaskRuntime!peerVars,
           TaskRuntime!HeartbeatError, TaskRuntime!AfterFailure
  <2>6. CASE TaskRuntime!LoopEnds
    BY <1>0, <2>6
       DEF TaskRuntime!TypeOK, TaskRuntime!LoopEnds, TaskRuntime!dmsVars, TaskRuntime!leaseVars,
           TaskRuntime!hostVars, TaskRuntime!peerVars, TaskRuntime!HeartbeatError,
           TaskRuntime!AfterFailure
  <2> QED BY <1>2, <2>1, <2>2, <2>3, <2>4, <2>5, <2>6 DEF TaskRuntime!HeartbeatNext
<1>3. CASE TaskRuntime!ExecuteNext
  <2>1. CASE TaskRuntime!Interrupt
    BY <1>0, <2>1
       DEF TaskRuntime!TypeOK, TaskRuntime!Interrupt, TaskRuntime!dmsVars, TaskRuntime!leaseVars,
           TaskRuntime!hostVars, TaskRuntime!peerVars, TaskRuntime!HeartbeatError,
           TaskRuntime!AfterFailure, TaskRuntime!Interrupted
  <2>2. CASE TaskRuntime!RevokeOnly
    BY <1>0, <2>2
       DEF TaskRuntime!TypeOK, TaskRuntime!RevokeOnly, TaskRuntime!dmsVars, TaskRuntime!leaseVars,
           TaskRuntime!hostVars, TaskRuntime!peerVars
  <2>3. CASE TaskRuntime!PeerStarts
    BY <1>0, <2>3
       DEF TaskRuntime!TypeOK, TaskRuntime!PeerStarts, TaskRuntime!dmsVars, TaskRuntime!leaseVars,
           TaskRuntime!hostVars, TaskRuntime!peerVars
  <2>4. CASE TaskRuntime!PeerStartFails
    BY <1>0, <2>4
       DEF TaskRuntime!TypeOK, TaskRuntime!PeerStartFails, TaskRuntime!dmsVars, TaskRuntime!leaseVars,
           TaskRuntime!hostVars, TaskRuntime!peerVars, TaskRuntime!ShutDown
  <2>5. CASE TaskRuntime!HeartbeatStopped
    BY <1>0, <2>5
       DEF TaskRuntime!TypeOK, TaskRuntime!HeartbeatStopped, TaskRuntime!dmsVars,
           TaskRuntime!leaseVars, TaskRuntime!hostVars, TaskRuntime!peerVars
  <2>6. CASE TaskRuntime!ReleaseResources
    BY <1>0, <2>6
       DEF TaskRuntime!TypeOK, TaskRuntime!ReleaseResources, TaskRuntime!dmsVars,
           TaskRuntime!leaseVars, TaskRuntime!hostVars, TaskRuntime!peerVars, TaskRuntime!ShutDown,
           TaskRuntime!LeaseEnds, TaskRuntime!KeepsClaiming, TaskRuntime!MayFail
  <2>7. CASE TaskRuntime!ReceiptEnds
    BY <1>0, <2>7
       DEF TaskRuntime!TypeOK, TaskRuntime!ReceiptEnds, TaskRuntime!dmsVars, TaskRuntime!leaseVars,
           TaskRuntime!hostVars, TaskRuntime!peerVars, TaskRuntime!LeaseEnds, TaskRuntime!KeepsClaiming
  <2>9. CASE TaskRuntime!AdmitReceipt
    BY <1>0, <2>9
       DEF TaskRuntime!TypeOK, TaskRuntime!AdmitReceipt, TaskRuntime!dmsVars, TaskRuntime!leaseVars,
           TaskRuntime!hostVars, TaskRuntime!peerVars, TaskRuntime!LeaseEnds, TaskRuntime!KeepsClaiming
  <2>10. CASE TaskRuntime!PostReceipt
    BY <1>0, <2>10
       DEF TaskRuntime!TypeOK, TaskRuntime!PostReceipt, TaskRuntime!dmsVars, TaskRuntime!leaseVars,
           TaskRuntime!hostVars, TaskRuntime!peerVars, TaskRuntime!LeaseEnds, TaskRuntime!KeepsClaiming
  <2>11. CASE TaskRuntime!ReceiptUnauthorized
    BY <1>0, <2>11
       DEF TaskRuntime!TypeOK, TaskRuntime!ReceiptUnauthorized, TaskRuntime!dmsVars,
           TaskRuntime!leaseVars, TaskRuntime!hostVars, TaskRuntime!peerVars, TaskRuntime!LeaseEnds,
           TaskRuntime!KeepsClaiming
  <2>8. CASE TaskRuntime!Cleanup
    BY <1>0, <2>8
       DEF TaskRuntime!TypeOK, TaskRuntime!Cleanup, TaskRuntime!dmsVars, TaskRuntime!leaseVars,
           TaskRuntime!hostVars, TaskRuntime!peerVars, TaskRuntime!ShutDown, TaskRuntime!LeaseEnds,
           TaskRuntime!KeepsClaiming, TaskRuntime!MayFail
  <2> QED BY <1>3, <2>1, <2>2, <2>3, <2>4, <2>5, <2>6, <2>7, <2>8, <2>9, <2>10, <2>11
             DEF TaskRuntime!ExecuteNext
<1>4. CASE TaskRuntime!HandlerNext
  <2>1. CASE TaskRuntime!EnterHandler
    BY <1>0, <2>1
       DEF TaskRuntime!TypeOK, TaskRuntime!EnterHandler, TaskRuntime!dmsVars, TaskRuntime!leaseVars,
           TaskRuntime!hostVars, TaskRuntime!peerVars
  <2>2. CASE TaskRuntime!LogEvent
    BY <1>0, <2>2
       DEF TaskRuntime!TypeOK, TaskRuntime!LogEvent, TaskRuntime!dmsVars, TaskRuntime!leaseVars,
           TaskRuntime!hostVars, TaskRuntime!peerVars
  <2>3. CASE TaskRuntime!CallData
    BY <1>0, <2>3
       DEF TaskRuntime!TypeOK, TaskRuntime!CallData, TaskRuntime!dmsVars, TaskRuntime!leaseVars,
           TaskRuntime!hostVars, TaskRuntime!peerVars
  <2>4. CASE TaskRuntime!DataReturns
    BY <1>0, <2>4
       DEF TaskRuntime!TypeOK, TaskRuntime!DataReturns, TaskRuntime!dmsVars, TaskRuntime!leaseVars,
           TaskRuntime!hostVars, TaskRuntime!peerVars
  <2>5. CASE TaskRuntime!HandlerReturns
    BY <1>0, <2>5
       DEF TaskRuntime!TypeOK, TaskRuntime!HandlerReturns, TaskRuntime!dmsVars, TaskRuntime!leaseVars,
           TaskRuntime!hostVars, TaskRuntime!peerVars
  <2> QED BY <1>4, <2>1, <2>2, <2>3, <2>4, <2>5 DEF TaskRuntime!HandlerNext
<1>5. CASE TaskRuntime!HostNext
  <2>1. CASE TaskRuntime!RunBegins
    BY <1>0, <2>1
       DEF TaskRuntime!TypeOK, TaskRuntime!RunBegins, TaskRuntime!dmsVars, TaskRuntime!leaseVars,
           TaskRuntime!hostVars, TaskRuntime!peerVars
  <2>2. CASE TaskRuntime!HostCancels
    BY <1>0, <2>2
       DEF TaskRuntime!TypeOK, TaskRuntime!HostCancels, TaskRuntime!dmsVars, TaskRuntime!leaseVars,
           TaskRuntime!hostVars, TaskRuntime!peerVars
  <2>3. CASE TaskRuntime!CloseBegins
    BY <1>0, <2>3
       DEF TaskRuntime!TypeOK, TaskRuntime!CloseBegins, TaskRuntime!dmsVars, TaskRuntime!leaseVars,
           TaskRuntime!hostVars, TaskRuntime!peerVars
  <2>4. CASE TaskRuntime!CloseEnds
    BY <1>0, <2>4
       DEF TaskRuntime!TypeOK, TaskRuntime!CloseEnds, TaskRuntime!dmsVars, TaskRuntime!leaseVars,
           TaskRuntime!hostVars, TaskRuntime!peerVars
  <2>7. CASE TaskRuntime!CloseAcquires
    BY <1>0, <2>7
       DEF TaskRuntime!TypeOK, TaskRuntime!CloseAcquires, TaskRuntime!dmsVars, TaskRuntime!leaseVars,
           TaskRuntime!hostVars, TaskRuntime!peerVars
  <2>8. CASE TaskRuntime!RobotPeerCloses
    <3>1. PICK failing \in BOOLEAN : task_robotFailed' = failing /\ task_leaked' = (task_leaked
             \/ failing)
      BY <2>8 DEF TaskRuntime!RobotPeerCloses
    <3>2. /\ task_closing = "robot" /\ task_closing' = "machine"
          /\ UNCHANGED <<task_pc, TaskRuntime!leaseVars, task_closed, task_abandoned, task_peer,
              task_cleanupFailed, task_permit>>
      BY <2>8 DEF TaskRuntime!RobotPeerCloses
    <3>3. task_leaked' <=> task_cleanupFailed' \/ task_robotFailed'
      <4>1. task_leaked <=> task_cleanupFailed \/ task_robotFailed
        OBVIOUS
      <4>2. CASE failing = TRUE
        BY <3>1, <4>2
      <4>3. CASE failing = FALSE /\ ~task_robotFailed
        BY <3>1, <3>2, <4>1, <4>3
      <4> QED BY <1>0, <3>1, <3>2, <4>2, <4>3 DEF TaskRuntime!TypeOK
    <3> QED BY <1>0, <3>2, <3>3 DEF TaskRuntime!TypeOK, TaskRuntime!leaseVars
  <2>5. CASE TaskRuntime!Abandon
    BY <1>0, <2>5
       DEF TaskRuntime!TypeOK, TaskRuntime!Abandon, TaskRuntime!dmsVars, TaskRuntime!leaseVars,
           TaskRuntime!hostVars, TaskRuntime!peerVars, TaskRuntime!LeaseEnds, TaskRuntime!KeepsClaiming
  <2>6. CASE TaskRuntime!OrphanEnds
    BY <1>0, <2>6
       DEF TaskRuntime!TypeOK, TaskRuntime!OrphanEnds, TaskRuntime!dmsVars, TaskRuntime!leaseVars,
           TaskRuntime!hostVars, TaskRuntime!peerVars
  <2> QED BY <1>5, <2>1, <2>2, <2>3, <2>4, <2>5, <2>6, <2>7, <2>8
             DEF TaskRuntime!HostNext, TaskRuntime!CloseNext
<1>6. CASE TaskRuntime!DmsNext
  BY <1>0, <1>6
     DEF TaskRuntime!TypeOK, TaskRuntime!DmsNext, TaskRuntime!Serve, TaskRuntime!hostVars,
         TaskRuntime!peerVars
<1>7. CASE \E t \in TaskRuntime!Tasks : TaskRuntime!DmsCancels(t)
  BY <1>0, <1>7
     DEF TaskRuntime!DmsCancels, TaskRuntime!leaseVars, TaskRuntime!hostVars, TaskRuntime!peerVars
<1>8. CASE TaskRuntime!PeerStops \/ TaskRuntime!Expire
  BY <1>0, <1>8
     DEF TaskRuntime!PeerStops, TaskRuntime!Expire, TaskRuntime!leaseVars, TaskRuntime!hostVars,
         TaskRuntime!peerVars
<1>9. CASE UNCHANGED TaskRuntime!vars
  BY <1>0, <1>9 DEF TaskRuntime!vars, TaskRuntime!leaseVars, TaskRuntime!hostVars, TaskRuntime!peerVars
<1> QED BY <1>1, <1>2, <1>3, <1>4, <1>5, <1>6, <1>7, <1>8, <1>9 DEF TaskRuntime!Next

-----------------------------------------------------------------------------
(* Types *)

\* What is left of the queue when a batch is acknowledged
LEMMA DrainedIs ==
    ASSUME TaskRuntime!TaskConstants, TaskType
    PROVE  /\ TaskRuntime!Drained \in TaskEvents /\ Len(TaskRuntime!Drained) = Len(task_queue) - task_batch
           /\ \A i \in 1..Len(TaskRuntime!Drained) : TaskRuntime!Drained[i] = task_queue[task_batch + i]
<1>1. task_queue \in Seq(1..task_MaxEvents) /\ task_batch \in Nat /\ task_batch <= Len(task_queue)
  BY DEF TaskType, TaskRuntime!TypeOK, TaskRuntime!TaskConstants
<1>2. Len(task_queue) \in Nat
         /\ \A i \in (task_batch + 1)..Len(task_queue) : task_queue[i] \in 1..task_MaxEvents
  <2>1. Len(task_queue) \in Nat
    BY <1>1
  <2>2. ASSUME NEW i \in (task_batch + 1)..Len(task_queue) PROVE task_queue[i] \in 1..task_MaxEvents
    <3>1. i \in 1..Len(task_queue)
      BY <1>1, <2>1
    <3> QED BY <1>1, <3>1, ElementOfSeq
  <2> QED BY <2>1, <2>2
<1>3. /\ SubSeq(task_queue, task_batch + 1, Len(task_queue)) \in Seq(1..task_MaxEvents)
      /\ Len(SubSeq(task_queue, task_batch + 1, Len(task_queue))) =
            IF task_batch + 1 <= Len(task_queue) THEN Len(task_queue) - (task_batch + 1) + 1 ELSE 0
      /\ \A i \in 1..(Len(task_queue) - (task_batch + 1) + 1) :
            SubSeq(task_queue, task_batch + 1, Len(task_queue))[i] = task_queue[task_batch + 1 + i - 1]
  BY <1>1, <1>2, SubSeqProperties
<1>4. Len(TaskRuntime!Drained) = Len(task_queue) - task_batch
  BY <1>1, <1>2, <1>3 DEF TaskRuntime!Drained
<1>5. \A i \in 1..Len(TaskRuntime!Drained) : TaskRuntime!Drained[i] = task_queue[task_batch + i]
  BY <1>1, <1>2, <1>3, <1>4 DEF TaskRuntime!Drained
<1> QED BY <1>3, <1>4, <1>5 DEF TaskRuntime!Drained, TaskEvents

\* What a lease that ends leaves behind
LEMMA EndedType ==
    ASSUME TaskRuntime!TaskConstants, NEW e \in {"none", "cancelled", "transient", "fatal", "cleanup", "closed", "handler"},
           TaskRuntime!LeaseEnds(e)
    PROVE  /\ task_pc' \in {"poll", "ended"} /\ task_task' = TaskRuntime!NoTask /\ task_err' = e /\ task_outcome' = "none"
           /\ task_hb' = "idle" /\ task_batch' = 0 /\ task_queue' = <<>> /\ task_handler' = "off"
           /\ task_revoked' = TRUE /\ task_valid' = FALSE /\ task_permit' = TRUE
BY DEF TaskRuntime!LeaseEnds

LEMMA RuntimeTypeStep ==
    ASSUME TaskRuntime!TaskConstants, TaskType, StageInv, QueueInv,
         [TaskRuntime!Next]_(TaskRuntime!vars)
    PROVE  TaskRuntime!TypeOK'
<1>0. TaskRuntime!TypeOK
  BY DEF TaskType
<1> DEFINE Flags == /\ task_revoked \in BOOLEAN /\ task_valid \in BOOLEAN /\ task_cancelled \in BOOLEAN
                    /\ task_closed \in BOOLEAN /\ task_permit \in BOOLEAN
                    /\ task_cleanupFailed \in BOOLEAN
                    /\ task_leaked \in BOOLEAN /\ task_robotFailed \in BOOLEAN
                    /\ task_abandoned \in BOOLEAN
           Places == /\ task_pc \in {"off", "poll", "claiming", "first", "peer", "running", "joining", "draining",
                                "flush", "report", "released", "asking", "receipt", "reasking",
                                     "rereceipt",
                                "cleanup", "ended"}
                     /\ task_task \in TaskRuntime!Tasks \cup {TaskRuntime!NoTask}
                     /\ task_err \in {"none", "cancelled", "transient", "fatal", "cleanup", "closed",
                         "handler"}
                     /\ task_outcome \in {"none", "ok", "failed"}
                     /\ task_hb \in {"idle", "sent", "ok", "refused"}
                     /\ task_handler \in {"off", "running", "calling", "answered"}
                     /\ task_peer \in {"none", "up", "stopped", "orphan"}
                     /\ task_closing \in {"no", "waiting", "robot", "machine", "ok", "failed"}
           Queued == /\ task_queue \in Seq(1..task_MaxEvents) /\ Len(task_queue) <= task_MaxQueue
                     /\ task_batch \in 0..task_MaxEvents /\ task_batch <= Len(task_queue)
<1>1. Flags /\ Places /\ Queued
  BY <1>0 DEF TaskRuntime!TypeOK
<1>2. Flags'
  <2>1. CASE TaskRuntime!ClaimNext
    BY <1>1, <2>1
       DEF TaskRuntime!ClaimNext, TaskRuntime!Claim, TaskRuntime!RunEnds, TaskRuntime!NoWork,
           TaskRuntime!ClaimLost, TaskRuntime!Claimed, TaskRuntime!leaseVars, TaskRuntime!hostVars,
           TaskRuntime!peerVars
  <2>2. CASE TaskRuntime!HeartbeatNext
    BY <1>1, <2>2
       DEF TaskRuntime!HeartbeatNext, TaskRuntime!SendHeartbeat, TaskRuntime!HeartbeatSucceeds,
           TaskRuntime!HeartbeatRefused, TaskRuntime!HeartbeatFails,
                      TaskRuntime!HeartbeatInterrupted, TaskRuntime!LoopEnds,
                           TaskRuntime!HeartbeatError, TaskRuntime!hostVars, TaskRuntime!peerVars
  <2>3. CASE TaskRuntime!ExecuteNext
    <3>1. CASE TaskRuntime!Interrupt \/ TaskRuntime!RevokeOnly \/ TaskRuntime!HeartbeatStopped
             \/ TaskRuntime!PeerStarts
      BY <1>1, <3>1
         DEF TaskRuntime!Interrupt, TaskRuntime!RevokeOnly, TaskRuntime!HeartbeatStopped,
             TaskRuntime!PeerStarts, TaskRuntime!HeartbeatError, TaskRuntime!leaseVars,
             TaskRuntime!hostVars, TaskRuntime!peerVars
    <3>2. CASE TaskRuntime!PeerStartFails \/ TaskRuntime!Cleanup
      BY <1>1, <3>2
         DEF TaskRuntime!PeerStartFails, TaskRuntime!Cleanup, TaskRuntime!ShutDown,
             TaskRuntime!MayFail, TaskRuntime!LeaseEnds, TaskRuntime!hostVars
    <3>3. CASE TaskRuntime!ReleaseResources \/ TaskRuntime!AdmitReceipt \/ TaskRuntime!PostReceipt
             \/ TaskRuntime!ReceiptUnauthorized \/ TaskRuntime!ReceiptEnds
      BY <1>1, <3>3
         DEF TaskRuntime!ReleaseResources, TaskRuntime!AdmitReceipt, TaskRuntime!PostReceipt,
             TaskRuntime!ReceiptUnauthorized, TaskRuntime!ReceiptEnds, TaskRuntime!ShutDown,
             TaskRuntime!MayFail, TaskRuntime!LeaseEnds, TaskRuntime!leaseVars, TaskRuntime!hostVars,
             TaskRuntime!peerVars
    <3> QED BY <2>3, <3>1, <3>2, <3>3 DEF TaskRuntime!ExecuteNext
  <2>4. CASE TaskRuntime!HandlerNext
    BY <1>1, <2>4
       DEF TaskRuntime!HandlerNext, TaskRuntime!EnterHandler, TaskRuntime!LogEvent,
           TaskRuntime!CallData, TaskRuntime!DataReturns, TaskRuntime!HandlerReturns,
           TaskRuntime!hostVars, TaskRuntime!peerVars
  <2>5. CASE TaskRuntime!HostNext
    BY <1>1, <2>5
       DEF TaskRuntime!HostNext, TaskRuntime!RunBegins, TaskRuntime!HostCancels, TaskRuntime!CloseNext,
           TaskRuntime!CloseBegins, TaskRuntime!CloseAcquires, TaskRuntime!RobotPeerCloses,
           TaskRuntime!CloseEnds, TaskRuntime!Abandon, TaskRuntime!OrphanEnds, TaskRuntime!LeaseEnds,
                      TaskRuntime!leaseVars, TaskRuntime!hostVars, TaskRuntime!peerVars
  <2>6. CASE TaskRuntime!DmsNext \/ (\E t \in TaskRuntime!Tasks : TaskRuntime!DmsCancels(t))
           \/ TaskRuntime!PeerStops \/ TaskRuntime!Expire \/ UNCHANGED TaskRuntime!vars
    BY <1>1, <2>6
       DEF TaskRuntime!DmsNext, TaskRuntime!Serve, TaskRuntime!DmsCancels, TaskRuntime!PeerStops,
           TaskRuntime!Expire, TaskRuntime!vars, TaskRuntime!leaseVars, TaskRuntime!hostVars,
           TaskRuntime!peerVars
  <2> QED BY <2>1, <2>2, <2>3, <2>4, <2>5, <2>6 DEF TaskRuntime!Next
<1>3. Places'
  <2>1. CASE TaskRuntime!ClaimNext
    BY <1>1, <2>1
       DEF TaskRuntime!ClaimNext, TaskRuntime!Claim, TaskRuntime!RunEnds, TaskRuntime!NoWork,
           TaskRuntime!ClaimLost, TaskRuntime!Claimed, TaskRuntime!leaseVars, TaskRuntime!hostVars,
           TaskRuntime!peerVars
  <2>2. CASE TaskRuntime!HeartbeatNext
    BY <1>1, <2>2
       DEF TaskRuntime!HeartbeatNext, TaskRuntime!SendHeartbeat, TaskRuntime!HeartbeatSucceeds,
           TaskRuntime!HeartbeatRefused, TaskRuntime!HeartbeatFails,
                      TaskRuntime!HeartbeatInterrupted, TaskRuntime!LoopEnds,
                           TaskRuntime!HeartbeatError, TaskRuntime!AfterFailure,
                           TaskRuntime!AfterHeartbeat, TaskRuntime!Woken,
                      TaskRuntime!hostVars, TaskRuntime!peerVars, TaskRuntime!Reporting
  <2>3. CASE TaskRuntime!ExecuteNext
    <3>1. CASE TaskRuntime!Interrupt \/ TaskRuntime!RevokeOnly \/ TaskRuntime!HeartbeatStopped
             \/ TaskRuntime!PeerStarts
      BY <1>1, <3>1
         DEF TaskRuntime!Interrupt, TaskRuntime!RevokeOnly, TaskRuntime!HeartbeatStopped,
             TaskRuntime!PeerStarts, TaskRuntime!HeartbeatError, TaskRuntime!AfterFailure,
                        TaskRuntime!leaseVars, TaskRuntime!hostVars, TaskRuntime!peerVars,
                             TaskRuntime!Reporting
    <3>2. CASE TaskRuntime!PeerStartFails \/ TaskRuntime!Cleanup
      BY <1>1, <3>2
         DEF TaskRuntime!PeerStartFails, TaskRuntime!Cleanup, TaskRuntime!ShutDown,
             TaskRuntime!MayFail, TaskRuntime!LeaseEnds, TaskRuntime!hostVars
    <3>3. CASE TaskRuntime!ReleaseResources
      BY <1>1, <3>3
         DEF TaskRuntime!ReleaseResources, TaskRuntime!ShutDown, TaskRuntime!MayFail,
             TaskRuntime!LeaseEnds, TaskRuntime!leaseVars, TaskRuntime!hostVars
    <3>5. CASE TaskRuntime!AdmitReceipt
      BY <1>1, <3>5
         DEF TaskRuntime!AdmitReceipt, TaskRuntime!LeaseEnds, TaskRuntime!leaseVars,
             TaskRuntime!hostVars, TaskRuntime!peerVars
    <3>6. CASE TaskRuntime!PostReceipt
      BY <1>1, <3>6
         DEF TaskRuntime!PostReceipt, TaskRuntime!LeaseEnds, TaskRuntime!leaseVars,
             TaskRuntime!hostVars, TaskRuntime!peerVars
    <3>7. CASE TaskRuntime!ReceiptUnauthorized
      BY <1>1, <3>7
         DEF TaskRuntime!ReceiptUnauthorized, TaskRuntime!LeaseEnds, TaskRuntime!leaseVars,
             TaskRuntime!hostVars, TaskRuntime!peerVars
    <3>4. CASE TaskRuntime!ReceiptEnds
      BY <1>1, <3>4
         DEF TaskRuntime!ReceiptEnds, TaskRuntime!LeaseEnds, TaskRuntime!hostVars, TaskRuntime!peerVars
    <3> QED BY <2>3, <3>1, <3>2, <3>3, <3>4, <3>5, <3>6, <3>7 DEF TaskRuntime!ExecuteNext
  <2>4. CASE TaskRuntime!HandlerNext
    BY <1>1, <2>4
       DEF TaskRuntime!HandlerNext, TaskRuntime!EnterHandler, TaskRuntime!LogEvent,
           TaskRuntime!CallData, TaskRuntime!DataReturns, TaskRuntime!HandlerReturns,
           TaskRuntime!hostVars, TaskRuntime!peerVars
  <2>5. CASE TaskRuntime!HostNext
    <3>1. CASE TaskRuntime!CloseNext
      <4>1. UNCHANGED <<task_pc, task_task, task_err, task_outcome, task_hb, task_handler, task_peer>>
        BY <3>1
           DEF TaskRuntime!CloseNext, TaskRuntime!CloseBegins, TaskRuntime!CloseAcquires,
               TaskRuntime!RobotPeerCloses, TaskRuntime!CloseEnds, TaskRuntime!leaseVars,
               TaskRuntime!peerVars
      <4>2. task_closing' \in {"waiting", "robot", "machine", "ok", "failed"}
        BY <3>1
           DEF TaskRuntime!CloseNext, TaskRuntime!CloseBegins, TaskRuntime!CloseAcquires,
               TaskRuntime!RobotPeerCloses, TaskRuntime!CloseEnds
      <4> QED BY <1>1, <4>1, <4>2
    <3>2. CASE TaskRuntime!RunBegins \/ TaskRuntime!HostCancels \/ TaskRuntime!OrphanEnds
      BY <1>1, <3>2
         DEF TaskRuntime!RunBegins, TaskRuntime!HostCancels, TaskRuntime!OrphanEnds,
             TaskRuntime!leaseVars, TaskRuntime!hostVars, TaskRuntime!peerVars
    <3>3. CASE TaskRuntime!Abandon
      BY <1>1, <3>3 DEF TaskRuntime!Abandon, TaskRuntime!LeaseEnds
    <3> QED BY <2>5, <3>1, <3>2, <3>3 DEF TaskRuntime!HostNext
  <2>6. CASE TaskRuntime!DmsNext
    BY <1>1, <2>6 DEF TaskRuntime!DmsNext, TaskRuntime!Serve, TaskRuntime!hostVars, TaskRuntime!peerVars
  <2>7. CASE (\E t \in TaskRuntime!Tasks : TaskRuntime!DmsCancels(t)) \/ TaskRuntime!PeerStops
           \/ TaskRuntime!Expire \/ UNCHANGED TaskRuntime!vars
    BY <1>1, <2>7
       DEF TaskRuntime!DmsCancels, TaskRuntime!PeerStops, TaskRuntime!Expire, TaskRuntime!vars,
           TaskRuntime!leaseVars, TaskRuntime!hostVars, TaskRuntime!peerVars
  <2> QED BY <2>1, <2>2, <2>3, <2>4, <2>5, <2>6, <2>7 DEF TaskRuntime!Next
<1>4. Queued'
  <2>0. /\ <<>> \in Seq(1..task_MaxEvents) /\ Len(<<>>) = 0 /\ 0 \in 0..task_MaxEvents
        /\ 0 <= task_MaxQueue /\ 0 <= Len(task_queue) /\ Len(task_queue) \in Nat
    BY <1>1 DEF TaskRuntime!TaskConstants
  <2>1. CASE TaskRuntime!SendHeartbeat
    <3>1. task_task # TaskRuntime!NoTask /\ task_task \in TaskRuntime!Tasks
      BY <1>1, <2>1 DEF TaskRuntime!SendHeartbeat, StageInv
    <3>2. Len(task_queue) <= task_logged[task_task] /\ task_logged[task_task] \in 0..task_MaxEvents
      BY <3>1 DEF QueueInv, TaskType
    <3> QED BY <1>1, <2>0, <2>1, <3>2 DEF TaskRuntime!SendHeartbeat, TaskRuntime!TaskConstants
  <2>2. CASE TaskRuntime!HeartbeatSucceeds \/ TaskRuntime!HeartbeatRefused
    <3>1. task_queue' = TaskRuntime!Drained /\ task_batch' = 0
      BY <2>2
         DEF TaskRuntime!HeartbeatSucceeds, TaskRuntime!HeartbeatRefused, TaskRuntime!HeartbeatError
    <3> QED BY <1>1, <2>0, <3>1, DrainedIs DEF TaskEvents, TaskRuntime!TaskConstants
  <2>3. CASE TaskRuntime!LogEvent
    <3>1. task_queue' = Append(task_queue, task_logged[task_task] + 1) /\ task_batch' = task_batch
          /\ Len(task_queue) < task_MaxQueue /\ task_logged[task_task] < task_MaxEvents
      BY <2>3 DEF TaskRuntime!LogEvent, TaskRuntime!QueueHasRoom
    <3>2. task_logged[task_task] \in 0..task_MaxEvents
      BY <1>1, <2>3 DEF TaskRuntime!LogEvent, StageInv, TaskType
    <3> QED BY <1>1, <2>0, <3>1, <3>2 DEF TaskRuntime!TaskConstants
  <2>4. CASE task_batch' = 0 /\ (task_queue' = task_queue \/ task_queue' = <<>>)
    <3>1. CASE task_queue' = task_queue
      BY <1>1, <2>0, <2>4, <3>1
    <3>2. CASE task_queue' = <<>>
      BY <2>0, <2>4, <3>2
    <3> QED BY <2>4, <3>1, <3>2
  <2>5. CASE task_batch' = task_batch /\ task_queue' = task_queue
    BY <1>1, <2>5
  <2>6. CASE TaskRuntime!ClaimNext
    BY <2>5, <2>6
       DEF TaskRuntime!ClaimNext, TaskRuntime!Claim, TaskRuntime!RunEnds, TaskRuntime!NoWork,
           TaskRuntime!ClaimLost, TaskRuntime!Claimed, TaskRuntime!leaseVars
  <2>7. CASE TaskRuntime!HeartbeatNext
    BY <2>1, <2>2, <2>4, <2>7
       DEF TaskRuntime!HeartbeatNext, TaskRuntime!HeartbeatFails, TaskRuntime!HeartbeatInterrupted,
           TaskRuntime!LoopEnds, TaskRuntime!HeartbeatError
  <2>8. CASE TaskRuntime!ExecuteNext
    BY <2>4, <2>5, <2>8
       DEF TaskRuntime!ExecuteNext, TaskRuntime!Interrupt, TaskRuntime!RevokeOnly,
           TaskRuntime!HeartbeatStopped, TaskRuntime!PeerStarts, TaskRuntime!PeerStartFails,
                      TaskRuntime!ReleaseResources, TaskRuntime!AdmitReceipt, TaskRuntime!PostReceipt,
                           TaskRuntime!ReceiptUnauthorized, TaskRuntime!ReceiptEnds,
                           TaskRuntime!Cleanup, TaskRuntime!LeaseEnds, TaskRuntime!HeartbeatError,
                           TaskRuntime!leaseVars
  <2>9. CASE TaskRuntime!HandlerNext
    BY <2>3, <2>5, <2>9
       DEF TaskRuntime!HandlerNext, TaskRuntime!EnterHandler, TaskRuntime!CallData,
           TaskRuntime!DataReturns, TaskRuntime!HandlerReturns
  <2>10. CASE TaskRuntime!HostNext
    BY <2>4, <2>5, <2>10
       DEF TaskRuntime!HostNext, TaskRuntime!RunBegins, TaskRuntime!HostCancels, TaskRuntime!CloseNext,
           TaskRuntime!CloseBegins, TaskRuntime!CloseAcquires, TaskRuntime!RobotPeerCloses,
           TaskRuntime!CloseEnds, TaskRuntime!Abandon, TaskRuntime!OrphanEnds, TaskRuntime!LeaseEnds,
                      TaskRuntime!leaseVars
  <2>11. CASE TaskRuntime!DmsNext \/ (\E t \in TaskRuntime!Tasks : TaskRuntime!DmsCancels(t))
            \/ TaskRuntime!PeerStops \/ TaskRuntime!Expire \/ UNCHANGED TaskRuntime!vars
    BY <2>5, <2>11
       DEF TaskRuntime!DmsNext, TaskRuntime!Serve, TaskRuntime!DmsCancels, TaskRuntime!PeerStops,
           TaskRuntime!Expire, TaskRuntime!vars, TaskRuntime!leaseVars
  <2> QED BY <2>6, <2>7, <2>8, <2>9, <2>10, <2>11 DEF TaskRuntime!Next
<1> QED BY <1>2, <1>3, <1>4 DEF TaskRuntime!TypeOK

-----------------------------------------------------------------------------
(* The events *)

\* What the steps below keep
EventsInv == TaskType /\ StageInv /\ WireInv /\ QueueInv /\ TaskRuntime!EventsArriveOnce
     /\ TaskRuntime!ReceiptAfterEvents
EventsKept ==
    /\ task_dms \in [TaskRuntime!Tasks -> DmsRecord] /\ task_wire \in SUBSET TaskRequest
    /\ task_logged \in [TaskRuntime!Tasks -> 0..task_MaxEvents]
    /\ WireInv /\ QueueInv /\ TaskRuntime!EventsArriveOnce /\ TaskRuntime!ReceiptAfterEvents

LEMMA LeasedTask ==
    ASSUME EventsInv, task_task # TaskRuntime!NoTask
    PROVE  /\ task_task \in TaskRuntime!Tasks /\ task_dms[task_task] \in DmsRecord /\ task_logged[task_task] \in 0..task_MaxEvents
           /\ task_dms[task_task].log \in TaskEvents /\ Len(task_dms[task_task].log) \in Nat
BY DEF EventsInv, TaskType, TaskRuntime!TypeOK, DmsRecord, TaskEvents

\* Steps that leave requests, events and heartbeat alone
LEMMA QuietKeeps ==
    ASSUME EventsInv, UNCHANGED <<task_dms, task_wire, task_logged, task_task, task_queue, task_hb, task_batch>>,
           task_task # TaskRuntime!NoTask =>
              /\ task_pc \in Posted <=> task_pc' \in Posted
              /\ task_pc \in TaskRuntime!Admitted => task_pc' \in TaskRuntime!Admitted
              /\ task_pc' \in SoundStages => task_pc \in SoundStages
              /\ task_pc' = "flush" => task_pc = "flush" \/ task_hb = "idle"
              /\ task_pc' \in Flushed => task_pc \in Flushed
    PROVE  EventsKept'
<1>1. WireInv'
  <2>1. \A m : Follows(m)' <=> Follows(m)
    BY DEF Follows
  <2>2. \A t \in TaskRuntime!Tasks : t = task_task => task_task # TaskRuntime!NoTask
    BY DEF EventsInv, TaskRuntime!Tasks, TaskRuntime!NoTask
  <2>3. \A m \in task_wire : m.task \in TaskRuntime!Tasks
    BY DEF EventsInv, TaskType, TaskRequest
  <2> QED BY <2>1, <2>2, <2>3 DEF EventsInv, WireInv
<1>2. QueueInv'
  BY DEF EventsInv, QueueInv, TaskRuntime!Request, SoundStages
<1> QED BY <1>1, <1>2
           DEF EventsInv, EventsKept, TaskType, TaskRuntime!EventsArriveOnce,
               TaskRuntime!ReceiptAfterEvents

\* A heartbeat that failed: what it carried may still arrive
LEMMA FailedHeartbeatKeeps ==
    ASSUME TaskRuntime!TaskConstants, EventsInv, UNCHANGED <<task_dms, task_wire, task_logged, task_task>>, task_hb' = "idle", task_batch' = 0,
           task_queue' = task_queue \/ task_queue' = TaskRuntime!Drained, task_pc' \in {"joining",
                "cleanup"}, task_pc \notin TaskRuntime!Admitted
    PROVE  EventsKept'
<1>1. WireInv'
  <2>1. \A m : Follows(m)' <=> Follows(m)
    BY DEF Follows
  <2> QED BY <2>1 DEF EventsInv, WireInv, TaskRuntime!Reporting, TaskRuntime!Admitted, Posted, Flushed
<1>2. QueueInv'
  <2> SUFFICES ASSUME task_task # TaskRuntime!NoTask
               PROVE  Len(task_queue') <= task_logged[task_task]
                    /\ \A i \in 1..Len(task_queue') : task_queue'[i] = task_logged[task_task] - Len(task_queue') + i
    BY DEF QueueInv, SoundStages, TaskRuntime!Reporting, TaskRuntime!Admitted, Posted, Flushed
  <2>0. /\ task_queue \in Seq(1..task_MaxEvents) /\ Len(task_queue) \in Nat /\ task_batch \in Nat
        /\ task_batch <= Len(task_queue)
        /\ task_logged[task_task] \in Nat /\ TaskType
    BY LeasedTask DEF EventsInv, TaskType, TaskRuntime!TypeOK, TaskRuntime!TaskConstants
  <2>1. CASE task_queue' = task_queue
    BY <2>1 DEF EventsInv, QueueInv
  <2>2. CASE task_queue' = TaskRuntime!Drained
    <3>1. \A i \in 1..Len(task_queue) : task_queue[i] = task_logged[task_task] - Len(task_queue) + i
      BY DEF EventsInv, QueueInv
    <3>2. Len(task_queue) <= task_logged[task_task]
      BY DEF EventsInv, QueueInv
    <3>3. Len(TaskRuntime!Drained) = Len(task_queue) - task_batch
             /\ \A i \in 1..Len(TaskRuntime!Drained) : TaskRuntime!Drained[i] = task_queue[task_batch + i]
      BY <2>0, DrainedIs
    <3>4. ASSUME NEW i \in 1..Len(TaskRuntime!Drained)
             PROVE TaskRuntime!Drained[i] = task_logged[task_task] - Len(TaskRuntime!Drained) + i
      <4>1. task_batch + i \in 1..Len(task_queue)
        BY <2>0, <3>3
      <4> QED BY <2>0, <3>1, <3>3, <4>1
    <3> QED BY <2>0, <2>2, <3>2, <3>3, <3>4
  <2> QED BY <2>1, <2>2
<1> QED BY <1>1, <1>2
           DEF EventsInv, EventsKept, TaskType, TaskRuntime!EventsArriveOnce,
               TaskRuntime!ReceiptAfterEvents

\* The end of a lease: its last request may still arrive
LEMMA EndKeeps ==
    ASSUME EventsInv, UNCHANGED <<task_dms, task_logged>>, task_wire' \subseteq task_wire,
         task_task' = TaskRuntime!NoTask
    PROVE  EventsKept'
<1>1. WireInv'
  <2>1. \A m : Follows(m)' <=> Follows(m)
    BY DEF Follows
  <2>2. \A t \in TaskRuntime!Tasks : t # TaskRuntime!NoTask
    BY DEF TaskRuntime!Tasks, TaskRuntime!NoTask
  <2>3. \A m \in task_wire : m.task \in TaskRuntime!Tasks
    BY DEF EventsInv, TaskType, TaskRequest
  <2> QED BY <2>1, <2>2, <2>3 DEF EventsInv, WireInv
<1>2. QueueInv'
  BY DEF QueueInv
<1> QED BY <1>1, <1>2
           DEF EventsInv, EventsKept, TaskType, TaskRuntime!EventsArriveOnce,
               TaskRuntime!ReceiptAfterEvents

\* The DMS changes the state of a task that is not reported
LEMMA StateKeeps ==
    ASSUME EventsInv, NEW t \in TaskRuntime!Tasks, NEW st \in {"leased", "canceled"},
           task_dms[t].state \in {"queued", "leased"}, task_dms' = [task_dms EXCEPT ![t].state = st],
           UNCHANGED <<task_wire, task_logged, task_queue, task_hb, task_batch>>,
           \/ UNCHANGED <<task_task, task_pc>>
           \/ task_task = TaskRuntime!NoTask /\ task_task' = TaskRuntime!NoTask
           \/ task_task = TaskRuntime!NoTask /\ task_task' = t /\ task_pc' = "first"
               /\ task_dms[t].state = "queued" /\ task_hb = "idle" /\ task_queue = <<>>
    PROVE  EventsKept'
<1>1. /\ task_dms \in [TaskRuntime!Tasks -> DmsRecord] /\ task_dms' \in [TaskRuntime!Tasks -> DmsRecord]
      /\ \A u \in TaskRuntime!Tasks : task_dms'[u].log = task_dms[u].log /\ (u # t
          => task_dms'[u].state = task_dms[u].state)
      /\ task_dms'[t].state = st
  BY DEF EventsInv, TaskType, DmsRecord
<1>2. \A m \in task_wire : m \in TaskRequest /\ m.task \in TaskRuntime!Tasks
  BY DEF EventsInv, TaskType, TaskRequest
<1>3. \A m \in task_wire : Follows(m)' <=> Follows(m)
  BY <1>1, <1>2 DEF Follows
<1>4. \A u \in TaskRuntime!Tasks : u # TaskRuntime!NoTask
  BY DEF TaskRuntime!Tasks, TaskRuntime!NoTask
<1>5. WireInv'
  <2>1. \A u \in TaskRuntime!Tasks : task_dms'[u].state = "queued" =>
          /\ task_logged'[u] = 0 /\ task_dms'[u].log = <<>> /\ u # task_task'
          /\ \A m \in task_wire' : m.task # u
    BY <1>1, <1>4 DEF EventsInv, WireInv
  <2>2. \A m \in task_wire : m.kind # "heartbeat" =>
          /\ Len(task_dms'[m.task].log) = task_logged'[m.task]
          /\ m.task = task_task' => task_pc' \in Posted
    BY <1>1, <1>2, <1>4 DEF EventsInv, WireInv
  <2>3. \A u \in TaskRuntime!Tasks : task_dms'[u].state \in {"ok", "failed"} /\ u = task_task'
           => task_pc' \in TaskRuntime!Admitted
    BY <1>1, <1>4 DEF EventsInv, WireInv
  <2> QED BY <1>3, <2>1, <2>2, <2>3 DEF EventsInv, WireInv
<1>6. QueueInv'
  <2>1. CASE task_task' = t /\ task_pc' = "first" /\ task_dms[t].state = "queued"
           /\ task_hb = "idle" /\ task_queue = <<>>
    <3>1. task_logged[t] = 0 /\ task_dms[t].log = <<>> /\ \A m \in task_wire : m.task # t
      BY <2>1 DEF EventsInv, WireInv
    <3> QED BY <1>1, <2>1, <3>1 DEF QueueInv
  <2>2. CASE UNCHANGED <<task_task, task_pc>>
    <3>1. task_task # TaskRuntime!NoTask => task_task \in TaskRuntime!Tasks
      BY DEF EventsInv, TaskType, TaskRuntime!TypeOK
    <3> QED BY <1>1, <2>2, <3>1 DEF EventsInv, QueueInv, TaskRuntime!Request
  <2>3. CASE task_task' = TaskRuntime!NoTask
    BY <2>3 DEF QueueInv
  <2> QED BY <2>1, <2>2, <2>3
<1>7. TaskRuntime!EventsArriveOnce'
  BY <1>1 DEF EventsInv, TaskRuntime!EventsArriveOnce
<1>8. TaskRuntime!ReceiptAfterEvents'
  BY <1>1 DEF EventsInv, TaskRuntime!ReceiptAfterEvents
<1> QED BY <1>1, <1>5, <1>6, <1>7, <1>8 DEF EventsInv, EventsKept, TaskType

\* A heartbeat leaves with the events of the queue, which follow those the DMS holds
LEMMA SendKeeps ==
    ASSUME TaskRuntime!TaskConstants, EventsInv, TaskRuntime!SendHeartbeat
    PROVE  EventsKept'
<1> DEFINE m == TaskRuntime!Request("heartbeat", task_queue)
<1>0. task_task # TaskRuntime!NoTask /\ task_pc \in SoundStages \ Flushed /\ task_hb = "idle"
  BY DEF EventsInv, TaskRuntime!SendHeartbeat, StageInv, SoundStages, TaskRuntime!Reporting,
         TaskRuntime!Admitted, Posted, Flushed
<1>1. /\ task_task \in TaskRuntime!Tasks /\ task_logged[task_task] \in Nat
      /\ Len(task_dms[task_task].log) \in Nat
      /\ task_queue \in TaskEvents /\ Len(task_queue) \in Nat
  BY <1>0, LeasedTask DEF EventsInv, TaskType, TaskRuntime!TypeOK, TaskEvents, TaskRuntime!TaskConstants
<1>2. /\ m \in TaskRequest /\ m.task = task_task /\ m.kind = "heartbeat" /\ m.events = task_queue
  BY <1>1 DEF TaskRequest, TaskRuntime!Request
<1>3. /\ UNCHANGED <<task_dms, task_pc, task_task, task_queue, task_logged>>
      /\ task_wire' = task_wire \cup {m} /\ task_hb' = "sent" /\ task_batch' = Len(task_queue)
  BY DEF TaskRuntime!SendHeartbeat
<1> HIDE DEF m
<1>4. /\ Len(task_dms[task_task].log) + Len(task_queue) = task_logged[task_task]
      /\ Len(task_queue) <= task_logged[task_task]
      /\ \A i \in 1..Len(task_queue) : task_queue[i] = task_logged[task_task] - Len(task_queue) + i
      /\ \A n \in task_wire : n.task # task_task
  BY <1>0 DEF EventsInv, QueueInv, TaskRuntime!Reporting, TaskRuntime!Admitted, Posted, Flushed
<1>5. Follows(m)
  <2>1. \A i \in 1..Len(task_queue) : task_queue[i] = Len(task_dms[task_task].log) + i
    <3> DEFINE n == Len(task_queue)
    <3> DEFINE l == Len(task_dms[task_task].log)
    <3> DEFINE g == task_logged[task_task]
    <3>1. n \in Nat /\ l \in Nat /\ g \in Nat /\ l + n = g
      BY <1>1, <1>4
    <3>2. \A i \in 1..n : task_queue[i] = g - n + i
      BY <1>4
    <3> HIDE DEF n, l, g
    <3>3. \A i \in 1..n : task_queue[i] = l + i
      BY <3>1, <3>2
    <3> QED BY <3>3 DEF n, l
  <2> QED BY <1>1, <1>2, <1>4, <2>1 DEF Follows
<1>6. WireInv'
  <2>1. \A n : Follows(n)' <=> Follows(n)
    BY <1>3 DEF Follows
  <2>2. \A t \in TaskRuntime!Tasks : task_dms'[t].state = "queued" =>
          /\ task_logged'[t] = 0 /\ task_dms'[t].log = <<>> /\ t # task_task'
          /\ \A n \in task_wire' : n.task # t
    BY <1>2, <1>3 DEF EventsInv, WireInv
  <2>3. \A n \in task_wire' : n.kind = "heartbeat" => Follows(n)'
    BY <1>3, <1>5, <2>1 DEF EventsInv, WireInv
  <2>4. \A n \in task_wire' : n.kind # "heartbeat" =>
          /\ Len(task_dms'[n.task].log) = task_logged'[n.task]
          /\ n.task = task_task' => task_pc' \in Posted
    BY <1>2, <1>3 DEF EventsInv, WireInv
  <2>5. \A k, n \in task_wire' : k.task = n.task => k = n
    BY <1>2, <1>3, <1>4 DEF EventsInv, WireInv
  <2>6. \A t \in TaskRuntime!Tasks : task_dms'[t].state \in {"ok", "failed"} /\ t = task_task'
           => task_pc' \in TaskRuntime!Admitted
    BY <1>3 DEF EventsInv, WireInv
  <2> QED BY <2>2, <2>3, <2>4, <2>5, <2>6 DEF WireInv
<1>7. QueueInv'
  <2>1. SubSeq(task_queue, 1, Len(task_queue)) = task_queue
    BY <1>1, SubSeqFull DEF TaskEvents
  <2>2. TaskRuntime!Request("heartbeat", SubSeq(task_queue, 1, Len(task_queue)))' \in task_wire'
    BY <1>3, <2>1 DEF TaskRuntime!Request, m
  <2> QED BY <1>0, <1>3, <1>4, <2>2 DEF QueueInv, SoundStages
<1> QED BY <1>2, <1>3, <1>6, <1>7
           DEF EventsInv, EventsKept, TaskType, TaskRuntime!EventsArriveOnce,
               TaskRuntime!ReceiptAfterEvents

\* The DMS holds the batch: the queue keeps what was logged since
LEMMA SuccessKeeps ==
    ASSUME TaskRuntime!TaskConstants, EventsInv, TaskRuntime!HeartbeatSucceeds
    PROVE  EventsKept'
<1>0. task_task # TaskRuntime!NoTask /\ task_pc \in {"first", "running", "draining", "flush"}
         /\ task_hb = "ok"
  BY DEF EventsInv, TaskRuntime!HeartbeatSucceeds, StageInv
<1>1. /\ task_task \in TaskRuntime!Tasks /\ task_logged[task_task] \in Nat
      /\ Len(task_dms[task_task].log) \in Nat
      /\ task_queue \in TaskEvents /\ Len(task_queue) \in Nat /\ task_batch \in Nat
      /\ task_batch <= Len(task_queue)
  BY <1>0, LeasedTask DEF EventsInv, TaskType, TaskRuntime!TypeOK, TaskEvents, TaskRuntime!TaskConstants
<1>2. /\ UNCHANGED <<task_dms, task_wire, task_task, task_logged>>
      /\ task_queue' = TaskRuntime!Drained /\ task_hb' = "idle" /\ task_batch' = 0
      /\ task_pc' \in TaskRuntime!AfterHeartbeat
  BY DEF TaskRuntime!HeartbeatSucceeds, TaskRuntime!dmsVars
<1>3. /\ task_pc' \in SoundStages \ Posted
      /\ task_pc = "flush" <=> task_pc' = "report"
  BY <1>0, <1>2
     DEF TaskRuntime!AfterHeartbeat, SoundStages, TaskRuntime!Reporting, TaskRuntime!Admitted, Posted,
         Flushed
<1>4. TaskRuntime!Drained \in TaskEvents /\ Len(TaskRuntime!Drained) = Len(task_queue) - task_batch
         /\ \A i \in 1..Len(TaskRuntime!Drained) : TaskRuntime!Drained[i] = task_queue[task_batch + i]
  BY DrainedIs DEF EventsInv
<1>5. /\ Len(task_dms[task_task].log) + Len(task_queue) = task_logged[task_task] + task_batch
      /\ Len(task_queue) <= task_logged[task_task]
      /\ \A i \in 1..Len(task_queue) : task_queue[i] = task_logged[task_task] - Len(task_queue) + i
      /\ \A n \in task_wire : n.task # task_task
      /\ task_pc = "flush" => task_batch = Len(task_queue)
  BY <1>0
     DEF EventsInv, QueueInv, SoundStages, TaskRuntime!Reporting, TaskRuntime!Admitted, Posted, Flushed
<1>6. QueueInv'
  <2>1. \A i \in 1..Len(TaskRuntime!Drained) : TaskRuntime!Drained[i] = task_logged[task_task] - Len(TaskRuntime!Drained) + i
    <3> SUFFICES ASSUME NEW i \in 1..Len(TaskRuntime!Drained)
         PROVE TaskRuntime!Drained[i] = task_logged[task_task] - Len(TaskRuntime!Drained) + i
      OBVIOUS
    <3>1. task_batch + i \in 1..Len(task_queue) /\ i \in Nat
      BY <1>1, <1>4
    <3>2. TaskRuntime!Drained[i] = task_logged[task_task] - Len(task_queue) + (task_batch + i)
      BY <1>4, <1>5, <3>1
    <3>3. Len(TaskRuntime!Drained) = Len(task_queue) - task_batch
      BY <1>4
    <3> QED BY <1>1, <3>1, <3>2, <3>3
  <2>2. Len(TaskRuntime!Drained) <= task_logged[task_task]
           /\ Len(task_dms[task_task].log) + Len(TaskRuntime!Drained) = task_logged[task_task]
    <3>1. /\ Len(TaskRuntime!Drained) = Len(task_queue) - task_batch
          /\ Len(task_queue) <= task_logged[task_task]
          /\ Len(task_dms[task_task].log) + Len(task_queue) = task_logged[task_task] + task_batch
      BY <1>4, <1>5
    <3> QED BY <1>1, <3>1
  <2>3. task_pc' = "report" => TaskRuntime!Drained = <<>>
    BY <1>1, <1>3, <1>4, <1>5 DEF TaskEvents
  <2>4. task_pc' \notin Flushed \ {"report"}
    BY <1>0, <1>2 DEF TaskRuntime!AfterHeartbeat, Flushed, TaskRuntime!Admitted
  <2> QED BY <1>2, <1>3, <1>5, <2>1, <2>2, <2>3, <2>4 DEF QueueInv
<1>7. WireInv'
  <2>1. \A n : Follows(n)' <=> Follows(n)
    BY <1>2 DEF Follows
  <2>2. \A t \in TaskRuntime!Tasks : task_dms[t].state \in {"ok", "failed"} => t # task_task
    BY <1>0 DEF EventsInv, WireInv, TaskRuntime!Reporting, TaskRuntime!Admitted, Posted, Flushed
  <2>3. \A m \in task_wire : m.kind # "heartbeat" => m.task # task_task
    BY <1>0 DEF EventsInv, WireInv, TaskRuntime!Reporting, TaskRuntime!Admitted, Posted, Flushed
  <2> QED BY <1>2, <2>1, <2>2, <2>3 DEF EventsInv, WireInv
<1> QED BY <1>2, <1>6, <1>7
           DEF EventsInv, EventsKept, TaskType, TaskRuntime!EventsArriveOnce,
               TaskRuntime!ReceiptAfterEvents

\* log_event appends the next number
LEMMA LogKeeps ==
    ASSUME TaskRuntime!TaskConstants, EventsInv, TaskRuntime!LogEvent
    PROVE  EventsKept'
<1>0. task_task # TaskRuntime!NoTask /\ task_pc \in {"running", "joining"}
  BY DEF EventsInv, TaskRuntime!LogEvent, StageInv
<1>1. /\ task_task \in TaskRuntime!Tasks /\ task_logged[task_task] \in Nat
      /\ Len(task_dms[task_task].log) \in Nat
      /\ task_queue \in Seq(1..task_MaxEvents) /\ Len(task_queue) \in Nat /\ task_batch \in Nat
      /\ task_batch <= Len(task_queue)
      /\ task_logged \in [TaskRuntime!Tasks -> 0..task_MaxEvents]
  BY <1>0, LeasedTask DEF EventsInv, TaskType, TaskRuntime!TypeOK, TaskEvents, TaskRuntime!TaskConstants
<1>2. /\ UNCHANGED <<task_dms, task_wire, task_pc, task_task, task_hb, task_batch>>
      /\ task_logged[task_task] < task_MaxEvents
      /\ task_logged' = [task_logged EXCEPT ![task_task] = @ + 1]
      /\ task_queue' = Append(task_queue, task_logged[task_task] + 1)
  BY DEF TaskRuntime!LogEvent, TaskRuntime!dmsVars
<1>3. /\ task_logged' \in [TaskRuntime!Tasks -> 0..task_MaxEvents]
      /\ task_logged'[task_task] = task_logged[task_task] + 1
      /\ \A t \in TaskRuntime!Tasks : t # task_task => task_logged'[t] = task_logged[t]
      /\ \A t \in TaskRuntime!Tasks : task_logged[t] \in Nat /\ task_logged'[t] \in Nat
          /\ task_logged[t] <= task_logged'[t]
  BY <1>1, <1>2 DEF TaskRuntime!TaskConstants
<1>4. /\ Len(task_queue') = Len(task_queue) + 1
      /\ task_queue'[Len(task_queue) + 1] = task_logged[task_task] + 1
      /\ \A i \in 1..Len(task_queue) : task_queue'[i] = task_queue[i]
  <2>1. task_logged[task_task] + 1 \in 1..task_MaxEvents
    BY <1>1, <1>2 DEF TaskRuntime!TaskConstants
  <2> QED BY <1>1, <1>2, <2>1, AppendProperties
<1>5. \A m \in task_wire : m \in TaskRequest /\ m.task \in TaskRuntime!Tasks /\ Len(m.events) \in Nat
  BY DEF EventsInv, TaskType, TaskRequest, TaskEvents
<1>6. \A t \in TaskRuntime!Tasks : task_dms[t] \in DmsRecord /\ Len(task_dms[t].log) \in Nat
  BY DEF EventsInv, TaskType, DmsRecord, TaskEvents
<1>7. /\ task_dms[task_task].state \notin {"queued", "ok", "failed"}
      /\ \A m \in task_wire : m.kind # "heartbeat" => m.task # task_task
  BY <1>0, <1>1 DEF EventsInv, WireInv, TaskRuntime!Reporting, TaskRuntime!Admitted, Posted, Flushed
<1>8. WireInv'
  <2>1. \A m \in task_wire : m.kind = "heartbeat" => Follows(m)'
    <3> SUFFICES ASSUME NEW m \in task_wire, m.kind = "heartbeat" PROVE Follows(m)'
      OBVIOUS
    <3>1. Follows(m)
      BY DEF EventsInv, WireInv
    <3>2. /\ m.task \in TaskRuntime!Tasks /\ Len(m.events) \in Nat /\ Len(task_dms[m.task].log) \in Nat
          /\ task_logged[m.task] \in Nat /\ task_logged'[m.task] \in Nat
          /\ task_logged[m.task] <= task_logged'[m.task]
      BY <1>3, <1>5, <1>6
    <3>3. Len(task_dms[m.task].log) + Len(m.events) <= task_logged'[m.task]
      <4>1. Len(task_dms[m.task].log) + Len(m.events) <= task_logged[m.task]
        BY <3>1 DEF Follows
      <4>2. \A a, b, c, d \in Nat : a + b <= c /\ c <= d => a + b <= d
        OBVIOUS
      <4> QED BY <3>2, <4>1, <4>2, Zenon
    <3> QED BY <1>2, <3>1, <3>3 DEF Follows
  <2>2. \A t \in TaskRuntime!Tasks : task_dms'[t].state = "queued" =>
          /\ task_logged'[t] = 0 /\ task_dms'[t].log = <<>> /\ t # task_task'
          /\ \A n \in task_wire' : n.task # t
    BY <1>2, <1>3, <1>7 DEF EventsInv, WireInv
  <2>3. \A n \in task_wire' : n.kind # "heartbeat" =>
          /\ Len(task_dms'[n.task].log) = task_logged'[n.task]
          /\ n.task = task_task' => task_pc' \in Posted
    BY <1>2, <1>3, <1>5, <1>7 DEF EventsInv, WireInv
  <2> QED BY <1>2, <2>1, <2>2, <2>3 DEF EventsInv, WireInv
<1>9. QueueInv'
  <2>0. /\ Len(task_queue) <= task_logged[task_task]
        /\ \A i \in 1..Len(task_queue) : task_queue[i] = task_logged[task_task] - Len(task_queue) + i
    BY <1>0 DEF EventsInv, QueueInv
  <2>1. Len(task_queue') <= task_logged'[task_task]
    BY <1>1, <1>3, <1>4, <2>0
  <2>2. \A i \in 1..Len(task_queue') : task_queue'[i] = task_logged'[task_task] - Len(task_queue') + i
    <3> SUFFICES ASSUME NEW i \in 1..Len(task_queue')
         PROVE task_queue'[i] = task_logged'[task_task] - Len(task_queue') + i
      OBVIOUS
    <3>1. CASE i \in 1..Len(task_queue)
      BY <1>1, <1>3, <1>4, <2>0, <3>1
    <3>2. CASE i = Len(task_queue) + 1
      BY <1>1, <1>3, <1>4, <3>2
    <3> QED BY <1>1, <1>4, <3>1, <3>2
  <2>3. task_pc \in SoundStages /\ task_hb \in {"idle", "sent"}
           => Len(task_dms[task_task].log) + Len(task_queue') = task_logged'[task_task]
    <3>1. task_pc \in SoundStages /\ task_hb \in {"idle", "sent"}
             => Len(task_dms[task_task].log) + Len(task_queue) = task_logged[task_task]
      BY <1>0 DEF EventsInv, QueueInv
    <3>2. Len(task_queue') = Len(task_queue) + 1 /\ task_logged'[task_task] = task_logged[task_task] + 1
      BY <1>3, <1>4
    <3>4. Len(task_dms[task_task].log) + Len(task_queue) = task_logged[task_task]
             => Len(task_dms[task_task].log) + (Len(task_queue) + 1) = task_logged[task_task] + 1
      <4> DEFINE a == Len(task_dms[task_task].log)
                 b == Len(task_queue)
                 c == task_logged[task_task]
      <4>1. a \in Nat /\ b \in Nat /\ c \in Nat /\ task_batch \in Nat
        BY <1>1
      <4> HIDE DEF a, b, c
      <4>2. a + b = c => a + (b + 1) = c + 1
        BY <4>1
      <4>3. a + b = c + task_batch => a + (b + 1) = (c + 1) + task_batch
        BY <4>1
      <4> QED BY <4>2, <4>3 DEF a, b, c
    <3> QED BY <3>1, <3>2, <3>4, Zenon
  <2>4. task_hb = "ok" => Len(task_dms[task_task].log) + Len(task_queue') = task_logged'[task_task] + task_batch
    <3>1. task_hb = "ok" => Len(task_dms[task_task].log) + Len(task_queue) = task_logged[task_task] + task_batch
      BY <1>0 DEF EventsInv, QueueInv
    <3>2. Len(task_queue') = Len(task_queue) + 1 /\ task_logged'[task_task] = task_logged[task_task] + 1
      BY <1>3, <1>4
    <3>4. Len(task_dms[task_task].log) + Len(task_queue) = task_logged[task_task] + task_batch =>
             Len(task_dms[task_task].log) + (Len(task_queue) + 1) = (task_logged[task_task] + 1) + task_batch
      <4> DEFINE a == Len(task_dms[task_task].log)
                 b == Len(task_queue)
                 c == task_logged[task_task]
      <4>1. a \in Nat /\ b \in Nat /\ c \in Nat /\ task_batch \in Nat
        BY <1>1
      <4> HIDE DEF a, b, c
      <4>2. a + b = c => a + (b + 1) = c + 1
        BY <4>1
      <4>3. a + b = c + task_batch => a + (b + 1) = (c + 1) + task_batch
        BY <4>1
      <4> QED BY <4>2, <4>3 DEF a, b, c
    <3> QED BY <3>1, <3>2, <3>4, Zenon
  <2>5. task_hb = "sent" => [kind |-> "heartbeat", task |-> task_task, events |-> SubSeq(task_queue',
           1, task_batch)] \in task_wire
    <3>1. SubSeq(task_queue', 1, task_batch) = SubSeq(task_queue, 1, task_batch)
      <4>1. task_queue' \in Seq(1..task_MaxEvents)
        BY <1>1, <1>2, AppendProperties DEF TaskRuntime!TaskConstants
      <4>2. task_batch <= Len(task_queue')
        BY <1>1, <1>4
      <4>3. /\ SubSeq(task_queue, 1, task_batch) = [i \in 1..task_batch |-> task_queue[1 + i - 1]]
            /\ SubSeq(task_queue', 1, task_batch) = [i \in 1..task_batch |-> task_queue'[1 + i - 1]]
        BY <1>1, <4>1, <4>2
      <4>4. \A i \in 1..task_batch : 1 + i - 1 = i /\ i \in 1..Len(task_queue)
        BY <1>1
      <4>5. \A i \in 1..task_batch : task_queue'[1 + i - 1] = task_queue[1 + i - 1]
        BY <1>4, <4>4
      <4> QED BY <4>3, <4>5
    <3> QED BY <1>0, <1>2, <3>1 DEF EventsInv, QueueInv, TaskRuntime!Request
  <2>6. task_pc \notin {"flush"} \cup Flushed
    BY <1>0 DEF Flushed, TaskRuntime!Admitted
  <2>7. task_pc \in SoundStages \ Posted /\ task_hb # "sent" => \A m \in task_wire : m.task # task_task
    BY <1>0 DEF EventsInv, QueueInv
  <2> QED BY <1>2, <2>1, <2>2, <2>3, <2>4, <2>5, <2>6, <2>7 DEF QueueInv, TaskRuntime!Request
<1>10. TaskRuntime!EventsArriveOnce'
  <2> SUFFICES ASSUME NEW t \in TaskRuntime!Tasks PROVE TaskRuntime!Numbered(task_dms[t].log)
       /\ Len(task_dms[t].log) <= task_logged'[t]
    BY <1>2 DEF TaskRuntime!EventsArriveOnce, TaskRuntime!Numbered
  <2> QED BY <1>3, <1>6 DEF EventsInv, TaskRuntime!EventsArriveOnce
<1>11. TaskRuntime!ReceiptAfterEvents'
  BY <1>2, <1>3, <1>7 DEF EventsInv, TaskRuntime!ReceiptAfterEvents
<1> QED BY <1>2, <1>3, <1>8, <1>9, <1>10, <1>11 DEF EventsInv, EventsKept, TaskType

\* A receipt leaves when the queue is empty and the DMS holds every event
LEMMA ReceiptKeeps ==
    ASSUME TaskRuntime!TaskConstants, EventsInv, task_pc \in {"asking", "reasking"}, task_pc' \in Posted,
           task_wire' = task_wire \cup {TaskRuntime!Request(task_outcome, <<>>)},
           UNCHANGED <<task_dms, task_task, task_outcome, task_hb, task_batch, task_queue, task_logged>>
    PROVE  EventsKept'
<1> DEFINE m == TaskRuntime!Request(task_outcome, <<>>)
<1>0. task_task # TaskRuntime!NoTask /\ task_pc \in SoundStages \ Posted /\ task_hb = "idle"
         /\ task_outcome \in {"ok", "failed"}
  BY DEF EventsInv, TaskType, TaskRuntime!TypeOK, StageInv, SoundStages, TaskRuntime!Reporting, Posted
<1>1. /\ task_task \in TaskRuntime!Tasks /\ task_logged[task_task] \in Nat
      /\ Len(task_dms[task_task].log) \in Nat
      /\ <<>> \in TaskEvents /\ Len(<<>>) = 0
  BY <1>0, LeasedTask DEF TaskEvents, TaskRuntime!TaskConstants
<1>2. /\ m \in TaskRequest /\ m.task = task_task /\ m.kind # "heartbeat"
  BY <1>0, <1>1 DEF TaskRequest, TaskRuntime!Request
<1>3. task_wire' = task_wire \cup {m}
  OBVIOUS
<1> HIDE DEF m
<1>4. task_queue = <<>> /\ Len(task_dms[task_task].log) + Len(task_queue) = task_logged[task_task]
         /\ \A n \in task_wire : n.task # task_task
  BY <1>0 DEF EventsInv, QueueInv, Flushed, TaskRuntime!Admitted
<1>5. Len(task_dms[task_task].log) = task_logged[task_task]
  BY <1>1, <1>4
<1>6. WireInv'
  <2>1. \A n : Follows(n)' <=> Follows(n)
    BY DEF Follows
  <2>2. \A t \in TaskRuntime!Tasks : task_dms'[t].state = "queued" =>
          /\ task_logged'[t] = 0 /\ task_dms'[t].log = <<>> /\ t # task_task'
          /\ \A n \in task_wire' : n.task # t
    BY <1>2, <1>3 DEF EventsInv, WireInv
  <2>3. \A n \in task_wire' : n.kind = "heartbeat" => Follows(n)'
    BY <1>2, <1>3, <2>1 DEF EventsInv, WireInv
  <2>4. \A n \in task_wire' : n.kind # "heartbeat" =>
          /\ Len(task_dms'[n.task].log) = task_logged'[n.task]
          /\ n.task = task_task' => task_pc' \in Posted
    BY <1>2, <1>3, <1>5 DEF EventsInv, WireInv
  <2>5. \A k, n \in task_wire' : k.task = n.task => k = n
    BY <1>2, <1>3, <1>4 DEF EventsInv, WireInv
  <2> QED BY <2>2, <2>3, <2>4, <2>5 DEF WireInv, Posted, TaskRuntime!Admitted
<1>7. QueueInv'
  BY <1>0, <1>4 DEF EventsInv, QueueInv, Posted
<1> QED BY <1>2, <1>3, <1>6, <1>7
           DEF EventsInv, EventsKept, TaskType, TaskRuntime!EventsArriveOnce,
               TaskRuntime!ReceiptAfterEvents

\* A receipt that the DMS refused is taken from the wire; the next one has not left yet
LEMMA ReceiptRefusedKeeps ==
    ASSUME TaskRuntime!TaskConstants, EventsInv, task_pc = "receipt", task_pc' = "reasking",
           TaskRuntime!Request(task_outcome, <<>>) \in task_wire,
                task_wire' = task_wire \ {TaskRuntime!Request(task_outcome, <<>>)},
           UNCHANGED <<task_dms, task_task, task_hb, task_batch, task_queue, task_logged>>
    PROVE  EventsKept'
<1>0. task_task # TaskRuntime!NoTask /\ task_hb = "idle" /\ task_pc \in SoundStages
  BY DEF EventsInv, StageInv, SoundStages, TaskRuntime!Reporting
<1>1. TaskRuntime!Request(task_outcome, <<>>).task = task_task
  BY DEF TaskRuntime!Request
<1>2. \A n \in task_wire' : n \in task_wire /\ n.task # task_task
  BY <1>1 DEF EventsInv, WireInv
<1>3. WireInv'
  <2>1. \A n : Follows(n)' <=> Follows(n)
    BY DEF Follows
  <2> QED BY <1>2, <2>1 DEF EventsInv, WireInv, TaskRuntime!Admitted
<1>4. QueueInv'
  BY <1>0, <1>2 DEF EventsInv, QueueInv, Flushed, TaskRuntime!Admitted, Posted
<1> QED BY <1>2, <1>3, <1>4
           DEF EventsInv, EventsKept, TaskType, TaskRuntime!EventsArriveOnce,
               TaskRuntime!ReceiptAfterEvents

\* The DMS answers a request: it appends the events, ends the task, or refuses
LEMMA ServeKeeps ==
    ASSUME TaskRuntime!TaskConstants, EventsInv, NEW m \in task_wire, TaskRuntime!Serve(m)
    PROVE  EventsKept'
<1> DEFINE t == m.task
<1>0. /\ m \in TaskRequest /\ t \in TaskRuntime!Tasks /\ m.events \in TaskEvents
      /\ m.kind \in {"heartbeat", "ok", "failed"}
      /\ Len(m.events) \in Nat
  BY DEF EventsInv, TaskType, TaskRequest, TaskEvents
<1>1. /\ task_dms \in [TaskRuntime!Tasks -> DmsRecord]
      /\ task_logged \in [TaskRuntime!Tasks -> 0..task_MaxEvents]
      /\ \A u \in TaskRuntime!Tasks : task_dms[u].log \in TaskEvents
          /\ Len(task_dms[u].log) \in Nat /\ task_logged[u] \in Nat
  BY DEF EventsInv, TaskType, DmsRecord, TaskEvents, TaskRuntime!TaskConstants
<1>2. /\ \A n \in task_wire : n \in TaskRequest /\ n.task \in TaskRuntime!Tasks
      /\ \A n \in task_wire' : n \in task_wire /\ n.task # t
      /\ \A n \in task_wire : n.task # t => n \in task_wire'
      /\ task_wire' \in SUBSET TaskRequest
  BY DEF TaskRuntime!Serve, EventsInv, WireInv, TaskType, TaskRequest
<1>3. UNCHANGED <<task_pc, task_task, task_batch, task_queue, task_logged>>
  BY DEF TaskRuntime!Serve
<1>4. /\ task_hb' = task_hb \/ (t = task_task /\ task_hb = "sent" /\ m.kind = "heartbeat"
          /\ task_hb' = IF task_dms[t].state = "leased" THEN "ok" ELSE "refused")
      /\ t = task_task /\ task_hb = "sent" /\ m.kind = "heartbeat" => task_hb' # task_hb
  BY DEF TaskRuntime!Serve
<1>5. task_task # TaskRuntime!NoTask /\ task_hb = "sent" /\ t = task_task
         => m = TaskRuntime!Request("heartbeat", SubSeq(task_queue, 1, task_batch))
         /\ m.kind = "heartbeat"
  <2> SUFFICES ASSUME task_task # TaskRuntime!NoTask, task_hb = "sent", t = task_task
               PROVE  m = TaskRuntime!Request("heartbeat", SubSeq(task_queue, 1, task_batch))
                    /\ m.kind = "heartbeat"
    OBVIOUS
  <2>1. TaskRuntime!Request("heartbeat", SubSeq(task_queue, 1, task_batch)) \in task_wire
    BY DEF EventsInv, QueueInv
  <2>2. TaskRuntime!Request("heartbeat", SubSeq(task_queue, 1, task_batch)).task = task_task
    BY DEF TaskRuntime!Request
  <2>3. m = TaskRuntime!Request("heartbeat", SubSeq(task_queue, 1, task_batch))
    BY <2>1, <2>2 DEF EventsInv, WireInv
  <2> QED BY <2>3 DEF TaskRuntime!Request
<1>6. t = task_task => task_task # TaskRuntime!NoTask
  BY <1>0 DEF TaskRuntime!Tasks, TaskRuntime!NoTask
<1>7. task_task # TaskRuntime!NoTask =>
        /\ Len(task_queue) <= task_logged[task_task]
        /\ \A i \in 1..Len(task_queue) : task_queue[i] = task_logged[task_task] - Len(task_queue) + i
        /\ task_pc \in SoundStages \ Posted /\ task_hb' # "sent"
            => \A n \in task_wire' : n.task # task_task
        /\ task_hb' = "sent" => TaskRuntime!Request("heartbeat", SubSeq(task_queue, 1,
            task_batch)) \in task_wire'
        /\ task_pc = "flush" /\ task_hb' # "idle" => task_batch = Len(task_queue)
        /\ task_pc \in Flushed => task_queue = <<>>
  <2> SUFFICES ASSUME task_task # TaskRuntime!NoTask
               PROVE  /\ task_pc \in SoundStages \ Posted /\ task_hb' # "sent" => \A n \in task_wire' : n.task # task_task
                      /\ task_hb' = "sent" => TaskRuntime!Request("heartbeat", SubSeq(task_queue, 1,
                          task_batch)) \in task_wire'
                      /\ task_pc = "flush" /\ task_hb' # "idle" => task_batch = Len(task_queue)
    BY DEF EventsInv, QueueInv
  <2>1. task_pc \in SoundStages \ Posted /\ task_hb' # "sent"
           => \A n \in task_wire' : n.task # task_task
    BY <1>2, <1>4 DEF EventsInv, QueueInv
  <2>2. task_hb' = "sent" => TaskRuntime!Request("heartbeat", SubSeq(task_queue, 1,
           task_batch)) \in task_wire'
    <3>1. task_hb' = "sent" => task_hb = "sent" /\ t # task_task
      BY <1>4, <1>5
    <3>2. TaskRuntime!Request("heartbeat", SubSeq(task_queue, 1, task_batch)).task = task_task
      BY DEF TaskRuntime!Request
    <3>3. task_hb = "sent" => TaskRuntime!Request("heartbeat", SubSeq(task_queue, 1,
             task_batch)) \in task_wire
      BY DEF EventsInv, QueueInv
    <3> QED BY <1>2, <3>1, <3>2, <3>3
  <2>3. task_pc = "flush" /\ task_hb' # "idle" => task_batch = Len(task_queue)
    BY <1>4 DEF EventsInv, QueueInv
  <2> QED BY <2>1, <2>2, <2>3
<1>8. /\ \A u \in TaskRuntime!Tasks : task_dms[u].state \in {"ok", "failed"} /\ u = task_task
          => task_pc \in TaskRuntime!Admitted
      /\ \A n \in task_wire : n.kind # "heartbeat"
          => Len(task_dms[n.task].log) = task_logged[n.task] /\ (n.task = task_task
          => task_pc \in Posted)
      /\ \A n \in task_wire : n.kind = "heartbeat" => Follows(n)
      /\ \A u \in TaskRuntime!Tasks : task_dms[u].state = "queued" =>
            /\ task_logged[u] = 0 /\ task_dms[u].log = <<>> /\ u # task_task
            /\ \A n \in task_wire : n.task # u
      /\ \A k, n \in task_wire : k.task = n.task => k = n
  BY DEF EventsInv, WireInv
<1>9. CASE task_dms[t].state # "leased"
  <2>1. task_dms' = task_dms
    BY <1>9 DEF TaskRuntime!Serve
  <2>2. \A n : Follows(n)' <=> Follows(n)
    BY <1>3, <2>1 DEF Follows
  <2>3. WireInv'
    BY <1>2, <1>3, <1>8, <2>1, <2>2 DEF WireInv
  <2>4. QueueInv'
    <3>1. task_hb' = "ok" => task_hb = "ok"
      BY <1>4, <1>9
    <3>2. task_hb' \in {"idle", "sent"} => task_hb \in {"idle", "sent"}
      BY <1>4, <1>9
    <3>3. task_task # TaskRuntime!NoTask =>
            /\ task_pc \in SoundStages /\ task_hb' \in {"idle", "sent"}
                => Len(task_dms[task_task].log) + Len(task_queue) = task_logged[task_task]
            /\ task_hb' = "ok" => Len(task_dms[task_task].log) + Len(task_queue) = task_logged[task_task] + task_batch
      BY <3>1, <3>2 DEF EventsInv, QueueInv
    <3> QED BY <1>3, <1>7, <2>1, <3>3 DEF QueueInv, TaskRuntime!Request
  <2> QED BY <1>1, <1>2, <1>3, <2>1, <2>3, <2>4
             DEF EventsInv, EventsKept, TaskRuntime!EventsArriveOnce, TaskRuntime!ReceiptAfterEvents
<1>10. CASE task_dms[t].state = "leased" /\ m.kind = "heartbeat"
  <2>0. task_dms' = [task_dms EXCEPT ![t].log = @ \o m.events] /\ Follows(m)
    BY <1>8, <1>10 DEF TaskRuntime!Serve
  <2>1. /\ task_dms[t].log \o m.events \in TaskEvents
        /\ Len(task_dms[t].log \o m.events) = Len(task_dms[t].log) + Len(m.events)
        /\ \A i \in 1..(Len(task_dms[t].log) + Len(m.events)) :
              (task_dms[t].log \o m.events)[i] = IF i <= Len(task_dms[t].log) THEN task_dms[t].log[i] ELSE m.events[i - Len(task_dms[t].log)]
    BY <1>0, <1>1, ConcatProperties DEF TaskEvents
  <2>2. /\ task_dms' \in [TaskRuntime!Tasks -> DmsRecord]
        /\ \A u \in TaskRuntime!Tasks : task_dms'[u].state = task_dms[u].state /\ (u # t
            => task_dms'[u].log = task_dms[u].log)
        /\ task_dms'[t].log = task_dms[t].log \o m.events
    BY <1>0, <1>1, <2>0, <2>1 DEF DmsRecord
  <2>3. \A n \in task_wire' : Follows(n)' <=> Follows(n)
    BY <1>2, <1>3, <2>2 DEF Follows
  <2>4. WireInv'
    <3>1. \A u \in TaskRuntime!Tasks : task_dms'[u].state = "queued" =>
            /\ task_logged'[u] = 0 /\ task_dms'[u].log = <<>> /\ u # task_task'
            /\ \A n \in task_wire' : n.task # u
      BY <1>2, <1>3, <1>8, <1>10, <2>2
    <3>2. \A n \in task_wire' : n.kind # "heartbeat" =>
            /\ Len(task_dms'[n.task].log) = task_logged'[n.task]
            /\ n.task = task_task' => task_pc' \in Posted
      BY <1>2, <1>3, <1>8, <2>2
    <3>3. \A u \in TaskRuntime!Tasks : task_dms'[u].state \in {"ok", "failed"} /\ u = task_task'
             => task_pc' \in TaskRuntime!Admitted
      BY <1>3, <1>8, <2>2
    <3> QED BY <1>2, <1>8, <2>3, <3>1, <3>2, <3>3 DEF WireInv
  <2>5. /\ Len(task_dms'[t].log) = Len(task_dms[t].log) + Len(m.events)
        /\ Len(task_dms[t].log) + Len(m.events) <= task_logged[t]
        /\ \A i \in 1..Len(m.events) : m.events[i] = Len(task_dms[t].log) + i
    BY <2>0, <2>1, <2>2 DEF Follows
  <2>6. QueueInv'
    <3> SUFFICES ASSUME task_task # TaskRuntime!NoTask
                 PROVE  /\ task_pc \in SoundStages /\ task_hb' \in {"idle", "sent"} => Len(task_dms'[task_task].log) + Len(task_queue) = task_logged[task_task]
                        /\ task_hb' = "ok" => Len(task_dms'[task_task].log) + Len(task_queue) = task_logged[task_task] + task_batch
      BY <1>3, <1>7 DEF QueueInv, TaskRuntime!Request
    <3>0. task_task \in TaskRuntime!Tasks
      BY DEF EventsInv, TaskType, TaskRuntime!TypeOK
    <3>1. CASE t # task_task
      <4>1. task_hb' = task_hb /\ task_dms'[task_task].log = task_dms[task_task].log
        BY <1>4, <2>2, <3>0, <3>1
      <4> QED BY <4>1 DEF EventsInv, QueueInv
    <3>2. CASE t = task_task /\ task_hb = "sent"
      <4>1. task_hb' = "ok" /\ m = TaskRuntime!Request("heartbeat", SubSeq(task_queue, 1, task_batch))
        BY <1>4, <1>5, <1>10, <3>2
      <4>2. /\ task_queue \in Seq(1..task_MaxEvents) /\ Len(task_queue) \in Nat
            /\ task_batch \in Nat /\ task_batch <= Len(task_queue)
            /\ task_pc \in SoundStages
        BY <3>2
           DEF EventsInv, TaskType, TaskRuntime!TypeOK, TaskRuntime!TaskConstants, StageInv,
               SoundStages, TaskRuntime!Reporting, TaskRuntime!Admitted, Posted, Flushed
      <4>3. Len(m.events) = task_batch
        BY <4>1, <4>2 DEF TaskRuntime!Request
      <4>4. Len(task_dms[task_task].log) + Len(task_queue) = task_logged[task_task]
        BY <3>2, <4>2 DEF EventsInv, QueueInv
      <4> DEFINE a == Len(task_dms[task_task].log)
                 b == Len(task_queue)
                 c == task_logged[task_task]
                 d == Len(task_dms'[task_task].log)
      <4>5. a \in Nat /\ b \in Nat /\ c \in Nat /\ task_batch \in Nat /\ a + b = c /\ d = a + task_batch
        BY <1>1, <2>5, <3>0, <3>2, <4>2, <4>3, <4>4
      <4> HIDE DEF a, b, c, d
      <4>6. d + b = c + task_batch
        BY <4>5
      <4> QED BY <4>1, <4>6 DEF b, c, d
    <3>3. CASE t = task_task /\ task_hb # "sent"
      <4>1. task_hb' = task_hb /\ task_pc \notin SoundStages \ Posted
        BY <1>4, <3>3 DEF EventsInv, QueueInv
      <4>2. task_hb = "idle"
        BY <4>1
           DEF EventsInv, StageInv, SoundStages, TaskRuntime!Reporting, TaskRuntime!Admitted, Posted,
               Flushed
      <4> SUFFICES ASSUME task_pc \in Posted
           PROVE Len(task_dms'[task_task].log) + Len(task_queue) = task_logged[task_task]
        BY <4>1, <4>2
      <4>3. task_queue = <<>> /\ Len(task_dms[task_task].log) + Len(task_queue) = task_logged[task_task]
        BY <4>2
           DEF EventsInv, QueueInv, SoundStages, TaskRuntime!Reporting, TaskRuntime!Admitted, Posted,
               Flushed
      <4> DEFINE a == Len(task_dms[task_task].log)
                 c == task_logged[task_task]
                 d == Len(task_dms'[task_task].log)
                 e == Len(m.events)
      <4>4. a \in Nat /\ c \in Nat /\ e \in Nat /\ a + 0 = c /\ d = a + e /\ a + e <= c
               /\ Len(task_queue) = 0
        BY <1>0, <1>1, <2>5, <3>0, <3>3, <4>3
      <4> HIDE DEF a, c, d, e
      <4>5. d + 0 = c
        BY <4>4
      <4> QED BY <4>4, <4>5 DEF c, d
    <3> QED BY <3>1, <3>2, <3>3
  <2>7. TaskRuntime!EventsArriveOnce'
    <3> SUFFICES ASSUME NEW u \in TaskRuntime!Tasks PROVE TaskRuntime!Numbered(task_dms'[u].log)
         /\ Len(task_dms'[u].log) <= task_logged[u]
      BY <1>3 DEF TaskRuntime!EventsArriveOnce, TaskRuntime!Numbered
    <3>1. CASE u # t
      BY <2>2, <3>1 DEF EventsInv, TaskRuntime!EventsArriveOnce
    <3>2. CASE u = t
      <4>1. TaskRuntime!Numbered(task_dms[t].log)
        BY <1>0 DEF EventsInv, TaskRuntime!EventsArriveOnce
      <4> DEFINE s == task_dms[t].log
                 e == m.events
                 s2 == task_dms'[t].log
      <4>2. /\ Len(s) \in Nat /\ Len(e) \in Nat /\ Len(s2) = Len(s) + Len(e)
            /\ \A i \in 1..Len(s) : s[i] = i
            /\ \A i \in 1..Len(e) : e[i] = Len(s) + i
            /\ \A i \in 1..(Len(s) + Len(e)) : s2[i] = IF i <= Len(s) THEN s[i] ELSE e[i - Len(s)]
        BY <1>0, <1>1, <2>1, <2>2, <2>5, <4>1 DEF TaskRuntime!Numbered
      <4> HIDE DEF s, e, s2
      <4>3. \A i \in 1..Len(s2) : s2[i] = i
        <5> SUFFICES ASSUME NEW i \in 1..Len(s2) PROVE s2[i] = i
          OBVIOUS
        <5>0. i \in Nat /\ i \in 1..(Len(s) + Len(e))
          BY <4>2
        <5>1. CASE i <= Len(s)
          <6>1. i \in 1..Len(s)
            BY <4>2, <5>0, <5>1
          <6> QED BY <4>2, <5>0, <5>1, <6>1
        <5>2. CASE ~(i <= Len(s))
          <6>1. i - Len(s) \in 1..Len(e)
            BY <4>2, <5>0, <5>2
          <6>2. e[i - Len(s)] = Len(s) + (i - Len(s))
            BY <4>2, <6>1
          <6>3. s2[i] = e[i - Len(s)]
            BY <4>2, <5>0, <5>2
          <6> QED BY <4>2, <5>0, <6>2, <6>3
        <5> QED BY <5>1, <5>2
      <4>4. Len(task_dms'[t].log) <= task_logged[t]
        BY <2>5
      <4> QED BY <3>2, <4>3, <4>4 DEF TaskRuntime!Numbered, s2
    <3> QED BY <3>1, <3>2
  <2>8. TaskRuntime!ReceiptAfterEvents'
    BY <1>3, <1>10, <2>2 DEF EventsInv, TaskRuntime!ReceiptAfterEvents
  <2> QED BY <1>1, <1>2, <1>3, <2>2, <2>4, <2>6, <2>7, <2>8 DEF EventsKept
<1>11. CASE task_dms[t].state = "leased" /\ m.kind # "heartbeat"
  <2>0. task_dms' = [task_dms EXCEPT ![t].state = m.kind]
    BY <1>11 DEF TaskRuntime!Serve
  <2>1. /\ task_dms' \in [TaskRuntime!Tasks -> DmsRecord]
        /\ \A u \in TaskRuntime!Tasks : task_dms'[u].log = task_dms[u].log /\ (u # t
            => task_dms'[u].state = task_dms[u].state)
        /\ task_dms'[t].state \in {"ok", "failed"}
    BY <1>0, <1>1, <1>11, <2>0 DEF DmsRecord
  <2>2. Len(task_dms[t].log) = task_logged[t] /\ (t = task_task => task_pc \in Posted)
    BY <1>8, <1>11
  <2>3. \A n \in task_wire' : Follows(n)' <=> Follows(n)
    BY <1>2, <1>3, <2>1 DEF Follows
  <2>4. WireInv'
    <3>1. \A u \in TaskRuntime!Tasks : task_dms'[u].state = "queued" =>
            /\ task_logged'[u] = 0 /\ task_dms'[u].log = <<>> /\ u # task_task'
            /\ \A n \in task_wire' : n.task # u
      BY <1>2, <1>3, <1>8, <2>1
    <3>2. \A n \in task_wire' : n.kind # "heartbeat" =>
            /\ Len(task_dms'[n.task].log) = task_logged'[n.task]
            /\ n.task = task_task' => task_pc' \in Posted
      BY <1>2, <1>3, <1>8, <2>1
    <3>3. \A u \in TaskRuntime!Tasks : task_dms'[u].state \in {"ok", "failed"} /\ u = task_task'
             => task_pc' \in TaskRuntime!Admitted
      BY <1>3, <1>8, <2>1, <2>2 DEF Posted, TaskRuntime!Admitted
    <3> QED BY <1>2, <1>8, <2>3, <3>1, <3>2, <3>3 DEF WireInv
  <2>5. QueueInv'
    <3>1. task_hb' = task_hb
      BY <1>4, <1>11
    <3>2. task_task # TaskRuntime!NoTask => task_dms'[task_task].log = task_dms[task_task].log
      BY <2>1 DEF EventsInv, TaskType, TaskRuntime!TypeOK
    <3>3. task_task # TaskRuntime!NoTask =>
            /\ task_pc \in SoundStages /\ task_hb' \in {"idle", "sent"}
                => Len(task_dms'[task_task].log) + Len(task_queue) = task_logged[task_task]
            /\ task_hb' = "ok" => Len(task_dms'[task_task].log) + Len(task_queue) = task_logged[task_task] + task_batch
      BY <3>1, <3>2 DEF EventsInv, QueueInv
    <3> QED BY <1>3, <1>7, <3>3 DEF QueueInv, TaskRuntime!Request
  <2>6. TaskRuntime!EventsArriveOnce'
    BY <1>3, <2>1 DEF EventsInv, TaskRuntime!EventsArriveOnce
  <2>7. TaskRuntime!ReceiptAfterEvents'
    BY <1>3, <2>1, <2>2 DEF EventsInv, TaskRuntime!ReceiptAfterEvents
  <2> QED BY <1>1, <1>2, <1>3, <2>1, <2>4, <2>5, <2>6, <2>7 DEF EventsKept
<1> QED BY <1>0, <1>9, <1>10, <1>11

-----------------------------------------------------------------------------
(* Every step *)

LEMMA EventsStep ==
    ASSUME TaskRuntime!TaskConstants, EventsInv, [TaskRuntime!Next]_(TaskRuntime!vars)
    PROVE  EventsKept'
<1>0. TaskRuntime!TypeOK /\ StageInv
  BY DEF EventsInv, TaskType
<1>1. CASE TaskRuntime!ClaimNext
  <2>1. CASE TaskRuntime!Claim \/ TaskRuntime!RunEnds \/ TaskRuntime!NoWork
    BY <1>0, <2>1, QuietKeeps
       DEF TaskRuntime!Claim, TaskRuntime!RunEnds, TaskRuntime!NoWork, StageInv, TaskRuntime!dmsVars,
           TaskRuntime!leaseVars, TaskRuntime!NoTask
  <2>2. CASE TaskRuntime!ClaimLost
    <3>1. UNCHANGED <<task_wire, task_task, task_logged, task_queue, task_hb, task_batch>>
             /\ task_task = TaskRuntime!NoTask
      BY <1>0, <2>2 DEF TaskRuntime!ClaimLost, StageInv
    <3>2. CASE task_dms' = task_dms
      BY <3>1, <3>2, QuietKeeps
    <3>3. CASE \E t \in TaskRuntime!Tasks : task_dms[t].state = "queued"
             /\ task_dms' = [task_dms EXCEPT ![t].state = "leased"]
      <4>1. PICK t \in TaskRuntime!Tasks : task_dms[t].state = "queued"
               /\ task_dms' = [task_dms EXCEPT ![t].state = "leased"]
        BY <3>3
      <4> QED BY <3>1, <4>1, StateKeeps
    <3> QED BY <2>2, <3>2, <3>3 DEF TaskRuntime!ClaimLost
  <2>3. CASE \E t \in TaskRuntime!Tasks : TaskRuntime!Claimed(t)
    <3>1. PICK t \in TaskRuntime!Tasks : TaskRuntime!Claimed(t)
      BY <2>3
    <3>2. task_task = TaskRuntime!NoTask /\ task_hb = "idle" /\ task_queue = <<>>
      BY <1>0, <3>1 DEF TaskRuntime!Claimed, StageInv
    <3> QED BY <3>1, <3>2, StateKeeps DEF TaskRuntime!Claimed
  <2> QED BY <1>1, <2>1, <2>2, <2>3 DEF TaskRuntime!ClaimNext
<1>2. CASE TaskRuntime!HeartbeatNext
  <2>1. CASE TaskRuntime!HeartbeatRefused \/ TaskRuntime!HeartbeatFails
           \/ TaskRuntime!HeartbeatInterrupted \/ TaskRuntime!LoopEnds
    <3>1. /\ UNCHANGED <<task_dms, task_wire, task_logged, task_task>> /\ task_hb' = "idle"
          /\ task_batch' = 0
          /\ task_queue' = task_queue \/ task_queue' = TaskRuntime!Drained
      BY <2>1
         DEF TaskRuntime!HeartbeatRefused, TaskRuntime!HeartbeatFails,
             TaskRuntime!HeartbeatInterrupted, TaskRuntime!LoopEnds, TaskRuntime!HeartbeatError,
             TaskRuntime!dmsVars
    <3>2. task_pc' \in {"joining", "cleanup"}
      BY <2>1
         DEF TaskRuntime!HeartbeatRefused, TaskRuntime!HeartbeatFails,
             TaskRuntime!HeartbeatInterrupted, TaskRuntime!LoopEnds, TaskRuntime!HeartbeatError,
             TaskRuntime!AfterFailure
    <3>3. task_pc \notin TaskRuntime!Admitted
      BY <1>0, <2>1
         DEF TaskRuntime!HeartbeatRefused, TaskRuntime!HeartbeatFails,
             TaskRuntime!HeartbeatInterrupted, TaskRuntime!LoopEnds, StageInv, TaskRuntime!Admitted
    <3> QED BY <3>1, <3>2, <3>3, FailedHeartbeatKeeps
  <2> QED BY <1>2, <2>1, SendKeeps, SuccessKeeps DEF TaskRuntime!HeartbeatNext
<1>3. CASE TaskRuntime!ExecuteNext
  <2>1. CASE TaskRuntime!Interrupt
    <3>1. /\ UNCHANGED <<task_dms, task_wire, task_logged, task_task, task_queue>>
          /\ task_hb' = "idle" /\ task_batch' = 0
          /\ task_pc' \in {"joining", "cleanup"} /\ task_pc \notin TaskRuntime!Admitted
      BY <2>1
         DEF TaskRuntime!Interrupt, TaskRuntime!HeartbeatError, TaskRuntime!AfterFailure,
             TaskRuntime!dmsVars, TaskRuntime!Admitted
    <3> QED BY <3>1, FailedHeartbeatKeeps
  <2>2. CASE TaskRuntime!RevokeOnly
    BY <2>2, QuietKeeps DEF TaskRuntime!RevokeOnly, TaskRuntime!dmsVars
  <2>3. CASE TaskRuntime!PeerStarts \/ TaskRuntime!PeerStartFails \/ TaskRuntime!HeartbeatStopped
    <3>1. UNCHANGED <<task_dms, task_wire, task_logged, task_task, task_queue, task_hb, task_batch>>
      BY <2>3
         DEF TaskRuntime!PeerStarts, TaskRuntime!PeerStartFails, TaskRuntime!HeartbeatStopped,
             TaskRuntime!dmsVars, TaskRuntime!leaseVars
    <3>2. /\ task_pc \in Posted <=> task_pc' \in Posted
          /\ task_pc \in TaskRuntime!Admitted => task_pc' \in TaskRuntime!Admitted
          /\ task_pc' \in SoundStages => task_pc \in SoundStages
          /\ task_pc' = "flush" => task_pc = "flush" \/ task_hb = "idle"
          /\ task_pc' \in Flushed => task_pc \in Flushed
      BY <2>3
         DEF TaskRuntime!PeerStarts, TaskRuntime!PeerStartFails, TaskRuntime!HeartbeatStopped,
             SoundStages, TaskRuntime!Reporting, TaskRuntime!Admitted, Posted, Flushed
    <3> QED BY <3>1, <3>2, QuietKeeps
  <2>4. CASE TaskRuntime!ReleaseResources \/ TaskRuntime!AdmitReceipt
    <3>1. CASE task_task' = TaskRuntime!NoTask
      BY <2>4, <3>1, EndKeeps
         DEF TaskRuntime!ReleaseResources, TaskRuntime!AdmitReceipt, TaskRuntime!dmsVars
    <3>2. CASE UNCHANGED TaskRuntime!leaseVars /\ task_pc' \in {"released", "asking"}
      <4>1. UNCHANGED <<task_dms, task_wire, task_logged, task_task, task_queue, task_hb, task_batch>>
        BY <2>4, <3>2
           DEF TaskRuntime!ReleaseResources, TaskRuntime!AdmitReceipt, TaskRuntime!dmsVars,
               TaskRuntime!leaseVars
      <4>2. task_pc \in {"report", "released"}
        BY <2>4 DEF TaskRuntime!ReleaseResources, TaskRuntime!AdmitReceipt
      <4>3. /\ task_pc \in Posted <=> task_pc' \in Posted
            /\ task_pc \in TaskRuntime!Admitted => task_pc' \in TaskRuntime!Admitted
            /\ task_pc' \in SoundStages => task_pc \in SoundStages
            /\ task_pc' = "flush" => task_pc = "flush" \/ task_hb = "idle"
            /\ task_pc' \in Flushed => task_pc \in Flushed
        BY <3>2, <4>2 DEF SoundStages, TaskRuntime!Reporting, TaskRuntime!Admitted, Posted, Flushed
      <4> QED BY <4>1, <4>3, QuietKeeps
    <3> QED BY <2>4, <3>1, <3>2
               DEF TaskRuntime!ReleaseResources, TaskRuntime!AdmitReceipt, TaskRuntime!LeaseEnds
  <2>6. CASE TaskRuntime!PostReceipt
    <3>1. CASE task_task' = TaskRuntime!NoTask /\ UNCHANGED task_wire
      BY <2>6, <3>1, EndKeeps DEF TaskRuntime!PostReceipt
    <3>2. CASE task_wire' = task_wire \cup {TaskRuntime!Request(task_outcome, <<>>)}
             /\ UNCHANGED TaskRuntime!leaseVars /\ task_pc' \in Posted
      BY <2>6, <3>2, ReceiptKeeps DEF TaskRuntime!PostReceipt, TaskRuntime!leaseVars
    <3> QED BY <2>6, <3>1, <3>2 DEF TaskRuntime!PostReceipt, TaskRuntime!LeaseEnds, Posted
  <2>7. CASE TaskRuntime!ReceiptUnauthorized
    <3>1. CASE task_task' = TaskRuntime!NoTask
      BY <2>7, <3>1, EndKeeps DEF TaskRuntime!ReceiptUnauthorized
    <3>2. CASE task_pc = "receipt" /\ task_pc' = "reasking" /\ UNCHANGED TaskRuntime!leaseVars
      BY <2>7, <3>2, ReceiptRefusedKeeps DEF TaskRuntime!ReceiptUnauthorized, TaskRuntime!leaseVars
    <3> QED BY <2>7, <3>1, <3>2 DEF TaskRuntime!ReceiptUnauthorized, TaskRuntime!LeaseEnds
  <2>5. CASE TaskRuntime!ReceiptEnds \/ TaskRuntime!Cleanup
    <3>1. UNCHANGED <<task_dms, task_wire, task_logged>> /\ task_task' = TaskRuntime!NoTask
      BY <2>5
         DEF TaskRuntime!ReceiptEnds, TaskRuntime!Cleanup, TaskRuntime!LeaseEnds, TaskRuntime!dmsVars
    <3> QED BY <3>1, EndKeeps
  <2> QED BY <1>3, <2>1, <2>2, <2>3, <2>4, <2>5, <2>6, <2>7 DEF TaskRuntime!ExecuteNext
<1>4. CASE TaskRuntime!HandlerNext
  <2>1. CASE TaskRuntime!EnterHandler \/ TaskRuntime!CallData \/ TaskRuntime!DataReturns
           \/ TaskRuntime!HandlerReturns
    <3>1. UNCHANGED <<task_dms, task_wire, task_logged, task_task, task_queue, task_hb, task_batch>>
      BY <2>1
         DEF TaskRuntime!EnterHandler, TaskRuntime!CallData, TaskRuntime!DataReturns,
             TaskRuntime!HandlerReturns, TaskRuntime!dmsVars
    <3>2. /\ task_pc \in Posted <=> task_pc' \in Posted
          /\ task_pc \in TaskRuntime!Admitted => task_pc' \in TaskRuntime!Admitted
          /\ task_pc' \in SoundStages => task_pc \in SoundStages
          /\ task_pc' = "flush" => task_pc = "flush" \/ task_hb = "idle"
          /\ task_pc' \in Flushed => task_pc \in Flushed
      BY <2>1
         DEF TaskRuntime!EnterHandler, TaskRuntime!CallData, TaskRuntime!DataReturns,
             TaskRuntime!HandlerReturns, SoundStages, TaskRuntime!Reporting, TaskRuntime!Admitted,
             Posted, Flushed
    <3> QED BY <3>1, <3>2, QuietKeeps
  <2> QED BY <1>4, <2>1, LogKeeps DEF TaskRuntime!HandlerNext
<1>5. CASE TaskRuntime!HostNext
  <2>1. CASE TaskRuntime!Abandon
    BY <2>1, EndKeeps DEF TaskRuntime!Abandon, TaskRuntime!LeaseEnds, TaskRuntime!dmsVars
  <2>2. CASE TaskRuntime!RunBegins
    BY <1>0, <2>2, QuietKeeps
       DEF TaskRuntime!RunBegins, StageInv, TaskRuntime!dmsVars, TaskRuntime!leaseVars
  <2>3. CASE TaskRuntime!HostCancels \/ TaskRuntime!CloseNext \/ TaskRuntime!OrphanEnds
    BY <2>3, QuietKeeps
       DEF TaskRuntime!HostCancels, TaskRuntime!CloseNext, TaskRuntime!CloseBegins,
           TaskRuntime!CloseAcquires, TaskRuntime!RobotPeerCloses, TaskRuntime!CloseEnds,
           TaskRuntime!OrphanEnds, TaskRuntime!dmsVars, TaskRuntime!leaseVars
  <2> QED BY <1>5, <2>1, <2>2, <2>3 DEF TaskRuntime!HostNext
<1>6. CASE TaskRuntime!DmsNext
  BY <1>6, ServeKeeps DEF TaskRuntime!DmsNext
<1>7. CASE \E t \in TaskRuntime!Tasks : TaskRuntime!DmsCancels(t)
  <2>1. PICK t \in TaskRuntime!Tasks : TaskRuntime!DmsCancels(t)
    BY <1>7
  <2> QED BY <2>1, StateKeeps DEF TaskRuntime!DmsCancels, TaskRuntime!leaseVars
<1>8. CASE TaskRuntime!PeerStops \/ TaskRuntime!Expire \/ UNCHANGED TaskRuntime!vars
  BY <1>8, QuietKeeps
     DEF TaskRuntime!PeerStops, TaskRuntime!Expire, TaskRuntime!vars, TaskRuntime!dmsVars,
         TaskRuntime!leaseVars
<1> QED BY <1>1, <1>2, <1>3, <1>4, <1>5, <1>6, <1>7, <1>8 DEF TaskRuntime!Next

LEMMA TaskStep == ASSUME TaskRuntime!TaskConstants, TaskInv,
     [TaskRuntime!Next]_(TaskRuntime!vars) PROVE TaskInv'
<1>1. EventsInv /\ TaskType /\ StageInv /\ QueueInv
  BY DEF TaskInv, EventsInv
<1>2. EventsKept' /\ TaskRuntime!TypeOK' /\ StageInv'
  BY <1>1, EventsStep, StageStep, RuntimeTypeStep
<1> QED BY <1>2 DEF TaskInv, TaskType, EventsKept

LEMMA TaskInvariant ==
    ASSUME TaskRuntime!TaskConstants
    PROVE  TaskRuntime!Spec => []TaskInv
<1>1. TaskRuntime!Init => TaskInv
  BY TaskInit
<1>2. TaskInv /\ [TaskRuntime!Next]_(TaskRuntime!vars) => TaskInv'
  BY TaskStep
<1> QED BY <1>1, <1>2, PTL DEF TaskRuntime!Spec

\* The permit returns when the handler has returned and the peer is down
LEMMA PermitStep ==
    ASSUME TaskRuntime!TaskConstants, TaskInv, [TaskRuntime!Next]_(TaskRuntime!vars)
    PROVE  ~task_permit /\ task_permit' /\ ~task_abandoned' => task_handler = "off"
         /\ task_peer' = "none"
<1> SUFFICES ASSUME ~task_permit, task_permit', ~task_abandoned' PROVE task_handler = "off"
     /\ task_peer' = "none"
  OBVIOUS
<1>0. TaskRuntime!TypeOK /\ StageInv /\ ~task_abandoned
  <2>1. TaskRuntime!TypeOK /\ StageInv /\ TaskRuntime!TypeOK' /\ StageInv'
    BY TaskStep DEF TaskInv, TaskType
  <2>2. task_abandoned => task_abandoned'
    <3>1. CASE TaskRuntime!ClaimNext \/ TaskRuntime!HeartbeatNext
      BY <3>1
         DEF TaskRuntime!ClaimNext, TaskRuntime!Claim, TaskRuntime!RunEnds, TaskRuntime!NoWork,
             TaskRuntime!ClaimLost, TaskRuntime!Claimed, TaskRuntime!HeartbeatNext,
             TaskRuntime!SendHeartbeat,
                  TaskRuntime!HeartbeatSucceeds, TaskRuntime!HeartbeatRefused,
                       TaskRuntime!HeartbeatFails, TaskRuntime!HeartbeatInterrupted,
                       TaskRuntime!LoopEnds, TaskRuntime!hostVars
    <3>2. CASE TaskRuntime!ExecuteNext \/ TaskRuntime!HandlerNext
      BY <3>2
         DEF TaskRuntime!ExecuteNext, TaskRuntime!Interrupt, TaskRuntime!RevokeOnly,
             TaskRuntime!PeerStarts, TaskRuntime!PeerStartFails, TaskRuntime!HeartbeatStopped,
                  TaskRuntime!ReleaseResources, TaskRuntime!AdmitReceipt, TaskRuntime!PostReceipt,
                       TaskRuntime!ReceiptUnauthorized,
                  TaskRuntime!ReceiptEnds, TaskRuntime!Cleanup, TaskRuntime!HandlerNext,
                       TaskRuntime!EnterHandler, TaskRuntime!LogEvent, TaskRuntime!CallData,
                       TaskRuntime!DataReturns, TaskRuntime!HandlerReturns, TaskRuntime!hostVars
    <3>3. CASE TaskRuntime!HostNext
      BY <3>3
         DEF TaskRuntime!HostNext, TaskRuntime!RunBegins, TaskRuntime!HostCancels,
             TaskRuntime!CloseNext, TaskRuntime!CloseBegins, TaskRuntime!CloseAcquires,
             TaskRuntime!RobotPeerCloses, TaskRuntime!CloseEnds, TaskRuntime!Abandon,
             TaskRuntime!OrphanEnds, TaskRuntime!hostVars
    <3>4. CASE TaskRuntime!DmsNext \/ (\E t \in TaskRuntime!Tasks : TaskRuntime!DmsCancels(t))
             \/ TaskRuntime!PeerStops \/ TaskRuntime!Expire \/ UNCHANGED TaskRuntime!vars
      BY <3>4
         DEF TaskRuntime!DmsNext, TaskRuntime!Serve, TaskRuntime!DmsCancels, TaskRuntime!PeerStops,
             TaskRuntime!Expire, TaskRuntime!vars, TaskRuntime!hostVars
    <3> QED BY <3>1, <3>2, <3>3, <3>4 DEF TaskRuntime!Next
  <2> QED BY <2>1, <2>2
<1>1. CASE TaskRuntime!ClaimNext
  BY <1>0, <1>1
     DEF TaskRuntime!ClaimNext, TaskRuntime!Claim, TaskRuntime!RunEnds, TaskRuntime!NoWork,
         TaskRuntime!ClaimLost, TaskRuntime!Claimed, TaskRuntime!leaseVars, TaskRuntime!hostVars,
         TaskRuntime!peerVars, StageInv,
                    TaskRuntime!TypeOK, TaskRuntime!NoTask
<1>2. CASE TaskRuntime!HeartbeatNext
  BY <1>2
     DEF TaskRuntime!HeartbeatNext, TaskRuntime!SendHeartbeat, TaskRuntime!HeartbeatSucceeds,
         TaskRuntime!HeartbeatRefused, TaskRuntime!HeartbeatFails,
              TaskRuntime!HeartbeatInterrupted, TaskRuntime!LoopEnds
<1>3. CASE TaskRuntime!ExecuteNext
  <2>1. CASE TaskRuntime!ReleaseResources \/ TaskRuntime!AdmitReceipt \/ TaskRuntime!PostReceipt
           \/ TaskRuntime!ReceiptUnauthorized \/ TaskRuntime!ReceiptEnds \/ TaskRuntime!Cleanup
    BY <1>0, <2>1
       DEF TaskRuntime!ReleaseResources, TaskRuntime!AdmitReceipt, TaskRuntime!PostReceipt,
           TaskRuntime!ReceiptUnauthorized, TaskRuntime!ReceiptEnds, TaskRuntime!Cleanup,
           TaskRuntime!ShutDown, TaskRuntime!peerVars, StageInv, TaskRuntime!TypeOK
  <2>2. CASE TaskRuntime!Interrupt \/ TaskRuntime!RevokeOnly \/ TaskRuntime!PeerStarts
           \/ TaskRuntime!PeerStartFails \/ TaskRuntime!HeartbeatStopped
    BY <2>2
       DEF TaskRuntime!Interrupt, TaskRuntime!RevokeOnly, TaskRuntime!PeerStarts,
           TaskRuntime!PeerStartFails, TaskRuntime!HeartbeatStopped
  <2> QED BY <1>3, <2>1, <2>2 DEF TaskRuntime!ExecuteNext
<1>4. CASE TaskRuntime!HandlerNext
  BY <1>4
     DEF TaskRuntime!HandlerNext, TaskRuntime!EnterHandler, TaskRuntime!LogEvent, TaskRuntime!CallData,
         TaskRuntime!DataReturns, TaskRuntime!HandlerReturns
<1>5. CASE TaskRuntime!HostNext
  <2>1. CASE TaskRuntime!CloseEnds
    BY <1>0, <2>1 DEF TaskRuntime!CloseEnds, TaskRuntime!peerVars, StageInv, TaskRuntime!TypeOK, Holding
  <2>2. CASE TaskRuntime!RunBegins \/ TaskRuntime!HostCancels \/ TaskRuntime!CloseBegins
           \/ TaskRuntime!CloseAcquires \/ TaskRuntime!RobotPeerCloses \/ TaskRuntime!Abandon \/ TaskRuntime!OrphanEnds
    BY <2>2
       DEF TaskRuntime!RunBegins, TaskRuntime!HostCancels, TaskRuntime!CloseBegins,
           TaskRuntime!CloseAcquires, TaskRuntime!RobotPeerCloses, TaskRuntime!Abandon,
           TaskRuntime!OrphanEnds
  <2> QED BY <1>5, <2>1, <2>2 DEF TaskRuntime!HostNext, TaskRuntime!CloseNext
<1>6. CASE TaskRuntime!DmsNext \/ (\E t \in TaskRuntime!Tasks : TaskRuntime!DmsCancels(t))
         \/ TaskRuntime!PeerStops \/ TaskRuntime!Expire \/ UNCHANGED TaskRuntime!vars
  BY <1>6
     DEF TaskRuntime!DmsNext, TaskRuntime!Serve, TaskRuntime!DmsCancels, TaskRuntime!PeerStops,
         TaskRuntime!Expire, TaskRuntime!vars
<1> QED BY <1>1, <1>2, <1>3, <1>4, <1>5, <1>6 DEF TaskRuntime!Next

\* A receipt leaves behind the last look at the authority, and after everything else of
\* the lease
ReceiptPart ==
    /\ task_pc' \in TaskRuntime!Admitted =>
          /\ task_pc \in TaskRuntime!Admitted \/ (~TaskRuntime!IsCancelled /\ task_valid)
          /\ task_handler = "off" /\ task_hb = "idle" /\ task_peer = "none"
    /\ \A m \in task_wire' \ task_wire : m.kind # "heartbeat" => task_pc' \in TaskRuntime!Admitted

LEMMA ReceiptStep ==
    ASSUME TaskRuntime!TaskConstants, TaskInv, [TaskRuntime!Next]_(TaskRuntime!vars)
    PROVE  ReceiptPart
<1>0. TaskRuntime!TypeOK /\ StageInv
  BY DEF TaskInv, TaskType
<1>a. task_pc \in TaskRuntime!Admitted => task_handler = "off" /\ task_hb = "idle" /\ task_peer = "none"
  BY <1>0 DEF TaskRuntime!TypeOK, StageInv, TaskRuntime!Admitted
<1>1. CASE TaskRuntime!ClaimNext
  BY <1>1
     DEF ReceiptPart, TaskRuntime!Admitted, TaskRuntime!ClaimNext, TaskRuntime!Claim,
         TaskRuntime!RunEnds, TaskRuntime!NoWork, TaskRuntime!ClaimLost, TaskRuntime!Claimed,
         TaskRuntime!dmsVars
<1>2. CASE TaskRuntime!HeartbeatNext
  <2>1. task_pc' \notin TaskRuntime!Admitted
    BY <1>0, <1>2
       DEF TaskRuntime!HeartbeatNext, TaskRuntime!SendHeartbeat, TaskRuntime!HeartbeatSucceeds,
           TaskRuntime!HeartbeatRefused, TaskRuntime!HeartbeatFails,
              TaskRuntime!HeartbeatInterrupted, TaskRuntime!LoopEnds, TaskRuntime!HeartbeatError,
                   TaskRuntime!AfterFailure, TaskRuntime!AfterHeartbeat, TaskRuntime!Admitted, StageInv
  <2>2. \A m \in task_wire' \ task_wire : m.kind = "heartbeat"
    BY <1>2
       DEF TaskRuntime!HeartbeatNext, TaskRuntime!SendHeartbeat, TaskRuntime!HeartbeatSucceeds,
           TaskRuntime!HeartbeatRefused, TaskRuntime!HeartbeatFails,
              TaskRuntime!HeartbeatInterrupted, TaskRuntime!LoopEnds, TaskRuntime!dmsVars,
                   TaskRuntime!Request
  <2> QED BY <2>1, <2>2 DEF ReceiptPart
<1>3. CASE TaskRuntime!ExecuteNext
  <2>1. CASE TaskRuntime!PostReceipt
    BY <1>a, <2>1 DEF ReceiptPart, TaskRuntime!Admitted, TaskRuntime!PostReceipt, TaskRuntime!LeaseEnds
  <2>2. CASE TaskRuntime!AdmitReceipt
    BY <1>0, <2>2
       DEF ReceiptPart, TaskRuntime!Admitted, TaskRuntime!AdmitReceipt, TaskRuntime!LeaseEnds,
           TaskRuntime!dmsVars, StageInv, TaskRuntime!TypeOK
  <2>3. CASE TaskRuntime!ReceiptUnauthorized
    BY <1>a, <2>3
       DEF ReceiptPart, TaskRuntime!Admitted, TaskRuntime!ReceiptUnauthorized, TaskRuntime!LeaseEnds
  <2>4. CASE TaskRuntime!RevokeOnly
    BY <1>a, <2>4 DEF ReceiptPart, TaskRuntime!RevokeOnly, TaskRuntime!dmsVars
  <2>5. CASE TaskRuntime!Interrupt \/ TaskRuntime!PeerStarts \/ TaskRuntime!PeerStartFails
           \/ TaskRuntime!HeartbeatStopped
    BY <2>5
       DEF ReceiptPart, TaskRuntime!Admitted, TaskRuntime!Interrupt, TaskRuntime!PeerStarts,
           TaskRuntime!PeerStartFails, TaskRuntime!HeartbeatStopped, TaskRuntime!HeartbeatError,
                TaskRuntime!AfterFailure, TaskRuntime!dmsVars
  <2>6. CASE TaskRuntime!ReleaseResources \/ TaskRuntime!ReceiptEnds \/ TaskRuntime!Cleanup
    BY <2>6
       DEF ReceiptPart, TaskRuntime!Admitted, TaskRuntime!ReleaseResources, TaskRuntime!ReceiptEnds,
           TaskRuntime!Cleanup, TaskRuntime!LeaseEnds, TaskRuntime!dmsVars
  <2> QED BY <1>3, <2>1, <2>2, <2>3, <2>4, <2>5, <2>6 DEF TaskRuntime!ExecuteNext
<1>4. CASE TaskRuntime!HandlerNext
  BY <1>a, <1>4
     DEF ReceiptPart, TaskRuntime!Admitted, TaskRuntime!HandlerNext, TaskRuntime!EnterHandler,
         TaskRuntime!LogEvent, TaskRuntime!CallData, TaskRuntime!DataReturns,
         TaskRuntime!HandlerReturns, TaskRuntime!dmsVars
<1>5. CASE TaskRuntime!HostNext
  BY <1>a, <1>5
     DEF ReceiptPart, TaskRuntime!Admitted, TaskRuntime!HostNext, TaskRuntime!RunBegins,
         TaskRuntime!HostCancels, TaskRuntime!CloseNext, TaskRuntime!CloseBegins,
         TaskRuntime!CloseAcquires,
              TaskRuntime!RobotPeerCloses, TaskRuntime!CloseEnds, TaskRuntime!Abandon,
                   TaskRuntime!LeaseEnds, TaskRuntime!OrphanEnds, TaskRuntime!dmsVars
<1>6. CASE TaskRuntime!DmsNext \/ (\E t \in TaskRuntime!Tasks : TaskRuntime!DmsCancels(t))
         \/ TaskRuntime!PeerStops \/ TaskRuntime!Expire \/ UNCHANGED TaskRuntime!vars
  BY <1>a, <1>6
     DEF ReceiptPart, TaskRuntime!DmsNext, TaskRuntime!Serve, TaskRuntime!DmsCancels,
         TaskRuntime!PeerStops, TaskRuntime!Expire, TaskRuntime!vars, TaskRuntime!dmsVars
<1> QED BY <1>1, <1>2, <1>3, <1>4, <1>5, <1>6 DEF TaskRuntime!Next

LEMMA HonestClose == ASSUME TaskRuntime!TaskConstants, TaskInv PROVE TaskRuntime!CloseIsHonest
BY DEF TaskInv, TaskType, TaskRuntime!TypeOK, StageInv, TaskRuntime!CloseIsHonest

\* The events of a task arrive once and in order, all before its receipt
LEMMA EventsCorrect ==
    ASSUME TaskRuntime!TaskConstants
    PROVE  TaskRuntime!Spec => [](TaskRuntime!EventsArriveOnce /\ TaskRuntime!ReceiptAfterEvents)
BY TaskInvariant, PTL DEF TaskInv

\* The permit of a lease returns when its handler and its peer are gone
LEMMA PermitCorrect ==
    ASSUME TaskRuntime!TaskConstants
    PROVE  TaskRuntime!Spec => TaskRuntime!PermitCoversLease
<1>1. TaskInv /\ [TaskRuntime!Next]_(TaskRuntime!vars) => (~task_permit /\ task_permit'
         /\ ~task_abandoned' => task_handler = "off" /\ task_peer' = "none")
  BY PermitStep
<1> QED BY <1>1, TaskInvariant, PTL DEF TaskRuntime!Spec, TaskRuntime!PermitCoversLease

\* A receipt is admitted with the lease valid, and after everything else of it
LEMMA ReceiptCorrect ==
    ASSUME TaskRuntime!TaskConstants
    PROVE  TaskRuntime!Spec => TaskRuntime!ReceiptIsLast
<1>1. TaskInv /\ [TaskRuntime!Next]_(TaskRuntime!vars) => ReceiptPart
  BY ReceiptStep
<1> QED BY <1>1, TaskInvariant, PTL DEF TaskRuntime!Spec, TaskRuntime!ReceiptIsLast, ReceiptPart

\* A close that says Ok left nothing to clean up, and a failed cleanup is not hidden
LEMMA CloseCorrect ==
    ASSUME TaskRuntime!TaskConstants
    PROVE  TaskRuntime!Spec => [](TaskRuntime!TypeOK /\ TaskRuntime!CloseIsHonest)
<1>1. TaskInv => TaskRuntime!TypeOK /\ TaskRuntime!CloseIsHonest
  BY HonestClose DEF TaskInv, TaskType
<1> QED BY <1>1, TaskInvariant, PTL

-----------------------------------------------------------------------------
(* The peer of a robot (robot_peer.rs), for any waiters and any grants:     *)
(* what close and the failures it reports leave behind.                    *)

RobotTypes ==
    /\ RobotPeer!TypeOK /\ robot_grant \in 0..robot_MaxGrant
    /\ robot_result \in {"none", "ok", "error", "cleanup"}
    /\ robot_closed \in BOOLEAN /\ robot_hostClosed \in BOOLEAN /\ robot_cleanupFailed \in BOOLEAN

\* Which peer there is at each step of drive, and whether its loss is recorded
DriverInv ==
    /\ robot_driver \in {"none", "domain", "grant", "starting"} => robot_peer.state = "none"
        /\ ~robot_cleanupFailed
    /\ robot_driver \in {"loop", "exchange", "adopt"} => robot_peer.state = "up" /\ ~robot_cleanupFailed
    /\ robot_driver = "leaving" =>
          /\ robot_peer.state \in {"none", "up", "leaked"} /\ ~robot_cleanupFailed
          /\ (robot_peer.state = "leaked") = (robot_result = "cleanup")
    /\ robot_driver \in {"leaving", "publishing"} => robot_result # "none"
    /\ robot_driver = "publishing" => robot_peer.state \in {"none", "up", "leaked"}
    /\ robot_driver = "shutdown" => robot_peer.state \in {"none", "fenced", "leaked"}
    /\ robot_driver = "done" => robot_peer.state \in {"none", "leaked"}
    /\ robot_driver \in {"publishing", "shutdown", "done"}
        => robot_cleanupFailed = (robot_peer.state = "leaked")

\* A close that returned found the driver at its end, which it keeps; the token was
\* canceled by the host or for a stored failure
RobotCloseInv ==
    /\ robot_closing # "no" => robot_closed
    /\ robot_closing \in {"ok", "failed"} =>
          robot_driver \in {"none", "done"} /\ (robot_closing = "failed") = robot_cleanupFailed
    /\ robot_closed => robot_hostClosed \/ robot_failure # "none"
    /\ RobotPeer!FailureReachesWaiters

RobotInv == RobotTypes /\ DriverInv /\ RobotCloseInv

LEMMA InitRobot ==
    ASSUME RobotPeer!RobotConstants, RobotPeer!Init
    PROVE  RobotInv
<1>1. RobotTypes
  <2>1. robot_peer \in [state : {"none", "up", "fenced", "leaked"}, grant : 0..robot_MaxGrant]
        /\ robot_now \in 0..robot_MaxGrant /\ robot_grant \in 0..robot_MaxGrant
    BY DEF RobotPeer!RobotConstants, RobotPeer!Init, RobotPeer!NoPeer
  <2>2. robot_waiter \in [robot_Waiters -> {"idle", "waiting", "ok", "closed", "failed", "cancelled"}]
    BY DEF RobotPeer!Init
  <2> QED BY <2>1, <2>2 DEF RobotPeer!Init, RobotTypes, RobotPeer!TypeOK
<1>2. DriverInv
  BY DEF RobotPeer!Init, RobotPeer!NoPeer, DriverInv
<1>3. RobotCloseInv
  BY DEF RobotPeer!Init, RobotCloseInv, RobotPeer!FailureReachesWaiters
<1> QED BY <1>1, <1>2, <1>3 DEF RobotInv

LEMMA StartKeeps ==
    ASSUME RobotInv, NEW w \in robot_Waiters, RobotPeer!Start(w)
    PROVE  RobotInv'
<1> USE DEF RobotPeer!Start, RobotPeer!stateVars
<1>1. RobotTypes'
  BY DEF RobotInv, RobotTypes, RobotPeer!TypeOK
<1>2. DriverInv'
  BY DEF RobotInv, DriverInv
<1>3. RobotCloseInv'
  BY DEF RobotInv, RobotTypes, RobotPeer!TypeOK, RobotCloseInv, RobotPeer!FailureReachesWaiters
<1> QED BY <1>1, <1>2, <1>3 DEF RobotInv

LEMMA WaiterKeeps ==
    ASSUME RobotInv, NEW w \in robot_Waiters, RobotPeer!StartReturns(w) \/ RobotPeer!StartCancelled(w)
    PROVE  RobotInv'
<1> USE DEF RobotPeer!StartReturns, RobotPeer!StartCancelled, RobotPeer!stateVars, RobotPeer!driverVars
<1>1. RobotTypes'
  BY DEF RobotInv, RobotTypes, RobotPeer!TypeOK
<1>2. DriverInv'
  BY DEF RobotInv, DriverInv
<1>3. RobotCloseInv'
  BY DEF RobotInv, RobotTypes, RobotPeer!TypeOK, RobotCloseInv, RobotPeer!FailureReachesWaiters
<1> QED BY <1>1, <1>2, <1>3 DEF RobotInv

LEMMA StartingKeeps ==
    ASSUME RobotPeer!RobotConstants, RobotInv, RobotPeer!ResolveDomain \/ RobotPeer!FirstGrant
         \/ RobotPeer!StartPeer
    PROVE  RobotInv'
<1> USE DEF RobotPeer!ResolveDomain, RobotPeer!FirstGrant, RobotPeer!StartPeer, RobotPeer!Leave,
     RobotPeer!Grants, RobotPeer!stateVars
<1>1. RobotTypes'
  <2>1. robot_peer' \in [state : {"none", "up", "fenced", "leaked"}, grant : 0..robot_MaxGrant]
    BY DEF RobotInv, RobotTypes, RobotPeer!TypeOK, RobotPeer!RobotConstants
  <2>2. robot_now' = robot_now /\ robot_grant' \in 0..robot_MaxGrant
    BY DEF RobotInv, RobotTypes, RobotPeer!TypeOK, RobotPeer!RobotConstants
  <2> QED BY <2>1, <2>2 DEF RobotInv, RobotTypes, RobotPeer!TypeOK
<1>2. DriverInv'
  BY DEF RobotInv, RobotTypes, RobotPeer!TypeOK, DriverInv
<1>3. RobotCloseInv'
  BY DEF RobotInv, RobotCloseInv, RobotPeer!FailureReachesWaiters
<1> QED BY <1>1, <1>2, <1>3 DEF RobotInv

\* The driver moves and the peer keeps its state: all that a step of the loop does
RenewalStep ==
    /\ robot_driver \in {"loop", "exchange", "adopt"}
    /\ \/ robot_driver' \in {"loop", "exchange", "adopt"} /\ UNCHANGED robot_result
       \/ robot_driver' = "leaving" /\ robot_result' \in {"ok", "error"}
    /\ robot_grant' \in 0..robot_MaxGrant
    /\ robot_peer' \in [state : {"none", "up", "fenced", "leaked"}, grant : 0..robot_MaxGrant]
    /\ robot_peer'.state = robot_peer.state
    /\ UNCHANGED <<robot_now, RobotPeer!stateVars, robot_stopped, robot_rejected, robot_waiter,
        robot_closing>>

LEMMA LoopTopRenews ==
    ASSUME RobotInv, RobotPeer!LoopTop
    PROVE  RenewalStep
  BY DEF RobotPeer!LoopTop, RobotPeer!Leave, RenewalStep, RobotInv, RobotTypes, RobotPeer!TypeOK

LEMMA RenewalEnding ==
    ASSUME NEW retryable, RobotPeer!RenewalEnds(retryable)
    PROVE  /\ \/ robot_driver' = "loop" /\ UNCHANGED robot_result
              \/ robot_driver' = "leaving" /\ robot_result' \in {"ok", "error"}
           /\ UNCHANGED robot_grant
  BY DEF RobotPeer!RenewalEnds, RobotPeer!Leave

LEMMA ExchangeRenews ==
    ASSUME RobotPeer!RobotConstants, RobotInv, RobotPeer!Exchange
    PROVE  RenewalStep
<1>1. robot_driver = "exchange"
         /\ UNCHANGED <<robot_now, RobotPeer!stateVars, robot_stopped, robot_rejected, robot_waiter,
         robot_closing>>
  BY DEF RobotPeer!Exchange
<1>2. CASE /\ \E g \in RobotPeer!Grants : ~RobotPeer!Expired(g) /\ robot_peer' = [robot_peer EXCEPT !.grant = g]
           /\ robot_driver' = "adopt" /\ UNCHANGED <<robot_result, robot_grant>>
  <2>1. PICK g \in RobotPeer!Grants : robot_peer' = [robot_peer EXCEPT !.grant = g]
    BY <1>2
  <2>2. g \in 0..robot_MaxGrant
    BY DEF RobotPeer!Grants, RobotPeer!RobotConstants
  <2>3. robot_peer' \in [state : {"none", "up", "fenced", "leaked"}, grant : 0..robot_MaxGrant]
           /\ robot_peer'.state = robot_peer.state
    BY <2>1, <2>2 DEF RobotInv, RobotTypes, RobotPeer!TypeOK
  <2> QED BY <1>1, <1>2, <2>3 DEF RenewalStep, RobotInv, RobotTypes
<1>3. CASE \E retryable \in BOOLEAN : RobotPeer!RenewalEnds(retryable) /\ UNCHANGED robot_peer
  BY <1>1, <1>3, RenewalEnding DEF RenewalStep, RobotInv, RobotTypes, RobotPeer!TypeOK
<1> QED BY <1>2, <1>3 DEF RobotPeer!Exchange

LEMMA AdoptRenews ==
    ASSUME RobotInv, RobotPeer!Adopt
    PROVE  RenewalStep
<1>1. robot_driver = "adopt" /\ UNCHANGED <<robot_now, RobotPeer!stateVars, robot_peer, robot_stopped,
         robot_rejected, robot_waiter, robot_closing>>
  BY DEF RobotPeer!Adopt
<1>2. CASE ~robot_closed /\ robot_grant' = robot_peer.grant /\ robot_driver' = "loop"
         /\ UNCHANGED robot_result
  BY <1>1, <1>2 DEF RenewalStep, RobotInv, RobotTypes, RobotPeer!TypeOK
<1>3. CASE RobotPeer!RenewalEnds(TRUE)
  BY <1>1, <1>3, RenewalEnding DEF RenewalStep, RobotInv, RobotTypes, RobotPeer!TypeOK
<1> QED BY <1>2, <1>3 DEF RobotPeer!Adopt

LEMMA RenewingKeeps ==
    ASSUME RobotPeer!RobotConstants, RobotInv, RobotPeer!LoopTop \/ RobotPeer!Exchange
         \/ RobotPeer!Adopt
    PROVE  RobotInv'
<1>0. RenewalStep
  BY LoopTopRenews, ExchangeRenews, AdoptRenews
<1>1. RobotTypes'
  BY <1>0 DEF RenewalStep, RobotPeer!stateVars, RobotInv, RobotTypes, RobotPeer!TypeOK
<1>2. DriverInv'
  BY <1>0 DEF RenewalStep, RobotPeer!stateVars, RobotInv, RobotTypes, RobotPeer!TypeOK, DriverInv
<1>3. RobotCloseInv'
  BY <1>0 DEF RenewalStep, RobotPeer!stateVars, RobotInv, RobotCloseInv, RobotPeer!FailureReachesWaiters
<1> QED BY <1>1, <1>2, <1>3 DEF RobotInv

LEMMA StoreFailureKeeps ==
    ASSUME RobotInv, RobotPeer!StoreFailure
    PROVE  RobotInv'
<1> USE DEF RobotPeer!StoreFailure
<1>1. RobotTypes'
  BY DEF RobotInv, RobotTypes, RobotPeer!TypeOK, DriverInv
<1>2. DriverInv'
  BY DEF RobotInv, RobotTypes, RobotPeer!TypeOK, DriverInv
<1>3. RobotCloseInv'
  BY DEF RobotInv, RobotTypes, RobotPeer!TypeOK, RobotCloseInv, RobotPeer!FailureReachesWaiters
<1> QED BY <1>1, <1>2, <1>3 DEF RobotInv

LEMMA PublishKeeps ==
    ASSUME RobotInv, RobotPeer!Publish
    PROVE  RobotInv'
<1>0. /\ robot_peer' \in [state : {"none", "up", "fenced", "leaked"}, grant : 0..robot_MaxGrant]
      /\ robot_peer'.state = IF robot_peer.state = "up" THEN "fenced" ELSE robot_peer.state
  BY DEF RobotPeer!Publish, RobotInv, RobotTypes, RobotPeer!TypeOK
<1> USE DEF RobotPeer!Publish
<1>1. RobotTypes'
  BY <1>0 DEF RobotInv, RobotTypes, RobotPeer!TypeOK, DriverInv
<1>2. DriverInv'
  BY <1>0 DEF RobotInv, RobotTypes, RobotPeer!TypeOK, DriverInv
<1>3. RobotCloseInv'
  BY DEF RobotInv, RobotTypes, RobotPeer!TypeOK, RobotCloseInv, RobotPeer!FailureReachesWaiters
<1> QED BY <1>1, <1>2, <1>3 DEF RobotInv

LEMMA ShutdownPeerKeeps ==
    ASSUME RobotPeer!RobotConstants, RobotInv, RobotPeer!ShutdownPeer
    PROVE  RobotInv'
<1>0. /\ robot_peer' \in [state : {"none", "up", "fenced", "leaked"}, grant : 0..robot_MaxGrant]
      /\ \/ robot_peer'.state = "leaked" /\ robot_cleanupFailed' = TRUE
         \/ /\ robot_peer'.state = IF robot_peer.state = "fenced" THEN "none" ELSE robot_peer.state
            /\ robot_cleanupFailed' = robot_cleanupFailed
      /\ robot_driver = "shutdown" /\ robot_driver' = "done"
      /\ UNCHANGED <<robot_now, robot_closed, robot_hostClosed, robot_failure, robot_ready, robot_result, robot_grant, robot_stopped, robot_rejected,
                     robot_waiter, robot_closing>>
  BY DEF RobotPeer!ShutdownPeer, RobotPeer!NoPeer, RobotPeer!RobotConstants, RobotInv, RobotTypes,
         RobotPeer!TypeOK
<1>1. RobotTypes'
  BY <1>0 DEF RobotInv, RobotTypes, RobotPeer!TypeOK
<1>2. DriverInv'
  BY <1>0 DEF RobotInv, RobotTypes, RobotPeer!TypeOK, DriverInv
<1>3. RobotCloseInv'
  BY <1>0 DEF RobotInv, RobotCloseInv, RobotPeer!FailureReachesWaiters
<1> QED BY <1>1, <1>2, <1>3 DEF RobotInv

LEMMA RobotHostKeeps ==
    ASSUME RobotPeer!RobotConstants, RobotInv,
           \/ RobotPeer!Close \/ RobotPeer!CloseReturns \/ RobotPeer!CloseDropped \/ RobotPeer!Dropped
           \/ RobotPeer!PeerStops \/ RobotPeer!CredentialRejected \/ RobotPeer!Tick
    PROVE  RobotInv'
<1> USE DEF RobotPeer!Close, RobotPeer!CloseReturns, RobotPeer!CloseDropped, RobotPeer!Dropped, RobotPeer!PeerStops, RobotPeer!CredentialRejected, RobotPeer!Tick,
            RobotPeer!stateVars, RobotPeer!driverVars
<1>1. RobotTypes'
  <2>1. robot_now' \in 0..robot_MaxGrant
           /\ UNCHANGED <<robot_failure, robot_ready, robot_driver, robot_peer, robot_waiter,
           robot_grant, robot_result, robot_cleanupFailed>>
    BY DEF RobotInv, RobotTypes, RobotPeer!TypeOK, RobotPeer!RobotConstants
  <2>2. robot_closing' \in {"no", "awaiting", "ok", "failed"}
    BY DEF RobotInv, RobotTypes, RobotPeer!TypeOK
  <2>3. robot_closed' \in BOOLEAN /\ robot_hostClosed' \in BOOLEAN
    BY DEF RobotInv, RobotTypes
  <2> QED BY <2>1, <2>2, <2>3 DEF RobotInv, RobotTypes, RobotPeer!TypeOK
<1>2. DriverInv'
  BY DEF RobotInv, DriverInv
<1>3. RobotCloseInv'
  BY DEF RobotInv, RobotTypes, RobotPeer!TypeOK, RobotCloseInv, RobotPeer!FailureReachesWaiters
<1> QED BY <1>1, <1>2, <1>3 DEF RobotInv

LEMMA RobotStep ==
    ASSUME RobotPeer!RobotConstants, RobotInv, [RobotPeer!Next]_(RobotPeer!vars)
    PROVE  RobotInv'
<1>1. CASE UNCHANGED RobotPeer!vars
  BY <1>1
     DEF RobotPeer!vars, RobotPeer!stateVars, RobotPeer!driverVars, RobotInv, RobotTypes,
         RobotPeer!TypeOK, DriverInv, RobotCloseInv,
              RobotPeer!FailureReachesWaiters
<1>2. CASE RobotPeer!Next
  BY <1>2, StartKeeps, WaiterKeeps, StartingKeeps, RenewingKeeps, StoreFailureKeeps, PublishKeeps,
     ShutdownPeerKeeps, RobotHostKeeps
     DEF RobotPeer!Next, RobotPeer!Drive
<1> QED BY <1>1, <1>2

LEMMA RobotInvariant ==
    ASSUME RobotPeer!RobotConstants
    PROVE  RobotPeer!Spec => []RobotInv
<1>1. RobotPeer!Init => RobotInv
  BY InitRobot
<1>2. RobotInv /\ [RobotPeer!Next]_(RobotPeer!vars) => RobotInv'
  BY RobotStep
<1> QED BY <1>1, <1>2, PTL DEF RobotPeer!Spec

LEMMA RobotHonest ==
    ASSUME RobotInv
    PROVE  RobotPeer!TypeOK /\ RobotPeer!CloseIsHonest /\ RobotPeer!FailureReachesWaiters
<1>1. RobotPeer!TypeOK /\ RobotPeer!FailureReachesWaiters
  BY DEF RobotInv, RobotTypes, RobotCloseInv
<1>2. RobotPeer!CloseIsHonest
  BY DEF RobotInv, RobotTypes, RobotPeer!TypeOK, DriverInv, RobotCloseInv, RobotPeer!CloseIsHonest
<1> QED BY <1>1, <1>2

\* Of a robot's peer: a close that says Ok leaves no peer, one that fails says so, and a
\* caller of start is told "closed" only after the host closed it
LEMMA RobotCorrect ==
    ASSUME RobotPeer!RobotConstants
    PROVE  RobotPeer!Spec => [](RobotPeer!TypeOK /\ RobotPeer!CloseIsHonest
         /\ RobotPeer!FailureReachesWaiters)
<1>1. RobotInv => RobotPeer!TypeOK /\ RobotPeer!CloseIsHonest /\ RobotPeer!FailureReachesWaiters
  BY RobotHonest
<1> QED BY <1>1, RobotInvariant, PTL

-----------------------------------------------------------------------------
(* token_manager.rs and the credential that owns it, for any finite number *)
(* of tasks that ask for a token and any number of attempts.               *)

ManagerPcs == {"idle", "entering", "holding", "waiting"} \cup TokenManager!Owning
ManagerCall == [pc : ManagerPcs, on : Nat]

\* TypeOK, with the call of every actor as a function
ManagerType ==
    /\ TokenManager!TypeOK
    /\ token_call \in [TokenManager!Actors -> ManagerCall]

-----------------------------------------------------------------------------
(* Notify::new *)

\* The sizes of sets that the module speaks of are those of the library's theorems
LEMMA FiniteAgree ==
    ASSUME NEW S
    PROVE  TokenManager!IsFiniteSet(S) <=> IsFiniteSet(S)
BY DEF TokenManager!IsFiniteSet, IsFiniteSet

LEMMA CountsAgree ==
    ASSUME NEW S
    PROVE  TokenManager!Cardinality(S) = Cardinality(S)
BY DEF TokenManager!Cardinality, Cardinality

LEMMA CallersFinite == TokenManager!ManagerConstants => IsFiniteSet(token_Callers)
BY FiniteAgree DEF TokenManager!ManagerConstants

\* As many Notifys are held as there are actors at most, so one more is always free
LEMMA NewNotifyIsFree ==
    ASSUME IsFiniteSet(token_Callers), ManagerType
    PROVE  /\ TokenManager!NewNotify \in 1..(Cardinality(TokenManager!Actors) + 1)
           /\ Cardinality(TokenManager!Actors) \in Nat
<1>1. IsFiniteSet(TokenManager!Actors) /\ Cardinality(TokenManager!Actors) \in Nat
  BY FS_AddElement, FS_CardinalityType DEF TokenManager!Actors
<1> DEFINE N == Cardinality(TokenManager!Actors)
           held == {token_call[a].on : a \in TokenManager!Actors}
           op == [a \in TokenManager!Actors |-> token_call[a].on]
<1>2. op \in Surjection(TokenManager!Actors, held)
  BY DEF Surjection
<1>3. IsFiniteSet(held) /\ Cardinality(held) <= N
  BY <1>1, <1>2, FS_Surjection
<1>4. IsFiniteSet(1..(N + 1)) /\ Cardinality(1..(N + 1)) = N + 1
  <2>1. N + 1 \in Int /\ 1 \in Int /\ 1 <= N + 1
    BY <1>1
  <2> HIDE DEF N
  <2> QED BY <2>1, FS_Interval
<1>5. ~(1..(N + 1) \subseteq held)
  <2> SUFFICES ASSUME 1..(N + 1) \subseteq held PROVE FALSE
    OBVIOUS
  <2>1. Cardinality(1..(N + 1)) <= Cardinality(held)
    BY <1>3, FS_Subset
  <2>2. Cardinality(held) \in Nat
    BY <1>3, FS_CardinalityType
  <2> HIDE DEF N, held
  <2> QED BY <1>1, <1>3, <1>4, <2>1, <2>2 DEF N
<1>6. PICK n \in 1..(N + 1) : n \notin held
  BY <1>5
<1>7. \A a \in TokenManager!Actors : token_call[a].pc \in {"holding", "waiting"} => token_call[a].on # n
  BY <1>6
<1>8. TokenManager!Cardinality(TokenManager!Actors) = Cardinality(TokenManager!Actors)
  BY CountsAgree
<1> QED BY <1>1, <1>6, <1>7, <1>8 DEF TokenManager!NewNotify

-----------------------------------------------------------------------------
(* close, one step after the other *)

\* The places of the steps of close
LEMMA ClosePlaces ==
    ASSUME token_closer \in 0..7, token_kind \in {"robot", "compute"}
    PROVE  /\ TokenManager!Closing("stop1") => token_closer = IF token_kind = "robot" THEN 1 ELSE 3
           /\ TokenManager!Closing("stop2") => token_closer = IF token_kind = "robot" THEN 2 ELSE 4
           /\ TokenManager!Closing("join") => token_closer = IF token_kind = "robot" THEN 3 ELSE 5
           /\ TokenManager!Closing("calls") => token_closer = IF token_kind = "robot" THEN 4 ELSE 6
           /\ TokenManager!Closing("startup") => token_closer = IF token_kind = "robot" THEN 5 ELSE 1
           /\ TokenManager!Closing("registrar") => token_closer = IF token_kind = "robot" THEN 6 ELSE 2
           /\ TokenManager!Closing("returned") => token_closer = 7
<1>1. token_closer \in {0, 1, 2, 3, 4, 5, 6, 7}
  OBVIOUS
<1>2. CASE token_kind = "robot"
  BY <1>1, <1>2 DEF TokenManager!Closing, TokenManager!CloseSteps
<1>3. CASE token_kind = "compute"
  BY <1>1, <1>3 DEF TokenManager!Closing, TokenManager!CloseSteps
<1> QED BY <1>2, <1>3
-----------------------------------------------------------------------------
(* Types *)

LEMMA NoManagerCallType == TokenManager!NoCall \in ManagerCall
BY DEF TokenManager!NoCall, ManagerCall, ManagerPcs

LEMMA EnteringType == [pc |-> "entering", on |-> 0] \in ManagerCall
BY DEF ManagerCall, ManagerPcs

LEMMA AttemptType ==
    ASSUME NEW n \in Nat
    PROVE  /\ [pc |-> "reauth", on |-> n] \in ManagerCall
           /\ [pc |-> "holding", on |-> n] \in ManagerCall
BY DEF ManagerCall, ManagerPcs, TokenManager!Owning

\* What a notification makes of a call
LEMMA WokenType ==
    ASSUME NEW c \in ManagerCall, NEW n
    PROVE  /\ TokenManager!Woken(c, n) \in ManagerCall
           /\ TokenManager!Woken(c, n).pc \in TokenManager!Owning => TokenManager!Woken(c, n) = c
           /\ c.pc = "idle" => TokenManager!Woken(c, n) = c
BY DEF TokenManager!Woken, ManagerCall, ManagerPcs, TokenManager!Owning

LEMMA CutType ==
    ASSUME NEW c \in ManagerCall
    PROVE  /\ TokenManager!CutLogin(c) \in ManagerCall
           /\ TokenManager!CutLogin(c).pc \in TokenManager!Owning => c.pc \in TokenManager!Owning
           /\ c.pc = "idle" => TokenManager!CutLogin(c).pc = "idle"
BY DEF TokenManager!CutLogin, ManagerCall, ManagerPcs, TokenManager!Owning

\* A place of one's own call that is no new call
LEMMA MoveType ==
    ASSUME token_call \in [TokenManager!Actors -> ManagerCall], NEW a \in TokenManager!Actors, NEW p \in ManagerPcs,
           token_call' = [token_call EXCEPT ![a].pc = p]
    PROVE  token_call' \in [TokenManager!Actors -> ManagerCall]
BY DEF ManagerCall

LEMMA SetType ==
    ASSUME token_call \in [TokenManager!Actors -> ManagerCall], NEW a \in TokenManager!Actors, NEW c \in ManagerCall,
           token_call' = [token_call EXCEPT ![a] = c]
    PROVE  token_call' \in [TokenManager!Actors -> ManagerCall]
OBVIOUS

BgPlaces == {"off", "check", "target", "armIdle", "armTimer", "armBackoff",
             "idle", "timer", "backoff", "calling", "done"}

LEMMA BgTypes ==
    ASSUME token_bg \in BgPlaces
    PROVE  /\ \A ok \in BOOLEAN : TokenManager!BgAfter(ok) \in BgPlaces
           /\ TokenManager!WakeBg(token_bg) \in BgPlaces /\ TokenManager!StopBg(token_bg) \in BgPlaces
           /\ \A a \in TokenManager!Actors, ok \in BOOLEAN : TokenManager!Returned(a, ok) \in BgPlaces
<1>1. \A ok \in BOOLEAN : TokenManager!BgAfter(ok) \in BgPlaces
  BY DEF TokenManager!BgAfter, BgPlaces
<1>2. TokenManager!WakeBg(token_bg) \in BgPlaces /\ TokenManager!StopBg(token_bg) \in BgPlaces
  BY DEF TokenManager!WakeBg, TokenManager!StopBg, BgPlaces
<1> QED BY <1>1, <1>2 DEF TokenManager!Returned

\* TypeOK, apart from the calls
StateType ==
    /\ token_kind \in {"robot", "compute"}
    /\ token_token \in {"none", "valid", "due"} /\ token_backoff \in BOOLEAN
    /\ token_inflight \in 0..(Cardinality(TokenManager!Actors) + 1)
    /\ token_stopped \in BOOLEAN /\ token_restarted \in BOOLEAN
    /\ token_bg \in BgPlaces
    /\ token_closed \in BOOLEAN /\ token_startup \in {"no", "bearer", "polled", "started"}
    /\ token_registrar \in {"none", "running", "done"} /\ token_closer \in 0..7

LEMMA TypeParts == ManagerType <=> StateType /\ token_call \in [TokenManager!Actors -> ManagerCall]
<1>1. token_call \in [TokenManager!Actors -> ManagerCall]
         => \A a \in TokenManager!Actors : token_call[a].pc \in ManagerPcs
  BY DEF ManagerCall
<1>2. TokenManager!Cardinality(TokenManager!Actors) = Cardinality(TokenManager!Actors)
  BY CountsAgree
<1> QED BY <1>1, <1>2 DEF ManagerType, TokenManager!TypeOK, StateType, BgPlaces, ManagerPcs

LEMMA TypePartsNext ==
    ASSUME StateType', token_call' \in [TokenManager!Actors -> ManagerCall]
    PROVE  ManagerType'
<1>1. \A a \in TokenManager!Actors : token_call'[a].pc \in ManagerPcs
  BY DEF ManagerCall
<1>2. TokenManager!Cardinality(TokenManager!Actors) = Cardinality(TokenManager!Actors)
  BY CountsAgree
<1> QED BY <1>1, <1>2 DEF ManagerType, TokenManager!TypeOK, StateType, BgPlaces, ManagerPcs

LEMMA InitTyped ==
    ASSUME TokenManager!ManagerConstants, TokenManager!Init
    PROVE  ManagerType
<1>1. Cardinality(TokenManager!Actors) \in Nat
  BY CallersFinite, FS_AddElement, FS_CardinalityType DEF TokenManager!Actors
<1>2. StateType
  <2>1. 0 \in 0..(Cardinality(TokenManager!Actors) + 1) /\ 0 \in 0..7
    BY <1>1
  <2> QED BY <2>1 DEF TokenManager!Init, StateType, BgPlaces
<1>3. token_call \in [TokenManager!Actors -> ManagerCall]
  BY NoManagerCallType DEF TokenManager!Init
<1> QED BY <1>2, <1>3, TypeParts

\* get_access keeps the types
LEMMA CallTyped ==
    ASSUME TokenManager!ManagerConstants, ManagerType, NEW a \in TokenManager!Actors,
         TokenManager!Enter(a) \/ TokenManager!CallStep(a)
    PROVE  ManagerType'
<1> USE TypeParts, TypePartsNext
<1>0. StateType /\ token_call \in [TokenManager!Actors -> ManagerCall]
         /\ Cardinality(TokenManager!Actors) \in Nat
  BY NewNotifyIsFree, CallersFinite
<1>1. CASE TokenManager!Enter(a) \/ TokenManager!DropCall(a)
  <2>1. token_call' \in [TokenManager!Actors -> ManagerCall]
    BY <1>0, <1>1, SetType, EnteringType, NoManagerCallType
       DEF TokenManager!Enter, TokenManager!DropCall
  <2>2. StateType'
    BY <1>0, <1>1
       DEF TokenManager!Enter, TokenManager!DropCall, StateType, TokenManager!tokenVars,
           TokenManager!ownerVars
  <2> QED BY <2>1, <2>2
<1>2. CASE TokenManager!Decide(a)
  <2>1. token_inflight \in Nat /\ TokenManager!NewNotify \in 1..(Cardinality(TokenManager!Actors) + 1)
    BY <1>0, NewNotifyIsFree, CallersFinite DEF StateType
  <2>2. token_call' \in [TokenManager!Actors -> ManagerCall]
    BY <1>0, <1>2, <2>1, SetType, AttemptType, NoManagerCallType DEF TokenManager!Decide
  <2>3. token_bg' \in BgPlaces
    <3>1. (~token_stopped /\ token_token = "valid") \in BOOLEAN
      OBVIOUS
    <3>2. TokenManager!Returned(a, ~token_stopped /\ token_token = "valid") \in BgPlaces
      BY <1>0, <3>1, BgTypes DEF StateType
    <3> QED BY <1>0, <1>2, <3>2 DEF TokenManager!Decide, StateType
  <2>4. token_inflight' \in 0..(Cardinality(TokenManager!Actors) + 1)
    BY <1>0, <1>2, <2>1 DEF TokenManager!Decide, StateType
  <2> QED BY <1>0, <1>2, <2>2, <2>3, <2>4 DEF TokenManager!Decide, StateType, TokenManager!ownerVars
<1>3. CASE TokenManager!Register(a) \/ TokenManager!Reauth(a) \/ TokenManager!Arm(a)
  <2>1. PICK p \in ManagerPcs : token_call' = [token_call EXCEPT ![a].pc = p]
    BY <1>3
       DEF TokenManager!Register, TokenManager!Reauth, TokenManager!Arm, ManagerPcs, TokenManager!Owning
  <2>2. token_call' \in [TokenManager!Actors -> ManagerCall]
    BY <1>0, <2>1, MoveType
  <2>3. StateType'
    BY <1>0, <1>3
       DEF TokenManager!Register, TokenManager!Reauth, TokenManager!Arm, StateType,
           TokenManager!tokenVars, TokenManager!ownerVars
  <2> QED BY <2>2, <2>3
<1>4. CASE TokenManager!LoginEnds(a)
  <2>1. token_call' \in [TokenManager!Actors -> ManagerCall]
    <3>1. CASE \E ok \in BOOLEAN : TokenManager!Finish(a, ok)
      BY <1>0, <3>1, NoManagerCallType, WokenType DEF TokenManager!Finish
    <3>2. CASE token_call' = [token_call EXCEPT ![a] = [pc |-> "reauth", on |-> token_call[a].on + 1]]
      <4>1. token_call[a].on + 1 \in Nat
        BY <1>0 DEF ManagerCall
      <4> QED BY <1>0, <3>2, <4>1, SetType, AttemptType
    <3> QED BY <1>4, <3>1, <3>2 DEF TokenManager!LoginEnds
  <2>2. token_bg' \in BgPlaces
    BY <1>0, <1>4, BgTypes DEF TokenManager!LoginEnds, TokenManager!Finish, StateType
  <2>3. /\ token_token' \in {"none", "valid", "due"}
        /\ token_inflight' \in 0..(Cardinality(TokenManager!Actors) + 1)
    <3>1. token_token' \in {"valid", token_token} /\ token_inflight' \in {0, token_inflight}
      BY <1>4 DEF TokenManager!LoginEnds, TokenManager!Finish
    <3>2. 0 \in 0..(Cardinality(TokenManager!Actors) + 1)
      BY <1>0
    <3> QED BY <1>0, <3>1, <3>2 DEF StateType
  <2>4. token_backoff' \in BOOLEAN
    <3>1. token_backoff' = ~TRUE \/ token_backoff' = ~FALSE \/ token_backoff' = token_backoff
      BY <1>4, Zenon DEF TokenManager!LoginEnds, TokenManager!Finish
    <3>2. token_backoff \in BOOLEAN
      BY <1>0 DEF StateType
    <3> QED BY <3>1, <3>2, Zenon
  <2> QED BY <1>0, <1>4, <2>1, <2>2, <2>3, <2>4
             DEF TokenManager!LoginEnds, StateType, TokenManager!ownerVars
<1> QED BY <1>1, <1>2, <1>3, <1>4 DEF TokenManager!CallStep

\* The background loop and the credential keep the types
LEMMA OthersTyped ==
    ASSUME TokenManager!ManagerConstants, ManagerType,
           \/ TokenManager!OnUnauthorized \/ TokenManager!TimePasses \/ TokenManager!Reject
               \/ TokenManager!BgStep
           \/ TokenManager!StartBegins \/ TokenManager!StartPolls \/ TokenManager!StartFinishes
               \/ TokenManager!RegistrarEnds
           \/ TokenManager!CloseBegins \/ TokenManager!CloseStep
    PROVE  ManagerType'
<1> USE TypeParts, TypePartsNext
<1>0. StateType /\ token_call \in [TokenManager!Actors -> ManagerCall]
         /\ Cardinality(TokenManager!Actors) \in Nat /\ TokenManager!Bg \in TokenManager!Actors
  BY NewNotifyIsFree, CallersFinite DEF TokenManager!Actors
<1>1. CASE TokenManager!OnUnauthorized \/ TokenManager!TimePasses
  BY <1>0, <1>1, BgTypes
     DEF TokenManager!OnUnauthorized, TokenManager!TimePasses, StateType, TokenManager!ownerVars
<1>2. CASE TokenManager!Reject \/ TokenManager!StartBegins \/ TokenManager!StartPolls
         \/ TokenManager!RegistrarEnds \/ TokenManager!CloseBegins
  <2>1. (token_closed' = TRUE \/ token_closed' = token_closed) /\ (token_closer' = token_closer
           \/ token_closer' = 1)
    BY <1>2, Zenon
       DEF TokenManager!Reject, TokenManager!StartBegins, TokenManager!StartPolls,
           TokenManager!RegistrarEnds, TokenManager!CloseBegins
  <2>2. token_startup' \in {"no", "bearer", "polled", "started"}
           /\ token_registrar' \in {"none", "running", "done"}
    BY <1>0, <1>2
       DEF TokenManager!Reject, TokenManager!StartBegins, TokenManager!StartPolls,
           TokenManager!RegistrarEnds, TokenManager!CloseBegins, StateType
  <2>3. UNCHANGED <<token_kind, token_token, token_backoff, token_inflight, token_stopped,
           token_restarted, token_call, token_bg>>
    BY <1>2
       DEF TokenManager!Reject, TokenManager!StartBegins, TokenManager!StartPolls,
           TokenManager!RegistrarEnds, TokenManager!CloseBegins, TokenManager!tokenVars
  <2>4. token_closer' \in 0..7
    BY <1>0, <2>1 DEF StateType
  <2>5. token_closed' \in BOOLEAN
    BY <1>0, <2>1, Zenon DEF StateType
  <2> QED BY <1>0, <2>2, <2>3, <2>4, <2>5 DEF StateType
<1>3. CASE TokenManager!StartFinishes
  BY <1>0, <1>3 DEF TokenManager!StartFinishes, StateType, BgPlaces
<1>4. CASE TokenManager!BgStep
  <2>1. token_call' = token_call \/ token_call' = [token_call EXCEPT ![TokenManager!Bg].pc = "entering"]
    BY <1>4
       DEF TokenManager!BgStep, TokenManager!BgCheck, TokenManager!BgTarget, TokenManager!BgArm,
           TokenManager!BgTimer
  <2>2. token_call' \in [TokenManager!Actors -> ManagerCall]
    BY <1>0, <2>1, MoveType DEF ManagerPcs
  <2>3. token_bg' \in BgPlaces
    BY <1>4
       DEF TokenManager!BgStep, TokenManager!BgCheck, TokenManager!BgTarget, TokenManager!BgArm,
           TokenManager!BgTimer, BgPlaces
  <2> QED BY <1>0, <1>4, <2>2, <2>3
             DEF TokenManager!BgStep, TokenManager!BgCheck, TokenManager!BgTarget, TokenManager!BgArm,
                 TokenManager!BgTimer,
                                        StateType, TokenManager!tokenVars, TokenManager!ownerVars
<1>5. CASE TokenManager!CloseStep
  <2>1. token_closer < 7
    <3>1. token_closer \in 0..7 /\ token_kind \in {"robot", "compute"}
      BY <1>0 DEF StateType
    <3> QED BY <1>5, <3>1, ClosePlaces
               DEF TokenManager!CloseStep, TokenManager!Stop1, TokenManager!Stop2,
                   TokenManager!CloseWaits
  <2>2. token_closer' \in 0..7
    BY <1>0, <1>5, <2>1
       DEF TokenManager!CloseStep, TokenManager!Stop1, TokenManager!Stop2, TokenManager!CloseWaits,
           StateType
  <2>3. token_call' \in [TokenManager!Actors -> ManagerCall]
    BY <1>0, <1>5, WokenType, CutType
       DEF TokenManager!CloseStep, TokenManager!Stop1, TokenManager!Stop2, TokenManager!CloseWaits
  <2>4. token_bg' \in BgPlaces
    BY <1>0, <1>5, BgTypes
       DEF TokenManager!CloseStep, TokenManager!Stop1, TokenManager!Stop2, TokenManager!CloseWaits,
           StateType
  <2>5. CASE TokenManager!Stop1
    <3>1. token_stopped' = TRUE
      BY <2>5 DEF TokenManager!Stop1
    <3> QED BY <1>0, <2>5, <2>2, <2>3, <2>4, <3>1 DEF TokenManager!Stop1, StateType
  <2>6. CASE TokenManager!Stop2
    <3>1. token_backoff' \in BOOLEAN
      BY <2>6, Zenon DEF TokenManager!Stop2
    <3>2. token_inflight' \in 0..(Cardinality(TokenManager!Actors) + 1)
      BY <1>0, <2>6 DEF TokenManager!Stop2
    <3> QED BY <1>0, <2>6, <2>2, <2>3, <2>4, <3>1, <3>2 DEF TokenManager!Stop2, StateType
  <2>7. CASE TokenManager!CloseWaits
    BY <1>0, <2>7, <2>2, <2>3, <2>4 DEF TokenManager!CloseWaits, StateType, TokenManager!tokenVars
  <2> QED BY <1>5, <2>5, <2>6, <2>7 DEF TokenManager!CloseStep
<1> QED BY <1>1, <1>2, <1>3, <1>4, <1>5

LEMMA NextTyped ==
    ASSUME TokenManager!ManagerConstants, ManagerType, [TokenManager!Next]_(TokenManager!vars)
    PROVE  ManagerType'
<1>1. CASE TokenManager!Next
  BY <1>1, CallTyped, OthersTyped DEF TokenManager!Next
<1>2. CASE UNCHANGED TokenManager!vars
  BY <1>2
     DEF ManagerType, TokenManager!TypeOK, TokenManager!vars, TokenManager!tokenVars,
         TokenManager!ownerVars
<1> QED BY <1>1, <1>2

-----------------------------------------------------------------------------
(* One login *)

\* Until a start that overlaps close resets the stop flag: who logs in is alone, the
\* state says so unless the manager is stopped, and stop's second half finds the
\* flag up.
LoginInv ==
    /\ token_restarted => token_startup = "started"
    /\ ~token_restarted => \A a,
        b \in TokenManager!Actors : token_call[a].pc \in TokenManager!Owning
        /\ token_call[b].pc \in TokenManager!Owning => a = b
    /\ ~token_restarted => \A a \in TokenManager!Actors : token_call[a].pc \in TokenManager!Owning
        => token_inflight # 0 \/ token_stopped
    /\ ~token_restarted /\ token_closer >= (IF token_kind = "robot" THEN 2 ELSE 4) => token_stopped

LEMMA InitAlone ==
    ASSUME TokenManager!Init
    PROVE  LoginInv
BY DEF TokenManager!Init, LoginInv, TokenManager!NoCall, TokenManager!Owning

\* The steps that do not touch the stop flag: nobody but the actor takes up a login,
\* and it takes one up when the state says that nobody has
LEMMA CallAlone ==
    ASSUME TokenManager!ManagerConstants, ManagerType, LoginInv, NEW a \in TokenManager!Actors,
         TokenManager!Enter(a) \/ TokenManager!CallStep(a)
    PROVE  LoginInv'
<1>0. token_call \in [TokenManager!Actors -> ManagerCall] /\ token_inflight \in Nat
  BY TypeParts, NewNotifyIsFree DEF StateType, TokenManager!ManagerConstants
<1>1. UNCHANGED <<token_restarted, token_stopped, token_startup, token_closer, token_kind>>
  BY DEF TokenManager!Enter, TokenManager!CallStep, TokenManager!Decide, TokenManager!Register,
         TokenManager!Reauth, TokenManager!Arm, TokenManager!LoginEnds, TokenManager!DropCall,
         TokenManager!tokenVars, TokenManager!ownerVars
<1>2. CASE TokenManager!Enter(a) \/ TokenManager!DropCall(a) \/ TokenManager!Register(a)
  <2>1. UNCHANGED token_inflight
    BY <1>2 DEF TokenManager!Enter, TokenManager!DropCall, TokenManager!Register, TokenManager!tokenVars
  <2>2. \A b \in TokenManager!Actors : token_call'[b].pc \in TokenManager!Owning
           => token_call[b].pc \in TokenManager!Owning
    BY <1>0, <1>2
       DEF TokenManager!Enter, TokenManager!DropCall, TokenManager!Register, TokenManager!NoCall,
           TokenManager!Owning, ManagerCall
  <2> QED BY <1>1, <2>1, <2>2 DEF LoginInv
<1>3. CASE TokenManager!Reauth(a) \/ TokenManager!Arm(a)
  <2>1. UNCHANGED token_inflight
    BY <1>3 DEF TokenManager!Reauth, TokenManager!Arm, TokenManager!tokenVars
  <2>2. \A b \in TokenManager!Actors : token_call'[b].pc \in TokenManager!Owning
           => token_call[b].pc \in TokenManager!Owning
    BY <1>0, <1>3 DEF TokenManager!Reauth, TokenManager!Arm, TokenManager!Owning, ManagerCall
  <2> QED BY <1>1, <2>1, <2>2 DEF LoginInv
<1>4. CASE TokenManager!Decide(a)
  <2>1. CASE TokenManager!Owner /\ ~token_stopped /\ token_inflight' = TokenManager!NewNotify
    <3>1. \A b \in TokenManager!Actors : token_call'[b].pc \in TokenManager!Owning => b = a
             \/ token_call[b].pc \in TokenManager!Owning
      BY <1>0, <1>4 DEF TokenManager!Decide, TokenManager!NoCall, TokenManager!Owning
    <3>2. ~token_restarted => \A b \in TokenManager!Actors : token_call[b].pc \notin TokenManager!Owning
      BY <2>1 DEF LoginInv, TokenManager!Owner
    <3>3. TokenManager!NewNotify # 0
      BY NewNotifyIsFree, CallersFinite
    <3> QED BY <1>1, <2>1, <3>1, <3>2, <3>3 DEF LoginInv
  <2>2. CASE token_inflight' = token_inflight /\ token_call' \in {[token_call EXCEPT ![a] = TokenManager!NoCall],
                                  [token_call EXCEPT ![a] = [pc |-> "holding", on |-> token_inflight]]}
    <3>1. \A b \in TokenManager!Actors : token_call'[b].pc \in TokenManager!Owning
             => token_call[b].pc \in TokenManager!Owning
      BY <1>0, <2>2 DEF TokenManager!NoCall, TokenManager!Owning
    <3> QED BY <1>1, <2>2, <3>1 DEF LoginInv
  <2> QED BY <1>4, <2>1, <2>2 DEF TokenManager!Decide
<1>5. CASE TokenManager!LoginEnds(a)
  <2>0. token_call[a].pc \in TokenManager!Owning
    BY <1>5 DEF TokenManager!LoginEnds, TokenManager!Owning
  <2>1. CASE \E ok \in BOOLEAN : TokenManager!Finish(a, ok)
    <3>1. \A b \in TokenManager!Actors : token_call'[b].pc \in TokenManager!Owning => b # a
             /\ token_call[b].pc \in TokenManager!Owning
      BY <1>0, <2>1, WokenType DEF TokenManager!Finish, TokenManager!NoCall, TokenManager!Owning
    <3>2. ~token_restarted => \A b \in TokenManager!Actors : token_call'[b].pc \notin TokenManager!Owning
      BY <2>0, <3>1 DEF LoginInv
    <3> QED BY <1>1, <3>2 DEF LoginInv
  <2>2. CASE /\ token_call' = [token_call EXCEPT ![a] = [pc |-> "reauth", on |-> token_call[a].on + 1]]
             /\ UNCHANGED token_inflight
    <3>1. \A b \in TokenManager!Actors : token_call'[b].pc \in TokenManager!Owning
             => token_call[b].pc \in TokenManager!Owning
      BY <1>0, <2>0, <2>2
    <3> QED BY <1>1, <2>2, <3>1 DEF LoginInv
  <2> QED BY <1>5, <2>1, <2>2 DEF TokenManager!LoginEnds
<1> QED BY <1>2, <1>3, <1>4, <1>5 DEF TokenManager!CallStep

LEMMA OthersAlone ==
    ASSUME TokenManager!ManagerConstants, ManagerType, LoginInv,
           \/ TokenManager!OnUnauthorized \/ TokenManager!TimePasses \/ TokenManager!Reject
               \/ TokenManager!BgStep
           \/ TokenManager!StartBegins \/ TokenManager!StartPolls \/ TokenManager!StartFinishes
               \/ TokenManager!RegistrarEnds
           \/ TokenManager!CloseBegins \/ TokenManager!CloseStep
    PROVE  LoginInv'
<1>0. token_call \in [TokenManager!Actors -> ManagerCall] /\ token_closer \in 0..7
         /\ token_kind \in {"robot", "compute"}
  BY TypeParts DEF StateType
<1>1. CASE TokenManager!OnUnauthorized \/ TokenManager!TimePasses \/ TokenManager!Reject
         \/ TokenManager!RegistrarEnds
  <2>1. UNCHANGED <<token_restarted, token_stopped, token_startup, token_closer, token_kind,
           token_call, token_inflight>>
    BY <1>1
       DEF TokenManager!OnUnauthorized, TokenManager!TimePasses, TokenManager!Reject,
           TokenManager!RegistrarEnds, TokenManager!tokenVars, TokenManager!ownerVars
  <2> QED BY <2>1 DEF LoginInv
<1>2. CASE TokenManager!StartBegins \/ TokenManager!StartPolls
  <2>1. UNCHANGED <<token_restarted, token_stopped, token_closer, token_kind, token_call,
           token_inflight>> /\ token_startup # "started"
    BY <1>2 DEF TokenManager!StartBegins, TokenManager!StartPolls, TokenManager!tokenVars
  <2> QED BY <2>1 DEF LoginInv
<1>3. CASE TokenManager!StartFinishes
  <2>1. UNCHANGED <<token_closer, token_kind, token_call, token_inflight>> /\ ~token_restarted
           /\ token_startup' = "started"
    BY <1>3 DEF TokenManager!StartFinishes, LoginInv
  <2>2. ~token_restarted' => UNCHANGED token_stopped
    BY <1>3, <2>1, TypeParts DEF TokenManager!StartFinishes, StateType
  <2> QED BY <2>1, <2>2 DEF LoginInv
<1>4. CASE TokenManager!CloseBegins
  <2>1. UNCHANGED <<token_restarted, token_stopped, token_startup, token_kind, token_call,
           token_inflight>> /\ token_closer' = 1
    BY <1>4 DEF TokenManager!CloseBegins, TokenManager!tokenVars
  <2> QED BY <1>0, <2>1 DEF LoginInv
<1>5. CASE TokenManager!BgStep
  <2>1. UNCHANGED <<token_restarted, token_stopped, token_startup, token_closer, token_kind,
           token_inflight>>
    BY <1>5
       DEF TokenManager!BgStep, TokenManager!BgCheck, TokenManager!BgTarget, TokenManager!BgArm,
           TokenManager!BgTimer, TokenManager!tokenVars, TokenManager!ownerVars
  <2>2. token_call' = token_call \/ token_call' = [token_call EXCEPT ![TokenManager!Bg].pc = "entering"]
    BY <1>5
       DEF TokenManager!BgStep, TokenManager!BgCheck, TokenManager!BgTarget, TokenManager!BgArm,
           TokenManager!BgTimer
  <2>3. \A b \in TokenManager!Actors : token_call'[b].pc \in TokenManager!Owning
           => token_call[b].pc \in TokenManager!Owning
    BY <1>0, <2>2 DEF TokenManager!Owning, ManagerCall
  <2> QED BY <2>1, <2>3 DEF LoginInv
<1>6. CASE TokenManager!Stop1
  <2>1. UNCHANGED <<token_restarted, token_startup, token_kind, token_inflight>>
           /\ token_stopped' = TRUE
    BY <1>6 DEF TokenManager!Stop1
  <2>2. \A b \in TokenManager!Actors : token_call'[b].pc \in TokenManager!Owning
           => token_call[b].pc \in TokenManager!Owning
    BY <1>0, <1>6, CutType DEF TokenManager!Stop1
  <2> QED BY <2>1, <2>2 DEF LoginInv
<1>7. CASE TokenManager!Stop2
  <2>1. UNCHANGED <<token_restarted, token_startup, token_kind, token_stopped>>
    BY <1>7 DEF TokenManager!Stop2
  <2>2. \A b \in TokenManager!Actors : token_call'[b].pc \in TokenManager!Owning
           => token_call[b].pc \in TokenManager!Owning
    BY <1>0, <1>7, WokenType DEF TokenManager!Stop2
  <2>3. ~token_restarted => token_stopped
    BY <1>0, <1>7, ClosePlaces DEF TokenManager!Stop2, LoginInv
  <2> QED BY <2>1, <2>2, <2>3 DEF LoginInv
<1>8. CASE TokenManager!CloseWaits
  <2>1. UNCHANGED <<token_restarted, token_startup, token_kind, token_stopped, token_call,
           token_inflight>> /\ token_closer' = token_closer + 1
    BY <1>8 DEF TokenManager!CloseWaits, TokenManager!tokenVars
  <2>2. \/ token_closer >= (IF token_kind = "robot" THEN 2 ELSE 4)
        \/ ~(token_closer + 1 >= (IF token_kind = "robot" THEN 2 ELSE 4))
    BY <1>0, <1>8, ClosePlaces DEF TokenManager!CloseWaits
  <2> QED BY <1>0, <2>1, <2>2 DEF LoginInv
<1> QED BY <1>1, <1>2, <1>3, <1>4, <1>5, <1>6, <1>7, <1>8 DEF TokenManager!CloseStep

LEMMA NextAlone ==
    ASSUME TokenManager!ManagerConstants, ManagerType, LoginInv, [TokenManager!Next]_(TokenManager!vars)
    PROVE  LoginInv'
<1>1. CASE TokenManager!Next
  BY <1>1, CallAlone, OthersAlone DEF TokenManager!Next
<1>2. CASE UNCHANGED TokenManager!vars
  BY <1>2 DEF LoginInv, TokenManager!vars, TokenManager!tokenVars, TokenManager!ownerVars
<1> QED BY <1>1, <1>2

\* A set whose members are all equal has one at most
LEMMA AtMostOne ==
    ASSUME NEW S, \A x, y \in S : x = y
    PROVE  Cardinality(S) <= 1
<1>1. CASE S = {}
  BY <1>1, FS_EmptySet
<1>2. CASE S # {}
  <2>1. PICK x \in S : S = {x}
    BY <1>2
  <2>2. Cardinality({x}) = 1
    BY FS_Singleton
  <2> QED BY <2>1, <2>2
<1> QED BY <1>1, <1>2

LEMMA AloneIsSingle ==
    ASSUME LoginInv
    PROVE  TokenManager!SingleLogin
<1>1. SUFFICES ASSUME ~token_restarted
               PROVE  Cardinality({a \in TokenManager!Actors : token_call[a].pc \in TokenManager!Owning}) <= 1
  BY CountsAgree DEF TokenManager!SingleLogin
<1>2. \A x, y \in {a \in TokenManager!Actors : token_call[a].pc \in TokenManager!Owning} : x = y
  BY <1>1 DEF LoginInv
<1> QED BY <1>2, AtMostOne

-----------------------------------------------------------------------------
(* What close has waited for stays over *)

\* The places of close behind which the calls, the start and the registrar are over
CallsOver == token_closer >= (IF token_kind = "robot" THEN 5 ELSE 7)
StartupOver == token_closer >= (IF token_kind = "robot" THEN 6 ELSE 2)
RegistrarOver == token_closer >= (IF token_kind = "robot" THEN 7 ELSE 3)

CloseInv ==
    /\ token_closer >= 1 => token_closed
    /\ CallsOver => \A c \in token_Callers : token_call[c].pc = "idle"
    /\ StartupOver => token_startup \in {"no", "started"}
    /\ RegistrarOver => token_registrar \in {"none", "done"}

LEMMA InitOver ==
    ASSUME TokenManager!Init
    PROVE  CloseInv
BY DEF TokenManager!Init, CloseInv, CallsOver, StartupOver, RegistrarOver

\* An idle call of a closed credential stays idle
LEMMA IdleStays ==
    ASSUME TokenManager!ManagerConstants, ManagerType, token_closed, TokenManager!Next,
         NEW c \in token_Callers, token_call[c].pc = "idle"
    PROVE  token_call'[c].pc = "idle"
<1>0. token_call \in [TokenManager!Actors -> ManagerCall] /\ c \in TokenManager!Actors
         /\ TokenManager!Bg \in TokenManager!Actors /\ c # TokenManager!Bg
  BY TypeParts DEF TokenManager!ManagerConstants, TokenManager!Actors
<1>1. CASE \E a \in TokenManager!Actors : TokenManager!Enter(a) \/ TokenManager!CallStep(a)
  <2>1. PICK a \in TokenManager!Actors : TokenManager!Enter(a) \/ TokenManager!CallStep(a)
    BY <1>1
  <2>2. CASE TokenManager!Decide(a) \/ TokenManager!Register(a) \/ TokenManager!Reauth(a)
           \/ TokenManager!Arm(a)
    BY <1>0, <2>2 DEF TokenManager!Decide, TokenManager!Register, TokenManager!Reauth, TokenManager!Arm
  <2>3. CASE TokenManager!LoginEnds(a)
    <3>1. a # c
      BY <2>3 DEF TokenManager!LoginEnds
    <3> QED BY <1>0, <2>3, <3>1, WokenType DEF TokenManager!LoginEnds, TokenManager!Finish
  <2>4. CASE TokenManager!Enter(a) \/ TokenManager!DropCall(a)
    BY <1>0, <2>4 DEF TokenManager!Enter, TokenManager!DropCall, TokenManager!NoCall
  <2> QED BY <2>1, <2>2, <2>3, <2>4 DEF TokenManager!CallStep
<1>2. CASE \/ TokenManager!OnUnauthorized \/ TokenManager!TimePasses \/ TokenManager!Reject \/ TokenManager!StartBegins \/ TokenManager!StartPolls
           \/ TokenManager!StartFinishes \/ TokenManager!RegistrarEnds \/ TokenManager!CloseBegins
               \/ TokenManager!CloseWaits
  BY <1>2
     DEF TokenManager!OnUnauthorized, TokenManager!TimePasses, TokenManager!Reject,
         TokenManager!StartBegins, TokenManager!StartPolls, TokenManager!StartFinishes,
              TokenManager!RegistrarEnds, TokenManager!CloseBegins, TokenManager!CloseWaits
<1>3. CASE TokenManager!BgStep
  BY <1>0, <1>3
     DEF TokenManager!BgStep, TokenManager!BgCheck, TokenManager!BgTarget, TokenManager!BgArm,
         TokenManager!BgTimer
<1>4. CASE TokenManager!Stop1 \/ TokenManager!Stop2
  <2>1. token_call[c] \in ManagerCall
    BY <1>0
  <2>2. TokenManager!CutLogin(token_call[c]).pc = "idle"
           /\ TokenManager!Woken(token_call[c], token_inflight).pc = "idle"
    BY <2>1, WokenType, CutType
  <2> QED BY <1>0, <1>4, <2>2 DEF TokenManager!Stop1, TokenManager!Stop2
<1> QED BY <1>1, <1>2, <1>3, <1>4 DEF TokenManager!Next, TokenManager!CloseStep

\* Nothing reopens a closed credential, and only close moves on
LEMMA CloserMoves ==
    ASSUME TokenManager!Next
    PROVE  /\ UNCHANGED token_kind
           /\ token_closed => UNCHANGED token_closed
           /\ \/ UNCHANGED token_closer
              \/ TokenManager!CloseBegins /\ token_closer = 0 /\ token_closer' = 1 /\ token_closed'
              \/ TokenManager!CloseStep /\ token_closer' = token_closer + 1
                  /\ UNCHANGED <<token_closed, token_startup, token_registrar>>
BY DEF TokenManager!Next, TokenManager!Enter, TokenManager!CallStep, TokenManager!Decide,
       TokenManager!Register, TokenManager!Reauth, TokenManager!Arm, TokenManager!LoginEnds,
       TokenManager!DropCall, TokenManager!OnUnauthorized,
       TokenManager!TimePasses, TokenManager!Reject, TokenManager!BgStep, TokenManager!BgCheck,
            TokenManager!BgTarget, TokenManager!BgArm, TokenManager!BgTimer, TokenManager!StartBegins,
            TokenManager!StartPolls,
       TokenManager!StartFinishes, TokenManager!RegistrarEnds, TokenManager!CloseBegins,
            TokenManager!CloseStep, TokenManager!Stop1, TokenManager!Stop2, TokenManager!CloseWaits,
            TokenManager!ownerVars

\* A start ends for good once the credential is closed, and with it what spawns the
\* registrar
LEMMA StartsEnd ==
    ASSUME TokenManager!Next, token_closed
    PROVE  /\ token_startup \in {"no", "started"} => token_startup' \in {"no", "started"}
           /\ token_startup \in {"no", "started"} /\ token_registrar \in {"none", "done"}
                 => token_registrar' \in {"none", "done"}
BY DEF TokenManager!Next, TokenManager!Enter, TokenManager!CallStep, TokenManager!Decide,
       TokenManager!Register, TokenManager!Reauth, TokenManager!Arm, TokenManager!LoginEnds,
       TokenManager!DropCall, TokenManager!OnUnauthorized,
       TokenManager!TimePasses, TokenManager!Reject, TokenManager!BgStep, TokenManager!BgCheck,
            TokenManager!BgTarget, TokenManager!BgArm, TokenManager!BgTimer, TokenManager!StartBegins,
            TokenManager!StartPolls,
       TokenManager!StartFinishes, TokenManager!RegistrarEnds, TokenManager!CloseBegins,
            TokenManager!CloseStep, TokenManager!Stop1, TokenManager!Stop2, TokenManager!CloseWaits,
            TokenManager!ownerVars

LEMMA NextOver ==
    ASSUME TokenManager!ManagerConstants, ManagerType, CloseInv, [TokenManager!Next]_(TokenManager!vars)
    PROVE  CloseInv'
<1>0. token_closer \in 0..7 /\ token_kind \in {"robot", "compute"} /\ token_closed \in BOOLEAN
  BY TypeParts DEF StateType
<1>1. CASE UNCHANGED TokenManager!vars
  BY <1>1 DEF CloseInv, CallsOver, StartupOver, RegistrarOver, TokenManager!vars, TokenManager!ownerVars
<1>2. CASE TokenManager!Next
  <2>1. UNCHANGED token_kind /\ (token_closed => token_closed')
    BY <1>2, CloserMoves
  <2>2. token_closer' >= 1 => token_closed'
    <3>1. CASE UNCHANGED token_closer
      BY <2>1, <3>1 DEF CloseInv
    <3>2. CASE TokenManager!CloseBegins /\ token_closer = 0 /\ token_closer' = 1 /\ token_closed'
      BY <3>2
    <3>3. CASE TokenManager!CloseStep /\ UNCHANGED token_closed
      <4>1. token_closer >= 1
        BY <1>0, <3>3
           DEF TokenManager!CloseStep, TokenManager!Stop1, TokenManager!Stop2, TokenManager!CloseWaits,
               TokenManager!Closing
      <4> QED BY <3>3, <4>1 DEF CloseInv
    <3> QED BY <1>2, <3>1, <3>2, <3>3, CloserMoves
  <2>3. CASE UNCHANGED token_closer
    <3>1. CallsOver' => \A c \in token_Callers : token_call'[c].pc = "idle"
      <4>1. CallsOver' => CallsOver /\ token_closed
        BY <1>0, <2>1, <2>3 DEF CallsOver, CloseInv
      <4> QED BY <1>2, <4>1, IdleStays DEF CloseInv
    <3>2. StartupOver' => token_startup' \in {"no", "started"}
      <4>1. StartupOver' => StartupOver /\ token_closed
        BY <1>0, <2>1, <2>3 DEF StartupOver, CloseInv
      <4> QED BY <1>2, <4>1, StartsEnd DEF CloseInv
    <3>3. RegistrarOver' => token_registrar' \in {"none", "done"}
      <4>1. RegistrarOver' => RegistrarOver /\ StartupOver /\ token_closed
        BY <1>0, <2>1, <2>3 DEF RegistrarOver, StartupOver, CloseInv
      <4> QED BY <1>2, <4>1, StartsEnd DEF CloseInv
    <3> QED BY <2>2, <3>1, <3>2, <3>3 DEF CloseInv
  <2>4. CASE token_closer = 0 /\ token_closer' = 1
    BY <1>0, <2>1, <2>2, <2>4 DEF CloseInv, CallsOver, StartupOver, RegistrarOver
  <2>5. CASE TokenManager!CloseStep /\ token_closer' = token_closer + 1
           /\ UNCHANGED <<token_closed, token_startup, token_registrar>>
    <3>0. token_closer >= 1 /\ token_closed
      BY <1>0, <2>5
         DEF TokenManager!CloseStep, TokenManager!Stop1, TokenManager!Stop2, TokenManager!CloseWaits,
             TokenManager!Closing, CloseInv
    <3>1. CallsOver' => \A c \in token_Callers : token_call'[c].pc = "idle"
      <4>1. CallsOver' => \/ CallsOver
                          \/ \A c \in token_Callers : token_call[c].pc = "idle"
        BY <1>0, <2>1, <2>5, ClosePlaces
           DEF TokenManager!CloseStep, TokenManager!Stop1, TokenManager!Stop2, TokenManager!CloseWaits,
               CallsOver
      <4> QED BY <1>2, <3>0, <4>1, IdleStays DEF CloseInv
    <3>2. StartupOver' => token_startup' \in {"no", "started"}
      <4>1. StartupOver' => StartupOver \/ token_startup \in {"no", "started"}
        BY <1>0, <2>1, <2>5, ClosePlaces
           DEF TokenManager!CloseStep, TokenManager!Stop1, TokenManager!Stop2, TokenManager!CloseWaits,
               StartupOver
      <4> QED BY <2>5, <4>1 DEF CloseInv
    <3>3. RegistrarOver' => token_registrar' \in {"none", "done"}
      <4>1. RegistrarOver' => RegistrarOver \/ token_registrar \in {"none", "done"}
        BY <1>0, <2>1, <2>5, ClosePlaces
           DEF TokenManager!CloseStep, TokenManager!Stop1, TokenManager!Stop2, TokenManager!CloseWaits,
               RegistrarOver
      <4> QED BY <2>5, <4>1 DEF CloseInv
    <3> QED BY <2>2, <3>1, <3>2, <3>3 DEF CloseInv
  <2> QED BY <1>2, <2>3, <2>4, <2>5, CloserMoves
<1> QED BY <1>1, <1>2

LEMMA OverIsOver ==
    ASSUME ManagerType, CloseInv
    PROVE  TokenManager!CloseOutlivesAll
<1>0. token_closer \in 0..7 /\ token_kind \in {"robot", "compute"}
  BY TypeParts DEF StateType
<1>1. TokenManager!Closing("returned") => token_closer = 7
  BY <1>0, ClosePlaces
<1>2. token_closer = 7 => CallsOver /\ StartupOver /\ RegistrarOver
  BY <1>0 DEF CallsOver, StartupOver, RegistrarOver
<1> QED BY <1>1, <1>2 DEF TokenManager!CloseOutlivesAll, CloseInv

-----------------------------------------------------------------------------
(* The theorems *)

\* token_manager.rs and machine.rs keep their types; the Notify of a new login is
\* always one that nobody holds.
THEOREM ManagerTypeCorrect ==
    ASSUME TokenManager!ManagerConstants
    PROVE  TokenManager!Spec => []TokenManager!TypeOK
<1>1. TokenManager!Init => ManagerType
  BY InitTyped
<1>2. ManagerType /\ [TokenManager!Next]_(TokenManager!vars) => ManagerType'
  BY NextTyped
<1>3. ManagerType => TokenManager!TypeOK
  BY DEF ManagerType
<1> QED BY <1>1, <1>2, <1>3, PTL DEF TokenManager!Spec

\* get_access: one login at a time, for any number of callers, until a start that
\* overlaps close has reset the stop flag.
THEOREM OneLoginAtATime ==
    ASSUME TokenManager!ManagerConstants
    PROVE  TokenManager!Spec => []TokenManager!SingleLogin
<1> DEFINE IInv == ManagerType /\ LoginInv
<1>1. TokenManager!Init => IInv
  BY InitTyped, InitAlone
<1>2. IInv /\ [TokenManager!Next]_(TokenManager!vars) => IInv'
  BY NextTyped, NextAlone
<1>3. IInv => TokenManager!SingleLogin
  BY AloneIsSingle
<1> QED BY <1>1, <1>2, <1>3, PTL DEF TokenManager!Spec

\* close of a robot or compute credential: when it returns, its start, its registrar
\* and its calls are over.
THEOREM NothingOutlivesClose ==
    ASSUME TokenManager!ManagerConstants
    PROVE  TokenManager!Spec => []TokenManager!CloseOutlivesAll
<1> DEFINE IInv == ManagerType /\ CloseInv
<1>1. TokenManager!Init => IInv
  BY InitTyped, InitOver
<1>2. IInv /\ [TokenManager!Next]_(TokenManager!vars) => IInv'
  BY NextTyped, NextOver
<1>3. IInv => TokenManager!CloseOutlivesAll
  BY OverIsOver
<1> QED BY <1>1, <1>2, <1>3, PTL DEF TokenManager!Spec

-----------------------------------------------------------------------------
(* A signed-in session, for any number of concurrent operations and of     *)
(* refresh tokens.                                                         *)

SessionPcs == {"idle", "lock", "ready", "hit", "use", "submit", "answer", "done"}
SessionCall == [pc : SessionPcs, op : {"authorize", "exchange"}, used : BOOLEAN, force : BOOLEAN,
         attempt : {1, 2}, fresh : BOOLEAN, hit : BOOLEAN]
WorkerSteps == {"none", "start", "submit", "answer", "check", "save", "end", "done"}
WorkerType == [step : WorkerSteps, refresh : BOOLEAN, result : {"none", "ok", "failed", "dead"}]

\* TypeOK, with every record of the state
SessionType ==
    /\ auth_kind \in {"zitadel", "user"} /\ auth_issued \in 1..auth_MaxToken
    /\ auth_held \in 1..auth_issued
    /\ auth_store \in 1..auth_held /\ auth_terminal \in {"no", "login", "configuration"}
    /\ auth_worker \in WorkerType /\ auth_call \in [auth_Callers -> SessionCall]
    /\ auth_lock \in auth_Callers \cup {AuthSession!Free, "close"}
    /\ auth_closing \in {"no", "wait", "drain", "done"}
    /\ auth_expiring \in BOOLEAN /\ auth_unsaved \in BOOLEAN /\ auth_cached \in BOOLEAN
    /\ auth_closed \in BOOLEAN
    /\ auth_reused \in BOOLEAN /\ auth_lost \in BOOLEAN

\* Where an operation holds the session's lock, and where it has its credentials
Locked == {"ready", "hit", "use", "submit", "answer"}
Serving == {"hit", "use", "submit", "answer"}

\* The lock: one operation at a time, and none once close has drained
LockInv ==
    /\ \A c \in auth_Callers : auth_call[c].pc \in Locked => auth_lock = c
    /\ auth_closing = "drain" => auth_lock = "close"
    /\ auth_closing # "no" => auth_closed
    /\ auth_closing = "done" => auth_worker.step = "none" /\ auth_lock = AuthSession!Free
        /\ \A c \in auth_Callers : auth_call[c].pc \notin Locked

\* A user session has no worker, an imported one no refresh of its own; while a
\* worker is there, nobody is served.  It submits for a session that is in order.
WorkerInv ==
    /\ auth_kind = "user" => auth_worker.step = "none" /\ auth_terminal = "no"
                        /\ \A c \in auth_Callers : auth_call[c].pc # "ready"
    /\ auth_kind = "zitadel" => \A c \in auth_Callers : auth_call[c].pc \notin {"submit", "answer"}
    /\ auth_worker.step # "none" => \A c \in auth_Callers : auth_call[c].pc \notin Serving
    /\ auth_worker.step \in {"submit", "answer"} => auth_terminal = "no"

\* The session holds the token the provider accepts, except while its answer is under
\* way; when that is lost, an imported session submits no more and a user session
\* remembers
TokenInv ==
    /\ auth_kind = "zitadel" => ~auth_reused
    /\ auth_kind = "zitadel" /\ auth_held # auth_issued =>
          \/ auth_worker.step = "answer" \/ (auth_worker.step = "done" /\ auth_worker.result = "dead")
          \/ auth_terminal # "no" \/ auth_closed
    /\ auth_worker.step = "submit" => auth_held = auth_issued
    /\ auth_kind = "user" /\ auth_held # auth_issued => auth_lost
        \/ \E c \in auth_Callers : auth_call[c].pc = "answer"
    /\ auth_reused => auth_kind = "user" /\ auth_lost

\* What is not pending is saved, and what is served is not pending
SaveInv ==
    auth_kind = "zitadel" =>
        /\ ~auth_unsaved => auth_store = auth_held
        /\ \A c \in auth_Callers : auth_call[c].pc \in {"use", "hit"} => ~auth_unsaved

SessionInv == SessionType /\ LockInv /\ WorkerInv /\ TokenInv /\ SaveInv

-----------------------------------------------------------------------------
(* Records *)

LEMMA NoSessionCallType ==
    /\ AuthSession!NoCall \in SessionCall /\ [AuthSession!NoCall EXCEPT !.pc = "done"] \in SessionCall
    /\ [AuthSession!NoCall EXCEPT !.pc = "done"].pc = "done"
    /\ \A o \in {"authorize", "exchange"} :
          /\ [AuthSession!NoCall EXCEPT !.pc = "lock", !.op = o] \in SessionCall
          /\ [AuthSession!NoCall EXCEPT !.pc = "lock", !.op = o].pc = "lock"
BY DEF AuthSession!NoCall, SessionCall, SessionPcs

LEMMA NoWorkerType == AuthSession!NoWorker \in WorkerType /\ AuthSession!NoWorker.step = "none"
BY DEF AuthSession!NoWorker, WorkerType, WorkerSteps

\* A worker's next step keeps its kind, its end tells its result
LEMMA WorkerMoves ==
    ASSUME auth_worker \in WorkerType
    PROVE  /\ \A p \in WorkerSteps : AuthSession!WorkerGoes(p) =>
                 auth_worker' \in WorkerType /\ auth_worker'.step = p
                      /\ auth_worker'.result = auth_worker.result
           /\ \A r \in {"ok", "failed", "dead"} : AuthSession!WorkerEnds(r) =>
                 auth_worker' \in WorkerType /\ auth_worker'.step = "done" /\ auth_worker'.result = r
BY DEF WorkerType, WorkerSteps, AuthSession!WorkerGoes, AuthSession!WorkerEnds

\* No step but one sends the refresh token of the worker
LEMMA OnlySubmitsSends ==
    ASSUME auth_worker \in WorkerType, AuthSession!Next, ~AuthSession!WorkerSubmits
    PROVE  ~AuthSession!WorkerSends
<1>1. CASE UNCHANGED auth_worker
  BY <1>1 DEF AuthSession!WorkerSends, AuthSession!WorkerAt
<1>2. CASE \E c \in auth_Callers : AuthSession!Join(c) \/ AuthSession!Ready(c)
  <2>1. auth_worker' = auth_worker \/ auth_worker'.step \in {"none", "start"}
    BY <1>2 DEF AuthSession!Join, AuthSession!Ready, AuthSession!NoWorker
  <2> QED BY <1>1, <2>1 DEF AuthSession!WorkerSends
<1>3. CASE AuthSession!WorkerStep
  <2>1. \/ \E p \in WorkerSteps \ {"answer"} : AuthSession!WorkerGoes(p)
        \/ \E r \in {"ok", "failed", "dead"} : AuthSession!WorkerEnds(r)
    BY <1>3
       DEF AuthSession!WorkerStep, AuthSession!WorkerStarts, AuthSession!WorkerAnswered,
           AuthSession!WorkerChecks, AuthSession!WorkerSaves, AuthSession!WorkerFinishes,
                AuthSession!WorkerDies, WorkerSteps
  <2>2. auth_worker'.step # "answer"
    BY <2>1, WorkerMoves
  <2> QED BY <2>2 DEF AuthSession!WorkerSends
<1>4. CASE AuthSession!CloseReturns
  BY <1>1, <1>4 DEF AuthSession!CloseReturns, AuthSession!NoWorker, AuthSession!WorkerSends
<1> QED BY <1>1, <1>2, <1>3, <1>4
           DEF AuthSession!Next, AuthSession!TimePasses, AuthSession!Close, AuthSession!CloseDropped,
               AuthSession!CloseLocks, AuthSession!Begin, AuthSession!CallStep,
           AuthSession!Leave, AuthSession!Lock, AuthSession!Hit, AuthSession!Succeeds,
                AuthSession!Fails, AuthSession!Unauthorized, AuthSession!UserSubmits,
                AuthSession!UserAnswered

\* One caller's record is replaced
LEMMA OneCallMoves ==
    ASSUME auth_call \in [auth_Callers -> SessionCall], NEW c \in auth_Callers, NEW r \in SessionCall,
           auth_call' = [auth_call EXCEPT ![c] = r]
    PROVE  /\ auth_call' \in [auth_Callers -> SessionCall] /\ auth_call'[c].pc = r.pc
           /\ \A d \in auth_Callers : d # c => auth_call'[d] = auth_call[d]
OBVIOUS

\* The fields an operation sets
LEMMA FreshField ==
    ASSUME NEW r \in SessionCall, NEW a \in BOOLEAN
    PROVE  [r EXCEPT !.fresh = a] \in SessionCall /\ [r EXCEPT !.fresh = a].pc = r.pc
BY DEF SessionCall

LEMMA PcField ==
    ASSUME NEW r \in SessionCall, NEW p \in SessionPcs
    PROVE  [r EXCEPT !.pc = p] \in SessionCall /\ [r EXCEPT !.pc = p].pc = p
BY DEF SessionCall

LEMMA HitField ==
    ASSUME NEW r \in SessionCall, NEW p \in SessionPcs, NEW a \in BOOLEAN
    PROVE  [r EXCEPT !.pc = p, !.hit = a] \in SessionCall /\ [r EXCEPT !.pc = p, !.hit = a].pc = p
BY DEF SessionCall

LEMMA UsedField ==
    ASSUME NEW r \in SessionCall, NEW p \in SessionPcs, NEW a \in BOOLEAN
    PROVE  [r EXCEPT !.pc = p, !.used = a] \in SessionCall /\ [r EXCEPT !.pc = p, !.used = a].pc = p
BY DEF SessionCall

LEMMA ForceField ==
    ASSUME NEW r \in SessionCall, NEW p \in SessionPcs, NEW a \in BOOLEAN
    PROVE  [r EXCEPT !.pc = p, !.force = a] \in SessionCall /\ [r EXCEPT !.pc = p, !.force = a].pc = p
BY DEF SessionCall

LEMMA AttemptField ==
    ASSUME NEW r \in SessionCall, NEW p \in SessionPcs
    PROVE  [r EXCEPT !.attempt = 2, !.pc = p] \in SessionCall
         /\ [r EXCEPT !.attempt = 2, !.pc = p].pc = p
BY DEF SessionCall

LEMMA ServedFields ==
    ASSUME NEW r \in SessionCall, NEW p \in SessionPcs, NEW a \in BOOLEAN
    PROVE  [r EXCEPT !.pc = p, !.used = a, !.fresh = FALSE, !.force = FALSE] \in SessionCall
         /\ [r EXCEPT !.pc = p, !.used = a, !.fresh = FALSE, !.force = FALSE].pc = p
BY DEF SessionCall

LEMMA InitSession ==
    ASSUME AuthSession!SessionConstants, AuthSession!Init
    PROVE  SessionInv
<1>1. auth_MaxToken \in Nat /\ auth_MaxToken >= 1
  BY DEF AuthSession!SessionConstants
<1>2. auth_call \in [auth_Callers -> SessionCall] /\ auth_worker \in WorkerType
  BY NoSessionCallType, NoWorkerType DEF AuthSession!Init
<1>3. SessionType
  <2>1. /\ auth_expiring \in BOOLEAN /\ auth_unsaved \in BOOLEAN /\ auth_cached \in BOOLEAN
        /\ auth_closed \in BOOLEAN
        /\ auth_reused \in BOOLEAN /\ auth_lost \in BOOLEAN
    BY Zenon DEF AuthSession!Init
  <2>2. auth_issued \in 1..auth_MaxToken /\ auth_held \in 1..auth_issued /\ auth_store \in 1..auth_held
    BY <1>1 DEF AuthSession!Init
  <2> QED BY <1>2, <2>1, <2>2 DEF AuthSession!Init, SessionType
<1>4. auth_worker.step = "none" /\ \A c \in auth_Callers : auth_call[c].pc = "idle"
  BY DEF AuthSession!Init, AuthSession!NoWorker, AuthSession!NoCall
<1>5. LockInv /\ WorkerInv /\ TokenInv /\ SaveInv
  BY <1>4 DEF AuthSession!Init, LockInv, WorkerInv, TokenInv, SaveInv, Locked, Serving
<1> QED BY <1>3, <1>5 DEF SessionInv

-----------------------------------------------------------------------------
(* Operations *)

\* Whoever holds the lock is alone in the session
LEMMA Alone ==
    ASSUME SessionInv, NEW c \in auth_Callers, auth_lock = c
    PROVE  \A d \in auth_Callers : d # c => auth_call[d].pc \notin Locked
BY DEF SessionInv, LockInv

\* An operation returns, for whatever reason: the worker stays, or its result was
\* taken; a dead one and a failed retry leave a login behind; an answer that does
\* not come is remembered.
LEMMA ReturnsKeeps ==
    ASSUME AuthSession!SessionConstants, SessionInv, NEW c \in auth_Callers, AuthSession!Returns(c),
           UNCHANGED <<auth_kind, auth_issued, auth_store, auth_expiring, auth_unsaved, auth_closed,
                auth_closing, auth_reused>>,
           \/ auth_worker' = auth_worker
           \/ /\ auth_worker.step = "done" /\ auth_worker' = AuthSession!NoWorker
              /\ auth_worker.result = "dead" => auth_terminal' = "login",
           \/ auth_terminal' = auth_terminal
           \/ auth_kind = "zitadel" /\ auth_terminal' = "login" /\ auth_worker'.step = "none",
           auth_held' = auth_held \/ (auth_kind = "user" /\ auth_held' = auth_issued),
           auth_cached' \in BOOLEAN, auth_lost' \in BOOLEAN, auth_lost => auth_lost',
           auth_call[c].pc = "answer" => auth_lost' \/ auth_held' = auth_issued
    PROVE  SessionInv'
<1>1. auth_call' \in [auth_Callers -> SessionCall] /\ auth_call'[c].pc = "done"
      /\ \A d \in auth_Callers : d # c => auth_call'[d] = auth_call[d]
  BY NoSessionCallType, OneCallMoves DEF AuthSession!Returns, SessionInv, SessionType
<1>2. auth_worker' \in WorkerType
  BY NoWorkerType DEF SessionInv, SessionType
<1>3. auth_held' \in 1..auth_issued /\ auth_store \in 1..auth_held'
  BY DEF SessionInv, SessionType
<1>4. auth_lock' \in auth_Callers \cup {AuthSession!Free, "close"}
  BY DEF AuthSession!Returns, SessionInv, SessionType
<1>5. SessionType'
  BY <1>1, <1>2, <1>3, <1>4 DEF SessionInv, SessionType
<1>6. \A d \in auth_Callers : auth_call'[d].pc \in Locked => d # c /\ auth_call[d].pc \in Locked
         /\ auth_lock' = d
  BY <1>1 DEF AuthSession!Returns, SessionInv, LockInv, Locked
<1>7. auth_worker'.step # "none" => auth_worker' = auth_worker
  BY NoWorkerType
<1>8. LockInv'
  <2>1. auth_closing = "drain" => auth_lock' = "close"
    BY DEF AuthSession!Returns, SessionInv, LockInv, AuthSession!SessionConstants
  <2>2. auth_closing = "done" => auth_worker'.step = "none" /\ auth_lock' = AuthSession!Free
    BY <1>7, NoWorkerType DEF AuthSession!Returns, SessionInv, LockInv
  <2> QED BY <1>6, <2>1, <2>2 DEF LockInv, SessionInv
<1>9. WorkerInv'
  <2>1. auth_kind = "user" => auth_worker'.step = "none" /\ auth_terminal' = "no"
    BY <1>7 DEF SessionInv, WorkerInv
  <2>2. \A d \in auth_Callers : auth_call'[d].pc \in {"submit", "answer", "ready"} \cup Serving
           => auth_call'[d] = auth_call[d]
    BY <1>1 DEF Serving
  <2>3. auth_worker'.step \in {"submit", "answer"} => auth_terminal' = "no"
    BY <1>7 DEF SessionInv, WorkerInv
  <2> QED BY <1>7, <2>1, <2>2, <2>3 DEF WorkerInv, SessionInv
<1>10. TokenInv'
  <2>1. auth_kind = "zitadel" => auth_held' = auth_held
    BY DEF SessionInv, SessionType
  <2>2. auth_kind = "zitadel" /\ auth_held' # auth_issued =>
          \/ auth_worker'.step = "answer" \/ (auth_worker'.step = "done"
              /\ auth_worker'.result = "dead")
          \/ auth_terminal' # "no" \/ auth_closed
    BY <2>1 DEF SessionInv, TokenInv
  <2>3. auth_worker'.step = "submit" => auth_held' = auth_issued
    <3>1. auth_worker'.step = "submit" => auth_worker' = auth_worker /\ auth_kind = "zitadel"
      BY <1>7 DEF SessionInv, WorkerInv, SessionType
    <3> QED BY <2>1, <3>1 DEF SessionInv, TokenInv
  <2>4. auth_kind = "user" /\ auth_held' # auth_issued => auth_lost'
           \/ \E d \in auth_Callers : auth_call'[d].pc = "answer"
    <3>1. SUFFICES ASSUME auth_kind = "user", auth_held' # auth_issued, ~auth_lost'
             PROVE \E d \in auth_Callers : auth_call'[d].pc = "answer"
      OBVIOUS
    <3>2. PICK d \in auth_Callers : auth_call[d].pc = "answer"
      BY <3>1 DEF SessionInv, TokenInv
    <3>3. d # c
      BY <3>1, <3>2
    <3> QED BY <1>1, <3>2, <3>3
  <2> QED BY <2>2, <2>3, <2>4 DEF TokenInv, SessionInv
<1>11. SaveInv'
  <2>1. auth_kind = "zitadel" => auth_held' = auth_held
    BY DEF SessionInv, SessionType
  <2> QED BY <1>1, <2>1 DEF SaveInv, SessionInv
<1> QED BY <1>5, <1>8, <1>9, <1>10, <1>11 DEF SessionInv

\* A step of one operation that neither returns nor touches the tokens or the worker
LEMMA MovesKeeps ==
    ASSUME AuthSession!SessionConstants, SessionInv, NEW c \in auth_Callers, NEW r \in SessionCall, auth_call' = [auth_call EXCEPT ![c] = r],
           UNCHANGED <<auth_kind, auth_issued, auth_held, auth_unsaved, auth_terminal, auth_store, auth_worker, auth_expiring, auth_closed, auth_closing,
                       auth_reused, auth_lost>>,
           auth_cached' \in BOOLEAN,
           auth_lock' = auth_lock \/ (auth_lock = AuthSession!Free /\ auth_lock' = c /\ ~auth_closed),
           r.pc \in Locked => auth_lock' = c,
           r.pc = "ready" => auth_kind = "zitadel", r.pc = "submit" => auth_kind = "user",
           r.pc # "answer", auth_call[c].pc # "answer",
           r.pc \in Serving => auth_worker.step = "none" /\ (auth_kind = "zitadel" => ~auth_unsaved)
    PROVE  SessionInv'
<1>1. auth_call' \in [auth_Callers -> SessionCall] /\ auth_call'[c].pc = r.pc
      /\ \A d \in auth_Callers : d # c => auth_call'[d] = auth_call[d]
  BY OneCallMoves DEF SessionInv, SessionType
<1>2. SessionType'
  BY <1>1 DEF SessionInv, SessionType
<1>3. LockInv'
  <2>1. \A d \in auth_Callers : auth_call'[d].pc \in Locked => auth_lock' = d
    <3>1. \A d \in auth_Callers : d # c /\ auth_call[d].pc \in Locked => auth_lock = d
      BY DEF SessionInv, LockInv
    <3>2. auth_lock = AuthSession!Free => \A d \in auth_Callers : auth_call[d].pc \notin Locked
      BY DEF SessionInv, LockInv, AuthSession!SessionConstants
    <3> QED BY <1>1, <3>1, <3>2
  <2>2. auth_closing = "drain" => auth_lock' = "close"
    BY DEF SessionInv, LockInv, AuthSession!SessionConstants, AuthSession!Free
  <2>3. auth_closing = "done" => auth_lock' = AuthSession!Free
           /\ \A d \in auth_Callers : auth_call'[d].pc \notin Locked
    <3>1. auth_closing = "done" => auth_lock' = AuthSession!Free
      BY DEF SessionInv, LockInv
    <3> QED BY <2>1, <3>1 DEF AuthSession!SessionConstants
  <2> QED BY <2>1, <2>2, <2>3 DEF LockInv, SessionInv
<1>4. WorkerInv'
  BY <1>1 DEF SessionInv, WorkerInv, Serving
<1>5. TokenInv'
  <2>1. \A d \in auth_Callers : auth_call[d].pc = "answer" => auth_call'[d].pc = "answer"
    BY <1>1
  <2> QED BY <2>1 DEF SessionInv, TokenInv
<1>6. SaveInv'
  BY <1>1 DEF SessionInv, SaveInv, Serving
<1> QED BY <1>2, <1>3, <1>4, <1>5, <1>6 DEF SessionInv

LEMMA BeginKeeps ==
    ASSUME AuthSession!SessionConstants, SessionInv, NEW c \in auth_Callers, AuthSession!Begin(c)
         \/ AuthSession!Lock(c)
    PROVE  SessionInv'
<1>0. auth_call[c] \in SessionCall /\ auth_call \in [auth_Callers -> SessionCall]
         /\ auth_cached \in BOOLEAN
  BY DEF SessionInv, SessionType
<1>1. CASE AuthSession!Begin(c)
  <2>1. PICK o \in {"authorize", "exchange"} :
          auth_call' = [auth_call EXCEPT ![c] = [AuthSession!NoCall EXCEPT !.pc = "lock", !.op = o]]
    BY <1>1 DEF AuthSession!Begin
  <2>2. /\ UNCHANGED <<auth_kind, auth_issued, auth_held, auth_unsaved, auth_terminal, auth_store, auth_worker, auth_expiring, auth_closed, auth_closing,
                       auth_reused, auth_lost, auth_cached, auth_lock>>
        /\ auth_call[c].pc # "answer"
    BY <1>1
       DEF AuthSession!Begin, AuthSession!sessionVars, AuthSession!closeVars, AuthSession!providerVars
  <2> QED BY <1>0, <2>1, <2>2, NoSessionCallType, MovesKeeps DEF Locked, Serving
<1>2. CASE AuthSession!Lock(c)
  <2>1. /\ UNCHANGED <<auth_kind, auth_issued, auth_held, auth_unsaved, auth_terminal, auth_store, auth_worker, auth_expiring, auth_closed, auth_closing,
                       auth_reused, auth_lost>>
        /\ auth_call[c].pc = "lock" /\ auth_lock = AuthSession!Free /\ auth_lock' = c /\ ~auth_closed
    BY <1>2
       DEF AuthSession!Lock, AuthSession!At, AuthSession!sessionVars, AuthSession!closeVars,
           AuthSession!providerVars
  <2>2. PICK hit \in {FALSE, auth_cached /\ auth_call[c].op = "exchange"} :
          /\ auth_cached' \in (IF hit
              \/ auth_call[c].op = "authorize" THEN {auth_cached} ELSE {auth_cached, FALSE})
          /\ auth_call' = [auth_call EXCEPT ![c] = [@ EXCEPT
                !.pc = IF auth_kind = "zitadel" THEN "ready" ELSE IF hit THEN "hit" ELSE "use",
                !.hit = hit]]
    BY <1>2 DEF AuthSession!Lock
  <2>3. hit \in BOOLEAN /\ auth_cached' \in BOOLEAN
    <3>1. (auth_cached /\ auth_call[c].op = "exchange") \in BOOLEAN
      OBVIOUS
    <3>2. hit \in BOOLEAN
      BY <3>1
    <3>3. auth_cached' = auth_cached \/ auth_cached' = FALSE
      BY <2>2
    <3> QED BY <1>0, <3>2, <3>3, Zenon
  <2> DEFINE p == IF auth_kind = "zitadel" THEN "ready" ELSE IF hit THEN "hit" ELSE "use"
             r == [auth_call[c] EXCEPT !.pc = p, !.hit = hit]
  <2>4. p \in SessionPcs /\ (auth_kind = "zitadel" <=> p = "ready") /\ p \in {"ready", "hit", "use"}
    BY DEF SessionPcs
  <2>6. auth_call' = [auth_call EXCEPT ![c] = r]
    BY <2>2
  <2> HIDE DEF p
  <2>5. r \in SessionCall /\ r.pc = p
    BY <1>0, <2>3, <2>4, HitField
  <2>7. auth_kind = "user" => auth_worker.step = "none"
    BY DEF SessionInv, WorkerInv
  <2>8. auth_kind \in {"zitadel", "user"}
    BY DEF SessionInv, SessionType
  <2> HIDE DEF r
  <2> QED BY <2>1, <2>3, <2>4, <2>5, <2>6, <2>7, <2>8, MovesKeeps DEF Serving
<1> QED BY <1>1, <1>2

\* Steps of the worker: nobody moves, and nobody is served meanwhile
LEMMA WorkerKeeps ==
    ASSUME AuthSession!SessionConstants, SessionInv, auth_kind = "zitadel",
           UNCHANGED <<auth_kind, auth_lock, auth_cached, auth_closed, auth_closing, auth_reused>>,
           auth_worker' \in WorkerType, auth_call' \in [auth_Callers -> SessionCall],
           \A d \in auth_Callers : auth_call'[d].pc = auth_call[d].pc /\ auth_call[d].pc \notin Serving,
           auth_expiring' \in BOOLEAN, auth_unsaved' \in BOOLEAN, auth_lost' \in BOOLEAN, auth_lost
                => auth_lost',
           auth_terminal' \in {"no", "login", "configuration"},
           auth_issued' \in 1..auth_MaxToken, auth_held' \in 1..auth_issued',
                auth_store' \in 1..auth_held',
           auth_closing = "done" => auth_worker'.step = "none",
           auth_worker'.step \in {"submit", "answer"} => auth_terminal' = "no",
           auth_held' # auth_issued' => \/ auth_worker'.step = "answer"
                                        \/ auth_worker'.step = "done" /\ auth_worker'.result = "dead"
                                        \/ auth_terminal' # "no" \/ auth_closed,
           auth_worker'.step = "submit" => auth_held' = auth_issued',
           ~auth_unsaved' => auth_store' = auth_held'
    PROVE  SessionInv'
<1>1. SessionType'
  BY DEF SessionInv, SessionType
<1>2. LockInv'
  BY DEF SessionInv, LockInv
<1>3. WorkerInv'
  BY DEF SessionInv, WorkerInv, Serving
<1>4. TokenInv'
  BY DEF SessionInv, TokenInv
<1>5. SaveInv'
  BY DEF SessionInv, SaveInv, Serving
<1> QED BY <1>1, <1>2, <1>3, <1>4, <1>5 DEF SessionInv

\* ready, with its worker
LEMMA ReadyKeeps ==
    ASSUME AuthSession!SessionConstants, SessionInv, NEW c \in auth_Callers, AuthSession!Join(c)
         \/ AuthSession!Ready(c)
    PROVE  SessionInv'
<1>0. auth_call[c] \in SessionCall /\ auth_call \in [auth_Callers -> SessionCall] /\ auth_worker \in WorkerType /\ auth_worker.refresh \in BOOLEAN
      /\ auth_call[c].fresh \in BOOLEAN /\ auth_call[c].force \in BOOLEAN
      /\ auth_call[c].used \in BOOLEAN
      /\ auth_cached \in BOOLEAN /\ auth_lost \in BOOLEAN /\ auth_expiring \in BOOLEAN
      /\ auth_unsaved \in BOOLEAN
  BY DEF SessionInv, SessionType, WorkerType, SessionCall
<1>1. /\ auth_call[c].pc = "ready" /\ auth_lock = c /\ auth_kind = "zitadel"
      /\ \A d \in auth_Callers : auth_call[d].pc \notin Serving /\ (d # c
          => auth_call[d].pc \notin Locked)
  <2>1. auth_call[c].pc = "ready"
    BY DEF AuthSession!Join, AuthSession!Ready, AuthSession!At
  <2>2. auth_lock = c /\ auth_kind = "zitadel"
    BY <2>1 DEF SessionInv, LockInv, WorkerInv, Locked, SessionType
  <2> QED BY <2>1, <2>2, Alone DEF Locked, Serving
<1>2. UNCHANGED <<auth_kind, auth_issued, auth_held, auth_unsaved, auth_store, auth_expiring,
         auth_closed, auth_closing, auth_reused, auth_lost, auth_cached>>
  BY DEF AuthSession!Join, AuthSession!Ready, AuthSession!sessionVars, AuthSession!closeVars,
         AuthSession!providerVars
<1>3. /\ auth_issued \in 1..auth_MaxToken /\ auth_held \in 1..auth_issued /\ auth_store \in 1..auth_held
      /\ auth_terminal \in {"no", "login", "configuration"} /\ (~auth_unsaved => auth_store = auth_held)
      /\ auth_closing # "done"
  BY <1>1 DEF SessionInv, SessionType, SaveInv, LockInv, Locked
<1>b. /\ auth_expiring' \in BOOLEAN /\ auth_unsaved' \in BOOLEAN /\ auth_lost' \in BOOLEAN
          /\ (auth_lost => auth_lost')
      /\ ~auth_unsaved' => auth_store' = auth_held'
  <2>1. auth_expiring' = auth_expiring /\ auth_unsaved' = auth_unsaved /\ auth_lost' = auth_lost
           /\ auth_store' = auth_store /\ auth_held' = auth_held
    BY <1>2
  <2> QED BY <1>0, <1>3, <2>1, Zenon
<1>4. CASE AuthSession!Join(c)
  <2>1. CASE /\ auth_worker.step = "done" /\ auth_worker.result = "ok"
             /\ auth_call' = [auth_call EXCEPT ![c].fresh = @ \/ auth_worker.refresh]
             /\ auth_worker' = AuthSession!NoWorker /\ UNCHANGED <<auth_lock, auth_terminal>>
    <3> DEFINE a == auth_call[c].fresh \/ auth_worker.refresh
               r == [auth_call[c] EXCEPT !.fresh = a]
    <3>1. a \in BOOLEAN
      OBVIOUS
    <3>3. auth_call' = [auth_call EXCEPT ![c] = r]
      BY <2>1
    <3> HIDE DEF a
    <3>2. r \in SessionCall /\ r.pc = auth_call[c].pc
      BY <1>0, <3>1, FreshField
    <3>4. auth_call' \in [auth_Callers -> SessionCall]
             /\ \A d \in auth_Callers : auth_call'[d].pc = auth_call[d].pc
      <4> HIDE DEF r
      <4> QED BY <1>0, <3>2, <3>3, OneCallMoves
    <3>5. auth_held # auth_issued => auth_terminal # "no" \/ auth_closed
      BY <1>1, <2>1 DEF SessionInv, TokenInv
    <3> QED BY <1>0, <1>1, <1>2, <1>3, <1>b, <2>1, <3>4, <3>5, NoWorkerType, WorkerKeeps
  <2>2. CASE /\ auth_worker.step = "done" /\ auth_worker' = AuthSession!NoWorker /\ AuthSession!Returns(c)
             /\ auth_terminal' = IF auth_worker.result = "dead" THEN "login" ELSE auth_terminal
    BY <1>0, <1>1, <1>2, <2>2, NoWorkerType, ReturnsKeeps
  <2>3. CASE AuthSession!Returns(c) /\ UNCHANGED <<auth_worker, auth_terminal>>
    BY <1>0, <1>1, <1>2, <2>3, ReturnsKeeps
  <2> QED BY <1>4, <2>1, <2>2, <2>3 DEF AuthSession!Join
<1>5. CASE AuthSession!Ready(c)
  <2>0. auth_worker.step = "none" /\ UNCHANGED auth_terminal
    BY <1>5 DEF AuthSession!Ready, AuthSession!sessionVars
  <2>1. CASE AuthSession!Returns(c) /\ UNCHANGED auth_worker
    BY <1>0, <1>1, <1>2, <2>0, <2>1, ReturnsKeeps
  <2>2. CASE /\ ~AuthSession!SavesFirst
             /\ auth_call' = [auth_call EXCEPT ![c] =
                  [@ EXCEPT !.pc = IF auth_call[c].hit THEN "hit" ELSE "use",
                            !.used = auth_call[c].used \/ auth_call[c].fresh \/ auth_call[c].force,
                            !.fresh = FALSE, !.force = FALSE]]
             /\ UNCHANGED <<auth_worker, auth_lock>>
    <3> DEFINE p == IF auth_call[c].hit THEN "hit" ELSE "use"
    <3>1. p \in {"hit", "use"} /\ p \in SessionPcs
      BY DEF SessionPcs
    <3>2. PICK b : auth_call' = [auth_call EXCEPT ![c] = [@ EXCEPT !.pc = p, !.used = b,
                                                         !.fresh = FALSE, !.force = FALSE]]
                   /\ b \in BOOLEAN
      BY <2>2
    <3> DEFINE r == [auth_call[c] EXCEPT !.pc = p, !.used = b, !.fresh = FALSE, !.force = FALSE]
    <3>4. auth_call' = [auth_call EXCEPT ![c] = r]
      BY <3>2
    <3> HIDE DEF p
    <3>3. r \in SessionCall /\ r.pc = p
      BY <1>0, <3>1, <3>2, ServedFields
    <3>5. ~auth_unsaved
      BY <2>2 DEF AuthSession!SavesFirst
    <3> HIDE DEF r
    <3> QED BY <1>0, <1>1, <1>2, <2>0, <2>2, <3>1, <3>3, <3>4, <3>5, MovesKeeps
  <2>3. CASE /\ ~AuthSession!Required
             /\ auth_worker' = [step |-> "start", refresh |-> AuthSession!Wanted(c)
                 /\ ~AuthSession!SavesFirst, result |-> "none"]
             /\ UNCHANGED <<auth_call, auth_lock>>
    <3>1. (AuthSession!Wanted(c) /\ ~AuthSession!SavesFirst) \in BOOLEAN
      OBVIOUS
    <3>2. auth_worker' \in WorkerType /\ auth_worker'.step = "start"
      BY <2>3, <3>1 DEF WorkerType, WorkerSteps
    <3>3. auth_held # auth_issued => auth_terminal # "no" \/ auth_closed
      BY <1>1, <2>0 DEF SessionInv, TokenInv
    <3> QED BY <1>0, <1>1, <1>2, <1>3, <1>b, <2>0, <2>3, <3>2, <3>3, WorkerKeeps
  <2> QED BY <1>5, <2>1, <2>2, <2>3 DEF AuthSession!Ready
<1> QED BY <1>4, <1>5

\* Returning without further ado
LEMMA PlainReturns ==
    ASSUME AuthSession!SessionConstants, SessionInv, NEW c \in auth_Callers, AuthSession!Hit(c)
         \/ AuthSession!Fails(c) \/ AuthSession!Leave(c)
    PROVE  SessionInv'
<1>1. /\ AuthSession!Returns(c)
      /\ UNCHANGED <<auth_kind, auth_issued, auth_held, auth_unsaved, auth_terminal, auth_store, auth_expiring, auth_worker, auth_closed, auth_closing,
                     auth_reused, auth_cached>>
  BY DEF AuthSession!Hit, AuthSession!Fails, AuthSession!Leave, AuthSession!sessionVars,
         AuthSession!closeVars, AuthSession!providerVars
<1>2. auth_cached \in BOOLEAN /\ auth_lost \in BOOLEAN
  BY DEF SessionInv, SessionType
<1>3. CASE auth_lost' = auth_lost /\ auth_call[c].pc # "answer"
  BY <1>1, <1>2, <1>3, ReturnsKeeps
<1>4. CASE auth_lost' = (auth_lost \/ auth_call[c].pc = "answer")
  BY <1>1, <1>2, <1>4, ReturnsKeeps
<1> QED BY <1>3, <1>4
           DEF AuthSession!Hit, AuthSession!Fails, AuthSession!Leave, AuthSession!At,
               AuthSession!providerVars

\* The request with the access token
LEMMA UseKeeps ==
    ASSUME AuthSession!SessionConstants, SessionInv, NEW c \in auth_Callers,
         AuthSession!Succeeds(c) \/ AuthSession!Unauthorized(c)
    PROVE  SessionInv'
<1>0. auth_call[c] \in SessionCall /\ auth_call \in [auth_Callers -> SessionCall] /\ auth_cached \in BOOLEAN /\ auth_lost \in BOOLEAN
      /\ auth_kind \in {"zitadel", "user"}
  BY DEF SessionInv, SessionType
<1>1. /\ auth_call[c].pc = "use" /\ auth_lock = c
      /\ auth_worker.step = "none" /\ (auth_kind = "zitadel" => ~auth_unsaved)
  <2>1. auth_call[c].pc = "use"
    BY DEF AuthSession!Succeeds, AuthSession!Unauthorized, AuthSession!At
  <2> QED BY <2>1 DEF SessionInv, LockInv, WorkerInv, SaveInv, Locked, Serving
<1>2. UNCHANGED <<auth_kind, auth_issued, auth_held, auth_unsaved, auth_store, auth_expiring,
         auth_worker, auth_closed, auth_closing, auth_reused, auth_lost>>
  BY DEF AuthSession!Succeeds, AuthSession!Unauthorized, AuthSession!sessionVars,
         AuthSession!closeVars, AuthSession!providerVars
<1>3. ASSUME NEW r \in SessionCall, auth_call' = [auth_call EXCEPT ![c] = r], r.pc \in {"use", "ready", "submit"},
             r.pc = "ready" => auth_kind = "zitadel", r.pc = "submit" => auth_kind = "user",
             UNCHANGED <<auth_lock, auth_terminal, auth_cached>>
      PROVE  SessionInv'
  BY <1>0, <1>1, <1>2, <1>3, MovesKeeps
<1>4. CASE AuthSession!Succeeds(c)
  <2>0. UNCHANGED auth_terminal
    BY <1>4 DEF AuthSession!Succeeds, AuthSession!sessionVars
  <2>1. CASE AuthSession!Returns(c) /\ auth_cached' \in {auth_cached, auth_call[c].op = "exchange"
           \/ auth_cached}
    <3>1. (auth_call[c].op = "exchange" \/ auth_cached) \in BOOLEAN
      OBVIOUS
    <3>2. auth_cached' \in BOOLEAN
      BY <1>0, <2>1, <3>1
    <3> QED BY <1>0, <1>1, <1>2, <2>0, <2>1, <3>2, ReturnsKeeps
  <2>2. ASSUME auth_kind = "zitadel", UNCHANGED <<auth_lock, auth_cached>>, NEW pc \in {"use", "ready"},
               auth_call' = [auth_call EXCEPT ![c] = [@ EXCEPT !.attempt = 2, !.pc = pc]]
        PROVE  SessionInv'
    <3> DEFINE r == [auth_call[c] EXCEPT !.attempt = 2, !.pc = pc]
    <3>1. r \in SessionCall /\ r.pc = pc
      <4>1. pc \in SessionPcs
        BY DEF SessionPcs
      <4> QED BY <1>0, <4>1, AttemptField
    <3>2. auth_call' = [auth_call EXCEPT ![c] = r]
      BY <2>2
    <3> HIDE DEF r
    <3> QED BY <1>3, <2>0, <2>2, <3>1, <3>2
  <2> QED BY <1>4, <2>1, <2>2 DEF AuthSession!Succeeds
<1>5. CASE AuthSession!Unauthorized(c)
  <2>0. UNCHANGED auth_cached
    BY <1>5 DEF AuthSession!Unauthorized
  <2>1. CASE /\ auth_kind = "zitadel" /\ UNCHANGED <<auth_lock, auth_terminal>>
             /\ auth_call' = [auth_call EXCEPT ![c] = [@ EXCEPT !.pc = "ready", !.force = TRUE]]
    <3> DEFINE r == [auth_call[c] EXCEPT !.pc = "ready", !.force = TRUE]
    <3>1. r \in SessionCall /\ r.pc = "ready"
      BY <1>0, ForceField DEF SessionPcs
    <3>2. auth_call' = [auth_call EXCEPT ![c] = r]
      BY <2>1
    <3> HIDE DEF r
    <3> QED BY <1>3, <2>0, <2>1, <3>1, <3>2
  <2>2. CASE /\ auth_kind = "user" /\ UNCHANGED <<auth_lock, auth_terminal>>
             /\ auth_call' = [auth_call EXCEPT ![c] = [@ EXCEPT !.pc = "submit", !.used = TRUE]]
    <3> DEFINE r == [auth_call[c] EXCEPT !.pc = "submit", !.used = TRUE]
    <3>1. r \in SessionCall /\ r.pc = "submit"
      BY <1>0, UsedField DEF SessionPcs
    <3>2. auth_call' = [auth_call EXCEPT ![c] = r]
      BY <2>2
    <3> HIDE DEF r
    <3> QED BY <1>3, <2>0, <2>2, <3>1, <3>2
  <2>3. CASE AuthSession!Returns(c)
           /\ auth_terminal' = IF auth_kind = "zitadel" THEN "login" ELSE auth_terminal
    BY <1>0, <1>1, <1>2, <2>0, <2>3, ReturnsKeeps
  <2> QED BY <1>5, <2>1, <2>2, <2>3 DEF AuthSession!Unauthorized
<1> QED BY <1>4, <1>5

-----------------------------------------------------------------------------
(* A refresh inside the operation of a user session *)

LEMMA UserKeeps ==
    ASSUME AuthSession!SessionConstants, SessionInv, NEW c \in auth_Callers,
         AuthSession!UserSubmits(c) \/ AuthSession!UserAnswered(c)
    PROVE  SessionInv'
<1>0. auth_call[c] \in SessionCall /\ auth_call \in [auth_Callers -> SessionCall] /\ auth_cached \in BOOLEAN /\ auth_lost \in BOOLEAN
      /\ auth_reused \in BOOLEAN
      /\ auth_issued \in 1..auth_MaxToken /\ auth_held \in 1..auth_issued /\ auth_store \in 1..auth_held
  BY DEF SessionInv, SessionType
<1>1. auth_call[c].pc \in {"submit", "answer"}
  BY DEF AuthSession!UserSubmits, AuthSession!UserAnswered, AuthSession!At
<1>2. /\ auth_lock = c /\ auth_kind = "user" /\ auth_worker.step = "none" /\ auth_closing # "done"
      /\ \A d \in auth_Callers : d # c => auth_call[d].pc \notin Locked
  <2>1. auth_lock = c /\ auth_closing # "done"
    BY <1>1 DEF SessionInv, LockInv, Locked
  <2>2. auth_kind = "user" /\ auth_worker.step = "none"
    BY <1>1 DEF SessionInv, WorkerInv, SessionType
  <2> QED BY <2>1, <2>2, Alone
<1>3. UNCHANGED <<auth_kind, auth_unsaved, auth_terminal, auth_store, auth_expiring, auth_worker,
         auth_cached, auth_closed, auth_closing>>
  BY DEF AuthSession!UserSubmits, AuthSession!UserAnswered, AuthSession!sessionVars,
         AuthSession!closeVars
<1>4. CASE AuthSession!UserSubmits(c)
  <2>0. auth_call[c].pc = "submit" /\ UNCHANGED <<auth_held, auth_lost>>
    BY <1>4 DEF AuthSession!UserSubmits, AuthSession!At, AuthSession!sessionVars
  <2>1. CASE AuthSession!Returns(c) /\ UNCHANGED <<auth_issued, auth_reused>>
    BY <1>0, <1>2, <1>3, <2>0, <2>1, ReturnsKeeps
  <2>2. CASE AuthSession!Bounded /\ AuthSession!Submit /\ AuthSession!Moves(c, "answer")
           /\ UNCHANGED auth_lock
    <3> DEFINE r == [auth_call[c] EXCEPT !.pc = "answer"]
    <3>1. r \in SessionCall /\ r.pc = "answer"
      BY <1>0, PcField DEF SessionPcs
    <3>2. auth_call' = [auth_call EXCEPT ![c] = r]
      BY <2>2 DEF AuthSession!Moves
    <3>3. auth_call' \in [auth_Callers -> SessionCall] /\ auth_call'[c].pc = "answer"
          /\ \A d \in auth_Callers : d # c => auth_call'[d] = auth_call[d]
      <4> HIDE DEF r
      <4> QED BY <1>0, <3>1, <3>2, OneCallMoves
    <3>4. auth_issued' \in 1..auth_MaxToken /\ auth_held \in 1..auth_issued'
      BY <1>0, <2>2 DEF AuthSession!Bounded, AuthSession!Submit, AuthSession!SessionConstants
    <3>5. auth_reused' = (auth_reused \/ auth_held # auth_issued)
      BY <2>2 DEF AuthSession!Submit
    <3>6. auth_reused' \in BOOLEAN
      BY <3>5
    <3>7. SessionType'
      BY <1>0, <1>3, <2>0, <2>2, <3>3, <3>4, <3>6 DEF SessionInv, SessionType
    <3>8. LockInv'
      BY <1>2, <1>3, <2>2, <3>3 DEF SessionInv, LockInv, AuthSession!SessionConstants
    <3>9. WorkerInv'
      BY <1>2, <1>3, <3>3 DEF SessionInv, WorkerInv
    <3>10. auth_held # auth_issued => auth_lost
      BY <1>2, <2>0 DEF SessionInv, TokenInv, Locked
    <3>11. auth_reused' => auth_lost'
      BY <2>0, <3>5, <3>10 DEF SessionInv, TokenInv
    <3>12. TokenInv'
      BY <1>2, <1>3, <2>0, <3>3, <3>11 DEF TokenInv
    <3>13. SaveInv'
      BY <1>2, <1>3 DEF SaveInv
    <3> QED BY <3>7, <3>8, <3>9, <3>12, <3>13 DEF SessionInv
  <2> QED BY <1>4, <2>1, <2>2 DEF AuthSession!UserSubmits
<1>5. CASE AuthSession!UserAnswered(c)
  <2>0. auth_call[c].pc = "answer" /\ UNCHANGED <<auth_issued, auth_reused>>
    BY <1>5 DEF AuthSession!UserAnswered, AuthSession!At
  <2>1. CASE auth_held' = auth_issued /\ AuthSession!Returns(c) /\ UNCHANGED auth_lost
    BY <1>0, <1>2, <1>3, <2>0, <2>1, ReturnsKeeps
  <2>2. CASE AuthSession!Returns(c) /\ auth_lost' = TRUE /\ UNCHANGED auth_held
    <3>1. auth_lost' \in BOOLEAN /\ auth_lost'
      BY <2>2
    <3> QED BY <1>0, <1>2, <1>3, <2>0, <2>2, <3>1, ReturnsKeeps
  <2>3. CASE auth_held' = auth_issued /\ AuthSession!Moves(c, "use")
           /\ UNCHANGED <<auth_lock, auth_lost>>
    <3> DEFINE r == [auth_call[c] EXCEPT !.pc = "use"]
    <3>1. r \in SessionCall /\ r.pc = "use"
      BY <1>0, PcField DEF SessionPcs
    <3>2. auth_call' = [auth_call EXCEPT ![c] = r]
      BY <2>3 DEF AuthSession!Moves
    <3>3. auth_call' \in [auth_Callers -> SessionCall] /\ auth_call'[c].pc = "use"
          /\ \A d \in auth_Callers : d # c => auth_call'[d] = auth_call[d]
      <4> HIDE DEF r
      <4> QED BY <1>0, <3>1, <3>2, OneCallMoves
    <3>4. auth_held' \in 1..auth_issued /\ auth_store \in 1..auth_held'
      BY <1>0, <2>3
    <3>5. SessionType'
      BY <1>0, <1>3, <2>0, <2>3, <3>3, <3>4 DEF SessionInv, SessionType
    <3>6. LockInv'
      BY <1>2, <1>3, <2>3, <3>3 DEF SessionInv, LockInv, AuthSession!SessionConstants
    <3>7. WorkerInv'
      BY <1>2, <1>3, <3>3 DEF SessionInv, WorkerInv
    <3>8. TokenInv'
      BY <1>2, <1>3, <2>0, <2>3 DEF SessionInv, TokenInv
    <3>9. SaveInv'
      BY <1>2, <1>3 DEF SaveInv
    <3> QED BY <3>5, <3>6, <3>7, <3>8, <3>9 DEF SessionInv
  <2> QED BY <1>5, <2>1, <2>2, <2>3 DEF AuthSession!UserAnswered
<1> QED BY <1>4, <1>5

-----------------------------------------------------------------------------
(* The worker *)

LEMMA WorkerStepKeeps ==
    ASSUME AuthSession!SessionConstants, SessionInv, AuthSession!WorkerStep
    PROVE  SessionInv'
<1>0. /\ auth_worker \in WorkerType /\ auth_call \in [auth_Callers -> SessionCall]
      /\ auth_unsaved \in BOOLEAN /\ auth_lost \in BOOLEAN
      /\ auth_expiring \in BOOLEAN /\ auth_terminal \in {"no", "login", "configuration"}
      /\ auth_issued \in 1..auth_MaxToken /\ auth_held \in 1..auth_issued
      /\ auth_store \in 1..auth_held /\ auth_worker.step \in WorkerSteps
  BY DEF SessionInv, SessionType, WorkerType
<1>1. auth_worker.step \notin {"none", "done"}
  BY DEF AuthSession!WorkerStep, AuthSession!WorkerStarts, AuthSession!WorkerSubmits,
         AuthSession!WorkerAnswered, AuthSession!WorkerChecks, AuthSession!WorkerSaves,
         AuthSession!WorkerFinishes, AuthSession!WorkerDies, AuthSession!WorkerAt
<1>2. /\ auth_kind = "zitadel" /\ ~auth_reused /\ auth_closing # "done"
      /\ \A d \in auth_Callers : auth_call[d].pc \notin Serving
      /\ ~auth_unsaved => auth_store = auth_held
  <2>1. auth_kind = "zitadel"
    BY <1>1 DEF SessionInv, WorkerInv, SessionType
  <2> QED BY <1>1, <2>1 DEF SessionInv, TokenInv, LockInv, WorkerInv, SaveInv
<1>3. UNCHANGED <<auth_kind, auth_call, auth_lock, auth_cached, auth_closed, auth_closing>>
  BY DEF AuthSession!WorkerStep, AuthSession!WorkerStarts, AuthSession!WorkerSubmits,
         AuthSession!WorkerAnswered, AuthSession!WorkerChecks, AuthSession!WorkerSaves,
         AuthSession!WorkerFinishes, AuthSession!WorkerDies, AuthSession!closeVars
<1>4. auth_held # auth_issued => auth_worker.step = "answer" \/ auth_terminal # "no" \/ auth_closed
  BY <1>1, <1>2 DEF SessionInv, TokenInv
<1>5. CASE AuthSession!WorkerStarts \/ AuthSession!WorkerChecks \/ AuthSession!WorkerFinishes
         \/ AuthSession!WorkerDies
  <2>1. UNCHANGED <<auth_issued, auth_held, auth_unsaved, auth_terminal, auth_store, auth_expiring,
           auth_reused>>
    BY <1>5
       DEF AuthSession!WorkerStarts, AuthSession!WorkerChecks, AuthSession!WorkerFinishes,
           AuthSession!WorkerDies, AuthSession!sessionVars, AuthSession!providerVars
  <2>2. auth_lost' \in BOOLEAN /\ (auth_lost => auth_lost')
    <3>1. auth_lost' = auth_lost \/ auth_lost' = (auth_lost \/ AuthSession!WorkerAt("answer"))
      BY <1>5
         DEF AuthSession!WorkerStarts, AuthSession!WorkerChecks, AuthSession!WorkerFinishes,
             AuthSession!WorkerDies, AuthSession!providerVars
    <3> QED BY <1>0, <3>1
  <2>3. /\ auth_worker' \in WorkerType /\ auth_worker'.step \notin {"none", "answer"}
        /\ auth_worker'.step = "submit" => auth_terminal = "no" /\ ~auth_closed
            /\ auth_worker.step = "start"
        /\ auth_worker.step = "answer" => auth_worker'.step = "done" /\ auth_worker'.result = "dead"
    <3>1. CASE AuthSession!WorkerStarts
      BY <1>0, <3>1, WorkerMoves
         DEF AuthSession!WorkerStarts, AuthSession!WorkerAt, AuthSession!Required, WorkerSteps
    <3>2. CASE AuthSession!WorkerChecks
      BY <1>0, <3>2, WorkerMoves DEF AuthSession!WorkerChecks, AuthSession!WorkerAt, WorkerSteps
    <3>3. CASE AuthSession!WorkerFinishes
      BY <1>0, <3>3, WorkerMoves DEF AuthSession!WorkerFinishes, AuthSession!WorkerAt, WorkerSteps
    <3>4. CASE AuthSession!WorkerDies
      BY <1>0, <3>4, WorkerMoves DEF AuthSession!WorkerDies
    <3> QED BY <1>5, <3>1, <3>2, <3>3, <3>4
  <2>4. auth_worker'.step = "submit" => auth_held = auth_issued
    BY <1>4, <2>3
  <2>5. auth_held # auth_issued =>
          (auth_worker'.step = "done" /\ auth_worker'.result = "dead") \/ auth_terminal # "no"
               \/ auth_closed
    BY <1>4, <2>3
  <2>6. auth_expiring' \in BOOLEAN /\ auth_unsaved' \in BOOLEAN /\ (~auth_unsaved'
           => auth_store' = auth_held')
    BY <1>0, <1>2, <2>1
  <2> QED BY <1>0, <1>2, <1>3, <2>1, <2>2, <2>3, <2>4, <2>5, <2>6, WorkerKeeps
<1>6. CASE AuthSession!WorkerSubmits
  <2>0. UNCHANGED <<auth_held, auth_unsaved, auth_store, auth_expiring, auth_lost>>
           /\ auth_worker.step = "submit"
    BY <1>6 DEF AuthSession!WorkerSubmits, AuthSession!WorkerAt
  <2>1. auth_held = auth_issued /\ auth_terminal = "no"
    BY <2>0 DEF SessionInv, TokenInv, WorkerInv
  <2>2. auth_expiring' \in BOOLEAN /\ auth_unsaved' \in BOOLEAN /\ auth_lost' \in BOOLEAN /\ (auth_lost => auth_lost')
        /\ (~auth_unsaved' => auth_store' = auth_held')
    BY <1>0, <1>2, <2>0
  <2>3. CASE AuthSession!Bounded /\ AuthSession!Submit /\ AuthSession!WorkerGoes("answer")
           /\ UNCHANGED auth_terminal
    <3>1. auth_worker' \in WorkerType /\ auth_worker'.step = "answer"
      BY <1>0, <2>3, WorkerMoves DEF WorkerSteps
    <3>2. auth_issued' \in {auth_issued, auth_issued + 1} /\ auth_issued' \in 1..auth_MaxToken
             /\ auth_held \in 1..auth_issued'
      BY <1>0, <2>1, <2>3 DEF AuthSession!Bounded, AuthSession!Submit, AuthSession!SessionConstants
    <3>3. auth_reused' = auth_reused
      <4>1. auth_reused' = (auth_reused \/ auth_held # auth_issued)
        BY <2>3 DEF AuthSession!Submit
      <4>2. auth_reused \in BOOLEAN
        BY DEF SessionInv, SessionType
      <4> QED BY <2>1, <4>1, <4>2
    <3> QED BY <1>0, <1>2, <1>3, <2>0, <2>1, <2>2, <2>3, <3>1, <3>2, <3>3, WorkerKeeps
  <2>4. CASE /\ AuthSession!WorkerEnds("failed") /\ UNCHANGED <<auth_issued, auth_reused>>
             /\ auth_terminal' \in {"no", "login", "configuration"}
    <3>1. auth_worker' \in WorkerType /\ auth_worker'.step = "done"
      BY <1>0, <2>4, WorkerMoves
    <3> QED BY <1>0, <1>2, <1>3, <2>0, <2>1, <2>2, <2>4, <3>1, WorkerKeeps
  <2> QED BY <1>6, <2>3, <2>4 DEF AuthSession!WorkerSubmits
<1>7. CASE AuthSession!WorkerAnswered
  <2>0. UNCHANGED <<auth_store, auth_issued, auth_reused>> /\ auth_worker.step = "answer"
    BY <1>7 DEF AuthSession!WorkerAnswered, AuthSession!WorkerAt
  <2>1. CASE /\ auth_held' = auth_issued /\ auth_unsaved' = TRUE /\ auth_expiring' = FALSE
             /\ AuthSession!WorkerGoes("check") /\ UNCHANGED <<auth_terminal, auth_lost>>
    <3>1. auth_worker' \in WorkerType /\ auth_worker'.step = "check"
      BY <1>0, <2>1, WorkerMoves DEF WorkerSteps
    <3>2. auth_held' \in 1..auth_issued /\ auth_store \in 1..auth_held'
      BY <1>0, <2>1
    <3>3. auth_expiring' \in BOOLEAN /\ auth_unsaved' \in BOOLEAN /\ auth_unsaved'
      BY <2>1
    <3>4. auth_lost' \in BOOLEAN /\ (auth_lost => auth_lost')
      BY <1>0, <2>1
    <3> QED BY <1>0, <1>2, <1>3, <2>0, <2>1, <3>1, <3>2, <3>3, <3>4, WorkerKeeps
  <2>2. CASE /\ AuthSession!WorkerEnds("failed") /\ auth_terminal' = "login" /\ auth_lost' = TRUE
             /\ UNCHANGED <<auth_held, auth_unsaved, auth_expiring>>
    <3>1. auth_worker' \in WorkerType /\ auth_worker'.step = "done"
      BY <1>0, <2>2, WorkerMoves
    <3>2. auth_lost' \in BOOLEAN /\ auth_lost'
      BY <2>2
    <3>3. auth_expiring' \in BOOLEAN /\ auth_unsaved' \in BOOLEAN /\ (~auth_unsaved'
             => auth_store' = auth_held')
      BY <1>0, <1>2, <2>0, <2>2
    <3> QED BY <1>0, <1>2, <1>3, <2>0, <2>2, <3>1, <3>2, <3>3, WorkerKeeps
  <2> QED BY <1>7, <2>1, <2>2 DEF AuthSession!WorkerAnswered, AuthSession!AfterLostAnswer
<1>8. CASE AuthSession!WorkerSaves
  <2>0. UNCHANGED <<auth_held, auth_issued, auth_terminal, auth_expiring, auth_reused, auth_lost>>
           /\ auth_worker.step = "save"
    BY <1>8 DEF AuthSession!WorkerSaves, AuthSession!WorkerAt, AuthSession!providerVars
  <2>1. /\ auth_worker' \in WorkerType /\ auth_worker'.step \in {"end", "done"}
        /\ auth_store' \in {auth_held, auth_store}
        /\ \/ auth_store' = auth_held /\ auth_unsaved' = FALSE
           \/ auth_unsaved' = auth_unsaved
    BY <1>0, <1>8, WorkerMoves DEF AuthSession!WorkerSaves, AuthSession!Saved, WorkerSteps
  <2>2. auth_unsaved' \in BOOLEAN /\ (~auth_unsaved' => auth_store' = auth_held)
           /\ auth_store' \in 1..auth_held
    <3>1. auth_store' \in 1..auth_held
      BY <1>0, <2>1
    <3>2. CASE auth_store' = auth_held /\ auth_unsaved' = FALSE
      BY <3>1, <3>2, Zenon
    <3>3. CASE auth_unsaved' = auth_unsaved
      <4>1. ~auth_unsaved => auth_store' = auth_held
        BY <1>2, <2>1
      <4> QED BY <1>0, <3>1, <3>3, <4>1, Zenon
    <3> QED BY <2>1, <3>2, <3>3
  <2>3. auth_expiring' \in BOOLEAN /\ auth_lost' \in BOOLEAN /\ (auth_lost => auth_lost')
    BY <1>0, <2>0
  <2> QED BY <1>0, <1>2, <1>3, <1>4, <2>0, <2>1, <2>2, <2>3, WorkerKeeps
<1> QED BY <1>5, <1>6, <1>7, <1>8 DEF AuthSession!WorkerStep

-----------------------------------------------------------------------------
(* close *)

LEMMA SessionCloseKeeps ==
    ASSUME AuthSession!SessionConstants, SessionInv, AuthSession!TimePasses \/ AuthSession!Close
         \/ AuthSession!CloseDropped \/ AuthSession!CloseLocks \/ AuthSession!CloseReturns
    PROVE  SessionInv'
<1>0. UNCHANGED <<auth_kind, auth_issued, auth_held, auth_unsaved, auth_terminal, auth_store,
         auth_call, auth_reused, auth_lost>>
  BY DEF AuthSession!TimePasses, AuthSession!Close, AuthSession!CloseDropped, AuthSession!CloseLocks,
         AuthSession!CloseReturns, AuthSession!sessionVars, AuthSession!providerVars,
         AuthSession!closeVars
<1>1. auth_worker' \in WorkerType /\ (auth_worker' = auth_worker \/ (auth_worker'.step = "none"
         /\ auth_closed))
  <2>1. auth_worker' = auth_worker \/ (auth_worker' = AuthSession!NoWorker /\ auth_closing = "drain")
    BY DEF AuthSession!TimePasses, AuthSession!Close, AuthSession!CloseDropped, AuthSession!CloseLocks,
           AuthSession!CloseReturns
  <2>2. auth_closing = "drain" => auth_closed
    BY DEF SessionInv, LockInv
  <2> QED BY <2>1, <2>2, NoWorkerType DEF SessionInv, SessionType
<1>2. auth_expiring' \in BOOLEAN /\ auth_cached' \in BOOLEAN /\ auth_closed' \in BOOLEAN
         /\ (auth_closed => auth_closed')
  <2>1. auth_expiring' \in {TRUE, auth_expiring} /\ auth_cached' \in {FALSE, auth_cached}
           /\ auth_closed' \in {TRUE, auth_closed}
    BY DEF AuthSession!TimePasses, AuthSession!Close, AuthSession!CloseDropped, AuthSession!CloseLocks,
           AuthSession!CloseReturns, AuthSession!closeVars
  <2>2. auth_expiring \in BOOLEAN /\ auth_cached \in BOOLEAN /\ auth_closed \in BOOLEAN
    BY DEF SessionInv, SessionType
  <2> QED BY <2>1, <2>2
<1>3. auth_lock' \in auth_Callers \cup {AuthSession!Free, "close"}
         /\ auth_closing' \in {"no", "wait", "drain", "done"}
  BY DEF AuthSession!TimePasses, AuthSession!Close, AuthSession!CloseDropped, AuthSession!CloseLocks,
         AuthSession!CloseReturns, SessionInv, SessionType, AuthSession!closeVars
<1>4. SessionType'
  BY <1>0, <1>1, <1>2, <1>3 DEF SessionInv, SessionType
<1>5. LockInv'
  <2>1. CASE AuthSession!TimePasses
    BY <1>0, <2>1 DEF AuthSession!TimePasses, SessionInv, LockInv, AuthSession!closeVars
  <2>2. CASE AuthSession!Close
    BY <1>0, <2>2 DEF AuthSession!Close, SessionInv, LockInv
  <2>3. CASE AuthSession!CloseDropped
    <3>1. \A c \in auth_Callers : auth_lock = c => auth_lock' = c
      BY <2>3 DEF AuthSession!CloseDropped, AuthSession!SessionConstants
    <3> QED BY <1>0, <2>3, <3>1 DEF AuthSession!CloseDropped, SessionInv, LockInv
  <2>4. CASE AuthSession!CloseLocks
    <3>1. \A c \in auth_Callers : auth_call[c].pc \notin Locked
      BY <2>4 DEF AuthSession!CloseLocks, SessionInv, LockInv, AuthSession!SessionConstants
    <3>2. auth_closed
      BY <2>4 DEF AuthSession!CloseLocks, SessionInv, LockInv
    <3> QED BY <1>0, <2>4, <3>1, <3>2 DEF AuthSession!CloseLocks, LockInv
  <2>5. CASE AuthSession!CloseReturns
    <3>1. auth_closed /\ \A c \in auth_Callers : auth_call[c].pc \notin Locked
      BY <2>5 DEF AuthSession!CloseReturns, SessionInv, LockInv, AuthSession!SessionConstants
    <3>2. auth_worker'.step = "none"
      BY <2>5, NoWorkerType DEF AuthSession!CloseReturns, AuthSession!Drained
    <3> QED BY <1>0, <2>5, <3>1, <3>2 DEF AuthSession!CloseReturns, LockInv
  <2> QED BY <2>1, <2>2, <2>3, <2>4, <2>5
<1>6. WorkerInv'
  BY <1>0, <1>1 DEF SessionInv, WorkerInv
<1>7. TokenInv'
  BY <1>0, <1>1, <1>2 DEF SessionInv, TokenInv
<1>8. SaveInv'
  BY <1>0 DEF SessionInv, SaveInv
<1> QED BY <1>4, <1>5, <1>6, <1>7, <1>8 DEF SessionInv

LEMMA SessionNextKeeps ==
    ASSUME AuthSession!SessionConstants, SessionInv, [AuthSession!Next]_(AuthSession!vars)
    PROVE  SessionInv'
<1>1. CASE \E c \in auth_Callers : AuthSession!Begin(c) \/ AuthSession!CallStep(c)
         \/ AuthSession!Leave(c)
  BY <1>1, BeginKeeps, ReadyKeeps, PlainReturns, UseKeeps, UserKeeps DEF AuthSession!CallStep
<1>2. CASE AuthSession!WorkerStep
  BY <1>2, WorkerStepKeeps
<1>3. CASE AuthSession!TimePasses \/ AuthSession!Close \/ AuthSession!CloseDropped
         \/ AuthSession!CloseLocks \/ AuthSession!CloseReturns
  BY <1>3, SessionCloseKeeps
<1>4. CASE UNCHANGED AuthSession!vars
  BY <1>4 DEF AuthSession!vars, SessionInv, SessionType, LockInv, WorkerInv, TokenInv, SaveInv
<1> QED BY <1>1, <1>2, <1>3, <1>4 DEF AuthSession!Next

-----------------------------------------------------------------------------
(* The theorems *)

\* client.rs and zitadel_session.rs keep their types: what is saved is no newer than
\* what is held, and that no newer than what was issued.
THEOREM SessionTypeCorrect ==
    ASSUME AuthSession!SessionConstants
    PROVE  AuthSession!Spec => []AuthSession!TypeOK
<1>1. AuthSession!Init => SessionInv
  BY InitSession
<1>2. SessionInv /\ [AuthSession!Next]_(AuthSession!vars) => SessionInv'
  BY SessionNextKeeps
<1>3. SessionInv => AuthSession!TypeOK
  <2> SUFFICES ASSUME SessionInv PROVE AuthSession!TypeOK
    OBVIOUS
  <2>1. auth_worker.step \in WorkerSteps /\ auth_worker.result \in {"none", "ok", "failed", "dead"}
    BY DEF SessionInv, SessionType, WorkerType
  <2>2. \A c \in auth_Callers : auth_call[c].pc \in SessionPcs
    BY DEF SessionInv, SessionType, SessionCall
  <2> QED BY <2>1, <2>2 DEF SessionInv, SessionType, AuthSession!TypeOK, WorkerSteps, SessionPcs
<1> QED BY <1>1, <1>2, <1>3, PTL DEF AuthSession!Spec

\* refresh: a consumed refresh token is not submitted again, except by a user session
\* whose answer was lost with its caller.
THEOREM TokensAreConsumedOnce ==
    ASSUME AuthSession!SessionConstants
    PROVE  AuthSession!Spec => []AuthSession!ConsumedNeverReused
<1>1. AuthSession!Init => SessionInv
  BY InitSession
<1>2. SessionInv /\ [AuthSession!Next]_(AuthSession!vars) => SessionInv'
  BY SessionNextKeeps
<1>3. SessionInv => AuthSession!ConsumedNeverReused
  BY DEF SessionInv, TokenInv, AuthSession!ConsumedNeverReused
<1> QED BY <1>1, <1>2, <1>3, PTL DEF AuthSession!Spec

\* ready: no operation uses a session whose rotated token the host has not saved.
THEOREM SavedBeforeUse ==
    ASSUME AuthSession!SessionConstants
    PROVE  AuthSession!Spec => []AuthSession!UsedIsSaved
<1>1. AuthSession!Init => SessionInv
  BY InitSession
<1>2. SessionInv /\ [AuthSession!Next]_(AuthSession!vars) => SessionInv'
  BY SessionNextKeeps
<1>3. SessionInv => AuthSession!UsedIsSaved
  BY DEF SessionInv, SaveInv, AuthSession!UsedIsSaved
<1> QED BY <1>1, <1>2, <1>3, PTL DEF AuthSession!Spec

\* close: once it has returned, nothing is saved and nothing submitted.
THEOREM NothingAfterClose ==
    ASSUME AuthSession!SessionConstants
    PROVE  AuthSession!Spec => AuthSession!ClosedIsSilent
<1>1. AuthSession!Init => SessionInv
  BY InitSession
<1>2. SessionInv /\ [AuthSession!Next]_(AuthSession!vars) => SessionInv'
  BY SessionNextKeeps
<1>3. SessionInv /\ [AuthSession!Next]_(AuthSession!vars) =>
        [auth_closing = "done" => auth_store' = auth_store /\ auth_issued' = auth_issued
             /\ ~AuthSession!WorkerSends]_(AuthSession!vars)
  <2> SUFFICES ASSUME SessionInv, AuthSession!Next, auth_closing = "done"
               PROVE  auth_store' = auth_store /\ auth_issued' = auth_issued /\ ~AuthSession!WorkerSends
    OBVIOUS
  <2>1. auth_worker.step = "none" /\ \A c \in auth_Callers : auth_call[c].pc \notin Locked
    BY DEF SessionInv, LockInv
  <2>0. ~AuthSession!WorkerSends
    BY <2>1, OnlySubmitsSends
       DEF AuthSession!WorkerSubmits, AuthSession!WorkerAt, SessionInv, SessionType
  <2>2. CASE \E c \in auth_Callers : AuthSession!Begin(c) \/ AuthSession!CallStep(c)
           \/ AuthSession!Leave(c)
    BY <2>0, <2>1, <2>2
       DEF AuthSession!Begin, AuthSession!CallStep, AuthSession!Leave, AuthSession!Lock,
           AuthSession!Join, AuthSession!Ready, AuthSession!Hit, AuthSession!Succeeds,
           AuthSession!Fails, AuthSession!Unauthorized,
                      AuthSession!UserSubmits, AuthSession!UserAnswered, AuthSession!At, Locked,
                           AuthSession!sessionVars, AuthSession!providerVars
  <2>3. CASE AuthSession!WorkerStep
    BY <2>0, <2>1, <2>3
       DEF AuthSession!WorkerStep, AuthSession!WorkerStarts, AuthSession!WorkerSubmits,
           AuthSession!WorkerAnswered, AuthSession!WorkerChecks, AuthSession!WorkerSaves,
                      AuthSession!WorkerFinishes, AuthSession!WorkerDies, AuthSession!WorkerAt
  <2>4. CASE AuthSession!TimePasses \/ AuthSession!Close \/ AuthSession!CloseDropped
           \/ AuthSession!CloseLocks \/ AuthSession!CloseReturns
    BY <2>0, <2>4
       DEF AuthSession!TimePasses, AuthSession!Close, AuthSession!CloseDropped, AuthSession!CloseLocks,
           AuthSession!CloseReturns, AuthSession!sessionVars, AuthSession!providerVars
  <2> QED BY <2>0, <2>2, <2>3, <2>4 DEF AuthSession!Next
<1> QED BY <1>1, <1>2, <1>3, PTL DEF AuthSession!Spec, AuthSession!ClosedIsSilent

\* require_login: a session that needs a login never recovers, nor submits a token.
THEOREM LoginIsForGood ==
    ASSUME AuthSession!SessionConstants
    PROVE  AuthSession!Spec => AuthSession!LoginStaysRequired
<1>1. AuthSession!Init => SessionInv
  BY InitSession
<1>2. SessionInv /\ [AuthSession!Next]_(AuthSession!vars) => SessionInv'
  BY SessionNextKeeps
<1>3. SessionInv /\ [AuthSession!Next]_(AuthSession!vars) =>
        [auth_terminal = "login" => auth_terminal' = "login" /\ auth_issued' = auth_issued /\ auth_reused' = auth_reused
                               /\ ~AuthSession!WorkerSends]_(AuthSession!vars)
  <2> SUFFICES ASSUME SessionInv, AuthSession!Next, auth_terminal = "login"
               PROVE  auth_terminal' = "login" /\ auth_issued' = auth_issued
                    /\ auth_reused' = auth_reused /\ ~AuthSession!WorkerSends
    OBVIOUS
  <2>1. auth_worker.step \notin {"submit", "answer"}
    BY DEF SessionInv, WorkerInv
  <2>0. ~AuthSession!WorkerSends
    BY <2>1, OnlySubmitsSends
       DEF AuthSession!WorkerSubmits, AuthSession!WorkerAt, SessionInv, SessionType
  <2>2. auth_kind = "zitadel" /\ \A c \in auth_Callers : auth_call[c].pc \notin {"submit", "answer"}
    BY DEF SessionInv, WorkerInv, SessionType
  <2>3. CASE \E c \in auth_Callers : AuthSession!Begin(c) \/ AuthSession!CallStep(c)
           \/ AuthSession!Leave(c)
    BY <2>0, <2>2, <2>3
       DEF AuthSession!Begin, AuthSession!CallStep, AuthSession!Leave, AuthSession!Lock,
           AuthSession!Join, AuthSession!Ready, AuthSession!Hit, AuthSession!Succeeds,
           AuthSession!Fails, AuthSession!Unauthorized,
                      AuthSession!UserSubmits, AuthSession!UserAnswered, AuthSession!At,
                           AuthSession!sessionVars, AuthSession!providerVars
  <2>4. CASE AuthSession!WorkerStep
    BY <2>0, <2>1, <2>4
       DEF AuthSession!WorkerStep, AuthSession!WorkerStarts, AuthSession!WorkerSubmits,
           AuthSession!WorkerAnswered, AuthSession!WorkerChecks, AuthSession!WorkerSaves,
                      AuthSession!WorkerFinishes, AuthSession!WorkerDies, AuthSession!WorkerAt,
                           AuthSession!sessionVars, AuthSession!providerVars
  <2>5. CASE AuthSession!TimePasses \/ AuthSession!Close \/ AuthSession!CloseDropped
           \/ AuthSession!CloseLocks \/ AuthSession!CloseReturns
    BY <2>0, <2>5
       DEF AuthSession!TimePasses, AuthSession!Close, AuthSession!CloseDropped, AuthSession!CloseLocks,
           AuthSession!CloseReturns, AuthSession!sessionVars, AuthSession!providerVars
  <2> QED BY <2>0, <2>3, <2>4, <2>5 DEF AuthSession!Next
<1> QED BY <1>1, <1>2, <1>3, PTL DEF AuthSession!Spec, AuthSession!LoginStaysRequired

-----------------------------------------------------------------------------
(* The supervisor of a peer's authority, for any hosts, readers and        *)
(* refreshers and any number of credentials.                               *)

UpdatePcs == {"idle", "locking", "keys", "credential", "commit", "send", "clear"}
UpdateType == [pc : UpdatePcs, cred : 0..sup_MaxCred]
ReadType == [pc : {"idle", "held", "ok"}, revision : 0..sup_MaxCred, cred : 0..sup_MaxCred]
RefreshType == [pc : {"idle", "first", "second", "waiting", "ok"}, rejected : 0..sup_MaxCred]
CurrentType == [revision : 1..sup_MaxCred, cred : AuthoritySupervisor!Credentials, available : BOOLEAN]

\* TypeOK, with every record of the state
SupervisorType ==
    /\ sup_now \in 0..sup_MaxCred
    /\ sup_stopped \in BOOLEAN /\ sup_cancelled \in BOOLEAN
    /\ sup_current \in CurrentType
    /\ sup_installed \in AuthoritySupervisor!Credentials
    /\ sup_status \in AuthoritySupervisor!Statuses /\ sup_sending \subseteq 1..sup_MaxCred
    /\ sup_updateLock \in AuthoritySupervisor!Updaters \cup {AuthoritySupervisor!Nobody}
    /\ sup_refreshLock \in sup_Refreshers \cup {AuthoritySupervisor!Nobody}
    /\ sup_update \in [AuthoritySupervisor!Updaters -> UpdateType]
    /\ sup_read \in [sup_Readers -> ReadType]
    /\ sup_refresh \in [sup_Refreshers -> RefreshType]
    /\ sup_request \in AuthoritySupervisor!Revisions

\* Where an updater holds update_lock
Inside == {"keys", "credential", "commit", "send", "clear"}

\* update_lock: whoever is inside holds it, so at most one is.  Between the transport
\* and the state an update is newer than the state, which a stop leaves behind.
UpdateInv ==
    /\ \A u \in AuthoritySupervisor!Updaters : sup_update[u].pc \in Inside => sup_updateLock = u
    /\ \A u \in AuthoritySupervisor!Updaters : sup_update[u].pc = "commit" =>
          sup_installed = sup_update[u].cred /\ (AuthoritySupervisor!IsStopped
               \/ sup_update[u].cred > sup_current.cred)
    /\ AuthoritySupervisor!IsStopped \/ sup_installed = sup_current.cred
        \/ \E u \in AuthoritySupervisor!Updaters : sup_update[u].pc = "commit"
    /\ sup_current.revision <= sup_current.cred
    /\ sup_current.available => ~sup_stopped

\* What was read or promised is no newer than the state
RevisionInv ==
    /\ sup_status.kind = "ready" => sup_status.revision <= sup_current.revision
    /\ \A f \in sup_Refreshers : sup_refresh[f].pc = "ok"
        => sup_current.revision > sup_refresh[f].rejected
    /\ \A r \in sup_Readers :
          sup_read[r].pc = "held" =>
              /\ sup_read[r].revision <= sup_current.revision
              /\ sup_read[r].revision = sup_current.revision => sup_read[r].cred = sup_current.cred

-----------------------------------------------------------------------------
(* What a step may change *)

\* Only Commit gives the state a new credential, and it is a newer revision
Commits == \E u \in AuthoritySupervisor!Updaters : AuthoritySupervisor!Commit(u)
     /\ ~AuthoritySupervisor!IsStopped
SupervisorKeeps == sup_current'.revision = sup_current.revision /\ sup_current'.cred = sup_current.cred

LEMMA TypesOfRecords ==
    ASSUME AuthoritySupervisor!SupervisorConstants
    PROVE  /\ AuthoritySupervisor!Idle \in UpdateType
           /\ \A c \in 0..sup_MaxCred : [pc |-> "locking", cred |-> c] \in UpdateType
           /\ \A n, c \in 0..sup_MaxCred : [pc |-> "held", revision |-> n, cred |-> c] \in ReadType
           /\ \A p \in {"idle", "ok"} : [pc |-> p, revision |-> 0, cred |-> 0] \in ReadType
           /\ \A p \in {"idle", "first", "second", "waiting", "ok"}, n \in 0..sup_MaxCred :
                [pc |-> p, rejected |-> n] \in RefreshType
BY DEF AuthoritySupervisor!SupervisorConstants, AuthoritySupervisor!Idle, UpdateType, UpdatePcs,
       ReadType, RefreshType

LEMMA StateIsNatural ==
    ASSUME AuthoritySupervisor!SupervisorConstants, SupervisorType
    PROVE  /\ sup_current.revision \in 1..sup_MaxCred /\ sup_current.cred \in 1..sup_MaxCred
           /\ sup_current.available \in BOOLEAN
           /\ 1..sup_MaxCred \subseteq 0..sup_MaxCred /\ sup_MaxCred \in Nat /\ sup_MaxCred >= 1
           /\ \A u \in AuthoritySupervisor!Updaters : sup_update[u].pc \in UpdatePcs
               /\ sup_update[u].cred \in 0..sup_MaxCred
           /\ \A f \in sup_Refreshers : sup_refresh[f].rejected \in 0..sup_MaxCred
           /\ \A r \in sup_Readers : sup_read[r].revision \in 0..sup_MaxCred
               /\ sup_read[r].cred \in 0..sup_MaxCred
BY DEF AuthoritySupervisor!SupervisorConstants, SupervisorType, CurrentType,
       AuthoritySupervisor!Credentials, UpdateType, RefreshType, ReadType

LEMMA InitSupervisor ==
    ASSUME AuthoritySupervisor!SupervisorConstants, AuthoritySupervisor!Init
    PROVE  SupervisorType /\ UpdateInv /\ RevisionInv
<1>0. sup_MaxCred \in Nat /\ sup_MaxCred >= 1 /\ 0 \in 0..sup_MaxCred /\ 1 \in 1..sup_MaxCred
  BY DEF AuthoritySupervisor!SupervisorConstants
<1>1. sup_current \in CurrentType
  BY <1>0 DEF AuthoritySupervisor!Init, CurrentType, AuthoritySupervisor!Credentials
<1>2. sup_update \in [AuthoritySupervisor!Updaters -> UpdateType] /\ sup_read \in [sup_Readers -> ReadType]
      /\ sup_refresh \in [sup_Refreshers -> RefreshType]
  BY <1>0, TypesOfRecords DEF AuthoritySupervisor!Init
<1>3. sup_status \in AuthoritySupervisor!Statuses
  BY <1>0 DEF AuthoritySupervisor!Init, AuthoritySupervisor!Statuses
<1>4. SupervisorType
  BY <1>0, <1>1, <1>2, <1>3
     DEF AuthoritySupervisor!Init, SupervisorType, AuthoritySupervisor!Credentials,
         AuthoritySupervisor!Revisions
<1>5. UpdateInv
  BY DEF AuthoritySupervisor!Init, UpdateInv, AuthoritySupervisor!Idle, Inside
<1>6. RevisionInv
  BY DEF AuthoritySupervisor!Init, RevisionInv, AuthoritySupervisor!Status
<1> QED BY <1>4, <1>5, <1>6

-----------------------------------------------------------------------------
(* apply_update *)

\* Ending an update, for whatever reason, when nobody is inside but perhaps oneself
\* and the state agrees with the transport or the supervisor stopped
LEMMA EndingKeeps ==
    ASSUME AuthoritySupervisor!SupervisorConstants, SupervisorType, UpdateInv, NEW u \in AuthoritySupervisor!Updaters,
           AuthoritySupervisor!EndUpdate(u), sup_updateLock \in {u, AuthoritySupervisor!Nobody},
           UNCHANGED <<sup_stopped, sup_cancelled, sup_current, sup_installed>>,
           sup_update[u].pc = "commit" => AuthoritySupervisor!IsStopped
    PROVE  /\ sup_update' \in [AuthoritySupervisor!Updaters -> UpdateType] /\ sup_updateLock' \in AuthoritySupervisor!Updaters \cup {AuthoritySupervisor!Nobody}
           /\ UpdateInv'
<1>1. AuthoritySupervisor!Nobody \notin AuthoritySupervisor!Updaters
  BY DEF AuthoritySupervisor!SupervisorConstants, AuthoritySupervisor!Updaters,
         AuthoritySupervisor!Nobody, AuthoritySupervisor!Driver
<1>2. sup_update' = [sup_update EXCEPT ![u] = AuthoritySupervisor!Idle]
         /\ sup_updateLock' = AuthoritySupervisor!Nobody /\ AuthoritySupervisor!Idle \in UpdateType
  BY TypesOfRecords DEF AuthoritySupervisor!EndUpdate
<1>3. \A v \in AuthoritySupervisor!Updaters : v # u => sup_update[v].pc \notin Inside
  BY <1>1 DEF UpdateInv
<1>4. \A v \in AuthoritySupervisor!Updaters : sup_update'[v].pc \notin Inside
  BY <1>2, <1>3 DEF SupervisorType, Inside, AuthoritySupervisor!Idle
<1>5. AuthoritySupervisor!IsStopped \/ sup_installed = sup_current.cred
  BY <1>3 DEF UpdateInv, Inside
<1>6. UpdateInv'
  BY <1>4, <1>5 DEF UpdateInv, Inside, AuthoritySupervisor!IsStopped
<1> QED BY <1>2, <1>6 DEF SupervisorType

\* Going on inside the lock, the transport and the state as they are
LEMMA GoingOnKeeps ==
    ASSUME AuthoritySupervisor!SupervisorConstants, SupervisorType, UpdateInv, NEW u \in AuthoritySupervisor!Updaters, NEW p \in Inside,
           sup_update' = [sup_update EXCEPT ![u].pc = p], sup_updateLock' = u, sup_updateLock \in {u,
                AuthoritySupervisor!Nobody},
           UNCHANGED <<sup_stopped, sup_cancelled, sup_current, sup_installed>>,
           p # "commit", sup_update[u].pc = "commit" => AuthoritySupervisor!IsStopped
    PROVE  /\ sup_update' \in [AuthoritySupervisor!Updaters -> UpdateType] /\ sup_updateLock' \in AuthoritySupervisor!Updaters \cup {AuthoritySupervisor!Nobody}
           /\ UpdateInv'
<1>1. AuthoritySupervisor!Nobody \notin AuthoritySupervisor!Updaters
  BY DEF AuthoritySupervisor!SupervisorConstants, AuthoritySupervisor!Updaters,
         AuthoritySupervisor!Nobody, AuthoritySupervisor!Driver
<1>2. sup_update' \in [AuthoritySupervisor!Updaters -> UpdateType]
  BY DEF SupervisorType, UpdateType, UpdatePcs, Inside
<1>3. \A v \in AuthoritySupervisor!Updaters : v # u => sup_update[v].pc \notin Inside
  BY <1>1 DEF UpdateInv
<1>4. \A v \in AuthoritySupervisor!Updaters : v # u => sup_update'[v] = sup_update[v]
  BY DEF SupervisorType
<1>5. sup_update'[u].pc = p
  BY DEF SupervisorType, UpdateType
<1>6. AuthoritySupervisor!IsStopped \/ sup_installed = sup_current.cred
  BY <1>3 DEF UpdateInv, Inside
<1>7. UpdateInv'
  BY <1>3, <1>4, <1>5, <1>6 DEF UpdateInv, Inside, AuthoritySupervisor!IsStopped
<1> QED BY <1>2, <1>7

LEMMA UpdatesKeep ==
    ASSUME AuthoritySupervisor!SupervisorConstants, SupervisorType, UpdateInv, RevisionInv, NEW u \in AuthoritySupervisor!Updaters,
           AuthoritySupervisor!LockUpdate(u) \/ AuthoritySupervisor!InstallKeys(u)
                \/ AuthoritySupervisor!InstallCredential(u) \/ AuthoritySupervisor!DropUpdate(u)
    PROVE  SupervisorType' /\ UpdateInv' /\ RevisionInv'
<1>0. AuthoritySupervisor!Nobody \notin AuthoritySupervisor!Updaters
  BY DEF AuthoritySupervisor!SupervisorConstants, AuthoritySupervisor!Updaters,
         AuthoritySupervisor!Nobody, AuthoritySupervisor!Driver
<1>1. UNCHANGED <<sup_now, sup_stopped, sup_cancelled, sup_current, sup_status, sup_sending,
         sup_refreshLock, sup_read, sup_refresh, sup_request>>
  BY DEF AuthoritySupervisor!LockUpdate, AuthoritySupervisor!InstallKeys,
         AuthoritySupervisor!InstallCredential, AuthoritySupervisor!DropUpdate,
         AuthoritySupervisor!stateVars, AuthoritySupervisor!statusVars
<1>2. RevisionInv'
  BY <1>1 DEF RevisionInv
<1>3. SUFFICES /\ sup_update' \in [AuthoritySupervisor!Updaters -> UpdateType] /\ sup_updateLock' \in AuthoritySupervisor!Updaters \cup {AuthoritySupervisor!Nobody}
               /\ sup_installed' \in AuthoritySupervisor!Credentials /\ UpdateInv'
  BY <1>1, <1>2 DEF SupervisorType
<1>4. CASE AuthoritySupervisor!LockUpdate(u)
  <2>1. UNCHANGED sup_installed /\ sup_updateLock = AuthoritySupervisor!Nobody
           /\ sup_update[u].pc = "locking"
    BY <1>4 DEF AuthoritySupervisor!LockUpdate, AuthoritySupervisor!stateVars
  <2>2. CASE AuthoritySupervisor!EndUpdate(u)
    BY <1>1, <2>1, <2>2, EndingKeeps DEF SupervisorType
  <2>3. CASE sup_update' = [sup_update EXCEPT ![u].pc = "keys"] /\ sup_updateLock' = u
    BY <1>1, <2>1, <2>3, GoingOnKeeps DEF SupervisorType, Inside
  <2> QED BY <1>4, <2>2, <2>3 DEF AuthoritySupervisor!LockUpdate
<1>5. CASE AuthoritySupervisor!InstallKeys(u)
  <2>1. UNCHANGED sup_installed /\ sup_updateLock = u /\ sup_update[u].pc = "keys"
    BY <1>5 DEF AuthoritySupervisor!InstallKeys, AuthoritySupervisor!stateVars, UpdateInv, Inside
  <2>2. CASE AuthoritySupervisor!EndUpdate(u)
    BY <1>1, <2>1, <2>2, EndingKeeps DEF SupervisorType
  <2>3. CASE sup_update' = [sup_update EXCEPT ![u].pc = "credential"] /\ UNCHANGED sup_updateLock
    BY <1>1, <2>1, <2>3, GoingOnKeeps DEF SupervisorType, Inside
  <2> QED BY <1>5, <2>2, <2>3 DEF AuthoritySupervisor!InstallKeys
<1>6. CASE AuthoritySupervisor!InstallCredential(u)
  <2>1. sup_updateLock = u /\ sup_update[u].pc = "credential"
    BY <1>6 DEF AuthoritySupervisor!InstallCredential, UpdateInv, Inside
  <2>2. CASE AuthoritySupervisor!EndUpdate(u) /\ UNCHANGED sup_installed
    BY <1>1, <2>1, <2>2, EndingKeeps DEF SupervisorType
  <2>3. CASE /\ sup_update[u].cred > sup_installed /\ sup_installed' = sup_update[u].cred
             /\ sup_update' = [sup_update EXCEPT ![u].pc = "commit"] /\ UNCHANGED sup_updateLock
    <3>1. sup_update' \in [AuthoritySupervisor!Updaters -> UpdateType]
      BY <2>3 DEF SupervisorType, UpdateType, UpdatePcs
    <3>2. \A v \in AuthoritySupervisor!Updaters : v # u => sup_update'[v] = sup_update[v]
             /\ sup_update[v].pc \notin Inside
      BY <2>1, <2>3 DEF SupervisorType, UpdateInv
    <3>3. sup_update'[u].pc = "commit" /\ sup_update'[u].cred = sup_update[u].cred
      BY <2>3 DEF SupervisorType, UpdateType
    <3>4. AuthoritySupervisor!IsStopped \/ sup_installed = sup_current.cred
      BY <2>1, <3>2 DEF UpdateInv, Inside
    <3>5. sup_installed' \in AuthoritySupervisor!Credentials
      BY <2>3, StateIsNatural DEF SupervisorType, AuthoritySupervisor!Credentials
    <3>6. UpdateInv'
      BY <1>1, <2>1, <2>3, <3>2, <3>3, <3>4 DEF UpdateInv, Inside, AuthoritySupervisor!IsStopped
    <3> QED BY <2>1, <2>3, <3>1, <3>5, <3>6
  <2> QED BY <1>6, <2>2, <2>3 DEF AuthoritySupervisor!InstallCredential
<1>7. CASE AuthoritySupervisor!DropUpdate(u)
  <2>1. /\ UNCHANGED sup_installed /\ sup_update[u].pc \in {"locking", "keys", "credential"}
        /\ sup_update' = [sup_update EXCEPT ![u] = AuthoritySupervisor!Idle]
        /\ AuthoritySupervisor!Idle \in UpdateType
        /\ sup_updateLock' = IF sup_updateLock = u THEN AuthoritySupervisor!Nobody ELSE sup_updateLock
    BY <1>7, TypesOfRecords DEF AuthoritySupervisor!DropUpdate, AuthoritySupervisor!stateVars
  <2>2. sup_update' \in [AuthoritySupervisor!Updaters -> UpdateType]
           /\ sup_updateLock' \in AuthoritySupervisor!Updaters \cup {AuthoritySupervisor!Nobody}
    BY <2>1 DEF SupervisorType
  <2>3. \A v \in AuthoritySupervisor!Updaters : IF v = u THEN sup_update'[v].pc = "idle" ELSE sup_update'[v] = sup_update[v]
    BY <2>1 DEF SupervisorType, AuthoritySupervisor!Idle
  <2>4. UpdateInv'
    BY <1>1, <2>1, <2>3 DEF UpdateInv, Inside, AuthoritySupervisor!IsStopped
  <2> QED BY <2>1, <2>2, <2>4 DEF SupervisorType
<1> QED BY <1>4, <1>5, <1>6, <1>7

\* A new update waits for the lock
LEMMA ReplaceKeeps ==
    ASSUME AuthoritySupervisor!SupervisorConstants, SupervisorType, UpdateInv, RevisionInv,
           NEW u \in AuthoritySupervisor!Updaters, NEW c \in AuthoritySupervisor!Credentials,
                AuthoritySupervisor!Replace(u, c)
    PROVE  SupervisorType' /\ UpdateInv' /\ RevisionInv'
<1>1. /\ UNCHANGED <<sup_now, sup_stopped, sup_cancelled, sup_current, sup_installed, sup_status, sup_sending, sup_updateLock,
                     sup_refreshLock, sup_read, sup_refresh, sup_request>>
      /\ sup_update' = [sup_update EXCEPT ![u] = [pc |-> "locking", cred |-> c]]
      /\ sup_update[u].pc = "idle"
  BY DEF AuthoritySupervisor!Replace, AuthoritySupervisor!stateVars, AuthoritySupervisor!statusVars,
         AuthoritySupervisor!lockVars
<1>2. [pc |-> "locking", cred |-> c] \in UpdateType
  BY TypesOfRecords, StateIsNatural DEF AuthoritySupervisor!Credentials
<1>3. \A v \in AuthoritySupervisor!Updaters : IF v = u THEN sup_update'[v].pc = "locking" ELSE sup_update'[v] = sup_update[v]
  BY <1>1 DEF SupervisorType
<1>4. SupervisorType'
  BY <1>1, <1>2 DEF SupervisorType
<1>5. UpdateInv'
  BY <1>1, <1>3 DEF UpdateInv, Inside, AuthoritySupervisor!IsStopped
<1> QED BY <1>1, <1>4, <1>5 DEF RevisionInv

\* The state follows the transport: a newer revision, and what was promised before
\* stays true of it
LEMMA CommitKeeps ==
    ASSUME AuthoritySupervisor!SupervisorConstants, SupervisorType, UpdateInv, RevisionInv,
         NEW u \in AuthoritySupervisor!Updaters, AuthoritySupervisor!Commit(u)
    PROVE  SupervisorType' /\ UpdateInv' /\ RevisionInv'
<1>1. UNCHANGED <<sup_now, sup_stopped, sup_cancelled, sup_installed, sup_status, sup_sending,
         sup_refreshLock, sup_read, sup_refresh, sup_request>>
  BY DEF AuthoritySupervisor!Commit, AuthoritySupervisor!statusVars
<1>2. sup_updateLock = u /\ sup_update[u].pc = "commit" /\ sup_installed = sup_update[u].cred
  BY DEF AuthoritySupervisor!Commit, UpdateInv, Inside
<1>3. CASE AuthoritySupervisor!IsStopped
  <2>1. AuthoritySupervisor!EndUpdate(u) /\ UNCHANGED sup_current
    BY <1>3 DEF AuthoritySupervisor!Commit
  <2>2. /\ sup_update' \in [AuthoritySupervisor!Updaters -> UpdateType]
        /\ sup_updateLock' \in AuthoritySupervisor!Updaters \cup {AuthoritySupervisor!Nobody}
        /\ UpdateInv'
    BY <1>1, <1>2, <1>3, <2>1, EndingKeeps
  <2> QED BY <1>1, <2>1, <2>2 DEF SupervisorType, RevisionInv
<1>4. CASE ~AuthoritySupervisor!IsStopped
  <2>1. /\ sup_current' = [revision |-> sup_current.revision + 1, cred |-> sup_update[u].cred,
            available |-> TRUE]
        /\ sup_update' = [sup_update EXCEPT ![u].pc = "send"] /\ UNCHANGED sup_updateLock
    BY <1>4 DEF AuthoritySupervisor!Commit
  <2>2. \A v \in AuthoritySupervisor!Updaters : v # u => sup_update'[v] = sup_update[v]
           /\ sup_update[v].pc \notin Inside
    BY <1>2, <2>1 DEF SupervisorType, UpdateInv
  <2>3. sup_update'[u].pc = "send" /\ sup_update'[u].cred = sup_update[u].cred
    BY <2>1 DEF SupervisorType, UpdateType
  <2>4. sup_current.revision + 1 <= sup_update[u].cred
    <3>1. sup_current.revision >= 1 /\ sup_current.revision <= sup_current.cred
      BY StateIsNatural DEF UpdateInv
    <3>2. sup_update[u].cred > sup_current.cred
      BY <1>2, <1>4 DEF UpdateInv
    <3> QED BY <3>1, <3>2, StateIsNatural
  <2>5. sup_current' \in CurrentType
    <3>1. sup_current.revision + 1 \in 1..sup_MaxCred /\ sup_update[u].cred \in 1..sup_MaxCred
      BY <2>4, StateIsNatural
    <3> QED BY <2>1, <3>1 DEF CurrentType, AuthoritySupervisor!Credentials
  <2>6. sup_update' \in [AuthoritySupervisor!Updaters -> UpdateType]
    BY <2>1 DEF SupervisorType, UpdateType, UpdatePcs
  <2>7. SupervisorType'
    BY <1>1, <2>1, <2>5, <2>6 DEF SupervisorType
  <2>8. UpdateInv'
    <3>1. ~sup_stopped
      BY <1>4 DEF AuthoritySupervisor!IsStopped
    <3> QED BY <1>1, <1>2, <2>1, <2>2, <2>3, <2>4, <3>1
               DEF UpdateInv, Inside, AuthoritySupervisor!IsStopped
  <2>9. RevisionInv'
    <3>1. sup_current'.revision = sup_current.revision + 1
      BY <2>1
    <3>2. sup_status.kind = "ready" => sup_status.revision \in Nat
      BY DEF SupervisorType, AuthoritySupervisor!Statuses, AuthoritySupervisor!Status
    <3>3. sup_status'.kind = "ready" => sup_status'.revision <= sup_current'.revision
      BY <1>1, <3>1, <3>2, StateIsNatural DEF RevisionInv
    <3>4. \A f \in sup_Refreshers : sup_refresh'[f].pc = "ok"
             => sup_current'.revision > sup_refresh'[f].rejected
      BY <1>1, <3>1, StateIsNatural DEF RevisionInv
    <3>5. \A r \in sup_Readers : sup_read'[r].pc = "held" => /\ sup_read'[r].revision <= sup_current'.revision
                                                             /\ sup_read'[r].revision # sup_current'.revision
      BY <1>1, <3>1, StateIsNatural DEF RevisionInv
    <3> QED BY <3>3, <3>4, <3>5 DEF RevisionInv
  <2> QED BY <2>7, <2>8, <2>9
<1> QED BY <1>3, <1>4

LEMMA AfterCommitKeeps ==
    ASSUME AuthoritySupervisor!SupervisorConstants, SupervisorType, UpdateInv, RevisionInv, NEW u \in AuthoritySupervisor!Updaters,
           AuthoritySupervisor!SendReady(u) \/ AuthoritySupervisor!ClearRequest(u)
    PROVE  SupervisorType' /\ UpdateInv' /\ RevisionInv'
<1>1. UNCHANGED <<sup_now, sup_stopped, sup_cancelled, sup_current, sup_installed, sup_sending,
         sup_refreshLock, sup_read, sup_refresh>>
  BY DEF AuthoritySupervisor!SendReady, AuthoritySupervisor!ClearRequest,
         AuthoritySupervisor!stateVars, AuthoritySupervisor!statusVars, AuthoritySupervisor!lockVars
<1>2. sup_updateLock = u
  BY DEF AuthoritySupervisor!SendReady, AuthoritySupervisor!ClearRequest, UpdateInv, Inside
<1>3. CASE AuthoritySupervisor!SendReady(u)
  <2>1. /\ sup_status' = AuthoritySupervisor!Status("ready", sup_current.revision)
        /\ UNCHANGED <<sup_request, sup_updateLock>>
        /\ sup_update' = [sup_update EXCEPT ![u].pc = "clear"] /\ sup_update[u].pc = "send"
    BY <1>3 DEF AuthoritySupervisor!SendReady, AuthoritySupervisor!lockVars
  <2>2. /\ sup_update' \in [AuthoritySupervisor!Updaters -> UpdateType]
        /\ sup_updateLock' \in AuthoritySupervisor!Updaters \cup {AuthoritySupervisor!Nobody}
        /\ UpdateInv'
    BY <1>1, <1>2, <2>1, GoingOnKeeps DEF Inside
  <2>3. sup_status' \in AuthoritySupervisor!Statuses
    BY <2>1, StateIsNatural DEF AuthoritySupervisor!Statuses
  <2>4. RevisionInv'
    BY <1>1, <2>1, StateIsNatural DEF RevisionInv, AuthoritySupervisor!Status
  <2> QED BY <1>1, <2>1, <2>2, <2>3, <2>4 DEF SupervisorType
<1>4. CASE AuthoritySupervisor!ClearRequest(u)
  <2>1. UNCHANGED sup_status /\ sup_request' \in {0, sup_request}
           /\ AuthoritySupervisor!EndUpdate(u) /\ sup_update[u].pc = "clear"
    BY <1>4 DEF AuthoritySupervisor!ClearRequest, AuthoritySupervisor!statusVars
  <2>2. /\ sup_update' \in [AuthoritySupervisor!Updaters -> UpdateType]
        /\ sup_updateLock' \in AuthoritySupervisor!Updaters \cup {AuthoritySupervisor!Nobody}
        /\ UpdateInv'
    BY <1>1, <1>2, <2>1, EndingKeeps
  <2>3. sup_request' \in AuthoritySupervisor!Revisions
    BY <2>1, StateIsNatural DEF SupervisorType, AuthoritySupervisor!Revisions
  <2> QED BY <1>1, <2>1, <2>2, <2>3 DEF SupervisorType, RevisionInv
<1> QED BY <1>3, <1>4

-----------------------------------------------------------------------------
(* Expiry and the end *)

\* Steps that only withdraw the credential: revision and credential stay
LEMMA WithdrawKeeps ==
    ASSUME AuthoritySupervisor!SupervisorConstants, SupervisorType, UpdateInv, RevisionInv,
           AuthoritySupervisor!FailAuthentication \/ AuthoritySupervisor!ExpireIfDue
                \/ AuthoritySupervisor!Stop
    PROVE  SupervisorType' /\ UpdateInv' /\ RevisionInv'
<1>1. /\ UNCHANGED <<sup_now, sup_installed, sup_updateLock, sup_refreshLock, sup_update, sup_read,
          sup_refresh, sup_request>>
      /\ sup_current' = [sup_current EXCEPT !.available = FALSE]
      /\ AuthoritySupervisor!IsStopped => (AuthoritySupervisor!IsStopped)'
  BY DEF AuthoritySupervisor!FailAuthentication, AuthoritySupervisor!ExpireIfDue,
         AuthoritySupervisor!Stop, AuthoritySupervisor!lockVars, AuthoritySupervisor!IsStopped
<1>2. /\ sup_current'.revision = sup_current.revision /\ sup_current'.cred = sup_current.cred
      /\ ~sup_current'.available /\ sup_current' \in CurrentType
  BY <1>1 DEF SupervisorType, CurrentType
<1>3. sup_stopped' \in BOOLEAN /\ sup_cancelled' \in BOOLEAN
  <2>1. sup_stopped' \in {TRUE, sup_stopped} /\ sup_cancelled' \in {TRUE, sup_cancelled}
    BY DEF AuthoritySupervisor!FailAuthentication, AuthoritySupervisor!ExpireIfDue,
           AuthoritySupervisor!Stop
  <2> QED BY <2>1 DEF SupervisorType
<1>4. sup_sending' \subseteq 1..sup_MaxCred
  BY StateIsNatural
     DEF AuthoritySupervisor!FailAuthentication, AuthoritySupervisor!ExpireIfDue,
         AuthoritySupervisor!Stop, SupervisorType
<1>5. sup_status' = sup_status \/ sup_status' = AuthoritySupervisor!Status("failed", 0)
  BY DEF AuthoritySupervisor!FailAuthentication, AuthoritySupervisor!ExpireIfDue,
         AuthoritySupervisor!Stop
<1>6. sup_status' \in AuthoritySupervisor!Statuses /\ (sup_status'.kind = "ready"
         => sup_status' = sup_status)
  BY <1>5 DEF SupervisorType, AuthoritySupervisor!Statuses, AuthoritySupervisor!Status
<1>7. SupervisorType'
  BY <1>1, <1>2, <1>3, <1>4, <1>6 DEF SupervisorType
<1>8. UpdateInv'
  BY <1>1, <1>2 DEF UpdateInv
<1>9. RevisionInv'
  BY <1>1, <1>2, <1>6 DEF RevisionInv
<1> QED BY <1>7, <1>8, <1>9

LEMMA SignalsKeep ==
    ASSUME AuthoritySupervisor!SupervisorConstants, SupervisorType, UpdateInv, RevisionInv,
           \/ AuthoritySupervisor!Tick \/ AuthoritySupervisor!SendExpired
               \/ AuthoritySupervisor!HostCancels \/ AuthoritySupervisor!SendStopped \/ AuthoritySupervisor!DriverWakes \/ AuthoritySupervisor!RenewalFails
    PROVE  SupervisorType' /\ UpdateInv' /\ RevisionInv'
<1>1. /\ UNCHANGED <<sup_stopped, sup_current, sup_installed, sup_updateLock, sup_refreshLock,
          sup_update, sup_read, sup_refresh, sup_request>>
      /\ AuthoritySupervisor!IsStopped => (AuthoritySupervisor!IsStopped)'
  BY DEF AuthoritySupervisor!Tick, AuthoritySupervisor!SendExpired, AuthoritySupervisor!HostCancels,
         AuthoritySupervisor!SendStopped, AuthoritySupervisor!DriverWakes,
         AuthoritySupervisor!RenewalFails, AuthoritySupervisor!stateVars, AuthoritySupervisor!lockVars,
         AuthoritySupervisor!IsStopped
<1>2. sup_now' \in 0..sup_MaxCred
  BY StateIsNatural
     DEF AuthoritySupervisor!Tick, AuthoritySupervisor!SendExpired, AuthoritySupervisor!HostCancels,
         AuthoritySupervisor!SendStopped, AuthoritySupervisor!DriverWakes,
         AuthoritySupervisor!RenewalFails,
                        SupervisorType
<1>3. sup_cancelled' \in BOOLEAN
  <2>1. sup_cancelled' \in {TRUE, sup_cancelled}
    BY DEF AuthoritySupervisor!Tick, AuthoritySupervisor!SendExpired, AuthoritySupervisor!HostCancels,
           AuthoritySupervisor!SendStopped, AuthoritySupervisor!DriverWakes,
           AuthoritySupervisor!RenewalFails, AuthoritySupervisor!stateVars
  <2> QED BY <2>1 DEF SupervisorType
<1>4. /\ sup_sending' \subseteq sup_sending
      /\ \/ sup_status' = sup_status \/ sup_status' = AuthoritySupervisor!Status("stopped", 0)
         \/ \E n \in sup_sending : sup_status' = AuthoritySupervisor!Status("expired", n)
  BY DEF AuthoritySupervisor!Tick, AuthoritySupervisor!SendExpired, AuthoritySupervisor!HostCancels,
         AuthoritySupervisor!SendStopped, AuthoritySupervisor!DriverWakes,
         AuthoritySupervisor!RenewalFails, AuthoritySupervisor!statusVars
<1>5. sup_status' \in AuthoritySupervisor!Statuses /\ (sup_status'.kind = "ready"
         => sup_status' = sup_status)
  <2>0. sup_status \in AuthoritySupervisor!Statuses /\ sup_sending \subseteq 1..sup_MaxCred
    BY DEF SupervisorType
  <2>1. CASE sup_status' = sup_status
    BY <2>0, <2>1
  <2>2. CASE sup_status' = AuthoritySupervisor!Status("stopped", 0)
    BY <2>2 DEF AuthoritySupervisor!Statuses, AuthoritySupervisor!Status
  <2>3. ASSUME NEW n \in sup_sending, sup_status' = AuthoritySupervisor!Status("expired", n)
        PROVE  sup_status' \in AuthoritySupervisor!Statuses /\ sup_status'.kind # "ready"
    <3>1. n \in 1..sup_MaxCred
      BY <2>0
    <3> QED BY <2>3, <3>1 DEF AuthoritySupervisor!Statuses, AuthoritySupervisor!Status
  <2> QED BY <1>4, <2>1, <2>2, <2>3
<1>6. SupervisorType'
  BY <1>1, <1>2, <1>3, <1>4, <1>5 DEF SupervisorType
<1>7. UpdateInv'
  BY <1>1 DEF UpdateInv
<1>8. RevisionInv'
  BY <1>1, <1>5 DEF RevisionInv
<1> QED BY <1>6, <1>7, <1>8

-----------------------------------------------------------------------------
(* authorization_parts and refresh_after_unauthorized *)

LEMMA ReadersKeep ==
    ASSUME AuthoritySupervisor!SupervisorConstants, SupervisorType, UpdateInv, RevisionInv, NEW r \in sup_Readers,
           AuthoritySupervisor!ReadHeader(r) \/ AuthoritySupervisor!ReturnHeader(r)
    PROVE  SupervisorType' /\ UpdateInv' /\ RevisionInv'
<1>1. UNCHANGED <<sup_now, sup_stopped, sup_cancelled, sup_current, sup_installed, sup_status, sup_sending, sup_updateLock,
                  sup_refreshLock, sup_update, sup_refresh, sup_request>>
  BY DEF AuthoritySupervisor!ReadHeader, AuthoritySupervisor!ReturnHeader,
         AuthoritySupervisor!stateVars, AuthoritySupervisor!statusVars, AuthoritySupervisor!lockVars
<1>2. \/ sup_read' = [sup_read EXCEPT ![r] = [pc |-> "held", revision |-> sup_current.revision,
          cred |-> sup_current.cred]]
      \/ \E p \in {"idle", "ok"} : sup_read' = [sup_read EXCEPT ![r] = [pc |-> p, revision |-> 0,
          cred |-> 0]]
  BY DEF AuthoritySupervisor!ReadHeader, AuthoritySupervisor!ReturnHeader
<1>3. sup_read' \in [sup_Readers -> ReadType]
  BY <1>2, TypesOfRecords, StateIsNatural DEF SupervisorType
<1>4. \A q \in sup_Readers : sup_read'[q].pc = "held" =>
          \/ sup_read'[q] = sup_read[q]
          \/ sup_read'[q].revision = sup_current.revision /\ sup_read'[q].cred = sup_current.cred
  BY <1>2 DEF SupervisorType
<1>5. SupervisorType' /\ UpdateInv'
  BY <1>1, <1>3 DEF SupervisorType, UpdateInv, AuthoritySupervisor!IsStopped
<1>6. RevisionInv'
  BY <1>1, <1>4, StateIsNatural DEF RevisionInv
<1> QED BY <1>5, <1>6

\* Success is reported on seeing a newer revision than the rejected one
LEMMA RefreshersKeep ==
    ASSUME AuthoritySupervisor!SupervisorConstants, SupervisorType, UpdateInv, RevisionInv, NEW f \in sup_Refreshers,
           \/ \E rejected \in 1..sup_current.revision : AuthoritySupervisor!BeginRefresh(f, rejected)
           \/ AuthoritySupervisor!TakeRefreshLock(f) \/ AuthoritySupervisor!SendRequest(f)
               \/ AuthoritySupervisor!SeeStatus(f) \/ AuthoritySupervisor!RefreshTimesOut(f)
    PROVE  SupervisorType' /\ UpdateInv' /\ RevisionInv'
<1>0. /\ sup_refresh[f].rejected \in 0..sup_MaxCred /\ sup_current.revision \in 1..sup_MaxCred
      /\ 0 \in 0..sup_MaxCred /\ sup_MaxCred \in Nat
  BY StateIsNatural
<1>1. UNCHANGED <<sup_now, sup_stopped, sup_cancelled, sup_current, sup_installed, sup_status, sup_sending, sup_updateLock,
                  sup_update, sup_read>>
  BY DEF AuthoritySupervisor!BeginRefresh, AuthoritySupervisor!TakeRefreshLock,
         AuthoritySupervisor!SendRequest, AuthoritySupervisor!SeeStatus,
         AuthoritySupervisor!RefreshTimesOut, AuthoritySupervisor!FinishRefresh,
         AuthoritySupervisor!stateVars, AuthoritySupervisor!statusVars, AuthoritySupervisor!lockVars
<1>2. sup_refreshLock' \in sup_Refreshers \cup {AuthoritySupervisor!Nobody}
  BY DEF AuthoritySupervisor!BeginRefresh, AuthoritySupervisor!TakeRefreshLock,
         AuthoritySupervisor!SendRequest, AuthoritySupervisor!SeeStatus,
         AuthoritySupervisor!RefreshTimesOut, AuthoritySupervisor!FinishRefresh,
         AuthoritySupervisor!lockVars, SupervisorType
<1>3. sup_request' \in AuthoritySupervisor!Revisions
  BY <1>0
     DEF AuthoritySupervisor!BeginRefresh, AuthoritySupervisor!TakeRefreshLock,
         AuthoritySupervisor!SendRequest, AuthoritySupervisor!SeeStatus,
         AuthoritySupervisor!RefreshTimesOut,
              SupervisorType, AuthoritySupervisor!Revisions
<1>4. \E p \in {"first", "second", "waiting", "idle", "ok"}, n \in 0..sup_MaxCred :
         /\ sup_refresh' = [sup_refresh EXCEPT ![f] = [pc |-> p, rejected |-> n]]
         /\ p = "ok" => sup_current.revision > n
  <2>1. CASE \E rejected \in 1..sup_current.revision : AuthoritySupervisor!BeginRefresh(f, rejected)
    <3>1. PICK rejected \in 1..sup_current.revision : AuthoritySupervisor!BeginRefresh(f, rejected)
      BY <2>1
    <3>2. rejected \in 0..sup_MaxCred
      BY <1>0
    <3>3. CASE AuthoritySupervisor!Look(rejected) = "proceed"
      BY <3>1, <3>2, <3>3 DEF AuthoritySupervisor!BeginRefresh
    <3>4. CASE AuthoritySupervisor!Look(rejected) # "proceed"
      <4>1. AuthoritySupervisor!Look(rejected) \in {"ok", "failed"}
               /\ (AuthoritySupervisor!Look(rejected) = "ok" => sup_current.revision > rejected)
        BY <3>4 DEF AuthoritySupervisor!Look
      <4>2. sup_refresh' = [sup_refresh EXCEPT ![f] = AuthoritySupervisor!Ended(rejected,
               AuthoritySupervisor!Look(rejected))]
        BY <3>1, <3>4 DEF AuthoritySupervisor!BeginRefresh
      <4> QED BY <1>0, <3>2, <4>1, <4>2 DEF AuthoritySupervisor!Ended
    <3> QED BY <3>3, <3>4
  <2>2. \A p : [sup_refresh EXCEPT ![f].pc = p]
             = [sup_refresh EXCEPT ![f] = [pc |-> p, rejected |-> sup_refresh[f].rejected]]
    <3>1. sup_refresh[f] \in RefreshType
      BY DEF SupervisorType
    <3>2. \A p : [sup_refresh[f] EXCEPT !.pc = p] = [pc |-> p, rejected |-> sup_refresh[f].rejected]
      BY <3>1 DEF RefreshType
    <3> QED BY <3>2, Zenon
  <2>3. CASE AuthoritySupervisor!TakeRefreshLock(f) \/ AuthoritySupervisor!SendRequest(f)
    <3>1. CASE \E p \in {"second", "waiting"} : sup_refresh' = [sup_refresh EXCEPT ![f].pc = p]
      BY <1>0, <2>2, <3>1
    <3>2. CASE AuthoritySupervisor!FinishRefresh(f,
             AuthoritySupervisor!Look(sup_refresh[f].rejected))
             /\ AuthoritySupervisor!Look(sup_refresh[f].rejected) # "proceed"
      BY <1>0, <3>2
         DEF AuthoritySupervisor!FinishRefresh, AuthoritySupervisor!Ended, AuthoritySupervisor!Look
    <3> QED BY <2>3, <3>1, <3>2 DEF AuthoritySupervisor!TakeRefreshLock, AuthoritySupervisor!SendRequest
  <2>4. CASE AuthoritySupervisor!SeeStatus(f)
    <3>1. AuthoritySupervisor!RefreshedBy(f) => sup_current.revision > sup_refresh[f].rejected
      <4>1. sup_status.kind = "ready" => sup_status.revision \in Nat
        BY DEF SupervisorType, AuthoritySupervisor!Statuses, AuthoritySupervisor!Status
      <4> QED BY <1>0, <4>1 DEF AuthoritySupervisor!RefreshedBy, RevisionInv
    <3> QED BY <1>0, <2>4, <3>1
               DEF AuthoritySupervisor!SeeStatus, AuthoritySupervisor!FinishRefresh,
                   AuthoritySupervisor!Ended
  <2>5. CASE AuthoritySupervisor!RefreshTimesOut(f)
    BY <1>0, <2>5
       DEF AuthoritySupervisor!RefreshTimesOut, AuthoritySupervisor!FinishRefresh,
           AuthoritySupervisor!Ended
  <2> QED BY <2>1, <2>3, <2>4, <2>5
<1>5. sup_refresh' \in [sup_Refreshers -> RefreshType]
  BY <1>4, TypesOfRecords DEF SupervisorType
<1>6. SupervisorType' /\ UpdateInv'
  BY <1>1, <1>2, <1>3, <1>5 DEF SupervisorType, UpdateInv, AuthoritySupervisor!IsStopped
<1>7. \A g \in sup_Refreshers : sup_refresh'[g].pc = "ok"
         => sup_current.revision > sup_refresh'[g].rejected
  BY <1>4 DEF SupervisorType, RevisionInv
<1>8. RevisionInv'
  BY <1>1, <1>7 DEF RevisionInv
<1> QED BY <1>6, <1>8

-----------------------------------------------------------------------------
(* The theorems *)

SupervisorInv == SupervisorType /\ UpdateInv /\ RevisionInv

LEMMA SupervisorNextKeeps ==
    ASSUME AuthoritySupervisor!SupervisorConstants, SupervisorInv,
         [AuthoritySupervisor!Next]_(AuthoritySupervisor!vars)
    PROVE  SupervisorInv'
<1> USE DEF SupervisorInv
<1>1. CASE \E u \in AuthoritySupervisor!Updaters : AuthoritySupervisor!UpdateStep(u)
         \/ AuthoritySupervisor!DropUpdate(u)
  BY <1>1, UpdatesKeep, CommitKeeps, AfterCommitKeeps DEF AuthoritySupervisor!UpdateStep
<1>2. CASE \E u \in sup_Hosts,
         c \in AuthoritySupervisor!Credentials : AuthoritySupervisor!HostReplaces(u, c)
  BY <1>2, ReplaceKeeps DEF AuthoritySupervisor!HostReplaces, AuthoritySupervisor!Updaters
<1>3. CASE \E c \in AuthoritySupervisor!Credentials : AuthoritySupervisor!Renewed(c)
  BY <1>3, ReplaceKeeps DEF AuthoritySupervisor!Renewed, AuthoritySupervisor!Updaters
<1>4. CASE AuthoritySupervisor!FailAuthentication \/ AuthoritySupervisor!ExpireIfDue
         \/ AuthoritySupervisor!Stop
  BY <1>4, WithdrawKeeps
<1>5. CASE AuthoritySupervisor!Tick \/ AuthoritySupervisor!SendExpired
         \/ AuthoritySupervisor!HostCancels \/ AuthoritySupervisor!SendStopped \/ AuthoritySupervisor!DriverWakes \/ AuthoritySupervisor!RenewalFails
  BY <1>5, SignalsKeep
<1>6. CASE \E r \in sup_Readers : AuthoritySupervisor!ReadHeader(r)
         \/ AuthoritySupervisor!ReturnHeader(r)
  BY <1>6, ReadersKeep
<1>7. CASE \/ \E f \in sup_Refreshers : \E rejected \in 1..sup_current.revision : AuthoritySupervisor!BeginRefresh(f, rejected)
           \/ \E f \in sup_Refreshers :
                AuthoritySupervisor!TakeRefreshLock(f) \/ AuthoritySupervisor!SendRequest(f)
                     \/ AuthoritySupervisor!SeeStatus(f) \/ AuthoritySupervisor!RefreshTimesOut(f)
  BY <1>7, RefreshersKeep
<1>8. CASE UNCHANGED AuthoritySupervisor!vars
  BY <1>8
     DEF AuthoritySupervisor!vars, AuthoritySupervisor!stateVars, AuthoritySupervisor!statusVars,
         AuthoritySupervisor!lockVars, SupervisorType, UpdateInv, RevisionInv,
         AuthoritySupervisor!IsStopped
<1> QED BY <1>1, <1>2, <1>3, <1>4, <1>5, <1>6, <1>7, <1>8 DEF AuthoritySupervisor!Next

\* AuthorityInner keeps its types: in particular the revision never outruns the
\* credentials there are.
THEOREM SupervisorTypeCorrect ==
    ASSUME AuthoritySupervisor!SupervisorConstants
    PROVE  AuthoritySupervisor!Spec => []AuthoritySupervisor!TypeOK
<1>1. AuthoritySupervisor!Init => SupervisorInv
  BY InitSupervisor DEF SupervisorInv
<1>2. SupervisorInv /\ [AuthoritySupervisor!Next]_(AuthoritySupervisor!vars) => SupervisorInv'
  BY SupervisorNextKeeps
<1>3. SupervisorInv => AuthoritySupervisor!TypeOK
  <2> SUFFICES ASSUME SupervisorInv PROVE AuthoritySupervisor!TypeOK
    OBVIOUS
  <2>1. \A u \in AuthoritySupervisor!Updaters : sup_update[u].cred \in 0..sup_MaxCred
    BY StateIsNatural DEF SupervisorInv
  <2>2. sup_sending \subseteq AuthoritySupervisor!Revisions
    BY StateIsNatural DEF SupervisorInv, SupervisorType, AuthoritySupervisor!Revisions
  <2> QED BY <2>1, <2>2 DEF SupervisorInv, SupervisorType, AuthoritySupervisor!TypeOK, CurrentType
<1> QED BY <1>1, <1>2, <1>3, PTL DEF AuthoritySupervisor!Spec

\* refresh_after_unauthorized: a refresh that reports success has a newer revision
\* behind it.
THEOREM SuccessMeansReplaced ==
    ASSUME AuthoritySupervisor!SupervisorConstants
    PROVE  AuthoritySupervisor!Spec => []AuthoritySupervisor!RefreshedMeansReplaced
<1>1. AuthoritySupervisor!Init => SupervisorInv
  BY InitSupervisor DEF SupervisorInv
<1>2. SupervisorInv /\ [AuthoritySupervisor!Next]_(AuthoritySupervisor!vars) => SupervisorInv'
  BY SupervisorNextKeeps
<1>3. SupervisorInv => AuthoritySupervisor!RefreshedMeansReplaced
  BY DEF SupervisorInv, RevisionInv, AuthoritySupervisor!RefreshedMeansReplaced
<1> QED BY <1>1, <1>2, <1>3, PTL DEF AuthoritySupervisor!Spec

\* apply_update: between updates transport and supervisor hold the same credential.
THEOREM TransportFollows ==
    ASSUME AuthoritySupervisor!SupervisorConstants
    PROVE  AuthoritySupervisor!Spec => []AuthoritySupervisor!TransportAgrees
<1>1. AuthoritySupervisor!Init => SupervisorInv
  BY InitSupervisor DEF SupervisorInv
<1>2. SupervisorInv /\ [AuthoritySupervisor!Next]_(AuthoritySupervisor!vars) => SupervisorInv'
  BY SupervisorNextKeeps
<1>3. SupervisorInv => AuthoritySupervisor!TransportAgrees
  BY DEF SupervisorInv, UpdateInv, AuthoritySupervisor!IsStopped, AuthoritySupervisor!TransportAgrees
<1> QED BY <1>1, <1>2, <1>3, PTL DEF AuthoritySupervisor!Spec

\* authorization_parts: what a reader is given is current when it is given.
THEOREM ReadersGetTheCurrent ==
    ASSUME AuthoritySupervisor!SupervisorConstants
    PROVE  AuthoritySupervisor!Spec => AuthoritySupervisor!AuthorizationIsCurrent
<1> DEFINE Given == \A r \in sup_Readers : sup_read[r].pc = "held" /\ sup_read'[r].pc = "ok" =>
                       ~sup_stopped /\ ~AuthoritySupervisor!Expired(sup_read[r].cred)
                            /\ sup_read[r].cred = sup_current.cred
<1>1. AuthoritySupervisor!Init => SupervisorInv
  BY InitSupervisor DEF SupervisorInv
<1>2. SupervisorInv /\ [AuthoritySupervisor!Next]_(AuthoritySupervisor!vars) => SupervisorInv'
  BY SupervisorNextKeeps
<1>3. SupervisorInv /\ [AuthoritySupervisor!Next]_(AuthoritySupervisor!vars)
         => [Given]_(AuthoritySupervisor!vars)
  <2> SUFFICES ASSUME SupervisorInv, AuthoritySupervisor!Next, NEW r \in sup_Readers, sup_read[r].pc = "held", sup_read'[r].pc = "ok"
               PROVE  ~sup_stopped /\ ~AuthoritySupervisor!Expired(sup_read[r].cred)
                    /\ sup_read[r].cred = sup_current.cred
    OBVIOUS
  <2>1. \E q \in sup_Readers : AuthoritySupervisor!ReadHeader(q) \/ AuthoritySupervisor!ReturnHeader(q)
    BY DEF AuthoritySupervisor!Next, AuthoritySupervisor!UpdateStep, AuthoritySupervisor!LockUpdate,
           AuthoritySupervisor!InstallKeys, AuthoritySupervisor!InstallCredential,
           AuthoritySupervisor!Commit, AuthoritySupervisor!SendReady,
           AuthoritySupervisor!ClearRequest, AuthoritySupervisor!DropUpdate,
                AuthoritySupervisor!HostReplaces, AuthoritySupervisor!Renewed,
                AuthoritySupervisor!Replace, AuthoritySupervisor!DriverWakes,
                AuthoritySupervisor!RenewalFails,
           AuthoritySupervisor!FailAuthentication, AuthoritySupervisor!Tick,
                AuthoritySupervisor!ExpireIfDue, AuthoritySupervisor!SendExpired,
                AuthoritySupervisor!HostCancels, AuthoritySupervisor!Stop,
                AuthoritySupervisor!SendStopped,
           AuthoritySupervisor!BeginRefresh, AuthoritySupervisor!TakeRefreshLock,
                AuthoritySupervisor!SendRequest, AuthoritySupervisor!SeeStatus,
                AuthoritySupervisor!RefreshTimesOut
  <2>2. AuthoritySupervisor!ReturnHeader(r) /\ AuthoritySupervisor!StillCurrent(r)
    BY <2>1
       DEF AuthoritySupervisor!ReadHeader, AuthoritySupervisor!ReturnHeader, SupervisorInv,
           SupervisorType
  <2> QED BY <2>2 DEF AuthoritySupervisor!StillCurrent, SupervisorInv, UpdateInv, RevisionInv
<1> QED BY <1>1, <1>2, <1>3, PTL
           DEF AuthoritySupervisor!Spec, AuthoritySupervisor!AuthorizationIsCurrent
=============================================================================
