------------------------------ MODULE Advertiser ------------------------------
(***************************************************************************)
(* The DDS advertisement of one peer (core/auki-sdk/src/discovery.rs): the *)
(* initial publication with its compensation, the task that keeps the      *)
(* advertisement up to date, and its final withdrawal, natively and in the *)
(* browser.  Requests time out after ten seconds; one that timed out may   *)
(* have reached the tracker, may reach it later, or never.  The tracker    *)
(* (external) keeps one short-lived advertisement.                         *)
(***************************************************************************)
EXTENDS Naturals, FiniteSets

CONSTANTS
    Values,     \* what a peer may advertise: routes and protocols
    Attempts,   \* publish_with_retry: 3
    MaxLate     \* bound on requests overtaken by their timeout

Nothing == "nothing"

\* What the theorems ask of the constants
AdvertiserConstants == Attempts \in Nat \ {0}

VARIABLES
    kind,       \* native or browser, fixed
    local,      \* the peer's routes and served protocols, or Nothing to announce
    changed,    \* the watch channels hold a change the task has not seen
    authority,  \* the authority status: live, or ended for good
    noticed,    \* the task has seen the end of the authority
    cancel,     \* the publisher's CancellationToken
    owner,      \* who started the publisher
    task,       \* start and maintain_*_advertisement: pc, attempt, value, stale
    ad,         \* what the tracker lists
    late        \* requests that outlived their timeout

vars == <<kind, local, changed, authority, noticed, cancel, owner, task, ad, late>>
peerVars == <<kind, local, changed, authority, noticed>>

At(pc) == task.pc = pc
Going(pc) == [task EXCEPT !.pc = pc]

Init ==
    /\ kind \in {"native", "browser"}
    /\ local \in Values /\ changed = FALSE
    /\ authority = "live" /\ noticed = FALSE
    /\ cancel = FALSE /\ owner = "idle"
    /\ task = [pc |-> "off", attempt |-> 1, value |-> local, stale |-> FALSE]
    /\ ad = Nothing /\ late = {}

-----------------------------------------------------------------------------
(* The peer around the publisher *)

\* start: the current routes and protocols are published first
Start ==
    /\ owner = "idle"
    /\ owner' = "starting" /\ task' = [task EXCEPT !.pc = "publish0", !.value = local]
    /\ UNCHANGED <<peerVars, cancel, ad, late>>

\* A route or a mounted protocol comes or goes; a browser keeps its routes
LocalChanges ==
    /\ owner # "idle"
    /\ \E v \in Values \cup (IF kind = "native" THEN {Nothing} ELSE {}) :
          v # local /\ local' = v
    /\ changed' = TRUE
    /\ UNCHANGED <<kind, authority, noticed, cancel, owner, task, ad, late>>

AuthorityEnds ==
    /\ authority = "live" /\ kind = "native" /\ owner # "idle"
    /\ authority' = "ended"
    /\ UNCHANGED <<kind, local, changed, noticed, cancel, owner, task, ad, late>>

\* shutdown, abort or the drop of the publisher; a browser's runtime owns the token
\* already during the start
Cancel ==
    /\ owner = "running" \/ (owner = "starting" /\ kind = "browser")
    /\ ~cancel
    /\ cancel' = TRUE
    /\ UNCHANGED <<peerVars, owner, task, ad, late>>

\* The request that a start is waiting for
InFlight == (IF At("publish0") THEN {task.value} ELSE {})
              \cup (IF At("comp") THEN {Nothing} ELSE {})

\* The future of start is dropped: a browser's guard cancels its task; natively
\* the publication itself is dropped, its request may still arrive, and no
\* withdrawal follows
DropStart ==
    \/ /\ kind = "browser" /\ cancel' = TRUE
       /\ UNCHANGED <<task, late>>
    \/ /\ kind = "native" /\ task' = Going("ended")
       /\ late' \in {late, late \cup InFlight} /\ Cardinality(late') <= MaxLate
       /\ UNCHANGED cancel

OwnerGone ==
    /\ owner = "starting"
    /\ owner' = "gone"
    /\ DropStart
    /\ UNCHANGED <<peerVars, ad>>

-----------------------------------------------------------------------------
(* Requests *)

\* send: the request arrives and is answered; or it times out, having arrived,
\* still on its way, or lost.  A refusal is not retried, nor is a changed answer.
Outcomes(v) ==
    {[result |-> "ok", ad |-> v, late |-> late], [result |-> "retry", ad |-> v, late |-> late],
     [result |-> "retry", ad |-> ad, late |-> late \cup {v}],
     [result |-> "retry", ad |-> ad, late |-> late],
     [result |-> "refused", ad |-> ad, late |-> late],
     [result |-> "refused", ad |-> v, late |-> late]}

Reaches(o) == ad' = o.ad /\ late' = o.late /\ Cardinality(late') <= MaxLate

\* A request that outlived its timeout arrives at last, or is lost
LateRequest ==
    /\ \E v \in late : late' = late \ {v} /\ ad' \in {v, ad}
    /\ UNCHANGED <<peerVars, cancel, owner, task>>

\* A lease nobody renews ends
LeaseEnds ==
    /\ ad # Nothing /\ (task.stale \/ At("ended"))
    /\ ad' = Nothing
    /\ UNCHANGED <<peerVars, cancel, owner, task, late>>

-----------------------------------------------------------------------------
(* The task *)

InStart == task.pc \in {"publish0", "sleep0", "comp"}

\* The next place after a publication that succeeded or failed for good: a browser's
\* start withdraws at once when it was cancelled or nobody waits for its barrier
AfterPublish(ok) ==
    IF InStart /\ ok /\ kind = "browser" /\ (cancel \/ owner = "gone") THEN "final"
    ELSE IF InStart THEN (IF ok THEN "idle" ELSE "comp")
    ELSE IF ~ok /\ cancel THEN "final"
    ELSE "idle"

\* publish_with_retry: one attempt
Publish ==
    /\ task.pc \in {"publish0", "publish"}
    /\ \E o \in Outcomes(task.value) :
          /\ Reaches(o)
          /\ task' = IF o.result = "retry" /\ task.attempt < Attempts
                       THEN Going(IF At("publish0") THEN "sleep0" ELSE "sleep")
                       ELSE [Going(AfterPublish(o.result = "ok")) EXCEPT !.stale = o.result # "ok"]
          /\ owner' = IF InStart /\ task'.pc = "idle" /\ owner = "starting" THEN "running" ELSE owner
    /\ UNCHANGED <<peerVars, cancel>>

\* The delay between attempts; a cancellation ends it, but not in a native start
Sleep ==
    /\ task.pc \in {"sleep0", "sleep"}
    /\ \/ /\ ~(cancel /\ (kind = "browser" \/ At("sleep")))
          /\ task' = [Going(IF At("sleep0") THEN "publish0" ELSE "publish") EXCEPT !.attempt = @ + 1]
       \/ /\ cancel /\ (kind = "browser" \/ At("sleep"))
          /\ task' = Going(IF At("sleep0") THEN "comp" ELSE "final")
    /\ UNCHANGED <<peerVars, cancel, owner, ad, late>>

\* Startup failed: a timed-out PUT can have reached the tracker
Compensate ==
    /\ At("comp")
    /\ \E o \in Outcomes(Nothing) : Reaches(o)
    /\ task' = Going("ended")
    /\ owner' = IF owner = "starting" THEN "failed" ELSE owner
    /\ UNCHANGED <<peerVars, cancel>>

\* A browser's task that is cancelled before it is first polled publishes nothing
StartCancelled ==
    /\ kind = "browser" /\ cancel /\ At("publish0") /\ task.attempt = 1
    /\ task' = Going("ended")
    /\ owner' = IF owner = "starting" THEN "failed" ELSE owner
    /\ UNCHANGED <<peerVars, cancel, ad, late>>

\* The loop ends: cancelled, or the authority is over
Stops == cancel \/ (authority = "ended" /\ ~noticed)

LoopStops ==
    /\ At("idle") /\ Stops
    /\ task' = Going("final")
    /\ noticed' = (authority = "ended")
    /\ UNCHANGED <<kind, local, changed, authority, cancel, owner, ad, late>>

\* Mutant: the task wakes for changes only, never to renew
MayRenewChanged == changed

\* The renewal interval, or a change
MayRenew == TRUE

\* A tick or a change: what is current is read and published, or withdrawn.  A
\* tick leaves the change where it is.
LoopPublishes ==
    /\ At("idle") /\ ~cancel /\ MayRenew
    /\ changed' \in (IF changed THEN BOOLEAN ELSE {FALSE})
    /\ task' = [Going(IF local = Nothing THEN "withdraw" ELSE "publish")
                  EXCEPT !.attempt = 1, !.value = local]
    /\ UNCHANGED <<kind, local, authority, noticed, cancel, owner, ad, late>>

\* native_routes fails, which takes a catalog out of revisions: the loop goes on
LoopSkips ==
    /\ At("idle") /\ ~cancel /\ kind = "native"
    /\ changed /\ changed' = FALSE
    /\ UNCHANGED <<kind, local, authority, noticed, cancel, owner, task, ad, late>>

\* Withdrawal after the last route is gone; the loop goes on
Withdraw ==
    /\ At("withdraw")
    /\ \E o \in Outcomes(Nothing) : Reaches(o)
    /\ task' = Going("idle")
    /\ UNCHANGED <<peerVars, cancel, owner>>

\* The bounded withdrawal at the end
Final ==
    /\ At("final")
    /\ \E o \in Outcomes(Nothing) : Reaches(o)
    /\ task' = Going("ended")
    /\ owner' = IF owner = "starting" THEN "failed" ELSE owner
    /\ UNCHANGED <<peerVars, cancel>>

-----------------------------------------------------------------------------

TaskStep ==
    \/ Publish \/ Sleep \/ Compensate \/ StartCancelled \/ LoopStops \/ LoopPublishes
    \/ LoopSkips \/ Withdraw \/ Final

Next ==
    \/ Start \/ LocalChanges \/ AuthorityEnds \/ Cancel \/ OwnerGone \/ LateRequest \/ LeaseEnds
    \/ TaskStep

Spec == Init /\ [][Next]_vars

\* The task is polled and its timers end; the tracker drops leases nobody renews;
\* late requests do not stay on their way; the tracker answers now and then; and the
\* catalog does not stay out of revisions, which are 64 bits wide.
Fairness ==
    /\ WF_vars(TaskStep)
    /\ SF_vars(LoopStops)
    /\ WF_vars(LateRequest) /\ WF_vars(LeaseEnds)
    /\ SF_vars(Publish /\ ad' = task.value /\ task'.pc \in {"idle", "final"})
    /\ SF_vars(Withdraw /\ ad' = Nothing)

FairSpec == Spec /\ Fairness

-----------------------------------------------------------------------------
(* Properties *)

TypeOK ==
    /\ kind \in {"native", "browser"} /\ local \in Values \cup {Nothing}
    /\ ad \in Values \cup {Nothing} /\ late \subseteq Values \cup {Nothing}
    /\ task.pc \in {"off", "publish0", "sleep0", "comp", "idle", "publish", "sleep", "withdraw",
                    "final", "ended"}
    /\ task.attempt \in 1..Attempts /\ task.value \in Values \cup {Nothing}
    /\ owner \in {"idle", "starting", "running", "failed", "gone"}

\* maintain_*_advertisement: a cancelled publisher ends, and its advertisement is
\* gone for good, whatever a timed-out request still does.
CancelledAdGoes == cancel ~> [](At("ended") /\ ad = Nothing)

\* start: one that fails or is dropped leaves no advertisement behind.
UnownedAdGoes == (owner \in {"failed", "gone"}) ~> [](ad = Nothing)

\* maintain_*_advertisement: what the peer has for good is what the tracker lists,
\* again and again; a lost change, a failed or a late request is repaired.
TrackerCatchesUp ==
    \A v \in Values \cup {Nothing} :
        <>[](local = v /\ owner = "running" /\ ~cancel /\ authority = "live") => []<>(ad = v)
=============================================================================
