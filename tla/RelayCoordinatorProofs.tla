------------------------ MODULE RelayCoordinatorProofs ------------------------
(***************************************************************************)
(* The relay booking coordinator, for any number of slots, relays,         *)
(* assignments, attempts and reservations.                                 *)
(*                                                                         *)
(* The handlers transform the actor's own state as one record, so the      *)
(* invariants are operators of such a record `l', of the event channel     *)
(* `ch', of the transport's reservations `rs', and so on: a handler that   *)
(* transforms the record twice is proved in two steps.                     *)
(***************************************************************************)
EXTENDS RelayCoordinator, TLAPS

SlotRecord == [gen : Gens \cup {0}, epoch : 0..MaxEpoch, relay : AnyRelay,
               state : {"vacant", "reserving", "confirmed", "reporting"},
               handle : AnyHandle, worker : BOOLEAN]
RetiringRecord == [gen : Gens \cup {0}, epoch : 0..MaxEpoch, relay : AnyRelay,
                   action : {"none", "reconcile", "report", "remove"},
                   join : BOOLEAN, todo : SUBSET Handles, err : BOOLEAN,
                   done : BOOLEAN, polled : BOOLEAN]
WorkerRecord == [pc : WorkerStates, relay : AnyRelay, h : AnyHandle,
                 err : BOOLEAN, cancelled : BOOLEAN]
EventRecord == [kind : EventKinds, fence : Fences, h : AnyHandle]
ReservationRecord ==
    [state : {"free", "dispatching", "pending", "publishable", "canceling", "gone"},
     relay : AnyRelay]
LocalRecord == [slot : [Slots -> SlotRecord], retiring : [Slots -> RetiringRecord],
                gens : [Slots -> 0..MaxGen], worker : [Fences -> WorkerRecord],
                routes : SUBSET Fences]
Snapshot == [Slots -> Assignments]

\* Where a worker still owes its fence an event
LivePcs == {"dial", "minted", "answered", "started", "waiting", "confirmed", "retry"}

\* The events that a reservation worker sends
WorkerKinds == {"Started", "Confirmed", "Retrying", "Failed"}

Current(l, f) == l.slot[f[1]].gen = f[2]

-----------------------------------------------------------------------------
(* The actor's own state *)

\* A slot is vacant, or has an attempt, or is being retired, never two of them; a
\* worker is waited for by its slot or by its cleanup; a route has its slot.
LocalInv(l) ==
    /\ \A s \in Slots : l.slot[s].gen = 0 => l.slot[s] = Vacant
    /\ \A s \in Slots : l.slot[s].state = "vacant" => l.slot[s].gen = 0
    /\ \A s \in Slots : l.slot[s].gen # 0 => l.retiring[s].gen = 0
    /\ \A s \in Slots : l.retiring[s].gen = 0 => l.retiring[s] = NotRetiring
    /\ \A s \in Slots : l.slot[s].gen <= l.gens[s] /\ l.retiring[s].gen <= l.gens[s]
    /\ \A s \in Slots : l.retiring[s].done => (~l.retiring[s].join /\ l.retiring[s].todo = {})
    /\ \A s \in Slots : l.retiring[s].join => ~l.retiring[s].err
    /\ \A s \in Slots : l.slot[s].state \in {"confirmed", "reporting"} => ~l.slot[s].worker
    /\ \A f \in Fences : l.worker[f].pc # "off" =>
          \/ Current(l, f) /\ l.slot[f[1]].worker
          \/ l.retiring[f[1]].gen = f[2] /\ l.retiring[f[1]].join
    /\ \A f \in Fences : l.worker[f].pc = "off" => ~l.worker[f].err
    /\ \A f \in Fences : l.worker[f].pc \in {"off", "dial"} => l.worker[f].h = NoHandle
    /\ \A f \in Fences : l.worker[f].pc \in LivePcs \ {"dial"} => l.worker[f].h \in Handles
    /\ \A f \in Fences : l.worker[f].pc = "release" => l.worker[f].h \in Handles
    /\ \A f \in l.routes : Current(l, f) /\ l.slot[f[1]].state = "confirmed"

\* An attempt is for what the snapshot assigns
SnapshotInv(l, sn) ==
    \A s \in Slots : l.slot[s].state \in {"reserving", "confirmed"} =>
        sn[s].ready /\ sn[s].epoch = l.slot[s].epoch /\ sn[s].relay = l.slot[s].relay

-----------------------------------------------------------------------------
(* The event channel *)

IsEvent(ch, i, f) == ch[i].fence = f /\ ch[i].kind \in WorkerKinds

\* The handle the actor knows of after an event, and the events that may follow then
Held(e) == IF e.kind = "Started" THEN e.h ELSE NoHandle
Fits(held, e) ==
    /\ e.kind = "Started" => held = NoHandle
    /\ e.kind \in {"Confirmed", "Retrying"} => held = e.h
    /\ e.kind = "Failed" => held \in {NoHandle, e.h}

\* The handle a worker has told the actor
Announced(w) == IF w.pc \in {"waiting", "confirmed", "retry"} THEN w.h ELSE NoHandle

Before(ch, i, f) == \E j \in DOMAIN ch : j < i /\ IsEvent(ch, j, f)
After(ch, i, f) == \E j \in DOMAIN ch : j > i /\ IsEvent(ch, j, f)
Between(ch, i, j, f) == \E k \in DOMAIN ch : i < k /\ k < j /\ IsEvent(ch, k, f)
Silent(ch, f) == \A i \in DOMAIN ch : ~IsEvent(ch, i, f)

EventsInv(l, ch) ==
    /\ \A i \in DOMAIN ch : ch[i].kind # "RetryFailure" => ch[i].fence[2] <= l.gens[ch[i].fence[1]]
    /\ \A i \in DOMAIN ch : ch[i].kind \in {"Started", "Confirmed", "Retrying"} => ch[i].h \in Handles
    /\ \A i \in DOMAIN ch : ch[i].kind \in {"RetryFailure", "CleanupComplete"} => ch[i].h = NoHandle
    /\ \A i \in DOMAIN ch : (ch[i].kind \in WorkerKinds /\ Current(l, ch[i].fence)) =>
          l.slot[ch[i].fence[1]].state = "reserving"

\* Confirmed and Failed are the last word of a worker
FinalInv(l, ch) ==
    \A i \in DOMAIN ch : ch[i].kind \in {"Confirmed", "Failed"} =>
          /\ ~After(ch, i, ch[i].fence)
          /\ \/ l.worker[ch[i].fence].pc = "off"
             \/ l.worker[ch[i].fence].pc = "done" /\ l.worker[ch[i].fence].h = ch[i].h

\* What the actor has been told, what is on its way and what the worker does next
\* are one story: the first event of a fence fits its slot, each further one the one
\* before, and the worker has announced what the last one says.
StoryInv(l, ch) ==
    /\ \A i, j \in DOMAIN ch :
          (i < j /\ ch[i].kind \in WorkerKinds /\ IsEvent(ch, j, ch[i].fence) /\ ~Between(ch, i, j, ch[i].fence))
             => Fits(Held(ch[i]), ch[j])
    /\ \A i \in DOMAIN ch :
          (/\ ch[i].kind \in WorkerKinds /\ ~After(ch, i, ch[i].fence)
           /\ l.worker[ch[i].fence].pc \in LivePcs)
             => Held(ch[i]) = Announced(l.worker[ch[i].fence])
    /\ \A i \in DOMAIN ch :
          (ch[i].kind \in WorkerKinds /\ ~Before(ch, i, ch[i].fence) /\ Current(l, ch[i].fence))
             => Fits(l.slot[ch[i].fence[1]].handle, ch[i])
    /\ \A f \in Fences :
          (Current(l, f) /\ l.worker[f].pc \in LivePcs /\ Silent(ch, f))
             => l.slot[f[1]].handle = Announced(l.worker[f])

\* A cleanup reports when its worker has returned and its slot is its own
CompleteInv(l, ch) ==
    /\ \A i \in DOMAIN ch : ch[i].kind = "CleanupComplete" =>
          /\ l.worker[ch[i].fence].pc = "off"
          /\ ~After(ch, i, ch[i].fence)
          /\ ~Current(l, ch[i].fence)
          /\ l.retiring[ch[i].fence[1]].gen = ch[i].fence[2] => l.retiring[ch[i].fence[1]].done
    /\ \A i, j \in DOMAIN ch :
          (ch[i].kind = "CleanupComplete" /\ ch[j].kind = "CleanupComplete" /\ i # j)
             => ch[i].fence # ch[j].fence

ChannelInv(l, ch) ==
    /\ EventsInv(l, ch) /\ FinalInv(l, ch) /\ StoryInv(l, ch) /\ CompleteInv(l, ch)

-----------------------------------------------------------------------------
(* Whose a reservation is *)

Mentions(l, ch, h, f) ==
    \/ l.worker[f].h = h
    \/ \E i \in DOMAIN ch : ch[i].fence = f /\ ch[i].h = h
    \/ Current(l, f) /\ l.slot[f[1]].handle = h

Disowned(l, dt, h) == h \in dt \/ \E s \in Slots : h \in l.retiring[s].todo

\* A reservation belongs to one attempt; what is being cancelled belongs to none that
\* is current.
HandleInv(l, ch, rs, dt) ==
    /\ \A h \in Handles, f, g \in Fences :
          (Mentions(l, ch, h, f) /\ Mentions(l, ch, h, g)) => f = g
    /\ \A h \in Handles, f \in Fences :
          (Disowned(l, dt, h) /\ Mentions(l, ch, h, f)) => ~Current(l, f)
    /\ \A h \in Handles : Disowned(l, dt, h) => rs[h].state # "free"
    /\ \A h \in Handles, f \in Fences : Mentions(l, ch, h, f) => rs[h].state # "free"

\* Reservations are minted in order, and an attempt moves on to newer ones
OrderInv(l, ch, rs) ==
    /\ \A g, h \in Handles : (g < h /\ rs[g].state = "free") => rs[h].state = "free"
    /\ \A i \in DOMAIN ch : ch[i].kind = "Retrying" => rs[ch[i].h].state = "gone"
    /\ \A f \in Fences : l.worker[f].pc = "minted" => rs[l.worker[f].h].state = "dispatching"
    /\ \A f \in Fences, i \in DOMAIN ch :
          (l.worker[f].h \in Handles /\ IsEvent(ch, i, f)) =>
             /\ ch[i].h <= l.worker[f].h
             /\ ch[i].kind = "Retrying" => ch[i].h < l.worker[f].h
    /\ \A i, j \in DOMAIN ch :
          (/\ i < j /\ ch[i].kind \in WorkerKinds
           /\ IsEvent(ch, j, ch[i].fence) /\ ch[j].h \in Handles) =>
             /\ ch[i].h <= ch[j].h
             /\ ch[i].kind = "Retrying" => ch[i].h < ch[j].h

\* An attempt has the reservations of its relay
RelayInv(l, ch, rs) ==
    /\ \A h \in Handles, f \in Fences :
          (Current(l, f) /\ Mentions(l, ch, h, f)) => rs[h].relay = l.slot[f[1]].relay
    /\ \A f \in Fences : (Current(l, f) /\ l.worker[f].pc # "off") => l.worker[f].relay = l.slot[f[1]].relay

-----------------------------------------------------------------------------
(* What a route stands on *)

Evident(rs, nt, pd, h) == rs[h].state = "publishable" \/ h \in nt \/ h \in pd

\* A notice is about a reservation that is down, and the loss of a confirmed one is on
\* its way, or known, until its route is withdrawn or refused.
RouteInv(l, ch, rs, nt, pd) ==
    /\ \A h \in nt \cup pd : rs[h].state \in {"canceling", "gone"}
    /\ \A s \in Slots : l.slot[s].state = "confirmed" =>
          /\ l.slot[s].handle \in Handles
          /\ rs[l.slot[s].handle].state = "publishable" \/ l.slot[s].handle \in nt
    /\ \A f \in Fences : (Current(l, f) /\ l.worker[f].pc = "confirmed") =>
          Evident(rs, nt, pd, l.worker[f].h)
    /\ \A i \in DOMAIN ch : (ch[i].kind = "Confirmed" /\ Current(l, ch[i].fence)) =>
          Evident(rs, nt, pd, ch[i].h)

-----------------------------------------------------------------------------
(* Who will cancel a reservation *)

Keeper(l, dt, h) ==
    \/ \E s \in Slots : l.slot[s].handle = h \/ h \in l.retiring[s].todo
    \/ \E f \in Fences : l.worker[f].h = h
    \/ h \in dt

KeepInv(l, rs, dt) ==
    \A h \in Handles : rs[h].state \in {"pending", "publishable"} => Keeper(l, dt, h)

\* A call timed out, and whoever knows of it has not reported yet
Trouble(l) ==
    /\ CallsTimeOut
    /\ \/ failed \/ exit \notin {"none", "stop"}
       \/ \E s \in Slots : l.retiring[s].err
       \/ \E f \in Fences : l.worker[f].err

KeeperInv == (phase # "panicked" /\ ~Trouble(Local)) => KeepInv(Local, res, detached)

-----------------------------------------------------------------------------
(* The actor's phases and the DMS *)

\* No worker had to release its reservation itself
Calm(l) == \A f \in Fences : ~l.worker[f].err /\ l.worker[f].pc # "release"

PhaseInv ==
    /\ chanOpen <=> phase \in {"running", "awaiting"}
    /\ chanOpen <=> exit = "none"
    /\ ~chanOpen => chan = <<>> /\ \A s \in Slots : slot[s].gen = 0
    /\ phase = "awaiting" => blocked \in Slots
    /\ chanOpen => (~failed /\ Calm(Local))
    /\ phase = "deleting" => ~failed
    /\ phase \in {"deleting", "ended"} => NothingLeft

AnswerInv(d, sn) ==
    /\ DistinctProviders(d) /\ DistinctProviders(sn)
    /\ \A s \in Slots : /\ sn[s].epoch <= d[s].epoch
                        /\ sn[s].epoch = d[s].epoch => sn[s].relay = d[s].relay

\* What the parts of a step preserve one after the other
Core(l, ch, rs, nt, pd, dt) ==
    /\ l \in LocalRecord /\ ch \in Seq(EventRecord) /\ rs \in [Handles -> ReservationRecord]
    /\ nt \in SUBSET Handles /\ pd \in SUBSET Handles /\ dt \in SUBSET Handles
    /\ LocalInv(l) /\ ChannelInv(l, ch)
    /\ HandleInv(l, ch, rs, dt) /\ OrderInv(l, ch, rs) /\ RelayInv(l, ch, rs)
    /\ RouteInv(l, ch, rs, nt, pd)

\* The types of what is not the actor's own state
FlagsType ==
    /\ dms \in Snapshot /\ snap \in Snapshot /\ booked \in BOOLEAN
    /\ lapsed \subseteq Slots /\ timers \subseteq Fences
    /\ chanOpen \in BOOLEAN /\ regClosed \in BOOLEAN /\ forcing \in BOOLEAN
    /\ failed \in BOOLEAN
    /\ phase \in {"running", "awaiting", "draining", "deleting", "ended", "panicked"}
    /\ blocked \in Slots \cup {NoSlot}
    /\ exit \in {"none", "stop", "ended", "failed", "forced"}

IInv ==
    /\ FlagsType /\ PhaseInv /\ AnswerInv(dms, snap)
    /\ Core(Local, chan, res, notices, pending, detached)
    /\ SnapshotInv(Local, snap)
    /\ StartRollsBack => KeeperInv

-----------------------------------------------------------------------------
(* What the transformations of the actor's own state do *)

SameWorker(v, w) == v.pc = w.pc /\ v.relay = w.relay /\ v.h = w.h /\ v.err = w.err

\* begin_retirement of the slots ss
RetiredTo(l, r, ss) ==
    /\ r.gens = l.gens
    /\ \A s \in Slots : s \notin ss => (r.slot[s] = l.slot[s] /\ r.retiring[s] = l.retiring[s])
    /\ \A s \in ss :
          /\ r.slot[s] = Vacant
          /\ r.retiring[s].gen = l.slot[s].gen /\ r.retiring[s].join = l.slot[s].worker
          /\ r.retiring[s].todo = HandleSet(l.slot[s].handle)
          /\ r.retiring[s].err = FALSE /\ r.retiring[s].done = FALSE
    /\ \A f \in Fences : SameWorker(r.worker[f], l.worker[f])
    /\ \A f \in Fences : f \in r.routes <=> (f \in l.routes /\ ~(f[1] \in ss /\ Current(l, f)))

\* new attempts for the slots ss
StartedTo(l, r, sn, ss) ==
    /\ r.retiring = l.retiring /\ r.routes = l.routes
    /\ \A s \in Slots : s \notin ss => (r.slot[s] = l.slot[s] /\ r.gens[s] = l.gens[s])
    /\ \A s \in ss :
          /\ r.gens[s] = l.gens[s] + 1 /\ r.slot[s].gen = l.gens[s] + 1
          /\ r.slot[s].epoch = sn[s].epoch /\ r.slot[s].relay = sn[s].relay
          /\ r.slot[s].state = "reserving" /\ r.slot[s].handle = NoHandle
          /\ r.slot[s].worker = TRUE
    /\ \A f \in Fences :
          /\ ~(f[1] \in ss /\ f[2] = l.gens[f[1]] + 1) => r.worker[f] = l.worker[f]
          /\ (f[1] \in ss /\ f[2] = l.gens[f[1]] + 1) =>
                /\ r.worker[f].pc = "dial" /\ r.worker[f].relay = sn[f[1]].relay
                /\ r.worker[f].h = NoHandle /\ r.worker[f].err = FALSE

LEMMA FenceIs ==
    /\ \A f \in Fences : f[1] \in Slots /\ f[2] \in Gens /\ f = <<f[1], f[2]>>
    /\ \A s \in Slots, g \in Gens : <<s, g>> \in Fences /\ <<s, g>>[1] = s /\ <<s, g>>[2] = g
BY DEF Fences

LEMMA GensAre ==
    /\ \A g \in Gens : g \in Nat /\ g # 0
    /\ \A h \in Handles : h \in Nat /\ h # NoHandle
    /\ NoHandle \notin Handles
    /\ \A g \in 0..MaxGen : g # 0 => g \in Gens
    /\ Gens \cup {0} = 0..MaxGen
BY BoundsAreNaturals DEF Gens, Handles, NoHandle

LEMMA ConstantsType ==
    /\ Vacant \in SlotRecord /\ NotRetiring \in RetiringRecord /\ NoWorker \in WorkerRecord
    /\ Vacant.gen = 0 /\ Vacant.state = "vacant" /\ Vacant.handle = NoHandle /\ Vacant.worker = FALSE
    /\ NotRetiring.gen = 0 /\ NotRetiring.join = FALSE /\ NotRetiring.todo = {}
    /\ NotRetiring.err = FALSE /\ NotRetiring.done = FALSE
    /\ NoWorker.pc = "off" /\ NoWorker.h = NoHandle /\ NoWorker.err = FALSE
BY BoundsAreNaturals DEF Vacant, NotRetiring, NoWorker, SlotRecord, RetiringRecord, WorkerRecord,
   AnyRelay, AnyHandle, NoHandle, WorkerStates

LEMMA LocalType ==
    ASSUME TypeOK
    PROVE  /\ Local \in LocalRecord
           /\ Local.slot = slot /\ Local.retiring = retiring /\ Local.gens = gens
           /\ Local.worker = worker /\ Local.routes = routes
BY DEF TypeOK, Local, LocalRecord, SlotRecord, RetiringRecord, WorkerRecord

LEMMA LocalFields ==
    ASSUME NEW l \in LocalRecord
    PROVE  /\ \A s \in Slots : l.slot[s] \in SlotRecord /\ l.retiring[s] \in RetiringRecord
           /\ \A s \in Slots : l.gens[s] \in Nat /\ l.gens[s] \in 0..MaxGen
           /\ \A s \in Slots : l.slot[s].gen \in Nat /\ l.slot[s].gen \in 0..MaxGen
           /\ \A s \in Slots : l.slot[s].handle \in AnyHandle
           /\ \A s \in Slots : l.retiring[s].gen \in Nat /\ l.retiring[s].todo \in SUBSET Handles
           /\ \A f \in Fences : l.worker[f] \in WorkerRecord /\ l.worker[f].pc \in WorkerStates
           /\ \A f \in Fences : l.worker[f].h \in AnyHandle
           /\ l.routes \subseteq Fences
BY BoundsAreNaturals DEF LocalRecord, SlotRecord, RetiringRecord, WorkerRecord, Gens

LEMMA ChannelType ==
    ASSUME NEW ch \in Seq(EventRecord)
    PROVE  /\ Len(ch) \in Nat /\ DOMAIN ch = 1..Len(ch)
           /\ \A i \in DOMAIN ch : /\ i \in Nat /\ ch[i] \in EventRecord /\ ch[i].fence \in Fences
                                   /\ ch[i].h \in AnyHandle /\ ch[i].kind \in EventKinds
<1>1. \A i \in DOMAIN ch : i \in Nat /\ ch[i] \in EventRecord
  OBVIOUS
<1>2. \A e \in EventRecord : e.fence \in Fences /\ e.h \in AnyHandle /\ e.kind \in EventKinds
  BY DEF EventRecord
<1> QED BY <1>1, <1>2

\* A slot that is retired yields a record of `retiring'
LEMMA RetiringType ==
    ASSUME NEW r \in SlotRecord, NEW a \in {"reconcile", "report", "remove"}
    PROVE  LET t == [gen |-> r.gen, epoch |-> r.epoch, relay |-> r.relay, action |-> a,
                     join |-> r.worker, todo |-> HandleSet(r.handle),
                     err |-> FALSE, done |-> FALSE, polled |-> FALSE]
           IN t \in RetiringRecord /\ t.gen = r.gen /\ t.join = r.worker /\ t.todo = HandleSet(r.handle)
              /\ t.err = FALSE /\ t.done = FALSE
<1>1. HandleSet(r.handle) \in SUBSET Handles
  BY DEF HandleSet, SlotRecord, AnyHandle
<1> QED BY <1>1 DEF SlotRecord, RetiringRecord

LEMMA RetireIs ==
    ASSUME NEW l \in LocalRecord, NEW ss \in SUBSET Slots, NEW action,
           \A s \in ss : action[s] \in {"reconcile", "report", "remove"}
    PROVE  RetireSlots(l, ss, action) \in LocalRecord /\ RetiredTo(l, RetireSlots(l, ss, action), ss)
<1> DEFINE going == {<<s, l.slot[s].gen>> : s \in ss}
           wk == [f \in Fences |-> IF f \in going THEN [l.worker[f] EXCEPT !.cancelled = TRUE] ELSE l.worker[f]]
           rt == [s \in Slots |->
              IF s \notin ss THEN l.retiring[s]
              ELSE [gen |-> l.slot[s].gen, epoch |-> l.slot[s].epoch,
                    relay |-> l.slot[s].relay, action |-> action[s],
                    join |-> l.slot[s].worker,
                    todo |-> HandleSet(l.slot[s].handle),
                    err |-> FALSE, done |-> FALSE, polled |-> FALSE]]
           sl == [s \in Slots |-> IF s \in ss THEN Vacant ELSE l.slot[s]]
           r == RetireSlots(l, ss, action)
<1>1. r = [l EXCEPT !.routes = l.routes \ going, !.slot = sl, !.worker = wk, !.retiring = rt]
  BY DEF RetireSlots, Removed, Tombstoned
<1>2. sl \in [Slots -> SlotRecord]
  BY ConstantsType, LocalFields
<1>3. rt \in [Slots -> RetiringRecord] /\ \A s \in ss :
          /\ rt[s].gen = l.slot[s].gen /\ rt[s].join = l.slot[s].worker
          /\ rt[s].todo = HandleSet(l.slot[s].handle)
          /\ rt[s].err = FALSE /\ rt[s].done = FALSE
  BY RetiringType, LocalFields
<1>4. wk \in [Fences -> WorkerRecord] /\ \A f \in Fences : SameWorker(wk[f], l.worker[f])
  <2>1. \A w \in WorkerRecord : LET v == [w EXCEPT !.cancelled = TRUE] IN v \in WorkerRecord /\ SameWorker(v, w)
    BY DEF WorkerRecord, SameWorker
  <2> QED BY <2>1, LocalFields DEF SameWorker
<1>5. \A f \in Fences : f \in going <=> (f[1] \in ss /\ Current(l, f))
  BY FenceIs DEF Current
<1> HIDE DEF r, going, wk, sl, rt
<1>6. l.routes \ going \in SUBSET Fences
  BY LocalFields
<1>7. /\ r \in LocalRecord
      /\ r.slot = sl /\ r.retiring = rt /\ r.gens = l.gens /\ r.worker = wk /\ r.routes = l.routes \ going
  BY <1>1, <1>2, <1>3, <1>4, <1>6 DEF LocalRecord
<1> USE DEF sl, rt
<1>8. RetiredTo(l, r, ss)
  BY <1>3, <1>4, <1>5, <1>7 DEF RetiredTo
<1> QED BY <1>7, <1>8 DEF r

LEMMA StartIs ==
    ASSUME NEW l \in LocalRecord, NEW sn \in Snapshot, NEW ss \in SUBSET Slots,
           \A s \in ss : l.gens[s] < MaxGen
    PROVE  StartWorkers(l, sn, ss) \in LocalRecord /\ StartedTo(l, StartWorkers(l, sn, ss), sn, ss)
<1> DEFINE gs == [s \in Slots |-> IF s \in ss THEN l.gens[s] + 1 ELSE l.gens[s]]
           sl == [s \in Slots |->
                    IF s \in ss
                    THEN [gen |-> l.gens[s] + 1, epoch |-> sn[s].epoch,
                          relay |-> sn[s].relay, state |-> "reserving",
                          handle |-> NoHandle, worker |-> TRUE]
                    ELSE l.slot[s]]
           wk == [f \in Fences |->
                    IF f[1] \in ss /\ f[2] = l.gens[f[1]] + 1
                    THEN [NoWorker EXCEPT !.pc = "dial", !.relay = sn[f[1]].relay]
                    ELSE l.worker[f]]
           r == StartWorkers(l, sn, ss)
<1>1. r = [l EXCEPT !.gens = gs, !.slot = sl, !.worker = wk]
  BY DEF StartWorkers
<1>2. gs \in [Slots -> 0..MaxGen] /\ \A s \in ss : l.gens[s] + 1 \in Gens
  BY BoundsAreNaturals, LocalFields DEF Gens
<1>3. \A s \in Slots : sn[s].epoch \in 0..MaxEpoch /\ sn[s].relay \in AnyRelay
  BY BoundsAreNaturals DEF Snapshot, Assignments, AnyRelay
<1>4. sl \in [Slots -> SlotRecord]
  BY <1>2, <1>3, LocalFields DEF SlotRecord, AnyHandle
<1>5. wk \in [Fences -> WorkerRecord] /\ \A f \in Fences :
          (f[1] \in ss /\ f[2] = l.gens[f[1]] + 1) =>
                /\ wk[f].pc = "dial" /\ wk[f].relay = sn[f[1]].relay
                /\ wk[f].h = NoHandle /\ wk[f].err = FALSE
  <2>1. \A a \in AnyRelay : LET v == [NoWorker EXCEPT !.pc = "dial", !.relay = a] IN
          v \in WorkerRecord /\ v.pc = "dial" /\ v.relay = a /\ v.h = NoHandle /\ v.err = FALSE
    BY DEF WorkerRecord, NoWorker, WorkerStates, AnyHandle
  <2> QED BY <1>3, <2>1, FenceIs, LocalFields
<1> HIDE DEF r, gs, sl, wk
<1>6. /\ r \in LocalRecord
      /\ r.slot = sl /\ r.retiring = l.retiring /\ r.gens = gs /\ r.worker = wk /\ r.routes = l.routes
  BY <1>1, <1>2, <1>4, <1>5 DEF LocalRecord
<1>7. r.slot = sl /\ r.retiring = l.retiring /\ r.gens = gs /\ r.worker = wk /\ r.routes = l.routes
  BY <1>6
<1>8. StartedTo(l, r, sn, ss)
  <2>1. \A s \in ss :
          /\ r.gens[s] = l.gens[s] + 1 /\ r.slot[s].gen = l.gens[s] + 1
          /\ r.slot[s].epoch = sn[s].epoch /\ r.slot[s].relay = sn[s].relay
          /\ r.slot[s].state = "reserving" /\ r.slot[s].handle = NoHandle
          /\ r.slot[s].worker = TRUE
    BY <1>7 DEF sl, gs
  <2>2. \A s \in Slots : s \notin ss => (r.slot[s] = l.slot[s] /\ r.gens[s] = l.gens[s])
    BY <1>7 DEF sl, gs
  <2>3. \A f \in Fences : ~(f[1] \in ss /\ f[2] = l.gens[f[1]] + 1) => r.worker[f] = l.worker[f]
    BY <1>7 DEF wk
  <2> QED BY <1>5, <1>7, <2>1, <2>2, <2>3 DEF StartedTo
<1> QED BY <1>6, <1>8 DEF r

-----------------------------------------------------------------------------
(* Retiring slots *)

LEMMA RetireKeepsLocal ==
    ASSUME NEW l \in LocalRecord, NEW r \in LocalRecord, NEW ss \in SUBSET Slots,
           LocalInv(l), \A s \in ss : l.slot[s].gen # 0, RetiredTo(l, r, ss)
    PROVE  LocalInv(r)
<1> USE ConstantsType, LocalFields, FenceIs, GensAre DEF RetiredTo, Current, SameWorker
<1>1. /\ \A s \in Slots : r.slot[s].gen = 0 => r.slot[s] = Vacant
      /\ \A s \in Slots : r.slot[s].state = "vacant" => r.slot[s].gen = 0
      /\ \A s \in Slots : r.slot[s].gen # 0 => r.retiring[s].gen = 0
  BY DEF LocalInv
<1>2. \A s \in Slots : r.retiring[s].gen = 0 => r.retiring[s] = NotRetiring
  BY DEF LocalInv
<1>3. \A s \in Slots : r.slot[s].gen <= r.gens[s] /\ r.retiring[s].gen <= r.gens[s]
  BY DEF LocalInv
<1>4. \A s \in Slots : r.retiring[s].done => (~r.retiring[s].join /\ r.retiring[s].todo = {})
  BY DEF LocalInv
<1>5. \A s \in Slots : r.slot[s].state \in {"confirmed", "reporting"} => ~r.slot[s].worker
  BY DEF LocalInv
<1>6. \A f \in Fences : r.worker[f].pc # "off" =>
          \/ Current(r, f) /\ r.slot[f[1]].worker
          \/ r.retiring[f[1]].gen = f[2] /\ r.retiring[f[1]].join
  BY DEF LocalInv
<1>7. /\ \A f \in Fences : r.worker[f].pc = "off" => ~r.worker[f].err
      /\ \A f \in Fences : r.worker[f].pc \in {"off", "dial"} => r.worker[f].h = NoHandle
      /\ \A f \in Fences : r.worker[f].pc \in LivePcs \ {"dial"} => r.worker[f].h \in Handles
      /\ \A f \in Fences : r.worker[f].pc = "release" => r.worker[f].h \in Handles
  BY DEF LocalInv
<1>8. \A f \in r.routes : Current(r, f) /\ r.slot[f[1]].state = "confirmed"
  BY DEF LocalInv
<1> QED BY <1>1, <1>2, <1>3, <1>4, <1>5, <1>6, <1>7, <1>8 DEF LocalInv

LEMMA RetireKeepsChannel ==
    ASSUME NEW l \in LocalRecord, NEW r \in LocalRecord, NEW ss \in SUBSET Slots,
           NEW ch \in Seq(EventRecord), ChannelInv(l, ch), RetiredTo(l, r, ss)
    PROVE  ChannelInv(r, ch)
<1>0. \A i \in DOMAIN ch : ch[i].fence \in Fences
  BY ChannelType
<1>1. \A f \in Fences : /\ r.worker[f].pc = l.worker[f].pc /\ r.worker[f].h = l.worker[f].h
                        /\ Announced(r.worker[f]) = Announced(l.worker[f])
                        /\ Current(r, f) => (Current(l, f) /\ r.slot[f[1]] = l.slot[f[1]])
  BY ConstantsType, FenceIs, GensAre DEF RetiredTo, SameWorker, Announced, Current
<1>2. r.gens = l.gens
  BY DEF RetiredTo
<1>3. EventsInv(r, ch)
  BY <1>0, <1>1, <1>2 DEF ChannelInv, EventsInv
<1>4. FinalInv(r, ch)
  BY <1>0, <1>1 DEF ChannelInv, FinalInv
<1>5. StoryInv(r, ch)
  BY <1>0, <1>1 DEF ChannelInv, StoryInv
<1>6. CompleteInv(r, ch)
  BY <1>0, <1>1, FenceIs DEF ChannelInv, CompleteInv, RetiredTo, Current
<1> QED BY <1>3, <1>4, <1>5, <1>6 DEF ChannelInv

LEMMA RetireKeepsHandles ==
    ASSUME NEW l \in LocalRecord, NEW r \in LocalRecord, NEW ss \in SUBSET Slots,
           NEW ch \in Seq(EventRecord), NEW rs, NEW dt,
           HandleInv(l, ch, rs, dt), \A s \in ss : l.slot[s].gen # 0, RetiredTo(l, r, ss)
    PROVE  HandleInv(r, ch, rs, dt)
<1>1. \A f \in Fences : Current(r, f) => (Current(l, f) /\ f[1] \notin ss /\ r.slot[f[1]] = l.slot[f[1]])
  BY ConstantsType, FenceIs, GensAre DEF RetiredTo, Current
<1>2. \A h \in Handles, f \in Fences : Mentions(r, ch, h, f) => Mentions(l, ch, h, f)
  BY <1>1 DEF Mentions, RetiredTo, SameWorker
<1>3. \A h \in Handles : Disowned(r, dt, h) => (Disowned(l, dt, h) \/ \E s \in ss : l.slot[s].handle = h)
  <2> SUFFICES ASSUME NEW h \in Handles, NEW s \in Slots, h \in r.retiring[s].todo
               PROVE  Disowned(l, dt, h) \/ \E q \in ss : l.slot[q].handle = h
    BY DEF Disowned
  <2>1. CASE s \in ss
    <3>1. h \in HandleSet(l.slot[s].handle)
      BY <2>1 DEF RetiredTo
    <3>2. l.slot[s].handle = h
      BY <3>1 DEF HandleSet
    <3> QED BY <2>1, <3>2
  <2>2. CASE s \notin ss
    BY <2>2 DEF RetiredTo, Disowned
  <2> QED BY <2>1, <2>2
<1>4. ASSUME NEW h \in Handles, NEW s \in ss, l.slot[s].handle = h
      PROVE  <<s, l.slot[s].gen>> \in Fences /\ Mentions(l, ch, h, <<s, l.slot[s].gen>>)
  <2>1. l.slot[s].gen \in Gens
    BY GensAre, LocalFields
  <2> QED BY <1>4, <2>1, FenceIs DEF Mentions, Current
<1>5. ASSUME NEW h \in Handles, NEW f \in Fences, Disowned(r, dt, h), Mentions(r, ch, h, f), Current(r, f)
      PROVE  FALSE
  <2>1. CASE Disowned(l, dt, h)
    BY <1>1, <1>2, <1>5, <2>1 DEF HandleInv
  <2>2. CASE \E s \in ss : l.slot[s].handle = h
    <3>1. PICK s \in ss : l.slot[s].handle = h
      BY <2>2
    <3> DEFINE g == <<s, l.slot[s].gen>>
    <3>2. g \in Fences /\ Mentions(l, ch, h, g) /\ Mentions(l, ch, h, f) /\ g[1] = s
      BY <1>2, <1>4, <1>5, <3>1
    <3> HIDE DEF g
    <3>3. f = g
      BY <3>2 DEF HandleInv
    <3> QED BY <1>1, <1>5, <3>2, <3>3
  <2> QED BY <1>3, <1>5, <2>1, <2>2
<1>6. \A h \in Handles : Disowned(r, dt, h) => rs[h].state # "free"
  BY <1>3, <1>4 DEF HandleInv
<1>7. \A h \in Handles, f, g \in Fences : (Mentions(r, ch, h, f) /\ Mentions(r, ch, h, g)) => f = g
  BY <1>2 DEF HandleInv
<1>8. \A h \in Handles, f \in Fences : Mentions(r, ch, h, f) => rs[h].state # "free"
  BY <1>2 DEF HandleInv
<1> QED BY <1>5, <1>6, <1>7, <1>8 DEF HandleInv

LEMMA RetireKeepsRest ==
    ASSUME NEW l \in LocalRecord, NEW r \in LocalRecord, NEW ss \in SUBSET Slots,
           NEW ch \in Seq(EventRecord), NEW rs, NEW nt, NEW pd, RetiredTo(l, r, ss)
    PROVE  /\ OrderInv(l, ch, rs) => OrderInv(r, ch, rs)
           /\ RelayInv(l, ch, rs) => RelayInv(r, ch, rs)
           /\ RouteInv(l, ch, rs, nt, pd) => RouteInv(r, ch, rs, nt, pd)
<1>1. \A f \in Fences : Current(r, f) => (Current(l, f) /\ f[1] \notin ss /\ r.slot[f[1]] = l.slot[f[1]])
  BY ConstantsType, FenceIs, GensAre DEF RetiredTo, Current
<1>2. \A f \in Fences : /\ r.worker[f].pc = l.worker[f].pc /\ r.worker[f].h = l.worker[f].h
                        /\ r.worker[f].relay = l.worker[f].relay
  BY DEF RetiredTo, SameWorker
<1>3. \A h \in Handles, f \in Fences : Mentions(r, ch, h, f) => Mentions(l, ch, h, f)
  BY <1>1, <1>2 DEF Mentions
<1>4. \A s \in Slots : r.slot[s].state = "confirmed" => r.slot[s] = l.slot[s]
  BY ConstantsType DEF RetiredTo
<1>5. OrderInv(l, ch, rs) => OrderInv(r, ch, rs)
  BY <1>2 DEF OrderInv
<1>6. RelayInv(l, ch, rs) => RelayInv(r, ch, rs)
  BY <1>1, <1>2, <1>3 DEF RelayInv
<1>7. RouteInv(l, ch, rs, nt, pd) => RouteInv(r, ch, rs, nt, pd)
  BY <1>1, <1>2, <1>4, ChannelType DEF RouteInv
<1> QED BY <1>5, <1>6, <1>7

\* Retiring slots that hold an attempt preserves everything
LEMMA RetireKeepsCore ==
    ASSUME NEW l, NEW r \in LocalRecord, NEW ss \in SUBSET Slots,
           NEW ch, NEW rs, NEW nt, NEW pd, NEW dt, Core(l, ch, rs, nt, pd, dt),
           \A s \in ss : l.slot[s].gen # 0, RetiredTo(l, r, ss)
    PROVE  Core(r, ch, rs, nt, pd, dt)
<1>1. l \in LocalRecord /\ ch \in Seq(EventRecord)
  BY DEF Core
<1>2. LocalInv(r)
  BY <1>1, RetireKeepsLocal DEF Core
<1>3. ChannelInv(r, ch)
  BY <1>1, RetireKeepsChannel DEF Core
<1>4. HandleInv(r, ch, rs, dt)
  BY <1>1, RetireKeepsHandles DEF Core
<1>5. OrderInv(r, ch, rs) /\ RelayInv(r, ch, rs) /\ RouteInv(r, ch, rs, nt, pd)
  BY <1>1, RetireKeepsRest DEF Core
<1> QED BY <1>1, <1>2, <1>3, <1>4, <1>5 DEF Core

\* ... and the reservations keep somebody who will cancel them
LEMMA RetireKeepsKeepers ==
    ASSUME NEW l \in LocalRecord, NEW r \in LocalRecord, NEW ss \in SUBSET Slots,
           NEW sn, NEW rs, NEW dt, RetiredTo(l, r, ss)
    PROVE  /\ SnapshotInv(l, sn) => SnapshotInv(r, sn)
           /\ ((\A s \in ss : l.retiring[s].todo = {}) /\ KeepInv(l, rs, dt)) => KeepInv(r, rs, dt)
<1>1. SnapshotInv(l, sn) => SnapshotInv(r, sn)
  BY ConstantsType DEF SnapshotInv, RetiredTo
<1>2. ASSUME \A s \in ss : l.retiring[s].todo = {}, NEW h \in Handles, Keeper(l, dt, h)
      PROVE  Keeper(r, dt, h)
  <2>1. CASE \E s \in Slots : l.slot[s].handle = h
    BY <2>1, GensAre DEF Keeper, RetiredTo, HandleSet
  <2>2. CASE \E s \in Slots : h \in l.retiring[s].todo
    BY <1>2, <2>2 DEF Keeper, RetiredTo
  <2>3. CASE \E f \in Fences : l.worker[f].h = h
    BY <2>3 DEF Keeper, RetiredTo, SameWorker
  <2> QED BY <1>2, <2>1, <2>2, <2>3 DEF Keeper
<1> QED BY <1>1, <1>2 DEF KeepInv

-----------------------------------------------------------------------------
(* Starting attempts *)

\* The fences of the new attempts
IsNew(l, ss, f) == f[1] \in ss /\ f[2] = l.gens[f[1]] + 1

\* What is new about them, and what stays as it was
Fresh(l, r, ss, ch) ==
    /\ \A f \in Fences : IsNew(l, ss, f) =>
          /\ l.worker[f].pc = "off" /\ l.worker[f].h = NoHandle
          /\ r.worker[f].pc = "dial" /\ r.worker[f].h = NoHandle
          /\ r.slot[f[1]].handle = NoHandle /\ r.slot[f[1]].state = "reserving"
          /\ ~Current(l, f) /\ Announced(r.worker[f]) = NoHandle
    /\ \A f \in Fences : ~IsNew(l, ss, f) => r.worker[f] = l.worker[f]
    /\ \A f \in Fences : Current(r, f) =>
          (IsNew(l, ss, f) \/ (f[1] \notin ss /\ Current(l, f) /\ r.slot[f[1]] = l.slot[f[1]]))
    /\ \A i \in DOMAIN ch : IsNew(l, ss, ch[i].fence) => ch[i].kind = "RetryFailure"
    /\ \A i \in DOMAIN ch : IsNew(l, ss, ch[i].fence) => ch[i].h = NoHandle
    /\ \A s \in Slots : l.gens[s] <= r.gens[s]

LEMMA StartFacts ==
    ASSUME NEW l \in LocalRecord, NEW r \in LocalRecord, NEW ss \in SUBSET Slots, NEW sn,
           NEW ch \in Seq(EventRecord), LocalInv(l), EventsInv(l, ch),
           \A s \in ss : l.slot[s].gen = 0 /\ l.retiring[s].gen = 0, StartedTo(l, r, sn, ss)
    PROVE  Fresh(l, r, ss, ch)
<1>1. ASSUME NEW f \in Fences, IsNew(l, ss, f)
      PROVE  ~Current(l, f) /\ l.retiring[f[1]].gen # f[2]
  <2>1. f[1] \in Slots /\ f[1] \in ss /\ f[2] = l.gens[f[1]] + 1 /\ l.gens[f[1]] \in Nat
    BY <1>1, FenceIs, LocalFields DEF IsNew
  <2>2. l.slot[f[1]].gen = 0 /\ l.retiring[f[1]].gen = 0
    BY <2>1
  <2> QED BY <2>1, <2>2 DEF Current
<1>2. \A f \in Fences : IsNew(l, ss, f) => (l.worker[f].pc = "off" /\ l.worker[f].h = NoHandle)
  BY <1>1 DEF LocalInv
<1>3. \A f \in Fences : IsNew(l, ss, f) =>
         /\ r.worker[f].pc = "dial" /\ r.worker[f].h = NoHandle
         /\ r.slot[f[1]].handle = NoHandle /\ r.slot[f[1]].state = "reserving"
  BY FenceIs DEF StartedTo, IsNew
<1>4. \A f \in Fences : IsNew(l, ss, f) => Announced(r.worker[f]) = NoHandle
  BY <1>3 DEF Announced
<1>5. \A f \in Fences : ~IsNew(l, ss, f) => r.worker[f] = l.worker[f]
  BY DEF StartedTo, IsNew
<1>6. \A f \in Fences : Current(r, f) =>
         (IsNew(l, ss, f) \/ (f[1] \notin ss /\ Current(l, f) /\ r.slot[f[1]] = l.slot[f[1]]))
  BY FenceIs DEF StartedTo, IsNew, Current
<1>7. \A i \in DOMAIN ch : IsNew(l, ss, ch[i].fence) => ch[i].kind = "RetryFailure"
  <2> SUFFICES ASSUME NEW i \in DOMAIN ch, ch[i].kind # "RetryFailure", IsNew(l, ss, ch[i].fence)
               PROVE  FALSE
    OBVIOUS
  <2>1. ch[i].fence[2] <= l.gens[ch[i].fence[1]]
    BY DEF EventsInv
  <2>2. ch[i].fence[1] \in Slots
    BY ChannelType, FenceIs
  <2> QED BY <2>1, <2>2, LocalFields DEF IsNew
<1>8. \A i \in DOMAIN ch : IsNew(l, ss, ch[i].fence) => ch[i].h = NoHandle
  BY <1>7 DEF EventsInv
<1>9. \A s \in Slots : l.gens[s] <= r.gens[s]
  BY LocalFields DEF StartedTo
<1> QED BY <1>1, <1>2, <1>3, <1>4, <1>5, <1>6, <1>7, <1>8, <1>9 DEF Fresh

LEMMA StartKeepsLocal ==
    ASSUME NEW l \in LocalRecord, NEW r \in LocalRecord, NEW ss \in SUBSET Slots, NEW sn,
           NEW ch \in Seq(EventRecord), LocalInv(l), EventsInv(l, ch),
           \A s \in ss : l.slot[s].gen = 0 /\ l.retiring[s].gen = 0, StartedTo(l, r, sn, ss)
    PROVE  LocalInv(r)
<1>0. Fresh(l, r, ss, ch)
  BY StartFacts
<1>1. \A s \in Slots : l.gens[s] <= r.gens[s] /\ l.gens[s] \in Nat /\ r.gens[s] \in Nat
  BY <1>0, LocalFields DEF Fresh
<1>2. \A s \in ss : /\ r.slot[s].gen # 0 /\ r.slot[s].gen <= r.gens[s] /\ r.slot[s].state = "reserving"
  BY <1>1 DEF StartedTo
<1>3. \A s \in Slots : s \notin ss => r.slot[s] = l.slot[s]
  BY DEF StartedTo
<1>4. r.retiring = l.retiring /\ r.routes = l.routes
  BY DEF StartedTo
<1>5. /\ \A s \in Slots : r.slot[s].gen = 0 => r.slot[s] = Vacant
      /\ \A s \in Slots : r.slot[s].state = "vacant" => r.slot[s].gen = 0
      /\ \A s \in Slots : r.slot[s].gen # 0 => r.retiring[s].gen = 0
  BY <1>2, <1>3, <1>4 DEF LocalInv
<1>6. \A s \in Slots : r.slot[s].gen <= r.gens[s] /\ r.retiring[s].gen <= r.gens[s]
  BY <1>1, <1>2, <1>3, <1>4, LocalFields DEF LocalInv
<1>7. \A s \in Slots : r.slot[s].state \in {"confirmed", "reporting"} => ~r.slot[s].worker
  BY <1>2, <1>3 DEF LocalInv
<1>8. ASSUME NEW f \in Fences, r.worker[f].pc # "off"
      PROVE  \/ Current(r, f) /\ r.slot[f[1]].worker
             \/ r.retiring[f[1]].gen = f[2] /\ r.retiring[f[1]].join
  <2>1. CASE IsNew(l, ss, f)
    BY <2>1, FenceIs DEF IsNew, StartedTo, Current
  <2>2. CASE ~IsNew(l, ss, f)
    <3>1. \/ Current(l, f) /\ l.slot[f[1]].worker
          \/ l.retiring[f[1]].gen = f[2] /\ l.retiring[f[1]].join
      BY <1>0, <1>8, <2>2 DEF LocalInv, Fresh
    <3>2. Current(l, f) => f[1] \notin ss
      BY FenceIs, GensAre DEF Current
    <3> QED BY <1>3, <1>4, <3>1, <3>2, FenceIs DEF Current
  <2> QED BY <2>1, <2>2
<1>9. ASSUME NEW f \in Fences
      PROVE  /\ r.worker[f].pc = "off" => ~r.worker[f].err
             /\ r.worker[f].pc \in {"off", "dial"} => r.worker[f].h = NoHandle
             /\ r.worker[f].pc \in LivePcs \ {"dial"} => r.worker[f].h \in Handles
             /\ r.worker[f].pc = "release" => r.worker[f].h \in Handles
  <2>1. CASE IsNew(l, ss, f)
    BY <1>0, <2>1 DEF LivePcs, Fresh
  <2>2. CASE ~IsNew(l, ss, f)
    BY <1>0, <2>2 DEF LocalInv, Fresh
  <2> QED BY <2>1, <2>2
<1>10. \A f \in r.routes : Current(r, f) /\ r.slot[f[1]].state = "confirmed"
  <2> SUFFICES ASSUME NEW f \in l.routes PROVE Current(r, f) /\ r.slot[f[1]].state = "confirmed"
    BY <1>4
  <2>1. f \in Fences /\ Current(l, f) /\ l.slot[f[1]].state = "confirmed"
    BY LocalFields DEF LocalInv
  <2>2. f[1] \notin ss
    BY <2>1, FenceIs, GensAre DEF Current
  <2> QED BY <1>3, <2>1, <2>2, FenceIs DEF Current
<1>11. /\ \A s \in Slots : r.retiring[s].gen = 0 => r.retiring[s] = NotRetiring
       /\ \A s \in Slots : r.retiring[s].done => (~r.retiring[s].join /\ r.retiring[s].todo = {})
       /\ \A s \in Slots : r.retiring[s].join => ~r.retiring[s].err
  BY <1>4 DEF LocalInv
<1> QED BY <1>5, <1>6, <1>7, <1>8, <1>9, <1>10, <1>11 DEF LocalInv

LEMMA StartKeepsChannel ==
    ASSUME NEW l \in LocalRecord, NEW r \in LocalRecord, NEW ss \in SUBSET Slots,
           NEW ch \in Seq(EventRecord), Fresh(l, r, ss, ch), r.retiring = l.retiring, ChannelInv(l, ch)
    PROVE  ChannelInv(r, ch)
<1>0. /\ \A i \in DOMAIN ch : ch[i].fence \in Fences
      /\ EventsInv(l, ch) /\ FinalInv(l, ch) /\ StoryInv(l, ch) /\ CompleteInv(l, ch)
  BY ChannelType DEF ChannelInv
<1>1. \A i \in DOMAIN ch : ch[i].kind # "RetryFailure" =>
         /\ r.worker[ch[i].fence] = l.worker[ch[i].fence]
         /\ Current(r, ch[i].fence) => /\ Current(l, ch[i].fence)
                                       /\ r.slot[ch[i].fence[1]] = l.slot[ch[i].fence[1]]
  BY <1>0 DEF Fresh
<1>2. EventsInv(r, ch)
  <2>1. \A i \in DOMAIN ch : ch[i].kind # "RetryFailure" => ch[i].fence[2] <= r.gens[ch[i].fence[1]]
    <3> SUFFICES ASSUME NEW i \in DOMAIN ch, ch[i].kind # "RetryFailure"
                 PROVE  ch[i].fence[2] <= r.gens[ch[i].fence[1]]
      OBVIOUS
    <3>1. ch[i].fence[1] \in Slots /\ ch[i].fence[2] \in Nat
      BY <1>0, FenceIs, GensAre
    <3>2. ch[i].fence[2] <= l.gens[ch[i].fence[1]] /\ l.gens[ch[i].fence[1]] <= r.gens[ch[i].fence[1]]
      BY <1>0, <3>1 DEF EventsInv, Fresh
    <3> QED BY <3>1, <3>2, LocalFields
  <2>2. \A i \in DOMAIN ch : (ch[i].kind \in WorkerKinds /\ Current(r, ch[i].fence)) =>
           r.slot[ch[i].fence[1]].state = "reserving"
    BY <1>0, <1>1 DEF EventsInv, WorkerKinds
  <2> QED BY <1>0, <2>1, <2>2 DEF EventsInv
<1>3. FinalInv(r, ch)
  BY <1>0, <1>1 DEF FinalInv
<1>4. StoryInv(r, ch)
  <2>1. \A i \in DOMAIN ch : ch[i].kind \in WorkerKinds => ch[i].kind # "RetryFailure"
    BY DEF WorkerKinds
  <2>2. \A i \in DOMAIN ch :
          (/\ ch[i].kind \in WorkerKinds /\ ~After(ch, i, ch[i].fence)
           /\ r.worker[ch[i].fence].pc \in LivePcs)
             => Held(ch[i]) = Announced(r.worker[ch[i].fence])
    BY <1>0, <1>1, <2>1 DEF StoryInv
  <2>3. \A i \in DOMAIN ch :
          (ch[i].kind \in WorkerKinds /\ ~Before(ch, i, ch[i].fence) /\ Current(r, ch[i].fence))
             => Fits(r.slot[ch[i].fence[1]].handle, ch[i])
    BY <1>0, <1>1, <2>1 DEF StoryInv
  <2>4. ASSUME NEW f \in Fences, Current(r, f), r.worker[f].pc \in LivePcs, Silent(ch, f)
        PROVE  r.slot[f[1]].handle = Announced(r.worker[f])
    <3>1. CASE IsNew(l, ss, f)
      BY <3>1 DEF Fresh
    <3>2. CASE ~IsNew(l, ss, f)
      BY <1>0, <2>4, <3>2 DEF Fresh, StoryInv
    <3> QED BY <3>1, <3>2
  <2> QED BY <1>0, <2>2, <2>3, <2>4 DEF StoryInv
<1>5. CompleteInv(r, ch)
  BY <1>0, <1>1 DEF CompleteInv
<1> QED BY <1>2, <1>3, <1>4, <1>5 DEF ChannelInv

LEMMA StartKeepsRest ==
    ASSUME NEW l \in LocalRecord, NEW r \in LocalRecord, NEW ss \in SUBSET Slots, NEW sn,
           NEW ch \in Seq(EventRecord), NEW rs, NEW nt, NEW pd, NEW dt,
           Fresh(l, r, ss, ch), StartedTo(l, r, sn, ss)
    PROVE  /\ HandleInv(l, ch, rs, dt) => HandleInv(r, ch, rs, dt)
           /\ OrderInv(l, ch, rs) => OrderInv(r, ch, rs)
           /\ RelayInv(l, ch, rs) => RelayInv(r, ch, rs)
           /\ RouteInv(l, ch, rs, nt, pd) => RouteInv(r, ch, rs, nt, pd)
<1>1. \A f \in Fences : ~IsNew(l, ss, f) => r.worker[f] = l.worker[f]
  BY DEF Fresh
<1>2. \A f \in Fences : Current(r, f) =>
         (IsNew(l, ss, f) \/ (Current(l, f) /\ r.slot[f[1]] = l.slot[f[1]]))
  BY DEF Fresh
<1>3. \A h \in Handles, f \in Fences : Mentions(r, ch, h, f) => (Mentions(l, ch, h, f) /\ ~IsNew(l, ss, f))
  <2> SUFFICES ASSUME NEW h \in Handles, NEW f \in Fences, Mentions(r, ch, h, f)
               PROVE  Mentions(l, ch, h, f) /\ ~IsNew(l, ss, f)
    OBVIOUS
  <2>0. h # NoHandle
    BY GensAre
  <2>1. ~IsNew(l, ss, f)
    BY <2>0 DEF Mentions, Fresh
  <2> QED BY <1>1, <1>2, <2>1 DEF Mentions
<1>4. \A h \in Handles : Disowned(r, dt, h) => Disowned(l, dt, h)
  BY DEF Disowned, StartedTo
<1>5. HandleInv(l, ch, rs, dt) => HandleInv(r, ch, rs, dt)
  BY <1>2, <1>3, <1>4 DEF HandleInv
<1>6. \A f \in Fences : r.worker[f] = l.worker[f] \/ (r.worker[f].pc = "dial" /\ r.worker[f].h \notin Handles)
  BY GensAre DEF Fresh
<1>7. OrderInv(l, ch, rs) => OrderInv(r, ch, rs)
  BY <1>6 DEF OrderInv
<1>8. RelayInv(l, ch, rs) => RelayInv(r, ch, rs)
  <2>1. \A f \in Fences : IsNew(l, ss, f) => r.worker[f].relay = r.slot[f[1]].relay
    BY FenceIs DEF StartedTo, IsNew
  <2> QED BY <1>1, <1>2, <1>3, <2>1 DEF RelayInv
<1>9. RouteInv(l, ch, rs, nt, pd) => RouteInv(r, ch, rs, nt, pd)
  <2> SUFFICES ASSUME RouteInv(l, ch, rs, nt, pd) PROVE RouteInv(r, ch, rs, nt, pd)
    OBVIOUS
  <2>1. \A s \in Slots : r.slot[s].state = "confirmed" => r.slot[s] = l.slot[s]
    BY DEF StartedTo
  <2>2. \A s \in Slots : r.slot[s].state = "confirmed" =>
          /\ r.slot[s].handle \in Handles
          /\ rs[r.slot[s].handle].state = "publishable" \/ r.slot[s].handle \in nt
    BY <2>1 DEF RouteInv
  <2>3. \A f \in Fences : (Current(r, f) /\ r.worker[f].pc = "confirmed") => Evident(rs, nt, pd, r.worker[f].h)
    BY <1>2, <1>6 DEF RouteInv, Fresh
  <2>4. \A i \in DOMAIN ch : (ch[i].kind = "Confirmed" /\ Current(r, ch[i].fence)) => Evident(rs, nt, pd, ch[i].h)
    BY <1>2, ChannelType DEF RouteInv, Fresh
  <2> QED BY <2>2, <2>3, <2>4 DEF RouteInv
<1> QED BY <1>5, <1>7, <1>8, <1>9

\* New attempts for free slots preserve everything
LEMMA StartKeepsCore ==
    ASSUME NEW l, NEW r \in LocalRecord, NEW ss \in SUBSET Slots, NEW sn,
           NEW ch, NEW rs, NEW nt, NEW pd, NEW dt, Core(l, ch, rs, nt, pd, dt),
           \A s \in ss : l.slot[s].gen = 0 /\ l.retiring[s].gen = 0, StartedTo(l, r, sn, ss)
    PROVE  Core(r, ch, rs, nt, pd, dt)
<1>1. l \in LocalRecord /\ ch \in Seq(EventRecord) /\ LocalInv(l) /\ EventsInv(l, ch)
  BY DEF Core, ChannelInv
<1>2. Fresh(l, r, ss, ch)
  BY <1>1, StartFacts
<1>3. LocalInv(r)
  BY <1>1, StartKeepsLocal
<1>4. r.retiring = l.retiring
  BY DEF StartedTo
<1>5. ChannelInv(r, ch)
  BY <1>1, <1>2, <1>4, StartKeepsChannel DEF Core
<1>6. HandleInv(r, ch, rs, dt) /\ OrderInv(r, ch, rs) /\ RelayInv(r, ch, rs) /\ RouteInv(r, ch, rs, nt, pd)
  BY <1>1, <1>2, StartKeepsRest DEF Core
<1> QED BY <1>1, <1>3, <1>5, <1>6 DEF Core

LEMMA StartKeepsKeepers ==
    ASSUME NEW l \in LocalRecord, NEW r \in LocalRecord, NEW ss \in SUBSET Slots, NEW sn,
           NEW ch \in Seq(EventRecord), NEW rs, NEW dt, LocalInv(l), EventsInv(l, ch),
           \A s \in ss : l.slot[s].gen = 0 /\ l.retiring[s].gen = 0, StartedTo(l, r, sn, ss),
           KeepInv(l, rs, dt)
    PROVE  KeepInv(r, rs, dt)
<1>1. Fresh(l, r, ss, ch)
  BY StartFacts
<1>2. ASSUME NEW h \in Handles, Keeper(l, dt, h)
      PROVE  Keeper(r, dt, h)
  <2>0. h # NoHandle
    BY GensAre
  <2>1. CASE \E s \in Slots : l.slot[s].handle = h
    <3>1. PICK s \in Slots : l.slot[s].handle = h
      BY <2>1
    <3>2. s \notin ss
      BY <2>0, <3>1, ConstantsType DEF LocalInv
    <3> QED BY <3>1, <3>2 DEF Keeper, StartedTo
  <2>2. CASE \E s \in Slots : h \in l.retiring[s].todo
    BY <2>2 DEF Keeper, StartedTo
  <2>3. CASE \E f \in Fences : l.worker[f].h = h
    BY <1>1, <2>0, <2>3 DEF Keeper, Fresh
  <2> QED BY <1>2, <2>1, <2>2, <2>3 DEF Keeper
<1> QED BY <1>2 DEF KeepInv

-----------------------------------------------------------------------------
(* Applying a snapshot *)

\* No error that was met is forgotten
SameErrors(l, r) ==
    /\ \A s \in Slots : l.retiring[s].err => r.retiring[s].err
    /\ \A f \in Fences : l.worker[f].err <=> r.worker[f].err
    /\ \A f \in Fences : r.worker[f].pc = "release" => l.worker[f].pc = "release"

LEMMA RetireKeepsErrors ==
    ASSUME NEW l \in LocalRecord, NEW r \in LocalRecord, NEW ss \in SUBSET Slots, LocalInv(l),
           \A s \in ss : l.slot[s].gen # 0, RetiredTo(l, r, ss)
    PROVE  SameErrors(l, r) /\ \A s \in ss : l.retiring[s].todo = {}
<1>1. \A s \in ss : l.retiring[s] = NotRetiring
  BY DEF LocalInv
<1>2. \A s \in ss : l.retiring[s].err = FALSE /\ l.retiring[s].todo = {}
  BY <1>1, ConstantsType
<1> QED BY <1>2 DEF SameErrors, RetiredTo, SameWorker

\* A slot with an attempt is not vacant
LEMMA NotVacant ==
    ASSUME NEW l \in LocalRecord, LocalInv(l)
    PROVE  \A s \in Slots : (l.slot[s].state = "vacant") <=> (l.slot[s].gen = 0)
BY ConstantsType DEF LocalInv

\* Every slot that leaves holds an attempt; what stays is what the answer assigns
LEMMA ReconcileKeeps ==
    ASSUME NEW l, NEW ch, NEW rs, NEW nt, NEW pd, NEW dt, Core(l, ch, rs, nt, pd, dt),
           NEW old, NEW sn, NEW lp, SnapshotInv(l, old),
           \A s \in Slots : sn[s].epoch = old[s].epoch => sn[s].relay = old[s].relay
    PROVE  LET r == Reconciled(l, sn, lp)
           IN /\ r \in LocalRecord /\ Core(r, ch, rs, nt, pd, dt) /\ SnapshotInv(r, sn)
              /\ SameErrors(l, r)
              /\ KeepInv(l, rs, dt) => KeepInv(r, rs, dt)
<1> DEFINE ss == Leaving(l, sn, lp)
           act == [s \in Slots |-> IF ~Stale(l, sn, s) /\ s \in lp THEN "remove" ELSE "reconcile"]
           r == RetireSlots(l, ss, act)
<1>1. l \in LocalRecord /\ ch \in Seq(EventRecord) /\ LocalInv(l)
  BY DEF Core
<1>2. ss \in SUBSET Slots /\ \A s \in ss : l.slot[s].gen # 0
  BY <1>1, NotVacant DEF Leaving
<1>3. \A s \in ss : act[s] \in {"reconcile", "report", "remove"}
  BY <1>2
<1>4. \A s \in Slots : (s \notin ss /\ l.slot[s].state # "vacant") => (sn[s].ready /\ sn[s].epoch = l.slot[s].epoch)
  BY DEF Leaving, Stale
<1> HIDE DEF ss, act
<1>5. r \in LocalRecord /\ RetiredTo(l, r, ss)
  BY <1>1, <1>2, <1>3, RetireIs
<1> HIDE DEF r
<1>6. Core(r, ch, rs, nt, pd, dt)
  BY <1>2, <1>5, RetireKeepsCore
<1>7. SameErrors(l, r) /\ \A s \in ss : l.retiring[s].todo = {}
  BY <1>1, <1>2, <1>5, RetireKeepsErrors
<1>8. KeepInv(l, rs, dt) => KeepInv(r, rs, dt)
  BY <1>1, <1>2, <1>5, <1>7, RetireKeepsKeepers
<1>9. SnapshotInv(r, sn)
  <2> SUFFICES ASSUME NEW s \in Slots, r.slot[s].state \in {"reserving", "confirmed"}
               PROVE  sn[s].ready /\ sn[s].epoch = r.slot[s].epoch /\ sn[s].relay = r.slot[s].relay
    BY DEF SnapshotInv
  <2>1. s \notin ss /\ r.slot[s] = l.slot[s]
    BY <1>5, ConstantsType DEF RetiredTo
  <2>2. sn[s].ready /\ sn[s].epoch = l.slot[s].epoch
    BY <1>4, <2>1
  <2>3. old[s].epoch = l.slot[s].epoch /\ old[s].relay = l.slot[s].relay
    BY <2>1 DEF SnapshotInv
  <2> QED BY <2>1, <2>2, <2>3
<1>10. Reconciled(l, sn, lp) = r
  BY DEF Reconciled, ss, act, r
<1> QED BY <1>5, <1>6, <1>7, <1>8, <1>9, <1>10

LEMMA ApplyKeeps ==
    ASSUME NEW l, NEW ch, NEW rs, NEW nt, NEW pd, NEW dt, Core(l, ch, rs, nt, pd, dt),
           NEW old, NEW sn \in Snapshot, NEW lp, SnapshotInv(l, old),
           \A s \in Slots : sn[s].epoch = old[s].epoch => sn[s].relay = old[s].relay
    PROVE  LET r == ApplySnapshot(l, sn, lp)
           IN /\ r \in LocalRecord /\ Core(r, ch, rs, nt, pd, dt) /\ SnapshotInv(r, sn)
              /\ SameErrors(l, r)
              /\ KeepInv(l, rs, dt) => KeepInv(r, rs, dt)
<1> DEFINE k == Reconciled(l, sn, lp)
           ss == Entering(k, sn, lp)
           r == StartWorkers(k, sn, ss)
<1>1. k \in LocalRecord /\ Core(k, ch, rs, nt, pd, dt) /\ SnapshotInv(k, sn) /\ SameErrors(l, k)
  BY ReconcileKeeps
<1>2. KeepInv(l, rs, dt) => KeepInv(k, rs, dt)
  BY ReconcileKeeps
<1> HIDE DEF k
<1>3. LocalInv(k) /\ ch \in Seq(EventRecord) /\ EventsInv(k, ch)
  BY <1>1 DEF Core, ChannelInv
<1>4. ss \in SUBSET Slots /\ (\A s \in ss : k.gens[s] < MaxGen /\ sn[s].ready)
      /\ \A s \in ss : k.slot[s].gen = 0 /\ k.retiring[s].gen = 0
  BY <1>1, <1>3, NotVacant DEF Entering
<1> HIDE DEF ss
<1>5. r \in LocalRecord /\ StartedTo(k, r, sn, ss)
  BY <1>1, <1>4, StartIs
<1> HIDE DEF r
<1>6. Core(r, ch, rs, nt, pd, dt)
  BY <1>1, <1>4, <1>5, StartKeepsCore
<1>7. KeepInv(k, rs, dt) => KeepInv(r, rs, dt)
  BY <1>1, <1>3, <1>4, <1>5, StartKeepsKeepers
<1>8. SnapshotInv(r, sn)
  BY <1>1, <1>4, <1>5 DEF SnapshotInv, StartedTo
<1>9. SameErrors(k, r)
  <2>1. Fresh(k, r, ss, ch)
    BY <1>1, <1>3, <1>4, <1>5, StartFacts
  <2>2. \A f \in Fences : IsNew(k, ss, f) =>
           (r.worker[f].err = FALSE /\ k.worker[f].pc = "off" /\ r.worker[f].pc = "dial")
    BY <1>5, <2>1 DEF StartedTo, IsNew, Fresh
  <2>3. \A f \in Fences : IsNew(k, ss, f) => ~k.worker[f].err
    BY <1>3, <2>2 DEF LocalInv
  <2>4. \A f \in Fences : ~IsNew(k, ss, f) => r.worker[f] = k.worker[f]
    BY <2>1 DEF Fresh
  <2>5. r.retiring = k.retiring
    BY <1>5 DEF StartedTo
  <2> QED BY <2>2, <2>3, <2>4, <2>5 DEF SameErrors
<1>10. SameErrors(l, r)
  BY <1>1, <1>9 DEF SameErrors
<1>11. ApplySnapshot(l, sn, lp) = r
  BY DEF ApplySnapshot, r, ss, k
<1> QED BY <1>2, <1>5, <1>6, <1>7, <1>8, <1>10, <1>11

-----------------------------------------------------------------------------
(* Taking the first event out of the channel *)

\* `c' is `ch' without its first event
Shifted(ch, c) ==
    /\ c \in Seq(EventRecord) /\ 1 \in DOMAIN ch
    /\ \A i \in DOMAIN c : i \in Nat /\ i >= 1 /\ i + 1 \in DOMAIN ch /\ c[i] = ch[i + 1]
    /\ \A j \in DOMAIN ch : j \in Nat /\ j >= 1 /\ (j = 1 \/ (j - 1 \in DOMAIN c /\ c[j - 1] = ch[j]))

LEMMA TailIs ==
    ASSUME NEW ch \in Seq(EventRecord), ch # <<>>
    PROVE  Shifted(ch, Tail(ch)) /\ Head(ch) = ch[1]
<1>1. Len(ch) \in Nat /\ Len(ch) >= 1 /\ DOMAIN ch = 1..Len(ch)
  OBVIOUS
<1>2. /\ Tail(ch) \in Seq(EventRecord) /\ Len(Tail(ch)) = Len(ch) - 1
      /\ \A i \in 1..(Len(ch) - 1) : Tail(ch)[i] = ch[i + 1]
  BY <1>1
<1>3. DOMAIN Tail(ch) = 1..(Len(ch) - 1)
  BY <1>2
<1> QED BY <1>1, <1>2, <1>3 DEF Shifted

ShiftKept(ch, c) ==
    /\ \A f \in Fences, i \in DOMAIN c : IsEvent(c, i, f) <=> IsEvent(ch, i + 1, f)
    /\ \A f \in Fences, i \in DOMAIN c : After(c, i, f) <=> After(ch, i + 1, f)
    /\ \A f \in Fences, i \in DOMAIN c : Before(ch, i + 1, f) <=> (Before(c, i, f) \/ IsEvent(ch, 1, f))
    /\ \A f \in Fences, i, j \in DOMAIN c : Between(ch, i + 1, j + 1, f) => Between(c, i, j, f)
    /\ \A f \in Fences, i \in DOMAIN c : Between(ch, 1, i + 1, f) => Before(c, i, f)
    /\ \A f \in Fences : Silent(ch, f) <=> (Silent(c, f) /\ ~IsEvent(ch, 1, f))
    /\ \A f \in Fences : Silent(c, f) <=> ~After(ch, 1, f)

LEMMA ShiftFacts ==
    ASSUME NEW ch \in Seq(EventRecord), NEW c, Shifted(ch, c)
    PROVE  ShiftKept(ch, c)
<1> USE DEF IsEvent
<1>1. \A f \in Fences, i \in DOMAIN c : IsEvent(c, i, f) <=> IsEvent(ch, i + 1, f)
  BY DEF Shifted
<1>2. \A f \in Fences, j \in DOMAIN ch : IsEvent(ch, j, f) => (j = 1 \/ IsEvent(c, j - 1, f))
  BY DEF Shifted
<1> HIDE DEF IsEvent
<1>3. \A f \in Fences, i \in DOMAIN c : After(c, i, f) <=> After(ch, i + 1, f)
  BY <1>1, <1>2 DEF After, Shifted
<1>0. /\ 1 \in DOMAIN ch /\ \A j \in DOMAIN ch : j \in Nat /\ j >= 1 /\ (j = 1 \/ j - 1 \in DOMAIN c)
      /\ \A i \in DOMAIN c : i \in Nat /\ i >= 1 /\ i + 1 \in DOMAIN ch
  BY DEF Shifted
<1>4. ASSUME NEW f \in Fences, NEW i \in DOMAIN c
      PROVE  Before(ch, i + 1, f) <=> (Before(c, i, f) \/ IsEvent(ch, 1, f))
  <2>1. ASSUME Before(ch, i + 1, f) PROVE Before(c, i, f) \/ IsEvent(ch, 1, f)
    <3>1. PICK j \in DOMAIN ch : j < i + 1 /\ IsEvent(ch, j, f)
      BY <2>1 DEF Before
    <3>2. j # 1 => (j - 1 \in DOMAIN c /\ j - 1 < i /\ IsEvent(c, j - 1, f))
      BY <1>0, <1>2, <3>1
    <3> QED BY <3>1, <3>2 DEF Before
  <2>2. ASSUME Before(c, i, f) PROVE Before(ch, i + 1, f)
    <3>1. PICK j \in DOMAIN c : j < i /\ IsEvent(c, j, f)
      BY <2>2 DEF Before
    <3>2. j + 1 \in DOMAIN ch /\ j + 1 < i + 1 /\ IsEvent(ch, j + 1, f)
      BY <1>0, <1>1, <3>1
    <3> QED BY <3>2 DEF Before
  <2>3. IsEvent(ch, 1, f) => Before(ch, i + 1, f)
    BY <1>0 DEF Before
  <2> QED BY <2>1, <2>2, <2>3
<1>5. ASSUME NEW f \in Fences, NEW i \in DOMAIN c, NEW j \in DOMAIN c, Between(ch, i + 1, j + 1, f)
      PROVE  Between(c, i, j, f)
  <2>1. PICK k \in DOMAIN ch : i + 1 < k /\ k < j + 1 /\ IsEvent(ch, k, f)
    BY <1>5 DEF Between
  <2>2. k - 1 \in DOMAIN c /\ i < k - 1 /\ k - 1 < j /\ IsEvent(c, k - 1, f)
    BY <1>0, <1>2, <2>1
  <2> QED BY <2>2 DEF Between
<1>6. ASSUME NEW f \in Fences, NEW i \in DOMAIN c, Between(ch, 1, i + 1, f)
      PROVE  Before(c, i, f)
  <2>1. PICK k \in DOMAIN ch : 1 < k /\ k < i + 1 /\ IsEvent(ch, k, f)
    BY <1>6 DEF Between
  <2>2. k - 1 \in DOMAIN c /\ k - 1 < i /\ IsEvent(c, k - 1, f)
    BY <1>0, <1>2, <2>1
  <2> QED BY <2>2 DEF Before
<1>7. \A f \in Fences : Silent(ch, f) <=> (Silent(c, f) /\ ~IsEvent(ch, 1, f))
  BY <1>1, <1>2 DEF Silent, Shifted
<1>8. \A f \in Fences : Silent(c, f) <=> ~After(ch, 1, f)
  BY <1>1, <1>2 DEF Silent, After, Shifted
<1> QED BY <1>1, <1>3, <1>4, <1>5, <1>6, <1>7, <1>8 DEF ShiftKept

\* What a handler may do with the slot that its event is about
HeardTo(l, r, ch) ==
    /\ r.worker = l.worker /\ r.gens = l.gens /\ r.retiring = l.retiring /\ r.routes = l.routes
    /\ \A s \in Slots : r.slot[s] = l.slot[s] \/
          /\ s = ch[1].fence[1] /\ Current(l, ch[1].fence) /\ ch[1].kind \in WorkerKinds
          /\ r.slot[s].gen = l.slot[s].gen /\ r.slot[s].state = l.slot[s].state
          /\ r.slot[s].epoch = l.slot[s].epoch /\ r.slot[s].relay = l.slot[s].relay
          /\ r.slot[s].worker = l.slot[s].worker
          /\ r.slot[s].handle \in {NoHandle, l.slot[s].handle, ch[1].h}
    /\ (Current(l, ch[1].fence) /\ ch[1].kind \in {"Started", "Retrying"}) =>
          r.slot[ch[1].fence[1]].handle = Held(ch[1])

LEMMA HearingKeepsChannel ==
    ASSUME NEW l \in LocalRecord, NEW r \in LocalRecord, NEW ch \in Seq(EventRecord), NEW c,
           Shifted(ch, c), HeardTo(l, r, ch), ChannelInv(l, ch)
    PROVE  ChannelInv(r, c)
<1> DEFINE e == ch[1]
<1>0. /\ \A i \in DOMAIN c : c[i].fence \in Fences /\ i + 1 \in DOMAIN ch /\ c[i] = ch[i + 1] /\ i \in Nat /\ i >= 1
      /\ 1 \in DOMAIN ch /\ e.fence \in Fences
      /\ ShiftKept(ch, c)
  BY ShiftFacts, ChannelType DEF Shifted
<1>1. EventsInv(l, ch) /\ FinalInv(l, ch) /\ StoryInv(l, ch) /\ CompleteInv(l, ch)
  BY DEF ChannelInv
<1>2. \A s \in Slots : r.slot[s].gen = l.slot[s].gen /\ r.slot[s].state = l.slot[s].state
  BY DEF HeardTo
<1>3. \A f \in Fences : Current(r, f) <=> Current(l, f)
  BY <1>2, FenceIs DEF Current
<1>4. r.worker = l.worker /\ r.gens = l.gens /\ r.retiring = l.retiring
  BY DEF HeardTo
<1>5. EventsInv(r, c)
  BY <1>0, <1>1, <1>2, <1>3, <1>4, FenceIs DEF EventsInv
<1>6. FinalInv(r, c)
  BY <1>0, <1>1, <1>4 DEF FinalInv, ShiftKept
<1>7. CompleteInv(r, c)
  BY <1>0, <1>1, <1>3, <1>4 DEF CompleteInv, ShiftKept
<1>8. \A f \in Fences : (Current(l, f) /\ ~IsEvent(ch, 1, f)) => r.slot[f[1]] = l.slot[f[1]]
  BY <1>0, FenceIs DEF HeardTo, IsEvent, Current
<1>9. StoryInv(r, c)
  <2>1. ASSUME NEW i \in DOMAIN c, NEW j \in DOMAIN c,
               i < j, c[i].kind \in WorkerKinds, IsEvent(c, j, c[i].fence), ~Between(c, i, j, c[i].fence)
        PROVE  Fits(Held(c[i]), c[j])
    <3>1. /\ i + 1 \in DOMAIN ch /\ j + 1 \in DOMAIN ch /\ i + 1 < j + 1 /\ c[i] = ch[i + 1] /\ c[j] = ch[j + 1]
          /\ ~Between(ch, i + 1, j + 1, ch[i + 1].fence) /\ IsEvent(ch, j + 1, ch[i + 1].fence)
      BY <1>0, <2>1 DEF ShiftKept
    <3> QED BY <1>1, <2>1, <3>1 DEF StoryInv
  <2>2. \A i \in DOMAIN c :
          (/\ c[i].kind \in WorkerKinds /\ ~After(c, i, c[i].fence)
           /\ r.worker[c[i].fence].pc \in LivePcs)
             => Held(c[i]) = Announced(r.worker[c[i].fence])
    BY <1>0, <1>1, <1>4 DEF StoryInv, ShiftKept
  <2>3. ASSUME NEW i \in DOMAIN c, c[i].kind \in WorkerKinds, ~Before(c, i, c[i].fence), Current(r, c[i].fence)
        PROVE  Fits(r.slot[c[i].fence[1]].handle, c[i])
    <3> DEFINE f == c[i].fence
    <3>1. f \in Fences /\ Current(l, f) /\ c[i] = ch[i + 1] /\ i + 1 \in DOMAIN ch
      BY <1>0, <1>3, <2>3
    <3>2. CASE IsEvent(ch, 1, f)
      <4>1. e.fence = f /\ e.kind \in WorkerKinds
        BY <3>2 DEF IsEvent
      <4>2. After(ch, 1, f) /\ ~Between(ch, 1, i + 1, f) /\ IsEvent(ch, i + 1, f) /\ 1 < i + 1
        <5>1. IsEvent(ch, i + 1, f)
          BY <2>3, <3>1 DEF IsEvent
        <5> QED BY <1>0, <2>3, <3>1, <5>1 DEF ShiftKept, After
      <4>3. e.kind \in {"Started", "Retrying"}
        BY <1>0, <1>1, <4>1, <4>2 DEF FinalInv, WorkerKinds
      <4>4. r.slot[f[1]].handle = Held(e)
        BY <3>1, <4>1, <4>3 DEF HeardTo
      <4>5. Fits(Held(e), ch[i + 1])
        BY <1>0, <1>1, <3>1, <4>1, <4>2 DEF StoryInv
      <4> QED BY <3>1, <4>4, <4>5
    <3>3. CASE ~IsEvent(ch, 1, f)
      <4>1. ~Before(ch, i + 1, f)
        BY <1>0, <2>3, <3>1, <3>3 DEF ShiftKept
      <4> QED BY <1>1, <1>8, <2>3, <3>1, <3>3, <4>1 DEF StoryInv
    <3> QED BY <3>2, <3>3
  <2>4. ASSUME NEW f \in Fences, Current(r, f), r.worker[f].pc \in LivePcs, Silent(c, f)
        PROVE  r.slot[f[1]].handle = Announced(r.worker[f])
    <3>1. CASE IsEvent(ch, 1, f)
      <4>1. e.fence = f /\ e.kind \in WorkerKinds /\ ~After(ch, 1, f)
        BY <1>0, <2>4, <3>1 DEF IsEvent, ShiftKept
      <4>2. e.kind \in {"Started", "Retrying"}
        BY <1>0, <1>1, <1>4, <2>4, <4>1 DEF FinalInv, WorkerKinds, LivePcs
      <4>3. r.slot[f[1]].handle = Held(e)
        BY <1>3, <2>4, <4>1, <4>2 DEF HeardTo
      <4>4. Held(e) = Announced(r.worker[f])
        BY <1>0, <1>1, <1>4, <2>4, <4>1 DEF StoryInv
      <4> QED BY <4>3, <4>4
    <3>2. CASE ~IsEvent(ch, 1, f)
      BY <1>0, <1>1, <1>3, <1>4, <1>8, <2>4, <3>2 DEF StoryInv, ShiftKept
    <3> QED BY <3>1, <3>2
  <2> QED BY <2>1, <2>2, <2>3, <2>4 DEF StoryInv
<1> QED BY <1>5, <1>6, <1>7, <1>9 DEF ChannelInv

LEMMA HearingKeepsLocal ==
    ASSUME NEW l \in LocalRecord, NEW r \in LocalRecord, NEW ch \in Seq(EventRecord),
           1 \in DOMAIN ch, HeardTo(l, r, ch), LocalInv(l)
    PROVE  LocalInv(r)
<1>1. r.worker = l.worker /\ r.gens = l.gens /\ r.retiring = l.retiring /\ r.routes = l.routes
  BY DEF HeardTo
<1>2. \A s \in Slots : /\ r.slot[s].gen = l.slot[s].gen /\ r.slot[s].state = l.slot[s].state
                       /\ r.slot[s].worker = l.slot[s].worker
  BY DEF HeardTo
<1>3. \A s \in Slots : l.slot[s].gen = 0 => r.slot[s] = l.slot[s]
  <2>1. ch[1].fence \in Fences /\ ch[1].fence[2] # 0
    BY ChannelType, FenceIs, GensAre
  <2> QED BY <2>1 DEF HeardTo, Current
<1>4. \A f \in Fences : Current(r, f) <=> Current(l, f)
  BY <1>2, FenceIs DEF Current
<1>5. /\ \A s \in Slots : r.slot[s].gen = 0 => r.slot[s] = Vacant
      /\ \A s \in Slots : r.slot[s].state = "vacant" => r.slot[s].gen = 0
      /\ \A s \in Slots : r.slot[s].gen # 0 => r.retiring[s].gen = 0
      /\ \A s \in Slots : r.slot[s].gen <= r.gens[s] /\ r.retiring[s].gen <= r.gens[s]
      /\ \A s \in Slots : r.slot[s].state \in {"confirmed", "reporting"} => ~r.slot[s].worker
  BY <1>1, <1>2, <1>3 DEF LocalInv
<1>6. /\ \A f \in Fences : r.worker[f].pc # "off" =>
            \/ Current(r, f) /\ r.slot[f[1]].worker
            \/ r.retiring[f[1]].gen = f[2] /\ r.retiring[f[1]].join
      /\ \A f \in r.routes : Current(r, f) /\ r.slot[f[1]].state = "confirmed"
  BY <1>1, <1>2, <1>4, FenceIs, LocalFields DEF LocalInv
<1> QED BY <1>1, <1>5, <1>6 DEF LocalInv

LEMMA HearingKeepsRest ==
    ASSUME NEW l \in LocalRecord, NEW r \in LocalRecord, NEW ch \in Seq(EventRecord), NEW c,
           NEW rs, NEW nt, NEW pd, NEW dt, Shifted(ch, c), HeardTo(l, r, ch), EventsInv(l, ch)
    PROVE  /\ HandleInv(l, ch, rs, dt) => HandleInv(r, c, rs, dt)
           /\ OrderInv(l, ch, rs) => OrderInv(r, c, rs)
           /\ RelayInv(l, ch, rs) => RelayInv(r, c, rs)
           /\ RouteInv(l, ch, rs, nt, pd) => RouteInv(r, c, rs, nt, pd)
<1>0. /\ \A i \in DOMAIN c : c[i].fence \in Fences /\ i + 1 \in DOMAIN ch /\ c[i] = ch[i + 1] /\ i \in Nat
      /\ 1 \in DOMAIN ch /\ ch[1].fence \in Fences /\ ShiftKept(ch, c)
  BY ShiftFacts, ChannelType DEF Shifted
<1>1. r.worker = l.worker /\ r.retiring = l.retiring
  BY DEF HeardTo
<1>2. \A s \in Slots : /\ r.slot[s].gen = l.slot[s].gen /\ r.slot[s].state = l.slot[s].state
                       /\ r.slot[s].relay = l.slot[s].relay
  BY DEF HeardTo
<1>3. \A f \in Fences : Current(r, f) <=> Current(l, f)
  BY <1>2, FenceIs DEF Current
<1>4. ASSUME NEW h \in Handles, NEW f \in Fences, Mentions(r, c, h, f)
      PROVE  Mentions(l, ch, h, f)
  <2>1. CASE \E i \in DOMAIN c : c[i].fence = f /\ c[i].h = h
    BY <1>0, <2>1 DEF Mentions
  <2>2. CASE Current(r, f) /\ r.slot[f[1]].handle = h
    <3>1. f[1] \in Slots /\ h # NoHandle /\ Current(l, f)
      BY <1>3, <2>2, FenceIs, GensAre
    <3>2. CASE r.slot[f[1]] = l.slot[f[1]]
      BY <2>2, <3>1, <3>2 DEF Mentions
    <3>3. CASE r.slot[f[1]] # l.slot[f[1]]
      <4>1. f[1] = ch[1].fence[1] /\ Current(l, ch[1].fence) /\ h \in {l.slot[f[1]].handle, ch[1].h}
        BY <2>2, <3>1, <3>3 DEF HeardTo
      <4>2. f = ch[1].fence
        BY <1>0, <3>1, <4>1, FenceIs DEF Current
      <4> QED BY <1>0, <3>1, <4>1, <4>2 DEF Mentions
    <3> QED BY <3>2, <3>3
  <2> QED BY <1>1, <1>4, <2>1, <2>2 DEF Mentions
<1>5. \A h \in Handles : Disowned(r, dt, h) <=> Disowned(l, dt, h)
  BY <1>1 DEF Disowned
<1>6. HandleInv(l, ch, rs, dt) => HandleInv(r, c, rs, dt)
  BY <1>3, <1>4, <1>5 DEF HandleInv
<1>7. OrderInv(l, ch, rs) => OrderInv(r, c, rs)
  <2> SUFFICES ASSUME OrderInv(l, ch, rs) PROVE OrderInv(r, c, rs)
    OBVIOUS
  <2>1. \A i \in DOMAIN c : c[i].kind = "Retrying" => rs[c[i].h].state = "gone"
    BY <1>0 DEF OrderInv
  <2>2. \A f \in Fences, i \in DOMAIN c :
          (r.worker[f].h \in Handles /\ IsEvent(c, i, f)) =>
             /\ c[i].h <= r.worker[f].h
             /\ c[i].kind = "Retrying" => c[i].h < r.worker[f].h
    BY <1>0, <1>1 DEF OrderInv, ShiftKept
  <2>3. ASSUME NEW i \in DOMAIN c, NEW j \in DOMAIN c, i < j, c[i].kind \in WorkerKinds,
               IsEvent(c, j, c[i].fence), c[j].h \in Handles
        PROVE  c[i].h <= c[j].h /\ (c[i].kind = "Retrying" => c[i].h < c[j].h)
    <3>1. /\ i + 1 \in DOMAIN ch /\ j + 1 \in DOMAIN ch /\ i + 1 < j + 1 /\ c[i] = ch[i + 1] /\ c[j] = ch[j + 1]
          /\ IsEvent(ch, j + 1, ch[i + 1].fence)
      BY <1>0, <2>3 DEF ShiftKept
    <3> QED BY <2>3, <3>1 DEF OrderInv
  <2> QED BY <1>1, <2>1, <2>2, <2>3 DEF OrderInv
<1>8. RelayInv(l, ch, rs) => RelayInv(r, c, rs)
  BY <1>1, <1>2, <1>3, <1>4, FenceIs DEF RelayInv
<1>9. RouteInv(l, ch, rs, nt, pd) => RouteInv(r, c, rs, nt, pd)
  <2> SUFFICES ASSUME RouteInv(l, ch, rs, nt, pd) PROVE RouteInv(r, c, rs, nt, pd)
    OBVIOUS
  <2>1. \A s \in Slots : r.slot[s].state = "confirmed" => r.slot[s] = l.slot[s]
    BY <1>0, <1>2 DEF HeardTo, EventsInv
  <2>2. \A s \in Slots : r.slot[s].state = "confirmed" =>
          /\ r.slot[s].handle \in Handles
          /\ rs[r.slot[s].handle].state = "publishable" \/ r.slot[s].handle \in nt
    BY <2>1 DEF RouteInv
  <2>3. \A f \in Fences : (Current(r, f) /\ r.worker[f].pc = "confirmed") => Evident(rs, nt, pd, r.worker[f].h)
    BY <1>1, <1>3 DEF RouteInv
  <2>4. \A i \in DOMAIN c : (c[i].kind = "Confirmed" /\ Current(r, c[i].fence)) => Evident(rs, nt, pd, c[i].h)
    BY <1>0, <1>3 DEF RouteInv
  <2> QED BY <2>2, <2>3, <2>4 DEF RouteInv
<1> QED BY <1>6, <1>7, <1>8, <1>9

\* Handling the first event preserves everything
LEMMA HearingKeepsCore ==
    ASSUME NEW l, NEW r \in LocalRecord, NEW ch, NEW c, NEW rs, NEW nt, NEW pd, NEW dt,
           Core(l, ch, rs, nt, pd, dt), Shifted(ch, c), HeardTo(l, r, ch)
    PROVE  Core(r, c, rs, nt, pd, dt)
<1>1. /\ l \in LocalRecord /\ ch \in Seq(EventRecord) /\ LocalInv(l) /\ EventsInv(l, ch)
      /\ 1 \in DOMAIN ch /\ c \in Seq(EventRecord)
  BY DEF Core, ChannelInv, Shifted
<1>2. LocalInv(r)
  BY <1>1, HearingKeepsLocal
<1>3. ChannelInv(r, c)
  BY <1>1, HearingKeepsChannel DEF Core
<1>4. HandleInv(r, c, rs, dt) /\ OrderInv(r, c, rs) /\ RelayInv(r, c, rs) /\ RouteInv(r, c, rs, nt, pd)
  BY <1>1, HearingKeepsRest DEF Core
<1> QED BY <1>1, <1>2, <1>3, <1>4 DEF Core

-----------------------------------------------------------------------------
(* The other changes to a slot *)

\* The worker of a current attempt has said its last word and is joined
JoinedTo(l, r, f) ==
    /\ r.gens = l.gens /\ r.retiring = l.retiring /\ r.routes = l.routes
    /\ \A s \in Slots : s # f[1] => r.slot[s] = l.slot[s]
    /\ r.slot[f[1]].gen = l.slot[f[1]].gen /\ r.slot[f[1]].state = l.slot[f[1]].state
    /\ r.slot[f[1]].epoch = l.slot[f[1]].epoch /\ r.slot[f[1]].relay = l.slot[f[1]].relay
    /\ r.slot[f[1]].handle = l.slot[f[1]].handle /\ r.slot[f[1]].worker = FALSE
    /\ \A g \in Fences : g # f => r.worker[g] = l.worker[g]
    /\ r.worker[f].pc = "off" /\ r.worker[f].h = NoHandle /\ r.worker[f].err = FALSE

LEMMA JoinKeepsCore ==
    ASSUME NEW l, NEW r \in LocalRecord, NEW ch, NEW rs, NEW nt, NEW pd, NEW dt,
           Core(l, ch, rs, nt, pd, dt), NEW f \in Fences, Current(l, f), Silent(ch, f), JoinedTo(l, r, f)
    PROVE  Core(r, ch, rs, nt, pd, dt)
<1>0. /\ l \in LocalRecord /\ ch \in Seq(EventRecord) /\ LocalInv(l)
      /\ EventsInv(l, ch) /\ FinalInv(l, ch) /\ StoryInv(l, ch) /\ CompleteInv(l, ch)
      /\ \A i \in DOMAIN ch : ch[i].fence \in Fences
      /\ f[1] \in Slots /\ f[2] # 0
  BY ChannelType, FenceIs, GensAre DEF Core, ChannelInv
<1>1. r.gens = l.gens /\ r.retiring = l.retiring /\ r.routes = l.routes
  BY DEF JoinedTo
<1>2. \A s \in Slots : /\ r.slot[s].gen = l.slot[s].gen /\ r.slot[s].state = l.slot[s].state
                       /\ r.slot[s].handle = l.slot[s].handle /\ r.slot[s].relay = l.slot[s].relay
  BY DEF JoinedTo
<1>3. \A g \in Fences : Current(r, g) <=> Current(l, g)
  BY <1>2, FenceIs DEF Current
<1>4. \A g \in Fences : r.worker[g] = l.worker[g] \/ (g = f /\ r.worker[g].pc = "off" /\ r.worker[g].h = NoHandle)
  BY DEF JoinedTo
<1>5. \A i \in DOMAIN ch : ch[i].kind \in WorkerKinds => r.worker[ch[i].fence] = l.worker[ch[i].fence]
  BY <1>0 DEF JoinedTo, Silent, IsEvent
<1>6. LocalInv(r)
  <2>1. /\ \A s \in Slots : r.slot[s].gen = 0 => r.slot[s] = Vacant
        /\ \A s \in Slots : r.slot[s].state = "vacant" => r.slot[s].gen = 0
        /\ \A s \in Slots : r.slot[s].gen # 0 => r.retiring[s].gen = 0
        /\ \A s \in Slots : r.slot[s].gen <= r.gens[s] /\ r.retiring[s].gen <= r.gens[s]
    <3>1. l.slot[f[1]].gen # 0
      BY <1>0 DEF Current
    <3> QED BY <1>0, <1>1, <1>2, <3>1 DEF LocalInv, JoinedTo
  <2>2. \A s \in Slots : r.slot[s].state \in {"confirmed", "reporting"} => ~r.slot[s].worker
    BY <1>0, <1>2 DEF LocalInv, JoinedTo
  <2>3. ASSUME NEW g \in Fences, r.worker[g].pc # "off"
        PROVE  \/ Current(r, g) /\ r.slot[g[1]].worker
               \/ r.retiring[g[1]].gen = g[2] /\ r.retiring[g[1]].join
    <3>1. g # f /\ r.worker[g] = l.worker[g] /\ g[1] \in Slots
      BY <2>3, FenceIs DEF JoinedTo
    <3>2. \/ Current(l, g) /\ l.slot[g[1]].worker
          \/ l.retiring[g[1]].gen = g[2] /\ l.retiring[g[1]].join
      BY <1>0, <2>3, <3>1 DEF LocalInv
    <3>3. Current(l, g) => g[1] # f[1]
      BY <3>1, FenceIs DEF Current
    <3> QED BY <1>1, <1>3, <3>1, <3>2, <3>3 DEF JoinedTo
  <2>4. /\ \A g \in Fences : r.worker[g].pc = "off" => ~r.worker[g].err
        /\ \A g \in Fences : r.worker[g].pc \in {"off", "dial"} => r.worker[g].h = NoHandle
        /\ \A g \in Fences : r.worker[g].pc \in LivePcs \ {"dial"} => r.worker[g].h \in Handles
        /\ \A g \in Fences : r.worker[g].pc = "release" => r.worker[g].h \in Handles
    BY <1>0, <1>4 DEF LocalInv, JoinedTo, LivePcs
  <2>5. \A g \in r.routes : Current(r, g) /\ r.slot[g[1]].state = "confirmed"
    BY <1>0, <1>1, <1>2, <1>3, FenceIs, LocalFields DEF LocalInv
  <2> QED BY <1>0, <1>1, <2>1, <2>2, <2>3, <2>4, <2>5 DEF LocalInv
<1>7. ChannelInv(r, ch)
  <2>1. EventsInv(r, ch)
    BY <1>0, <1>1, <1>2, <1>3, FenceIs DEF EventsInv
  <2>2. FinalInv(r, ch)
    BY <1>0, <1>5 DEF FinalInv, WorkerKinds
  <2>3. \A i \in DOMAIN ch :
          (/\ ch[i].kind \in WorkerKinds /\ ~After(ch, i, ch[i].fence)
           /\ r.worker[ch[i].fence].pc \in LivePcs)
             => Held(ch[i]) = Announced(r.worker[ch[i].fence])
    BY <1>0, <1>5 DEF StoryInv
  <2>4. \A i \in DOMAIN ch :
          (ch[i].kind \in WorkerKinds /\ ~Before(ch, i, ch[i].fence) /\ Current(r, ch[i].fence))
             => Fits(r.slot[ch[i].fence[1]].handle, ch[i])
    BY <1>0, <1>2, <1>3, FenceIs DEF StoryInv
  <2>5. \A g \in Fences :
          (Current(r, g) /\ r.worker[g].pc \in LivePcs /\ Silent(ch, g))
             => r.slot[g[1]].handle = Announced(r.worker[g])
    BY <1>0, <1>2, <1>3, <1>4, FenceIs DEF StoryInv, LivePcs
  <2>6. StoryInv(r, ch)
    BY <1>0, <2>3, <2>4, <2>5 DEF StoryInv
  <2>7. CompleteInv(r, ch)
    BY <1>0, <1>1, <1>3, <1>4 DEF CompleteInv
  <2> QED BY <2>1, <2>2, <2>6, <2>7 DEF ChannelInv
<1>8. \A h \in Handles, g \in Fences : Mentions(r, ch, h, g) => Mentions(l, ch, h, g)
  BY <1>2, <1>3, <1>4, FenceIs, GensAre DEF Mentions
<1>9. HandleInv(r, ch, rs, dt)
  <2>1. HandleInv(l, ch, rs, dt) /\ \A h \in Handles : Disowned(r, dt, h) <=> Disowned(l, dt, h)
    BY <1>1 DEF Core, Disowned
  <2> QED BY <1>3, <1>8, <2>1 DEF HandleInv
<1>10. OrderInv(r, ch, rs)
  <2>1. OrderInv(l, ch, rs)
    BY DEF Core
  <2> QED BY <1>4, <2>1, GensAre DEF OrderInv
<1>11. RelayInv(r, ch, rs)
  <2>1. RelayInv(l, ch, rs)
    BY DEF Core
  <2> QED BY <1>2, <1>3, <1>4, <1>8, <2>1, FenceIs DEF RelayInv
<1>12. RouteInv(r, ch, rs, nt, pd)
  <2>1. RouteInv(l, ch, rs, nt, pd)
    BY DEF Core
  <2> QED BY <1>0, <1>2, <1>3, <1>4, <2>1 DEF RouteInv
<1> QED BY <1>6, <1>7, <1>9, <1>10, <1>11, <1>12 DEF Core

\* A route is published for a current attempt whose worker has been joined
PublishedTo(l, r, f) ==
    /\ r.gens = l.gens /\ r.retiring = l.retiring /\ r.routes = l.routes \cup {f}
    /\ \A s \in Slots : s # f[1] => r.slot[s] = l.slot[s]
    /\ r.slot[f[1]].gen = l.slot[f[1]].gen /\ r.slot[f[1]].state = "confirmed"
    /\ r.slot[f[1]].epoch = l.slot[f[1]].epoch /\ r.slot[f[1]].relay = l.slot[f[1]].relay
    /\ r.slot[f[1]].handle = l.slot[f[1]].handle /\ r.slot[f[1]].worker = l.slot[f[1]].worker
    /\ r.worker = l.worker

LEMMA PublishKeepsCore ==
    ASSUME NEW l, NEW r \in LocalRecord, NEW ch, NEW rs, NEW nt, NEW pd, NEW dt,
           Core(l, ch, rs, nt, pd, dt), NEW f \in Fences, Current(l, f), Silent(ch, f), PublishedTo(l, r, f),
           ~l.slot[f[1]].worker, l.slot[f[1]].handle \in Handles,
           rs[l.slot[f[1]].handle].state = "publishable" \/ l.slot[f[1]].handle \in nt
    PROVE  Core(r, ch, rs, nt, pd, dt)
<1>0. /\ l \in LocalRecord /\ ch \in Seq(EventRecord) /\ LocalInv(l)
      /\ EventsInv(l, ch) /\ FinalInv(l, ch) /\ StoryInv(l, ch) /\ CompleteInv(l, ch)
      /\ \A i \in DOMAIN ch : ch[i].fence \in Fences
      /\ f[1] \in Slots /\ f[2] # 0 /\ l.slot[f[1]].gen = f[2]
  BY ChannelType, FenceIs, GensAre DEF Core, ChannelInv, Current
<1>1. r.gens = l.gens /\ r.retiring = l.retiring /\ r.worker = l.worker /\ r.routes = l.routes \cup {f}
  BY DEF PublishedTo
<1>2. \A s \in Slots : /\ r.slot[s].gen = l.slot[s].gen /\ r.slot[s].worker = l.slot[s].worker
                       /\ r.slot[s].handle = l.slot[s].handle /\ r.slot[s].relay = l.slot[s].relay
                       /\ s # f[1] => r.slot[s] = l.slot[s]
  BY DEF PublishedTo
<1>3. \A g \in Fences : Current(r, g) <=> Current(l, g)
  BY <1>2, FenceIs DEF Current
<1>4. r.slot[f[1]].state = "confirmed"
  BY DEF PublishedTo
<1>5. LocalInv(r)
  <2>1. /\ \A s \in Slots : r.slot[s].gen = 0 => r.slot[s] = Vacant
        /\ \A s \in Slots : r.slot[s].state = "vacant" => r.slot[s].gen = 0
        /\ \A s \in Slots : r.slot[s].gen # 0 => r.retiring[s].gen = 0
        /\ \A s \in Slots : r.slot[s].gen <= r.gens[s] /\ r.retiring[s].gen <= r.gens[s]
        /\ \A s \in Slots : r.slot[s].state \in {"confirmed", "reporting"} => ~r.slot[s].worker
    BY <1>0, <1>1, <1>2, <1>4 DEF LocalInv
  <2>2. \A g \in Fences : r.worker[g].pc # "off" =>
               \/ Current(r, g) /\ r.slot[g[1]].worker
               \/ r.retiring[g[1]].gen = g[2] /\ r.retiring[g[1]].join
    BY <1>0, <1>1, <1>2, <1>3, FenceIs DEF LocalInv
  <2>3. ASSUME NEW g \in r.routes PROVE Current(r, g) /\ r.slot[g[1]].state = "confirmed"
    <3>1. CASE g = f
      BY <1>3, <1>4, <3>1
    <3>2. CASE g # f
      BY <1>0, <1>1, <1>2, <1>3, <1>4, <3>2, FenceIs, LocalFields DEF LocalInv
    <3> QED BY <3>1, <3>2
  <2> QED BY <1>0, <1>1, <2>1, <2>2, <2>3 DEF LocalInv
<1>6. ChannelInv(r, ch)
  <2>0. \A i \in DOMAIN ch : (ch[i].kind \in WorkerKinds /\ Current(r, ch[i].fence)) =>
          (ch[i].fence[1] # f[1] /\ ch[i].fence[1] \in Slots)
    BY <1>0, <1>3, FenceIs DEF Silent, IsEvent, Current
  <2>1. EventsInv(r, ch)
    BY <1>0, <1>1, <1>2, <1>3, <2>0 DEF EventsInv
  <2>2. FinalInv(r, ch) /\ CompleteInv(r, ch)
    BY <1>0, <1>1, <1>3 DEF FinalInv, CompleteInv
  <2>3. StoryInv(r, ch)
    BY <1>0, <1>1, <1>2, <1>3, FenceIs DEF StoryInv
  <2> QED BY <2>1, <2>2, <2>3 DEF ChannelInv
<1>7. \A h \in Handles, g \in Fences : Mentions(r, ch, h, g) <=> Mentions(l, ch, h, g)
  BY <1>1, <1>2, <1>3, FenceIs DEF Mentions
<1>8. HandleInv(r, ch, rs, dt) /\ OrderInv(r, ch, rs)
  <2>1. HandleInv(l, ch, rs, dt) /\ \A h \in Handles : Disowned(r, dt, h) <=> Disowned(l, dt, h)
    BY <1>1 DEF Core, Disowned
  <2>2. OrderInv(l, ch, rs)
    BY DEF Core
  <2>3. HandleInv(r, ch, rs, dt)
    BY <1>3, <1>7, <2>1 DEF HandleInv
  <2>4. OrderInv(r, ch, rs)
    BY <1>1, <2>2 DEF OrderInv
  <2> QED BY <2>3, <2>4
<1>9. RelayInv(r, ch, rs)
  <2>1. RelayInv(l, ch, rs)
    BY DEF Core
  <2> QED BY <1>1, <1>2, <1>3, <1>7, <2>1, FenceIs DEF RelayInv
<1>10. RouteInv(r, ch, rs, nt, pd)
  <2>1. RouteInv(l, ch, rs, nt, pd)
    BY DEF Core
  <2>2. \A s \in Slots : r.slot[s].state = "confirmed" =>
          /\ r.slot[s].handle \in Handles
          /\ rs[r.slot[s].handle].state = "publishable" \/ r.slot[s].handle \in nt
    BY <1>2, <2>1 DEF RouteInv
  <2> QED BY <1>0, <1>1, <1>3, <2>1, <2>2 DEF RouteInv
<1> QED BY <1>5, <1>6, <1>8, <1>9, <1>10 DEF Core

-----------------------------------------------------------------------------
(* Cleanups *)

\* What a cleanup task may do: clear workers that are not current, take over their
\* handles, let go of handles, finish; and the actor may reap a retirement
TidiedTo(l, r) ==
    /\ r.slot = l.slot /\ r.gens = l.gens /\ r.routes \subseteq l.routes
    /\ \A g \in Fences : r.worker[g] = l.worker[g] \/
          /\ ~Current(l, g)
          /\ r.worker[g].pc = "off" /\ r.worker[g].h = NoHandle /\ r.worker[g].err = FALSE
    /\ \A s \in Slots : l.retiring[s].gen = 0 => r.retiring[s] = l.retiring[s]
    /\ \A s \in Slots : r.retiring[s] = NotRetiring \/
          /\ r.retiring[s].gen = l.retiring[s].gen
          /\ l.retiring[s].done => r.retiring[s].done
          /\ r.retiring[s].done => (~r.retiring[s].join /\ r.retiring[s].todo = {})
          /\ r.retiring[s].join => ~r.retiring[s].err
    /\ \A g \in Fences :
          (r.worker[g].pc # "off" /\ l.retiring[g[1]].gen = g[2] /\ l.retiring[g[1]].join)
             => (r.retiring[g[1]].gen = g[2] /\ r.retiring[g[1]].join)
    /\ \A s \in Slots, h \in Handles : h \in r.retiring[s].todo =>
          (h \in l.retiring[s].todo \/ \E g \in Fences : ~Current(l, g) /\ l.worker[g].h = h)

LEMMA TidyKeepsCore ==
    ASSUME NEW l, NEW r \in LocalRecord, NEW ch, NEW rs, NEW nt, NEW pd, NEW dt, NEW d2,
           Core(l, ch, rs, nt, pd, dt), TidiedTo(l, r), d2 \subseteq dt
    PROVE  Core(r, ch, rs, nt, pd, d2)
<1>0. /\ l \in LocalRecord /\ ch \in Seq(EventRecord) /\ LocalInv(l)
      /\ EventsInv(l, ch) /\ FinalInv(l, ch) /\ StoryInv(l, ch) /\ CompleteInv(l, ch)
      /\ \A i \in DOMAIN ch : ch[i].fence \in Fences
      /\ d2 \in SUBSET Handles
  BY ChannelType DEF Core, ChannelInv
<1>1. r.gens = l.gens /\ r.slot = l.slot /\ r.routes \subseteq l.routes
  BY DEF TidiedTo
<1>2. \A g \in Fences : Current(r, g) <=> Current(l, g)
  BY <1>1 DEF Current
<1>3. \A g \in Fences : r.worker[g] = l.worker[g] \/
         (~Current(l, g) /\ r.worker[g].pc = "off" /\ r.worker[g].h = NoHandle /\ r.worker[g].err = FALSE)
  BY DEF TidiedTo
<1>4. \A s \in Slots : r.retiring[s].gen # 0 => (r.retiring[s].gen = l.retiring[s].gen)
  BY ConstantsType DEF TidiedTo
<1>5. LocalInv(r)
  <2>1. \A s \in Slots : r.slot[s].gen # 0 => r.retiring[s].gen = 0
    BY <1>0, <1>1, <1>4 DEF LocalInv
  <2>2. \A s \in Slots : r.retiring[s].gen = 0 => r.retiring[s] = NotRetiring
    BY <1>0, <1>4 DEF LocalInv, TidiedTo
  <2>3. \A s \in Slots : r.slot[s].gen <= r.gens[s] /\ r.retiring[s].gen <= r.gens[s]
    BY <1>0, <1>1, <1>4, LocalFields DEF LocalInv
  <2>4. /\ \A s \in Slots : r.retiring[s].done => (~r.retiring[s].join /\ r.retiring[s].todo = {})
        /\ \A s \in Slots : r.retiring[s].join => ~r.retiring[s].err
    BY ConstantsType DEF TidiedTo
  <2>5. \A g \in Fences : r.worker[g].pc # "off" =>
               \/ Current(r, g) /\ r.slot[g[1]].worker
               \/ r.retiring[g[1]].gen = g[2] /\ r.retiring[g[1]].join
    <3> SUFFICES ASSUME NEW g \in Fences, r.worker[g].pc # "off"
                 PROVE  \/ Current(r, g) /\ r.slot[g[1]].worker
                        \/ r.retiring[g[1]].gen = g[2] /\ r.retiring[g[1]].join
      OBVIOUS
    <3>1. r.worker[g] = l.worker[g]
      BY <1>3
    <3>2. \/ Current(l, g) /\ l.slot[g[1]].worker
          \/ l.retiring[g[1]].gen = g[2] /\ l.retiring[g[1]].join
      BY <1>0, <3>1 DEF LocalInv
    <3> QED BY <1>1, <1>2, <3>2 DEF TidiedTo
  <2>6. /\ \A g \in Fences : r.worker[g].pc = "off" => ~r.worker[g].err
        /\ \A g \in Fences : r.worker[g].pc \in {"off", "dial"} => r.worker[g].h = NoHandle
        /\ \A g \in Fences : r.worker[g].pc \in LivePcs \ {"dial"} => r.worker[g].h \in Handles
        /\ \A g \in Fences : r.worker[g].pc = "release" => r.worker[g].h \in Handles
    BY <1>0, <1>3 DEF LocalInv, LivePcs
  <2>7. \A g \in r.routes : Current(r, g) /\ r.slot[g[1]].state = "confirmed"
    BY <1>0, <1>1, <1>2, LocalFields DEF LocalInv
  <2> QED BY <1>0, <1>1, <2>1, <2>2, <2>3, <2>4, <2>5, <2>6, <2>7 DEF LocalInv
<1>6. ChannelInv(r, ch)
  <2>1. EventsInv(r, ch)
    BY <1>0, <1>1, <1>2 DEF EventsInv
  <2>2. FinalInv(r, ch)
    BY <1>0, <1>3 DEF FinalInv
  <2>3. StoryInv(r, ch)
    BY <1>0, <1>1, <1>2, <1>3 DEF StoryInv, LivePcs
  <2>4. \A i \in DOMAIN ch : ch[i].kind = "CleanupComplete" =>
          (r.retiring[ch[i].fence[1]].gen = ch[i].fence[2] => r.retiring[ch[i].fence[1]].done)
    <3> SUFFICES ASSUME NEW i \in DOMAIN ch, ch[i].kind = "CleanupComplete",
                        r.retiring[ch[i].fence[1]].gen = ch[i].fence[2]
                 PROVE  r.retiring[ch[i].fence[1]].done
      OBVIOUS
    <3>1. ch[i].fence[1] \in Slots /\ ch[i].fence[2] # 0
      BY <1>0, FenceIs, GensAre
    <3>2. l.retiring[ch[i].fence[1]].gen = ch[i].fence[2] /\ r.retiring[ch[i].fence[1]] # NotRetiring
      BY <1>4, <3>1, ConstantsType
    <3> QED BY <1>0, <3>1, <3>2 DEF CompleteInv, TidiedTo
  <2>5. CompleteInv(r, ch)
    BY <1>0, <1>2, <1>3, <2>4 DEF CompleteInv
  <2> QED BY <2>1, <2>2, <2>3, <2>5 DEF ChannelInv
<1>7. \A h \in Handles, g \in Fences : Mentions(r, ch, h, g) => Mentions(l, ch, h, g)
  BY <1>1, <1>2, <1>3, GensAre DEF Mentions
<1>8. \A h \in Handles : Disowned(r, d2, h) =>
         (Disowned(l, dt, h) \/ \E g \in Fences : ~Current(l, g) /\ Mentions(l, ch, h, g))
  BY DEF Disowned, TidiedTo, Mentions
<1>9. HandleInv(r, ch, rs, d2)
  <2>1. HandleInv(l, ch, rs, dt)
    BY DEF Core
  <2>2. \A h \in Handles, f \in Fences : (Disowned(r, d2, h) /\ Mentions(r, ch, h, f)) => ~Current(r, f)
    BY <1>2, <1>7, <1>8, <2>1 DEF HandleInv
  <2> QED BY <1>7, <1>8, <2>1, <2>2 DEF HandleInv
<1>10. OrderInv(r, ch, rs) /\ RelayInv(r, ch, rs) /\ RouteInv(r, ch, rs, nt, pd)
  <2>1. OrderInv(l, ch, rs) /\ RelayInv(l, ch, rs) /\ RouteInv(l, ch, rs, nt, pd)
    BY DEF Core
  <2>2. OrderInv(r, ch, rs)
    BY <1>3, <2>1, GensAre DEF OrderInv
  <2>3. RelayInv(r, ch, rs)
    BY <1>1, <1>2, <1>3, <1>7, <2>1 DEF RelayInv
  <2>4. RouteInv(r, ch, rs, nt, pd)
    BY <1>0, <1>1, <1>2, <1>3, <2>1 DEF RouteInv
  <2> QED BY <2>2, <2>3, <2>4
<1> QED BY <1>0, <1>5, <1>6, <1>9, <1>10 DEF Core

\* The slot of a reaped retirement waits for its failure report
ReportingTo(l, r, f) ==
    /\ r.gens = l.gens /\ r.retiring = l.retiring /\ r.routes = l.routes /\ r.worker = l.worker
    /\ \A s \in Slots : s # f[1] => r.slot[s] = l.slot[s]
    /\ r.slot[f[1]].gen = f[2] /\ r.slot[f[1]].state = "reporting"
    /\ r.slot[f[1]].handle = NoHandle /\ r.slot[f[1]].worker = FALSE

LEMMA ReportingKeepsCore ==
    ASSUME NEW l, NEW r \in LocalRecord, NEW ch, NEW rs, NEW nt, NEW pd, NEW dt, NEW f \in Fences,
           Core(l, ch, rs, nt, pd, dt), ReportingTo(l, r, f),
           l.slot[f[1]].gen = 0, l.retiring[f[1]].gen = 0, f[2] <= l.gens[f[1]],
           Silent(ch, f), \A i \in DOMAIN ch : ch[i].kind = "CleanupComplete" => ch[i].fence # f
    PROVE  Core(r, ch, rs, nt, pd, dt)
<1>0. /\ l \in LocalRecord /\ ch \in Seq(EventRecord) /\ LocalInv(l)
      /\ EventsInv(l, ch) /\ FinalInv(l, ch) /\ StoryInv(l, ch) /\ CompleteInv(l, ch)
      /\ \A i \in DOMAIN ch : ch[i].fence \in Fences
      /\ f[1] \in Slots /\ f[2] # 0
  BY ChannelType, FenceIs, GensAre DEF Core, ChannelInv
<1>1. r.gens = l.gens /\ r.retiring = l.retiring /\ r.worker = l.worker /\ r.routes = l.routes
  BY DEF ReportingTo
<1>2. /\ \A s \in Slots : s # f[1] => r.slot[s] = l.slot[s]
      /\ r.slot[f[1]].gen = f[2] /\ r.slot[f[1]].state = "reporting"
      /\ r.slot[f[1]].handle = NoHandle /\ r.slot[f[1]].worker = FALSE
  BY DEF ReportingTo
<1>3. \A g \in Fences : Current(r, g) => (g = f \/ (g[1] # f[1] /\ Current(l, g) /\ r.slot[g[1]] = l.slot[g[1]]))
  BY <1>2, FenceIs DEF Current
<1>4. \A g \in Fences : Current(l, g) => (g[1] # f[1] /\ Current(r, g) /\ r.slot[g[1]] = l.slot[g[1]])
  BY <1>2, FenceIs, GensAre DEF Current
<1>5. l.worker[f].pc = "off" /\ l.worker[f].h = NoHandle
  BY <1>0 DEF LocalInv, Current
<1>6. LocalInv(r)
  <2>1. /\ \A s \in Slots : r.slot[s].gen = 0 => r.slot[s] = Vacant
        /\ \A s \in Slots : r.slot[s].state = "vacant" => r.slot[s].gen = 0
        /\ \A s \in Slots : r.slot[s].gen # 0 => r.retiring[s].gen = 0
        /\ \A s \in Slots : r.slot[s].gen <= r.gens[s] /\ r.retiring[s].gen <= r.gens[s]
        /\ \A s \in Slots : r.slot[s].state \in {"confirmed", "reporting"} => ~r.slot[s].worker
    BY <1>0, <1>1, <1>2 DEF LocalInv
  <2>2. \A g \in Fences : r.worker[g].pc # "off" =>
               \/ Current(r, g) /\ r.slot[g[1]].worker
               \/ r.retiring[g[1]].gen = g[2] /\ r.retiring[g[1]].join
    BY <1>0, <1>1, <1>4 DEF LocalInv
  <2>3. \A g \in r.routes : Current(r, g) /\ r.slot[g[1]].state = "confirmed"
    BY <1>0, <1>1, <1>4, LocalFields DEF LocalInv
  <2> QED BY <1>0, <1>1, <2>1, <2>2, <2>3 DEF LocalInv
<1>7. ChannelInv(r, ch)
  <2>0. \A i \in DOMAIN ch : (ch[i].kind \in WorkerKinds \cup {"CleanupComplete"} /\ Current(r, ch[i].fence)) =>
           (Current(l, ch[i].fence) /\ r.slot[ch[i].fence[1]] = l.slot[ch[i].fence[1]])
    BY <1>0, <1>3 DEF Silent, IsEvent
  <2>1. EventsInv(r, ch)
    BY <1>0, <1>1, <2>0 DEF EventsInv
  <2>2. FinalInv(r, ch)
    BY <1>0, <1>1 DEF FinalInv
  <2>3. StoryInv(r, ch)
    <3>1. \A i \in DOMAIN ch :
          (ch[i].kind \in WorkerKinds /\ ~Before(ch, i, ch[i].fence) /\ Current(r, ch[i].fence))
             => Fits(r.slot[ch[i].fence[1]].handle, ch[i])
      BY <1>0, <2>0 DEF StoryInv
    <3>2. \A g \in Fences :
          (Current(r, g) /\ r.worker[g].pc \in LivePcs /\ Silent(ch, g))
             => r.slot[g[1]].handle = Announced(r.worker[g])
      BY <1>0, <1>1, <1>3, <1>5 DEF StoryInv, LivePcs
    <3> QED BY <1>0, <1>1, <3>1, <3>2 DEF StoryInv
  <2>4. CompleteInv(r, ch)
    BY <1>0, <1>1, <2>0 DEF CompleteInv
  <2> QED BY <2>1, <2>2, <2>3, <2>4 DEF ChannelInv
<1>8. \A h \in Handles, g \in Fences : Mentions(r, ch, h, g) => (Mentions(l, ch, h, g) /\ g # f)
  <2> SUFFICES ASSUME NEW h \in Handles, NEW g \in Fences, Mentions(r, ch, h, g)
               PROVE  Mentions(l, ch, h, g) /\ g # f
    OBVIOUS
  <2>0. h # NoHandle
    BY GensAre
  <2>1. \A i \in DOMAIN ch : ch[i].fence = f => ch[i].h = NoHandle
    <3>1. \A i \in DOMAIN ch : ch[i].fence = f => ch[i].kind = "RetryFailure"
      BY ChannelType, <1>0 DEF Silent, IsEvent, EventKinds, WorkerKinds
    <3> QED BY <1>0, <3>1 DEF EventsInv
  <2>2. g # f
    BY <1>1, <1>2, <1>5, <2>0, <2>1 DEF Mentions
  <2> QED BY <1>1, <1>3, <2>2 DEF Mentions
<1>9. HandleInv(r, ch, rs, dt)
  <2>1. HandleInv(l, ch, rs, dt) /\ \A h \in Handles : Disowned(r, dt, h) <=> Disowned(l, dt, h)
    BY <1>1 DEF Core, Disowned
  <2> QED BY <1>3, <1>8, <2>1 DEF HandleInv
<1>10. OrderInv(r, ch, rs) /\ RelayInv(r, ch, rs) /\ RouteInv(r, ch, rs, nt, pd)
  <2>1. OrderInv(l, ch, rs) /\ RelayInv(l, ch, rs) /\ RouteInv(l, ch, rs, nt, pd)
    BY DEF Core
  <2>2. OrderInv(r, ch, rs)
    BY <1>1, <2>1 DEF OrderInv
  <2>3. RelayInv(r, ch, rs)
    BY <1>1, <1>3, <1>5, <1>8, <2>1 DEF RelayInv
  <2>4. \A s \in Slots : r.slot[s].state = "confirmed" => r.slot[s] = l.slot[s]
    BY <1>2
  <2>5. \A i \in DOMAIN ch : (ch[i].kind = "Confirmed" /\ Current(r, ch[i].fence)) => Current(l, ch[i].fence)
    BY <1>0, <1>3 DEF Silent, IsEvent, WorkerKinds
  <2>6. RouteInv(r, ch, rs, nt, pd)
    BY <1>1, <1>3, <1>5, <2>1, <2>4, <2>5 DEF RouteInv
  <2> QED BY <2>2, <2>3, <2>6
<1> QED BY <1>6, <1>7, <1>9, <1>10 DEF Core

-----------------------------------------------------------------------------
(* Evidence, disowned handles, the transport *)

\* Notices and evidence that nobody needs any more are dropped
LEMMA PruneKeepsCore ==
    ASSUME NEW l, NEW ch, NEW rs, NEW nt, NEW pd, NEW dt, Core(l, ch, rs, nt, pd, dt),
           NEW n2, NEW p2, n2 \cup p2 \subseteq nt \cup pd,
           \A s \in Slots : (l.slot[s].state = "confirmed" /\ l.slot[s].handle \in nt) => l.slot[s].handle \in n2,
           \A f \in Fences : (Current(l, f) /\ l.worker[f].pc = "confirmed" /\ l.worker[f].h \in nt \cup pd)
              => l.worker[f].h \in n2 \cup p2,
           \A i \in DOMAIN ch : (Current(l, ch[i].fence) /\ ch[i].kind = "Confirmed" /\ ch[i].h \in nt \cup pd)
              => ch[i].h \in n2 \cup p2
    PROVE  Core(l, ch, rs, n2, p2, dt)
<1>1. n2 \in SUBSET Handles /\ p2 \in SUBSET Handles
  BY DEF Core
<1>2. RouteInv(l, ch, rs, nt, pd)
  BY DEF Core
<1>3. RouteInv(l, ch, rs, n2, p2)
  BY <1>2 DEF RouteInv, Evident
<1> QED BY <1>1, <1>3 DEF Core

\* A handle that no current attempt mentions is cancelled on the side
LEMMA DisownKeepsCore ==
    ASSUME NEW l, NEW ch, NEW rs, NEW nt, NEW pd, NEW dt, Core(l, ch, rs, nt, pd, dt),
           NEW h \in Handles, rs[h].state # "free", \A f \in Fences : Mentions(l, ch, h, f) => ~Current(l, f)
    PROVE  Core(l, ch, rs, nt, pd, dt \cup {h})
<1>1. dt \cup {h} \in SUBSET Handles /\ HandleInv(l, ch, rs, dt)
  BY DEF Core
<1>2. \A k \in Handles : Disowned(l, dt \cup {h}, k) => (k = h \/ Disowned(l, dt, k))
  BY DEF Disowned
<1>3. HandleInv(l, ch, rs, dt \cup {h})
  BY <1>1, <1>2 DEF HandleInv
<1> QED BY <1>1, <1>3 DEF Core

\* A reservation moves on; what is lost is broadcast while the actor listens
LEMMA TransportKeepsCore ==
    ASSUME NEW l, NEW ch, NEW rs, NEW nt, NEW pd, NEW dt, Core(l, ch, rs, nt, pd, dt),
           NEW h \in Handles, NEW x \in {"pending", "publishable", "canceling", "gone"},
           rs[h].state \notin {"free", "gone"},
           rs[h].state = "canceling" => x \in {"canceling", "gone"},
           \A f \in Fences : l.worker[f].pc = "minted" => l.worker[f].h # h,
           NEW n2, n2 = nt \/ (n2 = nt \cup {h} /\ x \in {"canceling", "gone"}),
           \/ rs[h].state # "publishable" \/ x = "publishable" \/ h \in n2
           \/ \A f \in Fences : ~Current(l, f)
    PROVE  Core(l, ch, [rs EXCEPT ![h].state = x], n2, pd, dt)
<1> DEFINE r2 == [rs EXCEPT ![h].state = x]
<1>0. rs \in [Handles -> ReservationRecord] /\ nt \in SUBSET Handles /\ l \in LocalRecord /\ ch \in Seq(EventRecord)
  BY DEF Core
<1>1. /\ r2 \in [Handles -> ReservationRecord] /\ n2 \in SUBSET Handles
      /\ r2[h].state = x /\ r2[h].relay = rs[h].relay
      /\ \A k \in Handles : k # h => r2[k] = rs[k]
  BY <1>0 DEF ReservationRecord
<1> HIDE DEF r2
<1>2. HandleInv(l, ch, rs, dt) /\ OrderInv(l, ch, rs) /\ RelayInv(l, ch, rs) /\ RouteInv(l, ch, rs, nt, pd)
      /\ LocalInv(l) /\ EventsInv(l, ch)
  BY DEF Core, ChannelInv
<1>3. \A k \in Handles : (r2[k].state = "free" <=> rs[k].state = "free") /\ r2[k].relay = rs[k].relay
  BY <1>1
<1>4. HandleInv(l, ch, r2, dt)
  BY <1>2, <1>3 DEF HandleInv
<1>5. OrderInv(l, ch, r2)
  <2>1. \A i \in DOMAIN ch : ch[i].kind = "Retrying" => r2[ch[i].h].state = "gone"
    BY <1>1, <1>2 DEF OrderInv, EventsInv
  <2>2. \A f \in Fences : l.worker[f].pc = "minted" => r2[l.worker[f].h].state = "dispatching"
    BY <1>1, <1>2 DEF OrderInv, LocalInv, LivePcs
  <2> QED BY <1>2, <1>3, <2>1, <2>2 DEF OrderInv
<1>6. RelayInv(l, ch, r2)
  BY <1>2, <1>3 DEF RelayInv
<1>7. RouteInv(l, ch, r2, n2, pd)
  <2>1. \A k \in n2 \cup pd : r2[k].state \in {"canceling", "gone"}
    <3> SUFFICES ASSUME NEW k \in n2 \cup pd PROVE r2[k].state \in {"canceling", "gone"}
      OBVIOUS
    <3>1. k \in Handles
      BY <1>1 DEF Core
    <3>2. CASE k = h
      BY <1>1, <1>2, <3>2 DEF RouteInv
    <3>3. CASE k # h
      BY <1>1, <1>2, <3>1, <3>3 DEF RouteInv
    <3> QED BY <3>2, <3>3
  <2>2. \A k \in Handles : \A f \in Fences : (Current(l, f) /\ rs[k].state = "publishable") =>
            (r2[k].state = "publishable" \/ k \in n2)
    BY <1>1
  <2>3. \A k \in Handles : k \in nt => k \in n2
    OBVIOUS
  <2>4. \A k \in Handles : \A f \in Fences : (Current(l, f) /\ Evident(rs, nt, pd, k)) => Evident(r2, n2, pd, k)
    BY <2>2, <2>3 DEF Evident
  <2>5. \A s \in Slots : l.slot[s].state = "confirmed" =>
            /\ l.slot[s].handle \in Handles
            /\ r2[l.slot[s].handle].state = "publishable" \/ l.slot[s].handle \in n2
    <3> SUFFICES ASSUME NEW s \in Slots, l.slot[s].state = "confirmed"
                 PROVE  /\ l.slot[s].handle \in Handles
                        /\ r2[l.slot[s].handle].state = "publishable" \/ l.slot[s].handle \in n2
      OBVIOUS
    <3>1. l.slot[s].gen \in Gens
      BY <1>0, <1>2, NotVacant, LocalFields, GensAre
    <3> DEFINE f == <<s, l.slot[s].gen>>
    <3>2. f \in Fences /\ Current(l, f)
      BY <3>1, FenceIs DEF Current
    <3> HIDE DEF f
    <3> QED BY <1>2, <2>2, <2>3, <3>2 DEF RouteInv
  <2>6. \A f \in Fences : (Current(l, f) /\ l.worker[f].pc = "confirmed") => Evident(r2, n2, pd, l.worker[f].h)
    BY <1>2, <2>4 DEF RouteInv, LocalInv, LivePcs
  <2>7. \A i \in DOMAIN ch : (ch[i].kind = "Confirmed" /\ Current(l, ch[i].fence)) => Evident(r2, n2, pd, ch[i].h)
    BY <1>0, <1>2, <2>4, ChannelType DEF RouteInv, EventsInv
  <2> QED BY <2>1, <2>5, <2>6, <2>7 DEF RouteInv
<1>8. Core(l, ch, r2, n2, pd, dt)
  BY <1>1, <1>4, <1>5, <1>6, <1>7 DEF Core
<1> QED BY <1>8 DEF r2

\* The transport mints the next reservation
MintedTo(rs, r2, h, relay) == r2 = [rs EXCEPT ![h] = [state |-> "dispatching", relay |-> relay]]

LEMMA MintKeepsCore ==
    ASSUME NEW l, NEW ch, NEW rs, NEW nt, NEW pd, NEW dt, Core(l, ch, rs, nt, pd, dt),
           NEW h \in Handles, NEW relay \in AnyRelay, rs[h].state = "free",
           \A g \in Handles : g < h => rs[g].state # "free",
           NEW r2, MintedTo(rs, r2, h, relay)
    PROVE  /\ Core(l, ch, r2, nt, pd, dt) /\ r2[h].state = "dispatching" /\ r2[h].relay = relay
           /\ \A f \in Fences : ~Mentions(l, ch, h, f)
           /\ ~Disowned(l, dt, h)
           /\ \A i \in DOMAIN ch : ch[i].h < h
           /\ \A k \in Handles : r2[k].state \in {"pending", "publishable"} => rs[k].state = r2[k].state
<1>0. rs \in [Handles -> ReservationRecord] /\ nt \in SUBSET Handles /\ l \in LocalRecord /\ ch \in Seq(EventRecord)
  BY DEF Core
<1>1. /\ r2 \in [Handles -> ReservationRecord]
      /\ r2[h].state = "dispatching" /\ r2[h].relay = relay
      /\ \A k \in Handles : k # h => r2[k] = rs[k]
  <2>1. [state |-> "dispatching", relay |-> relay] \in ReservationRecord
    BY DEF ReservationRecord
  <2> QED BY <1>0, <2>1 DEF MintedTo
<1>2. HandleInv(l, ch, rs, dt) /\ OrderInv(l, ch, rs) /\ RelayInv(l, ch, rs) /\ RouteInv(l, ch, rs, nt, pd)
      /\ LocalInv(l) /\ EventsInv(l, ch)
  BY DEF Core, ChannelInv
<1>3. (\A f \in Fences : ~Mentions(l, ch, h, f)) /\ ~Disowned(l, dt, h)
  BY <1>2 DEF HandleInv
<1>4. \A i \in DOMAIN ch : ch[i].h < h
  <2> SUFFICES ASSUME NEW i \in DOMAIN ch PROVE ch[i].h < h
    OBVIOUS
  <2>1. ch[i].fence \in Fences /\ ch[i].h \in AnyHandle
    BY <1>0, ChannelType
  <2>2. CASE ch[i].h = NoHandle
    BY <2>2, GensAre DEF NoHandle, Handles
  <2>3. CASE ch[i].h \in Handles
    <3>1. Mentions(l, ch, ch[i].h, ch[i].fence)
      BY DEF Mentions
    <3>2. rs[ch[i].h].state # "free"
      BY <1>2, <2>1, <2>3, <3>1 DEF HandleInv
    <3>3. ~(h < ch[i].h) /\ ch[i].h # h
      BY <1>2, <2>3, <3>2 DEF OrderInv
    <3> QED BY <2>3, <3>3, GensAre
  <2> QED BY <2>1, <2>2, <2>3 DEF AnyHandle
<1>5. HandleInv(l, ch, r2, dt)
  BY <1>1, <1>2, <1>3 DEF HandleInv
<1>6. OrderInv(l, ch, r2)
  <2>1. \A i \in DOMAIN ch : ch[i].kind = "Retrying" => r2[ch[i].h].state = "gone"
    BY <1>1, <1>2 DEF OrderInv, EventsInv
  <2>2. \A f \in Fences : l.worker[f].pc = "minted" => r2[l.worker[f].h].state = "dispatching"
    BY <1>1, <1>2 DEF OrderInv, LocalInv, LivePcs
  <2>3. \A g, k \in Handles : (g < k /\ r2[g].state = "free") => r2[k].state = "free"
    <3> SUFFICES ASSUME NEW g \in Handles, NEW k \in Handles, g < k, r2[g].state = "free"
                 PROVE  r2[k].state = "free"
      OBVIOUS
    <3>1. g # h /\ rs[g].state = "free"
      BY <1>1
    <3>2. ~(g < h)
      BY <3>1
    <3>3. k # h
      BY <3>2
    <3> QED BY <1>1, <1>2, <3>1, <3>3 DEF OrderInv
  <2> QED BY <1>2, <2>1, <2>2, <2>3 DEF OrderInv
<1>7. RelayInv(l, ch, r2)
  BY <1>1, <1>2, <1>3 DEF RelayInv
<1>8. RouteInv(l, ch, r2, nt, pd)
  <2>1. \A k \in nt \cup pd : k \in Handles /\ k # h
    BY <1>2 DEF RouteInv, Core
  <2>2. \A k \in Handles : Evident(rs, nt, pd, k) => Evident(r2, nt, pd, k)
    BY <1>1 DEF Evident
  <2>3. \A f \in Fences : (Current(l, f) /\ l.worker[f].pc = "confirmed") => Evident(r2, nt, pd, l.worker[f].h)
    BY <1>2, <2>2 DEF RouteInv, LocalInv, LivePcs
  <2>4. \A i \in DOMAIN ch : (ch[i].kind = "Confirmed" /\ Current(l, ch[i].fence)) => Evident(r2, nt, pd, ch[i].h)
    BY <1>2, <2>2 DEF RouteInv, EventsInv
  <2> QED BY <1>1, <1>2, <2>1, <2>3, <2>4 DEF RouteInv
<1>9. Core(l, ch, r2, nt, pd, dt)
  BY <1>1, <1>5, <1>6, <1>7, <1>8 DEF Core
<1>10. \A k \in Handles : r2[k].state \in {"pending", "publishable"} => rs[k].state = r2[k].state
  BY <1>1
<1> QED BY <1>1, <1>3, <1>4, <1>9, <1>10

-----------------------------------------------------------------------------
(* Sending an event *)

\* `c' is `ch' with `e' behind it, at place n
Grown(ch, c, n, e) ==
    /\ c \in Seq(EventRecord) /\ n \in Nat /\ n \in DOMAIN c /\ c[n] = e
    /\ \A i \in DOMAIN ch : i \in DOMAIN c /\ c[i] = ch[i] /\ i \in Nat /\ i < n
    /\ \A i \in DOMAIN c : i \in Nat /\ (i = n \/ i \in DOMAIN ch)

LEMMA AppendIs ==
    ASSUME NEW ch \in Seq(EventRecord), NEW e \in EventRecord
    PROVE  Grown(ch, Append(ch, e), Len(ch) + 1, e)
<1>1. Len(ch) \in Nat /\ DOMAIN ch = 1..Len(ch)
  OBVIOUS
<1>2. /\ Append(ch, e) \in Seq(EventRecord) /\ Len(Append(ch, e)) = Len(ch) + 1
      /\ Append(ch, e)[Len(ch) + 1] = e /\ \A i \in 1..Len(ch) : Append(ch, e)[i] = ch[i]
  OBVIOUS
<1>3. DOMAIN Append(ch, e) = 1..(Len(ch) + 1)
  BY <1>1, <1>2
<1> QED BY <1>1, <1>2, <1>3 DEF Grown

GrowKept(ch, c, n) ==
    /\ \A f \in Fences, i \in DOMAIN ch : IsEvent(c, i, f) <=> IsEvent(ch, i, f)
    /\ \A f \in Fences, i \in DOMAIN ch : After(c, i, f) <=> (After(ch, i, f) \/ IsEvent(c, n, f))
    /\ \A f \in Fences : ~After(c, n, f)
    /\ \A f \in Fences, i \in DOMAIN ch : Before(c, i, f) <=> Before(ch, i, f)
    /\ \A f \in Fences : Before(c, n, f) <=> ~Silent(ch, f)
    /\ \A f \in Fences, i, j \in DOMAIN ch : Between(ch, i, j, f) => Between(c, i, j, f)
    /\ \A f \in Fences, i \in DOMAIN ch : After(ch, i, f) => Between(c, i, n, f)
    /\ \A f \in Fences : Silent(c, f) <=> (Silent(ch, f) /\ ~IsEvent(c, n, f))

LEMMA GrowFacts ==
    ASSUME NEW ch \in Seq(EventRecord), NEW c, NEW n, NEW e, Grown(ch, c, n, e)
    PROVE  GrowKept(ch, c, n)
<1>1. \A f \in Fences, i \in DOMAIN ch : IsEvent(c, i, f) <=> IsEvent(ch, i, f)
  BY DEF Grown, IsEvent
<1>2. /\ n \in Nat /\ n \in DOMAIN c
      /\ \A i \in DOMAIN ch : i \in DOMAIN c /\ i \in Nat /\ i < n
      /\ \A i \in DOMAIN c : i \in Nat /\ (i = n \/ i \in DOMAIN ch)
  BY DEF Grown
<1>3. \A f \in Fences, i \in DOMAIN ch : After(c, i, f) <=> (After(ch, i, f) \/ IsEvent(c, n, f))
  BY <1>1, <1>2 DEF After
<1>4. \A f \in Fences : ~After(c, n, f)
  BY <1>2 DEF After
<1>5. \A f \in Fences, i \in DOMAIN ch : Before(c, i, f) <=> Before(ch, i, f)
  BY <1>1, <1>2 DEF Before
<1>6. \A f \in Fences : Before(c, n, f) <=> ~Silent(ch, f)
  BY <1>1, <1>2 DEF Before, Silent
<1>7. \A f \in Fences, i, j \in DOMAIN ch : Between(ch, i, j, f) => Between(c, i, j, f)
  BY <1>1, <1>2 DEF Between
<1>8. \A f \in Fences, i \in DOMAIN ch : After(ch, i, f) => Between(c, i, n, f)
  BY <1>1, <1>2 DEF Between, After
<1>9. \A f \in Fences : Silent(c, f) <=> (Silent(ch, f) /\ ~IsEvent(c, n, f))
  BY <1>1, <1>2 DEF Silent
<1> QED BY <1>1, <1>3, <1>4, <1>5, <1>6, <1>7, <1>8, <1>9 DEF GrowKept

\* A timer or a finished cleanup sends its event
LEMMA NoteKeepsCore ==
    ASSUME NEW l, NEW ch, NEW rs, NEW nt, NEW pd, NEW dt, Core(l, ch, rs, nt, pd, dt),
           NEW c, NEW n, NEW e \in EventRecord, Grown(ch, c, n, e), e.h = NoHandle,
           \/ e.kind = "RetryFailure"
           \/ /\ e.kind = "CleanupComplete"
              /\ e.fence[2] <= l.gens[e.fence[1]]
              /\ l.worker[e.fence].pc = "off" /\ ~Current(l, e.fence)
              /\ l.retiring[e.fence[1]].gen = e.fence[2] => l.retiring[e.fence[1]].done
              /\ \A i \in DOMAIN ch : ch[i].kind = "CleanupComplete" => ch[i].fence # e.fence
    PROVE  Core(l, c, rs, nt, pd, dt)
<1>0. /\ l \in LocalRecord /\ ch \in Seq(EventRecord)
      /\ EventsInv(l, ch) /\ FinalInv(l, ch) /\ StoryInv(l, ch) /\ CompleteInv(l, ch)
      /\ \A i \in DOMAIN ch : ch[i].fence \in Fences
  BY ChannelType DEF Core, ChannelInv
<1>1. /\ c \in Seq(EventRecord) /\ n \in DOMAIN c /\ c[n] = e
      /\ \A i \in DOMAIN ch : i \in DOMAIN c /\ c[i] = ch[i] /\ i \in Nat /\ i < n
      /\ \A i \in DOMAIN c : i \in Nat /\ (i = n \/ i \in DOMAIN ch)
  BY DEF Grown
<1>2. GrowKept(ch, c, n)
  BY <1>0, GrowFacts
<1>3. e.fence \in Fences /\ e.kind \notin WorkerKinds /\ \A f \in Fences : ~IsEvent(c, n, f)
  BY <1>1 DEF EventRecord, WorkerKinds, IsEvent
<1>4. \A i \in DOMAIN c : c[i].kind \in WorkerKinds => (i \in DOMAIN ch /\ c[i] = ch[i])
  BY <1>1, <1>3
<1>5. EventsInv(l, c)
  BY <1>0, <1>1, <1>4 DEF EventsInv
<1>6. FinalInv(l, c)
  BY <1>0, <1>2, <1>3, <1>4 DEF FinalInv, GrowKept, WorkerKinds
<1>7. StoryInv(l, c)
  <2>1. ASSUME NEW i \in DOMAIN c, NEW j \in DOMAIN c,
               i < j, c[i].kind \in WorkerKinds, IsEvent(c, j, c[i].fence), ~Between(c, i, j, c[i].fence)
        PROVE  Fits(Held(c[i]), c[j])
    <3>1. i \in DOMAIN ch /\ c[i] = ch[i] /\ j \in DOMAIN ch /\ c[j] = ch[j]
      BY <1>4, <2>1 DEF IsEvent
    <3>2. IsEvent(ch, j, ch[i].fence) /\ ~Between(ch, i, j, ch[i].fence)
      BY <1>0, <1>2, <2>1, <3>1 DEF GrowKept
    <3> QED BY <1>0, <2>1, <3>1, <3>2 DEF StoryInv
  <2>2. \A i \in DOMAIN c :
          (/\ c[i].kind \in WorkerKinds /\ ~After(c, i, c[i].fence)
           /\ l.worker[c[i].fence].pc \in LivePcs)
             => Held(c[i]) = Announced(l.worker[c[i].fence])
    BY <1>0, <1>2, <1>4 DEF StoryInv, GrowKept
  <2>3. \A i \in DOMAIN c :
          (c[i].kind \in WorkerKinds /\ ~Before(c, i, c[i].fence) /\ Current(l, c[i].fence))
             => Fits(l.slot[c[i].fence[1]].handle, c[i])
    BY <1>0, <1>2, <1>4 DEF StoryInv, GrowKept
  <2>4. \A f \in Fences :
          (Current(l, f) /\ l.worker[f].pc \in LivePcs /\ Silent(c, f))
             => l.slot[f[1]].handle = Announced(l.worker[f])
    BY <1>0, <1>2, <1>3 DEF StoryInv, GrowKept
  <2> QED BY <2>1, <2>2, <2>3, <2>4 DEF StoryInv
<1>8. CompleteInv(l, c)
  <2>1. \A i \in DOMAIN c : c[i].kind = "CleanupComplete" =>
          /\ l.worker[c[i].fence].pc = "off"
          /\ ~After(c, i, c[i].fence)
          /\ ~Current(l, c[i].fence)
          /\ l.retiring[c[i].fence[1]].gen = c[i].fence[2] => l.retiring[c[i].fence[1]].done
    <3> SUFFICES ASSUME NEW i \in DOMAIN c, c[i].kind = "CleanupComplete"
                 PROVE  /\ l.worker[c[i].fence].pc = "off"
                        /\ ~After(c, i, c[i].fence)
                        /\ ~Current(l, c[i].fence)
                        /\ l.retiring[c[i].fence[1]].gen = c[i].fence[2] => l.retiring[c[i].fence[1]].done
      OBVIOUS
    <3>1. CASE i = n
      BY <1>1, <1>2, <1>3, <3>1 DEF GrowKept
    <3>2. CASE i # n
      BY <1>0, <1>1, <1>2, <1>3, <3>2 DEF CompleteInv, GrowKept
    <3> QED BY <3>1, <3>2
  <2>2. \A i, j \in DOMAIN c :
          (c[i].kind = "CleanupComplete" /\ c[j].kind = "CleanupComplete" /\ i # j)
             => c[i].fence # c[j].fence
    BY <1>0, <1>1 DEF CompleteInv
  <2> QED BY <2>1, <2>2 DEF CompleteInv
<1>9. \A h \in Handles, g \in Fences : Mentions(l, c, h, g) => Mentions(l, ch, h, g)
  BY <1>1, GensAre DEF Mentions
<1>10. HandleInv(l, c, rs, dt)
  <2>1. HandleInv(l, ch, rs, dt)
    BY DEF Core
  <2> QED BY <1>9, <2>1 DEF HandleInv
<1>11. OrderInv(l, c, rs)
  <2>0. OrderInv(l, ch, rs)
    BY DEF Core
  <2>1. \A i \in DOMAIN c : c[i].kind = "Retrying" => rs[c[i].h].state = "gone"
    BY <1>4, <2>0 DEF OrderInv, WorkerKinds
  <2>2. \A f \in Fences, i \in DOMAIN c :
          (l.worker[f].h \in Handles /\ IsEvent(c, i, f)) =>
             /\ c[i].h <= l.worker[f].h
             /\ c[i].kind = "Retrying" => c[i].h < l.worker[f].h
    BY <1>1, <1>2, <1>3, <2>0 DEF OrderInv, GrowKept
  <2>3. ASSUME NEW i \in DOMAIN c, NEW j \in DOMAIN c, i < j, c[i].kind \in WorkerKinds,
               IsEvent(c, j, c[i].fence), c[j].h \in Handles
        PROVE  c[i].h <= c[j].h /\ (c[i].kind = "Retrying" => c[i].h < c[j].h)
    <3>1. i \in DOMAIN ch /\ c[i] = ch[i] /\ j \in DOMAIN ch /\ c[j] = ch[j]
      BY <1>4, <2>3 DEF IsEvent
    <3>2. IsEvent(ch, j, ch[i].fence)
      BY <1>0, <1>2, <2>3, <3>1 DEF GrowKept
    <3> QED BY <2>0, <2>3, <3>1, <3>2 DEF OrderInv
  <2> QED BY <2>0, <2>1, <2>2, <2>3 DEF OrderInv
<1>12. RelayInv(l, c, rs) /\ RouteInv(l, c, rs, nt, pd)
  <2>1. RelayInv(l, ch, rs) /\ RouteInv(l, ch, rs, nt, pd)
    BY DEF Core
  <2>2. RelayInv(l, c, rs)
    BY <1>9, <2>1 DEF RelayInv
  <2>3. RouteInv(l, c, rs, nt, pd)
    BY <1>4, <2>1 DEF RouteInv, WorkerKinds
  <2> QED BY <2>2, <2>3
<1> QED BY <1>1, <1>5, <1>6, <1>7, <1>8, <1>10, <1>11, <1>12 DEF Core, ChannelInv

-----------------------------------------------------------------------------
(* Reservation workers *)

\* The worker of `f' takes a step
WorkedTo(l, r, f) ==
    /\ r.slot = l.slot /\ r.retiring = l.retiring /\ r.gens = l.gens /\ r.routes = l.routes
    /\ \A g \in Fences : g # f => r.worker[g] = l.worker[g]
    /\ r.worker[f].relay = l.worker[f].relay
    /\ l.worker[f].pc # "off" /\ r.worker[f].pc # "off"
    /\ r.worker[f].pc = "dial" => r.worker[f].h = NoHandle
    /\ r.worker[f].pc \in LivePcs \ {"dial"} => r.worker[f].h \in Handles
    /\ r.worker[f].pc = "release" => r.worker[f].h \in Handles

LEMMA WorkKeepsLocal ==
    ASSUME NEW l \in LocalRecord, NEW r \in LocalRecord, NEW f \in Fences, LocalInv(l), WorkedTo(l, r, f)
    PROVE  LocalInv(r)
<1>1. r.slot = l.slot /\ r.retiring = l.retiring /\ r.gens = l.gens /\ r.routes = l.routes
  BY DEF WorkedTo
<1>2. \A g \in Fences : Current(r, g) <=> Current(l, g)
  BY <1>1 DEF Current
<1>3. \A g \in Fences : r.worker[g].pc # "off" =>
               \/ Current(r, g) /\ r.slot[g[1]].worker
               \/ r.retiring[g[1]].gen = g[2] /\ r.retiring[g[1]].join
  BY <1>1, <1>2 DEF LocalInv, WorkedTo
<1>4. /\ \A g \in Fences : r.worker[g].pc = "off" => ~r.worker[g].err
      /\ \A g \in Fences : r.worker[g].pc \in {"off", "dial"} => r.worker[g].h = NoHandle
      /\ \A g \in Fences : r.worker[g].pc \in LivePcs \ {"dial"} => r.worker[g].h \in Handles
      /\ \A g \in Fences : r.worker[g].pc = "release" => r.worker[g].h \in Handles
  BY DEF LocalInv, WorkedTo
<1>5. \A g \in r.routes : Current(r, g) /\ r.slot[g[1]].state = "confirmed"
  BY <1>1, <1>2, LocalFields DEF LocalInv
<1> QED BY <1>1, <1>3, <1>4, <1>5 DEF LocalInv

\* A worker that has not returned is about an attempt that is still reserving
LEMMA WorkingIsReserving ==
    ASSUME NEW l \in LocalRecord, NEW f \in Fences, LocalInv(l), l.worker[f].pc # "off"
    PROVE  /\ f[2] <= l.gens[f[1]]
           /\ Current(l, f) => l.slot[f[1]].state = "reserving" /\ l.slot[f[1]].worker
<1>1. f[1] \in Slots /\ f[2] # 0 /\ l.slot[f[1]] \in SlotRecord
  BY FenceIs, GensAre, LocalFields
<1>2. \/ Current(l, f) /\ l.slot[f[1]].worker
      \/ l.retiring[f[1]].gen = f[2] /\ l.retiring[f[1]].join
  BY DEF LocalInv
<1>3. f[2] <= l.gens[f[1]]
  BY <1>1, <1>2 DEF LocalInv, Current
<1>4. ASSUME Current(l, f) PROVE l.slot[f[1]].state = "reserving" /\ l.slot[f[1]].worker
  <2>1. l.slot[f[1]].gen = f[2] /\ l.retiring[f[1]].gen # f[2]
    BY <1>1, <1>4 DEF Current, LocalInv
  <2>2. l.slot[f[1]].worker /\ l.slot[f[1]].state # "vacant"
    BY <1>1, <1>2, <2>1 DEF LocalInv
  <2>3. l.slot[f[1]].state \notin {"confirmed", "reporting"}
    BY <1>1, <2>2 DEF LocalInv
  <2> QED BY <1>1, <2>2, <2>3 DEF SlotRecord
<1> QED BY <1>3, <1>4

\* A reservation nobody knows of yet
Unclaimed(l, ch, rs, dt, h, relay) ==
    /\ h \in Handles /\ rs[h].state = "dispatching" /\ rs[h].relay = relay
    /\ \A g \in Fences : ~Mentions(l, ch, h, g)
    /\ ~Disowned(l, dt, h)
    /\ \A i \in DOMAIN ch : ch[i].h < h

\* A worker takes a step without sending an event
LEMMA QuietWorkKeepsCore ==
    ASSUME NEW l, NEW r \in LocalRecord, NEW ch, NEW rs, NEW nt, NEW pd, NEW dt, NEW f \in Fences,
           Core(l, ch, rs, nt, pd, dt), WorkedTo(l, r, f), l.worker[f].pc # "done",
           r.worker[f].pc \in LivePcs =>
              (l.worker[f].pc \in LivePcs /\ Announced(r.worker[f]) = Announced(l.worker[f])),
           \/ r.worker[f].h \in {l.worker[f].h, NoHandle}
           \/ Unclaimed(l, ch, rs, dt, r.worker[f].h, l.worker[f].relay),
           r.worker[f].pc = "minted" => rs[r.worker[f].h].state = "dispatching",
           r.worker[f].pc = "confirmed" => Evident(rs, nt, pd, r.worker[f].h)
    PROVE  Core(r, ch, rs, nt, pd, dt)
<1>0. /\ l \in LocalRecord /\ ch \in Seq(EventRecord) /\ LocalInv(l) /\ ChannelInv(l, ch)
      /\ EventsInv(l, ch) /\ FinalInv(l, ch) /\ StoryInv(l, ch) /\ CompleteInv(l, ch)
      /\ \A i \in DOMAIN ch : ch[i].fence \in Fences
  BY ChannelType DEF Core, ChannelInv
<1>1. r.slot = l.slot /\ r.retiring = l.retiring /\ r.gens = l.gens /\ r.routes = l.routes
  BY DEF WorkedTo
<1>2. \A g \in Fences : Current(r, g) <=> Current(l, g)
  BY <1>1 DEF Current
<1>3. \A g \in Fences : g # f => r.worker[g] = l.worker[g]
  BY DEF WorkedTo
<1>4. l.worker[f].pc \notin {"off", "done"}
  BY DEF WorkedTo
<1>5. LocalInv(r)
  BY <1>0, WorkKeepsLocal
<1>6. ChannelInv(r, ch)
  <2>1. EventsInv(r, ch)
    BY <1>0, <1>1, <1>2 DEF EventsInv
  <2>2. FinalInv(r, ch)
    BY <1>0, <1>3, <1>4 DEF FinalInv
  <2>3. CompleteInv(r, ch)
    BY <1>0, <1>1, <1>2, <1>3, <1>4 DEF CompleteInv
  <2>4. \A g \in Fences : r.worker[g].pc \in LivePcs =>
           (l.worker[g].pc \in LivePcs /\ Announced(r.worker[g]) = Announced(l.worker[g]))
    BY <1>3
  <2>5. StoryInv(r, ch)
    BY <1>0, <1>1, <1>2, <2>4 DEF StoryInv
  <2> QED BY <2>1, <2>2, <2>3, <2>5 DEF ChannelInv
<1>7. \A h \in Handles, g \in Fences : Mentions(r, ch, h, g) =>
         \/ Mentions(l, ch, h, g)
         \/ g = f /\ h = r.worker[f].h /\ Unclaimed(l, ch, rs, dt, h, l.worker[f].relay)
  <2> SUFFICES ASSUME NEW h \in Handles, NEW g \in Fences, Mentions(r, ch, h, g), ~Mentions(l, ch, h, g)
               PROVE  g = f /\ h = r.worker[f].h /\ Unclaimed(l, ch, rs, dt, h, l.worker[f].relay)
    OBVIOUS
  <2>1. g = f /\ r.worker[f].h = h
    BY <1>1, <1>2, <1>3 DEF Mentions
  <2>2. h # NoHandle /\ h # l.worker[f].h
    BY <2>1, GensAre DEF Mentions
  <2> QED BY <2>1, <2>2
<1>8. HandleInv(r, ch, rs, dt)
  <2>0. HandleInv(l, ch, rs, dt) /\ \A h \in Handles : Disowned(r, dt, h) <=> Disowned(l, dt, h)
    BY <1>1 DEF Core, Disowned
  <2>1. \A h \in Handles, g, k \in Fences : (Mentions(r, ch, h, g) /\ Mentions(r, ch, h, k)) => g = k
    BY <1>7, <2>0 DEF HandleInv, Unclaimed
  <2>2. \A h \in Handles, g \in Fences : (Disowned(r, dt, h) /\ Mentions(r, ch, h, g)) => ~Current(r, g)
    BY <1>2, <1>7, <2>0 DEF HandleInv, Unclaimed
  <2>3. \A h \in Handles, g \in Fences : Mentions(r, ch, h, g) => rs[h].state # "free"
    BY <1>7, <2>0 DEF HandleInv, Unclaimed
  <2> QED BY <2>0, <2>1, <2>2, <2>3 DEF HandleInv
<1>9. OrderInv(r, ch, rs)
  <2>0. OrderInv(l, ch, rs)
    BY DEF Core
  <2>1. \A g \in Fences : r.worker[g].pc = "minted" => rs[r.worker[g].h].state = "dispatching"
    BY <1>3, <2>0 DEF OrderInv
  <2>2. ASSUME NEW g \in Fences, NEW i \in DOMAIN ch, r.worker[g].h \in Handles, IsEvent(ch, i, g)
        PROVE  /\ ch[i].h <= r.worker[g].h
               /\ ch[i].kind = "Retrying" => ch[i].h < r.worker[g].h
    <3>1. CASE r.worker[g].h = l.worker[g].h
      BY <2>0, <2>2, <3>1 DEF OrderInv
    <3>2. CASE r.worker[g].h # l.worker[g].h
      <4>1. g = f /\ r.worker[f].h # NoHandle
        BY <1>3, <2>2, <3>2, GensAre
      <4>2. ch[i].h < r.worker[g].h
        BY <3>2, <4>1 DEF Unclaimed
      <4> QED BY <1>0, <2>2, <4>2, ChannelType DEF AnyHandle, Handles, NoHandle
    <3> QED BY <3>1, <3>2
  <2> QED BY <2>0, <2>1, <2>2 DEF OrderInv
<1>10. RelayInv(r, ch, rs)
  <2>0. RelayInv(l, ch, rs)
    BY DEF Core
  <2>1. \A g \in Fences : r.worker[g].relay = l.worker[g].relay /\ (r.worker[g].pc # "off" => l.worker[g].pc # "off")
    BY <1>3 DEF WorkedTo
  <2>2. \A h \in Handles, g \in Fences :
          (Current(r, g) /\ Mentions(r, ch, h, g)) => rs[h].relay = r.slot[g[1]].relay
    BY <1>1, <1>2, <1>4, <1>7, <2>0 DEF RelayInv, Unclaimed
  <2> QED BY <1>1, <1>2, <2>0, <2>1, <2>2 DEF RelayInv
<1>11. RouteInv(r, ch, rs, nt, pd)
  <2>0. RouteInv(l, ch, rs, nt, pd)
    BY DEF Core
  <2> QED BY <1>0, <1>1, <1>2, <1>3, <2>0 DEF RouteInv
<1> QED BY <1>5, <1>6, <1>8, <1>9, <1>10, <1>11 DEF Core

\* A worker takes a step and sends an event that fits what it has announced
LEMMA SayingKeepsCore ==
    ASSUME NEW l, NEW r \in LocalRecord, NEW ch, NEW c, NEW n, NEW rs, NEW nt, NEW pd, NEW dt,
           NEW f \in Fences, NEW e \in EventRecord,
           Core(l, ch, rs, nt, pd, dt), WorkedTo(l, r, f), l.worker[f].pc \in LivePcs,
           Grown(ch, c, n, e), e.fence = f, e.kind \in WorkerKinds,
           Fits(Announced(l.worker[f]), e), e.h \in {l.worker[f].h, NoHandle},
           e.kind \in {"Started", "Confirmed", "Retrying"} => e.h \in Handles,
           r.worker[f].h \in {l.worker[f].h, NoHandle},
           e.kind \in {"Confirmed", "Failed"} => r.worker[f].pc = "done" /\ r.worker[f].h = e.h,
           r.worker[f].pc \in LivePcs => Held(e) = Announced(r.worker[f]),
           r.worker[f].pc \notin {"minted", "confirmed"},
           e.kind = "Retrying" => rs[e.h].state = "gone" /\ r.worker[f].h = NoHandle,
           e.kind = "Confirmed" => l.worker[f].pc = "confirmed"
    PROVE  Core(r, c, rs, nt, pd, dt)
<1>0. /\ l \in LocalRecord /\ ch \in Seq(EventRecord) /\ LocalInv(l)
      /\ EventsInv(l, ch) /\ FinalInv(l, ch) /\ StoryInv(l, ch) /\ CompleteInv(l, ch)
      /\ \A i \in DOMAIN ch : ch[i].fence \in Fences
  BY ChannelType DEF Core, ChannelInv
<1>1. r.slot = l.slot /\ r.retiring = l.retiring /\ r.gens = l.gens /\ r.routes = l.routes
  BY DEF WorkedTo
<1>2. \A g \in Fences : Current(r, g) <=> Current(l, g)
  BY <1>1 DEF Current
<1>3. \A g \in Fences : g # f => r.worker[g] = l.worker[g]
  BY DEF WorkedTo
<1>4. l.worker[f].pc \notin {"off", "done"}
  BY DEF LivePcs
<1>5. LocalInv(r)
  BY <1>0, WorkKeepsLocal
<1>6. /\ c \in Seq(EventRecord) /\ n \in DOMAIN c /\ c[n] = e /\ n \in Nat
      /\ \A i \in DOMAIN ch : i \in DOMAIN c /\ c[i] = ch[i] /\ i \in Nat /\ i < n
      /\ \A i \in DOMAIN c : i \in Nat /\ (i = n \/ (i \in DOMAIN ch /\ c[i] = ch[i]))
  BY DEF Grown
<1>7. GrowKept(ch, c, n) /\ \A g \in Fences : IsEvent(c, n, g) <=> g = f
  BY <1>0, <1>6, GrowFacts DEF IsEvent
<1>8. f[2] <= l.gens[f[1]] /\ (Current(l, f) => l.slot[f[1]].state = "reserving")
  BY <1>0, <1>4, WorkingIsReserving
<1>9. \A i \in DOMAIN ch : ch[i].kind \in {"Confirmed", "Failed"} => ch[i].fence # f
  BY <1>0, <1>4 DEF FinalInv
<1>10. EventsInv(r, c)
  <2>1. \A i \in DOMAIN c : c[i].kind # "RetryFailure" => c[i].fence[2] <= r.gens[c[i].fence[1]]
    BY <1>0, <1>1, <1>6, <1>8 DEF EventsInv
  <2>2. \A i \in DOMAIN c : c[i].kind \in {"Started", "Confirmed", "Retrying"} => c[i].h \in Handles
    BY <1>0, <1>6 DEF EventsInv
  <2>3. \A i \in DOMAIN c : c[i].kind \in {"RetryFailure", "CleanupComplete"} => c[i].h = NoHandle
    BY <1>0, <1>6 DEF EventsInv, WorkerKinds
  <2>4. \A i \in DOMAIN c : (c[i].kind \in WorkerKinds /\ Current(r, c[i].fence)) =>
          r.slot[c[i].fence[1]].state = "reserving"
    BY <1>0, <1>1, <1>2, <1>6, <1>8 DEF EventsInv
  <2> QED BY <2>1, <2>2, <2>3, <2>4 DEF EventsInv
<1>11. FinalInv(r, c)
  <2> SUFFICES ASSUME NEW i \in DOMAIN c, c[i].kind \in {"Confirmed", "Failed"}
               PROVE  /\ ~After(c, i, c[i].fence)
                      /\ \/ r.worker[c[i].fence].pc = "off"
                         \/ r.worker[c[i].fence].pc = "done" /\ r.worker[c[i].fence].h = c[i].h
    BY DEF FinalInv
  <2>1. CASE i = n
    BY <1>6, <1>7, <2>1 DEF GrowKept
  <2>2. CASE i # n
    <3>1. i \in DOMAIN ch /\ c[i] = ch[i] /\ ch[i].fence # f /\ ch[i].fence \in Fences
      BY <1>0, <1>6, <1>9, <2>2
    <3> QED BY <1>0, <1>3, <1>7, <3>1 DEF FinalInv, GrowKept
  <2> QED BY <2>1, <2>2
<1>12. StoryInv(r, c)
  <2>1. ASSUME NEW i \in DOMAIN c, NEW j \in DOMAIN c,
               i < j, c[i].kind \in WorkerKinds, IsEvent(c, j, c[i].fence), ~Between(c, i, j, c[i].fence)
        PROVE  Fits(Held(c[i]), c[j])
    <3>1. i # n /\ i \in DOMAIN ch /\ c[i] = ch[i] /\ ch[i].fence \in Fences
      BY <1>0, <1>6, <2>1
    <3>2. CASE j = n
      <4>1. ch[i].fence = f /\ ~After(ch, i, f)
        BY <1>7, <2>1, <3>1, <3>2 DEF GrowKept
      <4>2. Held(ch[i]) = Announced(l.worker[f])
        BY <1>0, <2>1, <3>1, <4>1 DEF StoryInv
      <4> QED BY <1>6, <3>1, <3>2, <4>2
    <3>3. CASE j # n
      <4>1. j \in DOMAIN ch /\ c[j] = ch[j]
        BY <1>6, <3>3
      <4>2. IsEvent(ch, j, ch[i].fence) /\ ~Between(ch, i, j, ch[i].fence)
        BY <1>7, <2>1, <3>1, <4>1 DEF GrowKept
      <4> QED BY <1>0, <2>1, <3>1, <4>1, <4>2 DEF StoryInv
    <3> QED BY <3>2, <3>3
  <2>2. ASSUME NEW i \in DOMAIN c, c[i].kind \in WorkerKinds, ~After(c, i, c[i].fence),
               r.worker[c[i].fence].pc \in LivePcs
        PROVE  Held(c[i]) = Announced(r.worker[c[i].fence])
    <3>1. CASE i = n
      BY <1>6, <2>2, <3>1
    <3>2. CASE i # n
      <4>1. i \in DOMAIN ch /\ c[i] = ch[i] /\ ch[i].fence \in Fences
        BY <1>0, <1>6, <3>2
      <4>2. ch[i].fence # f /\ ~After(ch, i, ch[i].fence)
        BY <1>7, <2>2, <4>1 DEF GrowKept
      <4> QED BY <1>0, <1>3, <2>2, <4>1, <4>2 DEF StoryInv
    <3> QED BY <3>1, <3>2
  <2>3. ASSUME NEW i \in DOMAIN c, c[i].kind \in WorkerKinds, ~Before(c, i, c[i].fence), Current(r, c[i].fence)
        PROVE  Fits(r.slot[c[i].fence[1]].handle, c[i])
    <3>1. CASE i = n
      <4>1. Silent(ch, f) /\ Current(l, f)
        BY <1>2, <1>6, <1>7, <2>3, <3>1 DEF GrowKept
      <4>2. l.slot[f[1]].handle = Announced(l.worker[f])
        BY <1>0, <4>1 DEF StoryInv
      <4> QED BY <1>1, <1>6, <3>1, <4>2
    <3>2. CASE i # n
      <4>1. i \in DOMAIN ch /\ c[i] = ch[i] /\ ch[i].fence \in Fences
        BY <1>0, <1>6, <3>2
      <4>2. ~Before(ch, i, ch[i].fence)
        BY <1>7, <2>3, <4>1 DEF GrowKept
      <4> QED BY <1>0, <1>1, <1>2, <2>3, <4>1, <4>2 DEF StoryInv
    <3> QED BY <3>1, <3>2
  <2>4. \A g \in Fences :
          (Current(r, g) /\ r.worker[g].pc \in LivePcs /\ Silent(c, g))
             => r.slot[g[1]].handle = Announced(r.worker[g])
    <3> SUFFICES ASSUME NEW g \in Fences, Current(r, g), r.worker[g].pc \in LivePcs, Silent(c, g)
                 PROVE  r.slot[g[1]].handle = Announced(r.worker[g])
      OBVIOUS
    <3>1. g # f /\ Silent(ch, g)
      BY <1>7 DEF GrowKept
    <3> QED BY <1>0, <1>1, <1>2, <1>3, <3>1 DEF StoryInv
  <2> QED BY <2>1, <2>2, <2>3, <2>4 DEF StoryInv
<1>13. CompleteInv(r, c)
  <2>1. \A i \in DOMAIN c : c[i].kind = "CleanupComplete" => (i \in DOMAIN ch /\ c[i] = ch[i] /\ ch[i].fence # f)
    BY <1>0, <1>4, <1>6 DEF CompleteInv, WorkerKinds
  <2>2. \A i \in DOMAIN c : c[i].kind = "CleanupComplete" =>
          /\ r.worker[c[i].fence].pc = "off"
          /\ ~After(c, i, c[i].fence)
          /\ ~Current(r, c[i].fence)
          /\ r.retiring[c[i].fence[1]].gen = c[i].fence[2] => r.retiring[c[i].fence[1]].done
    BY <1>0, <1>1, <1>2, <1>3, <1>7, <2>1 DEF CompleteInv, GrowKept
  <2> QED BY <1>0, <2>1, <2>2 DEF CompleteInv
<1>14. \A h \in Handles, g \in Fences : Mentions(r, c, h, g) => Mentions(l, ch, h, g)
  <2> SUFFICES ASSUME NEW h \in Handles, NEW g \in Fences, Mentions(r, c, h, g)
               PROVE  Mentions(l, ch, h, g)
    OBVIOUS
  <2>0. h # NoHandle
    BY GensAre
  <2>1. CASE r.worker[g].h = h
    BY <1>3, <2>0, <2>1 DEF Mentions
  <2>2. CASE \E i \in DOMAIN c : c[i].fence = g /\ c[i].h = h
    BY <1>6, <2>0, <2>2 DEF Mentions
  <2>3. CASE Current(r, g) /\ r.slot[g[1]].handle = h
    BY <1>1, <1>2, <2>3 DEF Mentions
  <2> QED BY <2>1, <2>2, <2>3 DEF Mentions
<1>15. HandleInv(r, c, rs, dt)
  <2>1. HandleInv(l, ch, rs, dt) /\ \A h \in Handles : Disowned(r, dt, h) <=> Disowned(l, dt, h)
    BY <1>1 DEF Core, Disowned
  <2> QED BY <1>2, <1>14, <2>1 DEF HandleInv
<1>16. OrderInv(r, c, rs)
  <2>0. OrderInv(l, ch, rs)
    BY DEF Core
  <2>1. \A i \in DOMAIN c : c[i].kind = "Retrying" => rs[c[i].h].state = "gone"
    BY <1>6, <2>0 DEF OrderInv
  <2>2. \A g \in Fences : r.worker[g].pc = "minted" => rs[r.worker[g].h].state = "dispatching"
    BY <1>3, <2>0 DEF OrderInv
  <2>3. ASSUME NEW g \in Fences, NEW i \in DOMAIN c, r.worker[g].h \in Handles, IsEvent(c, i, g)
        PROVE  /\ c[i].h <= r.worker[g].h
               /\ c[i].kind = "Retrying" => c[i].h < r.worker[g].h
    <3>0. r.worker[g].h = l.worker[g].h
      BY <1>3, <2>3, GensAre
    <3>1. CASE i = n
      <4>1. g = f /\ e.h \in {r.worker[g].h, NoHandle} /\ e.kind # "Retrying"
        BY <1>7, <2>3, <3>0, <3>1, GensAre
      <4> QED BY <1>6, <2>3, <3>1, <4>1 DEF Handles, NoHandle
    <3>2. CASE i # n
      BY <1>6, <1>7, <2>0, <2>3, <3>0, <3>2 DEF OrderInv, GrowKept
    <3> QED BY <3>1, <3>2
  <2>4. ASSUME NEW i \in DOMAIN c, NEW j \in DOMAIN c, i < j, c[i].kind \in WorkerKinds,
               IsEvent(c, j, c[i].fence), c[j].h \in Handles
        PROVE  c[i].h <= c[j].h /\ (c[i].kind = "Retrying" => c[i].h < c[j].h)
    <3>1. i # n /\ i \in DOMAIN ch /\ c[i] = ch[i] /\ ch[i].fence \in Fences
      BY <1>0, <1>6, <2>4
    <3>2. CASE j = n
      <4>1. ch[i].fence = f /\ IsEvent(ch, i, f) /\ c[j].h = l.worker[f].h
        BY <1>6, <1>7, <2>4, <3>1, <3>2, GensAre DEF IsEvent
      <4> QED BY <2>0, <2>4, <3>1, <4>1 DEF OrderInv
    <3>3. CASE j # n
      <4>1. j \in DOMAIN ch /\ c[j] = ch[j]
        BY <1>6, <3>3
      <4>2. IsEvent(ch, j, ch[i].fence)
        BY <1>7, <2>4, <3>1, <4>1 DEF GrowKept
      <4> QED BY <2>0, <2>4, <3>1, <4>1, <4>2 DEF OrderInv
    <3> QED BY <3>2, <3>3
  <2> QED BY <2>0, <2>1, <2>2, <2>3, <2>4 DEF OrderInv
<1>17. RelayInv(r, c, rs)
  <2>0. RelayInv(l, ch, rs)
    BY DEF Core
  <2>1. \A g \in Fences : r.worker[g].relay = l.worker[g].relay /\ (r.worker[g].pc # "off" => l.worker[g].pc # "off")
    BY <1>3 DEF WorkedTo
  <2> QED BY <1>1, <1>2, <1>14, <2>0, <2>1 DEF RelayInv
<1>18. RouteInv(r, c, rs, nt, pd)
  <2>0. RouteInv(l, ch, rs, nt, pd)
    BY DEF Core
  <2>1. \A g \in Fences : (Current(r, g) /\ r.worker[g].pc = "confirmed") => Evident(rs, nt, pd, r.worker[g].h)
    BY <1>2, <1>3, <2>0 DEF RouteInv
  <2>2. ASSUME NEW i \in DOMAIN c, c[i].kind = "Confirmed", Current(r, c[i].fence)
        PROVE  Evident(rs, nt, pd, c[i].h)
    <3>1. CASE i = n
      <4>1. e.h = l.worker[f].h /\ l.worker[f].pc = "confirmed" /\ Current(l, f)
        BY <1>2, <1>6, <2>2, <3>1, GensAre
      <4> QED BY <1>6, <2>0, <3>1, <4>1 DEF RouteInv
    <3>2. CASE i # n
      BY <1>0, <1>2, <1>6, <2>0, <2>2, <3>2 DEF RouteInv
    <3> QED BY <3>1, <3>2
  <2> QED BY <1>1, <2>0, <2>1, <2>2 DEF RouteInv
<1> QED BY <1>5, <1>6, <1>10, <1>11, <1>12, <1>13, <1>15, <1>16, <1>17, <1>18 DEF Core, ChannelInv

-----------------------------------------------------------------------------
(* Steps: what the invariant says of the variables *)

LEMMA SetLocalIs ==
    ASSUME NEW r \in LocalRecord, SetLocal(r)
    PROVE  Local' = r
BY DEF SetLocal, Local, LocalRecord

LEMMA LocalIs ==
    /\ Local.slot = slot /\ Local.retiring = retiring /\ Local.gens = gens
    /\ Local.worker = worker /\ Local.routes = routes
BY DEF Local

LEMMA LocalNextIs ==
    /\ Local'.slot = slot' /\ Local'.retiring = retiring' /\ Local'.gens = gens'
    /\ Local'.worker = worker' /\ Local'.routes = routes'
BY DEF Local

LEMMA LocalNextType ==
    ASSUME slot' \in [Slots -> SlotRecord], retiring' \in [Slots -> RetiringRecord],
           gens' \in [Slots -> 0..MaxGen], worker' \in [Fences -> WorkerRecord], routes' \in SUBSET Fences
    PROVE  Local' \in LocalRecord
BY DEF Local, LocalRecord

LEMMA VariableTypes ==
    ASSUME IInv
    PROVE  /\ slot \in [Slots -> SlotRecord] /\ retiring \in [Slots -> RetiringRecord]
           /\ gens \in [Slots -> 0..MaxGen] /\ worker \in [Fences -> WorkerRecord]
           /\ routes \in SUBSET Fences /\ res \in [Handles -> ReservationRecord]
           /\ notices \in SUBSET Handles /\ pending \in SUBSET Handles /\ detached \in SUBSET Handles
           /\ chan \in Seq(EventRecord)
           /\ Local \in LocalRecord /\ Core(Local, chan, res, notices, pending, detached)
           /\ LocalInv(Local)
<1>1. Core(Local, chan, res, notices, pending, detached)
  BY DEF IInv
<1>2. Local \in LocalRecord
  BY <1>1 DEF Core
<1> QED BY <1>1, <1>2, LocalIs DEF Core, LocalRecord

\* The inductive invariant contains the type invariant
LEMMA IInvIsTyped ==
    ASSUME IInv
    PROVE  TypeOK
<1>1. FlagsType
  BY DEF IInv
<1> QED BY <1>1, VariableTypes
        DEF TypeOK, FlagsType, Snapshot, SlotRecord, RetiringRecord, WorkerRecord, ReservationRecord, EventRecord

\* What a step that leaves the control flags alone owes PhaseInv
LEMMA SamePhase ==
    ASSUME PhaseInv, UNCHANGED <<endVars, chanOpen>>,
           ~chanOpen => chan' = chan,
           ~chanOpen => \A s \in Slots : slot'[s].gen = slot[s].gen,
           chanOpen => (Calm(Local) => Calm(Local')),
           phase \in {"deleting", "ended"} => (NothingLeft => NothingLeft')
    PROVE  PhaseInv'
<1>1. /\ phase' = phase /\ blocked' = blocked /\ exit' = exit /\ failed' = failed /\ chanOpen' = chanOpen
  BY DEF endVars
<1>2. chanOpen' => (~failed' /\ Calm(Local'))
  BY <1>1 DEF PhaseInv
<1>3. ~chanOpen' => (chan' = <<>> /\ \A s \in Slots : slot'[s].gen = 0)
  BY <1>1 DEF PhaseInv
<1>4. phase' \in {"deleting", "ended"} => NothingLeft'
  BY <1>1 DEF PhaseInv
<1>5. /\ chanOpen' <=> phase' \in {"running", "awaiting"}
      /\ chanOpen' <=> exit' = "none"
      /\ phase' = "awaiting" => blocked' \in Slots
      /\ phase' = "deleting" => ~failed'
  BY <1>1 DEF PhaseInv
<1> QED BY <1>2, <1>3, <1>4, <1>5 DEF PhaseInv

\* What a step that forgets no error owes KeeperInv
LEMMA SameKeepers ==
    ASSUME KeeperInv, SameErrors(Local, Local'),
           failed => failed', exit \notin {"none", "stop"} => exit' \notin {"none", "stop"},
           phase' # "panicked" => phase # "panicked",
           KeepInv(Local, res, detached) => KeepInv(Local', res', detached')
    PROVE  KeeperInv'
<1>1. Trouble(Local) => Trouble(Local)'
  BY DEF Trouble, SameErrors
<1> QED BY <1>1 DEF KeeperInv

LEMMA SameFlags ==
    ASSUME FlagsType, AnswerInv(dms, snap),
           UNCHANGED <<dmsVars, snap, lapsed, timers, chanOpen, endVars>>
    PROVE  FlagsType' /\ AnswerInv(dms, snap)'
BY DEF FlagsType, dmsVars, endVars

-----------------------------------------------------------------------------
(* Steps of the transport *)

IsUp(rs, h) == rs[h].state \in {"pending", "publishable"}

\* While the channel is closed no attempt is current
LEMMA NobodyCurrent ==
    ASSUME PhaseInv, ~chanOpen, NEW l, \A s \in Slots : l.slot[s].gen = slot[s].gen
    PROVE  \A f \in Fences : ~Current(l, f)
BY FenceIs, GensAre DEF PhaseInv, Current

\* A reservation goes into, or through, its teardown
Torn(h, x) == res' = [res EXCEPT ![h].state = x] /\ Broadcast(h)

LEMMA TearingKeeps ==
    ASSUME IInv, NEW l, NEW c, Core(l, c, res, notices, pending, detached),
           \A s \in Slots : l.slot[s].gen = slot[s].gen,
           NEW h \in Handles, NEW x \in {"canceling", "gone"}, res[h].state \notin {"free", "gone"},
           \A f \in Fences : l.worker[f].pc = "minted" => l.worker[f].h # h,
           Torn(h, x)
    PROVE  /\ Core(l, c, res', notices', pending, detached)
           /\ \A k \in Handles : IsUp(res', k) => (k # h /\ IsUp(res, k))
<1>1. PhaseInv /\ res \in [Handles -> ReservationRecord]
  BY VariableTypes DEF IInv
<1>2. \/ notices' = notices \cup {h}
      \/ notices' = notices /\ \A f \in Fences : ~Current(l, f)
  <2>1. CASE chanOpen
    BY <1>1, <2>1 DEF PhaseInv, Broadcast, Torn
  <2>2. CASE ~chanOpen
    BY <1>1, <2>2, NobodyCurrent DEF PhaseInv, Broadcast, Torn
  <2> QED BY <2>1, <2>2
<1>3. Core(l, c, [res EXCEPT ![h].state = x], notices', pending, detached)
  BY <1>2, TransportKeepsCore
<1>31. Core(l, c, res', notices', pending, detached)
  BY <1>3 DEF Torn
<1>4. \A k \in Handles : IsUp(res', k) => (k # h /\ IsUp(res, k))
  <2>1. res'[h].state = x /\ \A k \in Handles : k # h => res'[k] = res[k]
    BY <1>1 DEF ReservationRecord, Torn
  <2> QED BY <2>1 DEF IsUp
<1> QED BY <1>31, <1>4

\* A step that changes reservations and notices only
LEMMA TransportOnly ==
    ASSUME IInv, UNCHANGED <<dmsVars, localVars, actorVars, queueVars, endVars>>,
           Core(Local, chan, res', notices', pending, detached),
           \A k \in Handles : IsUp(res', k) => IsUp(res, k)
    PROVE  IInv'
<1>1. Local' = Local /\ chan' = chan /\ pending' = pending /\ detached' = detached /\ snap' = snap
      /\ slot' = slot /\ retiring' = retiring /\ lapsed' = lapsed /\ timers' = timers /\ chanOpen' = chanOpen
      /\ phase' = phase /\ exit' = exit /\ failed' = failed
  BY DEF localVars, queueVars, actorVars, endVars, Local
<1>2. FlagsType' /\ AnswerInv(dms, snap)'
  BY <1>1, SameFlags DEF IInv
<1>3. PhaseInv'
  <2>1. NothingLeft => NothingLeft'
    BY <1>1 DEF NothingLeft, Retiring
  <2> QED BY <1>1, <2>1, SamePhase DEF IInv
<1>4. Core(Local, chan, res, notices, pending, detached)'
  BY <1>1
<1>5. SnapshotInv(Local, snap)'
  BY <1>1 DEF IInv
<1>6. ASSUME StartRollsBack PROVE KeeperInv'
  <2>1. KeepInv(Local, res, detached) => KeepInv(Local', res', detached')
    BY <1>1 DEF KeepInv, IsUp
  <2>2. SameErrors(Local, Local')
    BY <1>1 DEF SameErrors
  <2> QED BY <1>1, <1>6, <2>1, <2>2, SameKeepers DEF IInv
<1> QED BY <1>2, <1>3, <1>4, <1>5, <1>6 DEF IInv

\* Whoever was told of a reservation is not "minted" any more
LEMMA MintedIsDispatching ==
    ASSUME IInv
    PROVE  \A f \in Fences : worker[f].pc = "minted" =>
              (worker[f].h \in Handles /\ res[worker[f].h].state = "dispatching")
<1>1. OrderInv(Local, chan, res) /\ LocalInv(Local)
  BY VariableTypes DEF Core
<1> QED BY <1>1, LocalIs DEF OrderInv, LocalInv, LivePcs

LEMMA TransportSteps ==
    ASSUME IInv, NEW h \in Handles, TransportNext(h) \/ DetachedBegins(h)
    PROVE  IInv'
<1>0. /\ Core(Local, chan, res, notices, pending, detached)
      /\ \A s \in Slots : Local.slot[s].gen = slot[s].gen
      /\ \A f \in Fences : Local.worker[f].pc = "minted" => res[Local.worker[f].h].state = "dispatching"
  BY VariableTypes, MintedIsDispatching, LocalIs
<1>1. CASE TransportConfirms(h)
  <2>1. /\ res[h].state = "pending" /\ res' = [res EXCEPT ![h].state = "publishable"] /\ notices' = notices
        /\ UNCHANGED <<dmsVars, localVars, actorVars, queueVars, endVars>>
    BY <1>1 DEF TransportConfirms
  <2>2. Core(Local, chan, [res EXCEPT ![h].state = "publishable"], notices, pending, detached)
    BY <1>0, <2>1, TransportKeepsCore
  <2>3. \A k \in Handles : IsUp(res', k) => IsUp(res, k)
    BY <2>1, VariableTypes DEF IsUp, ReservationRecord
  <2> QED BY <2>1, <2>2, <2>3, TransportOnly
<1>2. CASE TransportLoses(h) \/ DetachedBegins(h)
  <2>1. /\ IsUp(res, h) /\ Torn(h, "canceling")
        /\ UNCHANGED <<dmsVars, localVars, actorVars, queueVars, endVars>>
    BY <1>2 DEF TransportLoses, DetachedBegins, CancelBegins, TearDown, Torn, Up, IsUp
  <2>2. /\ Core(Local, chan, res', notices', pending, detached)
        /\ \A k \in Handles : IsUp(res', k) => (k # h /\ IsUp(res, k))
    <3>1. \A f \in Fences : Local.worker[f].pc = "minted" => Local.worker[f].h # h
      BY <1>0, <2>1 DEF IsUp
    <3>2. res[h].state \notin {"free", "gone"}
      BY <2>1 DEF IsUp
    <3> QED BY <1>0, <2>1, <3>1, <3>2, TearingKeeps
  <2> QED BY <2>1, <2>2, TransportOnly
<1>3. CASE DispatchUnclaimed(h)
  <2>1. /\ res[h].state = "dispatching" /\ Torn(h, "canceling")
        /\ \A f \in Fences : worker[f].h # h
        /\ UNCHANGED <<dmsVars, localVars, actorVars, queueVars, endVars>>
    BY <1>3 DEF DispatchUnclaimed, TearDown, Torn
  <2>2. /\ Core(Local, chan, res', notices', pending, detached)
        /\ \A k \in Handles : IsUp(res', k) => (k # h /\ IsUp(res, k))
    BY <1>0, <2>1, TearingKeeps, LocalIs
  <2> QED BY <2>1, <2>2, TransportOnly
<1>4. CASE TransportReleases(h)
  <2>1. /\ res[h].state = "canceling" /\ Torn(h, "gone")
        /\ UNCHANGED <<dmsVars, localVars, actorVars, queueVars, endVars>>
    BY <1>4 DEF TransportReleases, Torn
  <2>2. /\ Core(Local, chan, res', notices', pending, detached)
        /\ \A k \in Handles : IsUp(res', k) => (k # h /\ IsUp(res, k))
    <3>1. \A f \in Fences : Local.worker[f].pc = "minted" => Local.worker[f].h # h
      BY <1>0, <2>1
    <3> QED BY <1>0, <2>1, <3>1, TearingKeeps
  <2> QED BY <2>1, <2>2, TransportOnly
<1> QED BY <1>1, <1>2, <1>3, <1>4 DEF TransportNext

-----------------------------------------------------------------------------
(* Steps of the reservation workers *)

WorkerStep(f, p, h) ==
    /\ worker' \in [Fences -> WorkerRecord]
    /\ \A g \in Fences : g # f => worker'[g] = worker[g]
    /\ worker'[f].pc = p /\ worker'[f].h = h
    /\ worker'[f].relay = worker[f].relay /\ worker'[f].err = worker[f].err

\* The forms in which the actions update a worker
LEMMA WorkerUpdates ==
    ASSUME IInv, NEW f \in Fences, NEW p \in WorkerStates, NEW h \in AnyHandle
    PROVE  /\ worker' = [worker EXCEPT ![f].pc = p, ![f].h = h] => WorkerStep(f, p, h)
           /\ worker' = [worker EXCEPT ![f].pc = p] => WorkerStep(f, p, worker[f].h)
<1>1. worker \in [Fences -> WorkerRecord] /\ worker[f] \in WorkerRecord
  BY VariableTypes
<1>2. ASSUME worker' = [worker EXCEPT ![f].pc = p, ![f].h = h]
      PROVE  WorkerStep(f, p, h)
  BY <1>1, <1>2 DEF WorkerStep, WorkerRecord
<1>3. ASSUME worker' = [worker EXCEPT ![f].pc = p]
      PROVE  WorkerStep(f, p, worker[f].h)
  BY <1>1, <1>3 DEF WorkerStep, WorkerRecord
<1> QED BY <1>2, <1>3

LEMMA WorkedIs ==
    ASSUME IInv, NEW f \in Fences, NEW p \in WorkerStates \ {"off"}, NEW h \in AnyHandle,
           WorkerStep(f, p, h), WorkerFrame, worker[f].pc # "off",
           p = "dial" => h = NoHandle,
           p \in LivePcs \ {"dial"} => h \in Handles,
           p = "release" => h \in Handles
    PROVE  /\ Local' \in LocalRecord /\ WorkedTo(Local, Local', f)
           /\ Local'.worker[f].pc = p /\ Local'.worker[f].h = h
           /\ Local'.worker = worker' /\ Local.worker = worker
           /\ \A s \in Slots : Local'.slot[s].gen = slot[s].gen
<1>1. UNCHANGED <<slot, retiring, gens, routes>>
  BY DEF WorkerFrame
<1>2. Local' \in LocalRecord
  BY <1>1, LocalNextType, VariableTypes DEF WorkerStep
<1>3. WorkedTo(Local, Local', f)
  BY <1>1, LocalIs, LocalNextIs DEF WorkedTo, WorkerStep
<1> QED BY <1>1, <1>2, <1>3, LocalIs, LocalNextIs DEF WorkerStep

\* From the parts of a worker's step to the invariant
LEMMA WorkerStepKeeps ==
    ASSUME IInv, NEW f \in Fences, NEW p \in WorkerStates \ {"off"}, NEW h \in AnyHandle,
           WorkerStep(f, p, h), WorkerFrame, p = "release" => ~chanOpen,
           Core(Local', chan', res', notices', pending, detached),
           ~chanOpen => chan' = chan,
           StartRollsBack => \A k \in Handles : IsUp(res', k) => (h = k \/ (IsUp(res, k) /\ worker[f].h # k))
    PROVE  IInv'
<1>1. /\ UNCHANGED <<slot, retiring, gens, routes, pending, detached, snap, lapsed, timers, chanOpen>>
      /\ UNCHANGED <<dmsVars, endVars>> /\ phase' = phase /\ exit' = exit /\ failed' = failed
  BY DEF WorkerFrame, actorVars, endVars
<1>2. FlagsType' /\ AnswerInv(dms, snap)'
  BY <1>1, SameFlags DEF IInv
<1>3. \A g \in Fences : Local'.worker[g].err = Local.worker[g].err
  BY LocalIs, LocalNextIs DEF WorkerStep
<1>4. PhaseInv'
  <2>1. NothingLeft => NothingLeft'
    BY <1>1 DEF NothingLeft, Retiring
  <2>2. chanOpen => (Calm(Local) => Calm(Local'))
    BY <1>3, LocalIs, LocalNextIs DEF Calm, WorkerStep
  <2>3. PhaseInv /\ UNCHANGED <<endVars, chanOpen>> /\ \A s \in Slots : slot'[s].gen = slot[s].gen
    BY <1>1 DEF IInv
  <2> QED BY <2>1, <2>2, <2>3, SamePhase
<1>5. Core(Local, chan, res, notices, pending, detached)'
  BY <1>1
<1>6. SnapshotInv(Local, snap)'
  <2>1. SnapshotInv(Local, snap)
    BY DEF IInv
  <2> QED BY <1>1, <2>1, LocalIs, LocalNextIs DEF SnapshotInv
<1>7. ASSUME StartRollsBack PROVE KeeperInv'
  <2>1. ASSUME KeepInv(Local, res, detached) PROVE KeepInv(Local', res', detached')
    <3> SUFFICES ASSUME NEW k \in Handles, IsUp(res', k) PROVE Keeper(Local', detached', k)
      BY DEF KeepInv, IsUp
    <3>1. CASE h = k
      BY <3>1, LocalNextIs DEF Keeper, WorkerStep
    <3>2. CASE IsUp(res, k) /\ worker[f].h # k
      <4>1. Keeper(Local, detached, k)
        BY <2>1, <3>2 DEF KeepInv, IsUp
      <4> QED BY <1>1, <3>2, <4>1, LocalIs, LocalNextIs DEF Keeper, WorkerStep
    <3> QED BY <1>7, <3>1, <3>2
  <2>2. Trouble(Local) => Trouble(Local)'
    BY <1>1, <1>3, LocalIs, LocalNextIs DEF Trouble
  <2> QED BY <1>1, <1>7, <2>1, <2>2 DEF KeeperInv, IInv
<1> QED BY <1>2, <1>4, <1>5, <1>6, <1>7 DEF IInv

LEMMA SentIs ==
    ASSUME IInv, NEW kind \in EventKinds, NEW f \in Fences, NEW h \in AnyHandle
    PROVE  LET e == Event(kind, f, h)
           IN /\ e \in EventRecord /\ e.kind = kind /\ e.fence = f /\ e.h = h
              /\ chanOpen => Grown(chan, Sent(e), Len(chan) + 1, e)
              /\ ~chanOpen => Sent(e) = chan
<1> DEFINE e == Event(kind, f, h)
<1>1. e \in EventRecord /\ e.kind = kind /\ e.fence = f /\ e.h = h
  BY DEF Event, EventRecord
<1> HIDE DEF e
<1>2. chan \in Seq(EventRecord)
  BY VariableTypes
<1>3. chanOpen => Grown(chan, Sent(e), Len(chan) + 1, e)
  BY <1>1, <1>2, AppendIs DEF Sent
<1>4. ~chanOpen => Sent(e) = chan
  BY DEF Sent
<1> QED BY <1>1, <1>3, <1>4 DEF e

\* The worker returns with an error and with the handle h
LEMMA FinishKeeps ==
    ASSUME IInv, NEW f \in Fences, NEW h \in {worker[f].h, NoHandle}, Finish(f, h), WorkerFrame,
           worker[f].pc \in LivePcs, Announced(worker[f]) \in {NoHandle, h}
    PROVE  LET p == IF ~chanOpen /\ h # NoHandle THEN "release" ELSE "done"
           IN /\ WorkerStep(f, p, h) /\ Core(Local', chan', res, notices, pending, detached)
              /\ p \in WorkerStates \ {"off"} /\ h \in AnyHandle /\ (p = "release" => ~chanOpen)
              /\ ~chanOpen => chan' = chan
              /\ \A s \in Slots : Local'.slot[s].gen = slot[s].gen
              /\ Local'.worker[f].pc = p /\ \A g \in Fences : g # f => Local'.worker[g] = worker[g]
<1> DEFINE p == IF ~chanOpen /\ h # NoHandle THEN "release" ELSE "done"
           e == Event("Failed", f, h)
<1>0. /\ worker[f] \in WorkerRecord /\ h \in AnyHandle /\ p \in WorkerStates \ {"off"} /\ (p = "release" => ~chanOpen)
      /\ Core(Local, chan, res, notices, pending, detached)
  <2>1. worker[f] \in WorkerRecord
    BY VariableTypes
  <2> QED BY <2>1, VariableTypes DEF WorkerRecord, AnyHandle, WorkerStates
<1>1. WorkerStep(f, p, h)
  <2>1. worker' = [worker EXCEPT ![f].pc = p, ![f].h = h]
    BY DEF Finish
  <2> HIDE DEF p
  <2> QED BY <1>0, <2>1, WorkerUpdates
<1>2. p = "release" => h \in Handles
  BY <1>0 DEF AnyHandle
<1>3. p \notin LivePcs /\ p # "dial" /\ worker[f].pc \notin {"off", "done"}
  BY DEF LivePcs
<1>4. /\ e \in EventRecord /\ e.kind = "Failed" /\ e.fence = f /\ e.h = h
      /\ chanOpen => Grown(chan, Sent(e), Len(chan) + 1, e)
      /\ ~chanOpen => Sent(e) = chan
  <2>1. "Failed" \in EventKinds
    BY DEF EventKinds
  <2> QED BY <1>0, <2>1, SentIs
<1>5. chan' = Sent(e) /\ (chanOpen => p = "done")
  BY DEF Finish
<1> HIDE DEF p, e
<1>6. /\ Local' \in LocalRecord /\ WorkedTo(Local, Local', f)
      /\ Local'.worker[f].pc = p /\ Local'.worker[f].h = h
      /\ Local'.worker = worker' /\ Local.worker = worker
      /\ \A s \in Slots : Local'.slot[s].gen = slot[s].gen
  BY <1>0, <1>1, <1>2, <1>3, WorkedIs
<1>7. Core(Local', chan', res, notices, pending, detached)
  <2>1. CASE chanOpen
    <3>1. e.kind \in WorkerKinds /\ Fits(Announced(Local.worker[f]), e)
      BY <1>4, <1>6 DEF WorkerKinds, Fits
    <3>2. Grown(chan, chan', Len(chan) + 1, e)
      BY <1>4, <1>5, <2>1
    <3> QED BY <1>0, <1>3, <1>4, <1>5, <1>6, <2>1, <3>1, <3>2, SayingKeepsCore
  <2>2. CASE ~chanOpen
    <3>1. chan' = chan
      BY <1>4, <1>5, <2>2
    <3>2. p # "minted" /\ p # "confirmed"
      BY DEF p
    <3> QED BY <1>0, <1>3, <1>6, <3>1, <3>2, QuietWorkKeepsCore
  <2> QED BY <2>1, <2>2
<1>8. \A g \in Fences : g # f => Local'.worker[g] = worker[g]
  BY <1>1, <1>6 DEF WorkerStep
<1> QED BY <1>0, <1>1, <1>4, <1>5, <1>6, <1>7, <1>8 DEF p

\* A worker that moves on without an event: its handle stays or is given up
LEMMA QuietStepKeeps ==
    ASSUME IInv, NEW f \in Fences, NEW p \in WorkerStates \ {"off"}, NEW h \in {worker[f].h, NoHandle},
           WorkerStep(f, p, h), WorkerFrame, worker[f].pc \notin {"off", "done"},
           p = "dial" => h = NoHandle,
           p \in LivePcs \ {"dial"} => h \in Handles,
           p = "release" => h \in Handles,
           p \in LivePcs => worker[f].pc \in LivePcs,
           (p \in {"waiting", "confirmed", "retry"}) <=>
              (p \in LivePcs /\ worker[f].pc \in {"waiting", "confirmed", "retry"}),
           p \in {"waiting", "confirmed", "retry"} => h = worker[f].h,
           p # "minted",
           p = "confirmed" => res[h].state = "publishable"
    PROVE  /\ Core(Local', chan, res, notices, pending, detached) /\ h \in AnyHandle
           /\ \A s \in Slots : Local'.slot[s].gen = slot[s].gen
           /\ Local'.worker[f].pc = p /\ \A g \in Fences : g # f => Local'.worker[g] = worker[g]
<1>0. h \in AnyHandle /\ Core(Local, chan, res, notices, pending, detached)
  <2>1. worker[f] \in WorkerRecord
    BY VariableTypes
  <2> QED BY <2>1, VariableTypes DEF WorkerRecord, AnyHandle
<1>1. /\ Local' \in LocalRecord /\ WorkedTo(Local, Local', f)
      /\ Local'.worker[f].pc = p /\ Local'.worker[f].h = h
      /\ Local'.worker = worker' /\ Local.worker = worker
      /\ \A s \in Slots : Local'.slot[s].gen = slot[s].gen
  BY <1>0, WorkedIs
<1>2. p \in LivePcs => Announced(Local'.worker[f]) = Announced(Local.worker[f])
  BY <1>1 DEF Announced
<1>3. p = "confirmed" => Evident(res, notices, pending, h)
  BY DEF Evident
<1>4. Core(Local', chan, res, notices, pending, detached)
  BY <1>0, <1>1, <1>2, <1>3, QuietWorkKeepsCore
<1>5. \A g \in Fences : g # f => Local'.worker[g] = worker[g]
  BY <1>1 DEF WorkerStep
<1> QED BY <1>0, <1>1, <1>4, <1>5

\* A reservation belongs to one worker
LEMMA OneWorkerEach ==
    ASSUME IInv, NEW f \in Fences, NEW g \in Fences, worker[f].h \in Handles, worker[g].h = worker[f].h
    PROVE  f = g
<1>1. HandleInv(Local, chan, res, detached)
  BY VariableTypes DEF Core
<1>2. Mentions(Local, chan, worker[f].h, f) /\ Mentions(Local, chan, worker[f].h, g)
  BY LocalIs DEF Mentions
<1> QED BY <1>1, <1>2 DEF HandleInv

LEMMA WorkerHandles ==
    ASSUME IInv, NEW f \in Fences
    PROVE  /\ worker[f].h \in AnyHandle
           /\ worker[f].pc \in {"minted", "answered", "started", "waiting", "confirmed", "retry", "release"}
                 => worker[f].h \in Handles
           /\ worker[f].pc = "dial" => worker[f].h = NoHandle
           /\ worker[f].pc = "minted" => res[worker[f].h].state = "dispatching"
           /\ worker[f].relay \in AnyRelay
<1>1. worker[f] \in WorkerRecord /\ LocalInv(Local)
  BY VariableTypes
<1> QED BY <1>1, MintedIsDispatching, LocalIs DEF LocalInv, LivePcs, WorkerRecord

LEMMA MintStep ==
    ASSUME IInv, NEW f \in Fences, NEW h \in Handles, Mint(f, h)
    PROVE  IInv'
<1>0. /\ worker[f].pc = "dial" /\ res[h].state = "free" /\ WorkerFrame
      /\ \A g \in Handles : g < h => res[g].state # "free"
      /\ res' = [res EXCEPT ![h] = [state |-> "dispatching", relay |-> worker[f].relay]]
      /\ worker' = [worker EXCEPT ![f].pc = "minted", ![f].h = h]
      /\ notices' = notices /\ chan' = chan
  BY DEF Mint
<1>1. h \in AnyHandle /\ worker[f].h = NoHandle /\ worker[f].relay \in AnyRelay
      /\ Core(Local, chan, res, notices, pending, detached)
  BY <1>0, WorkerHandles, VariableTypes DEF AnyHandle
<1>2. "minted" \in WorkerStates \ {"off"} /\ "minted" \in LivePcs /\ "dial" \in LivePcs
  BY DEF WorkerStates, LivePcs
<1>3. WorkerStep(f, "minted", h)
  BY <1>0, <1>1, <1>2, WorkerUpdates
<1>4. /\ Local' \in LocalRecord /\ WorkedTo(Local, Local', f)
      /\ Local'.worker[f].pc = "minted" /\ Local'.worker[f].h = h
      /\ Local'.worker = worker' /\ Local.worker = worker
  BY <1>0, <1>1, <1>2, <1>3, WorkedIs
<1>5. /\ Core(Local, chan, res', notices, pending, detached)
      /\ res'[h].state = "dispatching" /\ res'[h].relay = worker[f].relay
      /\ \A g \in Fences : ~Mentions(Local, chan, h, g)
      /\ ~Disowned(Local, detached, h)
      /\ \A i \in DOMAIN chan : chan[i].h < h
      /\ \A k \in Handles : res'[k].state \in {"pending", "publishable"} => res[k].state = res'[k].state
  <2> DEFINE relay == worker[f].relay
  <2>1. relay \in AnyRelay /\ MintedTo(res, res', h, relay)
    BY <1>0, <1>1 DEF MintedTo
  <2> HIDE DEF relay
  <2>2. /\ Core(Local, chan, res', notices, pending, detached)
        /\ res'[h].state = "dispatching" /\ res'[h].relay = relay
        /\ \A g \in Fences : ~Mentions(Local, chan, h, g)
        /\ ~Disowned(Local, detached, h)
        /\ \A i \in DOMAIN chan : chan[i].h < h
        /\ \A k \in Handles : res'[k].state \in {"pending", "publishable"} => res[k].state = res'[k].state
    <3>1. res[h].state = "free" /\ \A g \in Handles : g < h => res[g].state # "free"
      BY <1>0
    <3>2. Core(Local, chan, res, notices, pending, detached)
      BY <1>1
    <3> QED BY <2>1, <3>1, <3>2, MintKeepsCore
  <2> QED BY <2>2 DEF relay
<1>6. Unclaimed(Local, chan, res', detached, h, worker[f].relay)
  BY <1>5 DEF Unclaimed
<1>7. Announced(Local'.worker[f]) = Announced(Local.worker[f])
  BY <1>0, <1>4 DEF Announced
<1>8. Core(Local', chan', res', notices', pending, detached)
  BY <1>0, <1>2, <1>4, <1>5, <1>6, <1>7, QuietWorkKeepsCore
<1>9. \A k \in Handles : IsUp(res', k) => (h = k \/ (IsUp(res, k) /\ worker[f].h # k))
  BY <1>1, <1>5, GensAre DEF IsUp
<1> QED BY <1>0, <1>1, <1>2, <1>3, <1>8, <1>9, WorkerStepKeeps

LEMMA AnswerStep ==
    ASSUME IInv, NEW f \in Fences, Answer(f)
    PROVE  IInv'
<1> DEFINE h == worker[f].h
<1>0. /\ worker[f].pc = "minted" /\ res' = [res EXCEPT ![h].state = "pending"] /\ WorkerFrame
      /\ worker' = [worker EXCEPT ![f].pc = "answered"] /\ notices' = notices /\ chan' = chan
  BY DEF Answer, Moved
<1>1. h \in Handles /\ h \in AnyHandle /\ res[h].state = "dispatching"
  BY <1>0, WorkerHandles
<1>2. "answered" \in WorkerStates \ {"off"} /\ "answered" \in LivePcs /\ "minted" \in LivePcs
  BY DEF WorkerStates, LivePcs
<1>3. WorkerStep(f, "answered", h)
  BY <1>0, <1>1, <1>2, WorkerUpdates
<1>4. /\ Core(Local', chan, res, notices, pending, detached)
      /\ Local'.worker[f].pc = "answered" /\ \A g \in Fences : g # f => Local'.worker[g] = worker[g]
  BY <1>0, <1>1, <1>2, <1>3, QuietStepKeeps
<1>5. \A g \in Fences : Local'.worker[g].pc = "minted" => Local'.worker[g].h # h
  BY <1>1, <1>4, OneWorkerEach
<1>6. Core(Local', chan', res', notices', pending, detached)
  BY <1>0, <1>1, <1>4, <1>5, TransportKeepsCore
<1>7. \A k \in Handles : IsUp(res', k) => (h = k \/ (IsUp(res, k) /\ worker[f].h # k))
  BY <1>0, VariableTypes DEF IsUp, ReservationRecord
<1> QED BY <1>0, <1>1, <1>2, <1>3, <1>6, <1>7, WorkerStepKeeps

\* Steps of a worker that neither send an event nor touch the transport
LEMMA QuietSteps ==
    ASSUME IInv, NEW f \in Fences, AttemptEnds(f) \/ WaitSucceeds(f) \/ WaitRetries(f)
    PROVE  IInv'
<1>0. /\ WorkerFrame /\ UNCHANGED <<transportVars, chan>>
      /\ res' = res /\ notices' = notices /\ chan' = chan
  BY DEF AttemptEnds, WaitSucceeds, WaitRetries, transportVars
<1>1. ASSUME NEW p \in WorkerStates \ {"off"}, worker' = [worker EXCEPT ![f].pc = p],
             worker[f].pc \in LivePcs, worker[f].h \in Handles, p \in LivePcs, p \notin {"minted", "dial"},
             (p \in {"waiting", "confirmed", "retry"}) <=> (worker[f].pc \in {"waiting", "confirmed", "retry"}),
             p = "confirmed" => res[worker[f].h].state = "publishable"
      PROVE  IInv'
  <2>1. worker[f].h \in AnyHandle /\ worker[f].pc \notin {"off", "done"} /\ p # "release"
    BY <1>1 DEF AnyHandle, LivePcs
  <2>2. WorkerStep(f, p, worker[f].h)
    BY <1>1, <2>1, WorkerUpdates
  <2>3. Core(Local', chan, res, notices, pending, detached)
    BY <1>0, <1>1, <2>1, <2>2, QuietStepKeeps
  <2>4. \A k \in Handles : IsUp(res', k) => (worker[f].h = k \/ (IsUp(res, k) /\ worker[f].h # k))
    BY <1>0
  <2> QED BY <1>0, <1>1, <2>1, <2>2, <2>3, <2>4, WorkerStepKeeps
<1>2. CASE AttemptEnds(f)
  <2>1. worker[f].pc = "answered" /\ worker' = [worker EXCEPT ![f].pc = "started"]
    BY <1>2 DEF AttemptEnds, Moved
  <2>2. worker[f].h \in Handles
    BY <2>1, WorkerHandles
  <2>3. /\ "started" \in WorkerStates \ {"off"} /\ "started" \in LivePcs /\ worker[f].pc \in LivePcs
        /\ "started" \notin {"minted", "dial"}
        /\ ("started" \in {"waiting", "confirmed", "retry"}) <=> (worker[f].pc \in {"waiting", "confirmed", "retry"})
    BY <2>1 DEF WorkerStates, LivePcs
  <2> QED BY <1>1, <2>1, <2>2, <2>3
<1>3. CASE WaitSucceeds(f)
  <2>1. /\ worker[f].pc = "waiting" /\ worker' = [worker EXCEPT ![f].pc = "confirmed"]
        /\ res[worker[f].h].state = "publishable"
    BY <1>3 DEF WaitSucceeds, Moved
  <2>2. worker[f].h \in Handles
    BY <2>1, WorkerHandles
  <2>3. /\ "confirmed" \in WorkerStates \ {"off"} /\ "confirmed" \in LivePcs /\ worker[f].pc \in LivePcs
        /\ "confirmed" \notin {"minted", "dial"}
        /\ ("confirmed" \in {"waiting", "confirmed", "retry"}) <=> (worker[f].pc \in {"waiting", "confirmed", "retry"})
    BY <2>1 DEF WorkerStates, LivePcs
  <2> QED BY <1>1, <2>1, <2>2, <2>3
<1>4. CASE WaitRetries(f)
  <2>1. worker[f].pc = "waiting" /\ worker' = [worker EXCEPT ![f].pc = "retry"]
    BY <1>4 DEF WaitRetries, Moved
  <2>2. worker[f].h \in Handles
    BY <2>1, WorkerHandles
  <2>3. /\ "retry" \in WorkerStates \ {"off"} /\ "retry" \in LivePcs /\ worker[f].pc \in LivePcs
        /\ "retry" \notin {"minted", "dial"}
        /\ ("retry" \in {"waiting", "confirmed", "retry"}) <=> (worker[f].pc \in {"waiting", "confirmed", "retry"})
    BY <2>1 DEF WorkerStates, LivePcs
  <2> QED BY <1>1, <2>1, <2>2, <2>3
<1> QED BY <1>2, <1>3, <1>4

LEMMA AttemptFailsStep ==
    ASSUME IInv, NEW f \in Fences, AttemptFails(f)
    PROVE  IInv'
<1> DEFINE h == worker[f].h
<1>0. /\ worker[f].pc = "minted" /\ Torn(h, "canceling") /\ WorkerFrame
      /\ worker' = [worker EXCEPT ![f].pc = "dial", ![f].h = NoHandle] /\ chan' = chan
  BY DEF AttemptFails, TearDown, Torn
<1>1. h \in Handles /\ res[h].state = "dispatching" /\ NoHandle \in AnyHandle
  BY <1>0, WorkerHandles DEF AnyHandle
<1>2. "dial" \in WorkerStates \ {"off"} /\ "dial" \in LivePcs /\ "minted" \in LivePcs
  BY DEF WorkerStates, LivePcs
<1>3. WorkerStep(f, "dial", NoHandle)
  BY <1>0, <1>1, <1>2, WorkerUpdates
<1>4. /\ Core(Local', chan, res, notices, pending, detached)
      /\ \A s \in Slots : Local'.slot[s].gen = slot[s].gen
      /\ Local'.worker[f].pc = "dial" /\ \A g \in Fences : g # f => Local'.worker[g] = worker[g]
  BY <1>0, <1>1, <1>2, <1>3, QuietStepKeeps
<1>5. \A g \in Fences : Local'.worker[g].pc = "minted" => Local'.worker[g].h # h
  BY <1>1, <1>4, OneWorkerEach
<1>6. /\ Core(Local', chan, res', notices', pending, detached)
      /\ \A k \in Handles : IsUp(res', k) => (k # h /\ IsUp(res, k))
  <2> HIDE DEF h
  <2>1. res[h].state \notin {"free", "gone"} /\ "canceling" \in {"canceling", "gone"}
    BY <1>1
  <2>2. Torn(h, "canceling")
    BY <1>0
  <2> QED BY <1>1, <1>4, <1>5, <2>1, <2>2, TearingKeeps
<1> QED BY <1>0, <1>1, <1>2, <1>3, <1>6, WorkerStepKeeps

\* The worker reports on its reservation; if nobody listens, it has to release it
LEMMA SayingStepKeeps ==
    ASSUME IInv, NEW f \in Fences, NEW p \in WorkerStates \ {"off"}, NEW h \in {worker[f].h, NoHandle},
           NEW kind \in {"Started", "Confirmed", "Retrying"}, WorkerStep(f, p, h), WorkerFrame,
           worker[f].h \in Handles, chan' = Sent(Event(kind, f, worker[f].h)),
           kind = "Started" => (worker[f].pc = "started" /\ h = worker[f].h
                                  /\ p = IF chanOpen THEN "waiting" ELSE "release"),
           kind = "Confirmed" => (worker[f].pc = "confirmed" /\ h = worker[f].h
                                  /\ p = IF chanOpen THEN "done" ELSE "release"),
           kind = "Retrying" => (worker[f].pc = "retry" /\ h = NoHandle /\ res[worker[f].h].state = "gone"
                                  /\ p = IF chanOpen THEN "dial" ELSE "done"),
           res' = res, notices' = notices
    PROVE  IInv'
<1> DEFINE e == Event(kind, f, worker[f].h)
<1>0. /\ h \in AnyHandle /\ Core(Local, chan, res, notices, pending, detached)
      /\ worker[f].h \in AnyHandle
  BY VariableTypes DEF AnyHandle
<1>1. /\ e \in EventRecord /\ e.kind = kind /\ e.fence = f /\ e.h = worker[f].h
      /\ chanOpen => Grown(chan, Sent(e), Len(chan) + 1, e)
      /\ ~chanOpen => Sent(e) = chan
  <2>1. kind \in EventKinds
    BY DEF EventKinds
  <2> QED BY <1>0, <2>1, SentIs
<1>2. chan' = Sent(e)
  OBVIOUS
<1> HIDE DEF e
<1>3. /\ p = "dial" => h = NoHandle
      /\ p \in LivePcs \ {"dial"} => h \in Handles
      /\ p = "release" => h \in Handles
      /\ p = "release" => ~chanOpen
      /\ worker[f].pc \in LivePcs /\ worker[f].pc \notin {"off", "done"}
      /\ p \notin {"minted", "confirmed"}
  BY DEF LivePcs
<1>4. /\ Local' \in LocalRecord /\ WorkedTo(Local, Local', f)
      /\ Local'.worker[f].pc = p /\ Local'.worker[f].h = h
      /\ Local'.worker = worker' /\ Local.worker = worker
  BY <1>0, <1>3, WorkedIs
<1>5. CASE chanOpen
  <2>1. Grown(chan, chan', Len(chan) + 1, e)
    BY <1>1, <1>2, <1>5
  <2>2. e.kind \in WorkerKinds /\ Fits(Announced(Local.worker[f]), e)
    BY <1>1, <1>4 DEF WorkerKinds, Fits, Announced
  <2>3. p \in LivePcs => Held(e) = Announced(Local'.worker[f])
    BY <1>1, <1>4, <1>5 DEF Held, Announced, LivePcs
  <2>4. /\ e.h \in {Local.worker[f].h, NoHandle} /\ Local'.worker[f].h \in {Local.worker[f].h, NoHandle}
        /\ e.kind \in {"Started", "Confirmed", "Retrying"} => e.h \in Handles
        /\ e.kind \in {"Confirmed", "Failed"} => (Local'.worker[f].pc = "done" /\ Local'.worker[f].h = e.h)
        /\ Local'.worker[f].pc \notin {"minted", "confirmed"}
        /\ e.kind = "Retrying" => (res[e.h].state = "gone" /\ Local'.worker[f].h = NoHandle)
        /\ e.kind = "Confirmed" => Local.worker[f].pc = "confirmed"
        /\ Local.worker[f].pc \in LivePcs
    BY <1>1, <1>3, <1>4, <1>5
  <2>5. Core(Local', chan', res, notices, pending, detached)
    BY <1>0, <1>1, <1>4, <2>1, <2>2, <2>3, <2>4, SayingKeepsCore
  <2>6. \A k \in Handles : IsUp(res', k) => (h = k \/ (IsUp(res, k) /\ worker[f].h # k))
    BY DEF IsUp
  <2> QED BY <1>0, <1>3, <1>5, <2>5, <2>6, WorkerStepKeeps
<1>6. CASE ~chanOpen
  <2>1. chan' = chan /\ p \notin LivePcs
    BY <1>1, <1>2, <1>6 DEF LivePcs
  <2>2. Core(Local', chan, res, notices, pending, detached)
    BY <1>0, <1>3, <1>4, <2>1, QuietWorkKeepsCore
  <2>3. \A k \in Handles : IsUp(res', k) => (h = k \/ (IsUp(res, k) /\ worker[f].h # k))
    BY DEF IsUp
  <2> QED BY <1>0, <1>3, <1>6, <2>1, <2>2, <2>3, WorkerStepKeeps
<1> QED BY <1>5, <1>6

LEMMA SayingSteps ==
    ASSUME IInv, NEW f \in Fences, ReportStarted(f) \/ ReportConfirmed(f)
    PROVE  IInv'
<1>0. WorkerFrame /\ res' = res /\ notices' = notices
  BY DEF ReportStarted, ReportConfirmed, transportVars
<1>1. CASE ReportStarted(f)
  <2> DEFINE p == IF chanOpen THEN "waiting" ELSE "release"
  <2>1. /\ worker[f].pc = "started" /\ worker' = [worker EXCEPT ![f].pc = p]
        /\ chan' = Sent(Event("Started", f, worker[f].h))
    BY <1>1 DEF ReportStarted, Moved
  <2>2. worker[f].h \in Handles /\ worker[f].h \in AnyHandle
    BY <2>1, WorkerHandles
  <2>3. p \in WorkerStates \ {"off"}
    BY DEF WorkerStates
  <2>4. p = IF chanOpen THEN "waiting" ELSE "release"
    OBVIOUS
  <2> HIDE DEF p
  <2>5. WorkerStep(f, p, worker[f].h)
    BY <2>1, <2>2, <2>3, WorkerUpdates
  <2>6. worker[f].pc = "started" /\ chan' = Sent(Event("Started", f, worker[f].h))
    BY <2>1
  <2>7. "Started" \in {"Started", "Confirmed", "Retrying"} /\ worker[f].h \in {worker[f].h, NoHandle}
    OBVIOUS
  <2> QED BY <1>0, <2>2, <2>3, <2>4, <2>5, <2>6, <2>7, SayingStepKeeps
<1>2. CASE ReportConfirmed(f)
  <2> DEFINE p == IF chanOpen THEN "done" ELSE "release"
  <2>1. /\ worker[f].pc = "confirmed" /\ worker' = [worker EXCEPT ![f].pc = p]
        /\ chan' = Sent(Event("Confirmed", f, worker[f].h))
    BY <1>2 DEF ReportConfirmed, Moved
  <2>2. worker[f].h \in Handles /\ worker[f].h \in AnyHandle
    BY <2>1, WorkerHandles
  <2>3. p \in WorkerStates \ {"off"}
    BY DEF WorkerStates
  <2>4. p = IF chanOpen THEN "done" ELSE "release"
    OBVIOUS
  <2> HIDE DEF p
  <2>5. WorkerStep(f, p, worker[f].h)
    BY <2>1, <2>2, <2>3, WorkerUpdates
  <2>6. worker[f].pc = "confirmed" /\ chan' = Sent(Event("Confirmed", f, worker[f].h))
    BY <2>1
  <2>7. "Confirmed" \in {"Started", "Confirmed", "Retrying"} /\ worker[f].h \in {worker[f].h, NoHandle}
    OBVIOUS
  <2> QED BY <1>0, <2>2, <2>3, <2>4, <2>5, <2>6, <2>7, SayingStepKeeps
<1> QED BY <1>1, <1>2

\* The wait is over without a reservation
LEMMA WaitingSteps ==
    ASSUME IInv, NEW f \in Fences, WaitEnds(f) \/ RetryBegins(f)
    PROVE  IInv'
<1>0. WorkerFrame /\ res' = res /\ notices' = notices
  BY DEF WaitEnds, RetryBegins, CancelEnds, CancelFails, transportVars
<1>1. worker[f].pc \in {"waiting", "retry"}
  BY DEF WaitEnds, RetryBegins
<1>2. worker[f].h \in Handles /\ worker[f].h \in AnyHandle /\ NoHandle \in AnyHandle
      /\ worker[f].pc \in LivePcs /\ Announced(worker[f]) = worker[f].h
  BY <1>1, WorkerHandles DEF LivePcs, Announced, AnyHandle
<1>3. CASE Finish(f, worker[f].h)
  <2> DEFINE p == IF ~chanOpen /\ worker[f].h # NoHandle THEN "release" ELSE "done"
  <2>1. Announced(worker[f]) \in {NoHandle, worker[f].h} /\ worker[f].h \in {worker[f].h, NoHandle}
    BY <1>2
  <2>2. /\ WorkerStep(f, p, worker[f].h) /\ Core(Local', chan', res, notices, pending, detached)
        /\ p \in WorkerStates \ {"off"} /\ (p = "release" => ~chanOpen)
        /\ ~chanOpen => chan' = chan
    BY <1>0, <1>2, <1>3, <2>1, FinishKeeps
  <2> HIDE DEF p
  <2>3. \A k \in Handles : IsUp(res', k) => (worker[f].h = k \/ (IsUp(res, k) /\ worker[f].h # k))
    BY <1>0
  <2> QED BY <1>0, <1>2, <2>2, <2>3, WorkerStepKeeps
<1>4. CASE ~Finish(f, worker[f].h)
  <2> DEFINE p == IF chanOpen THEN "dial" ELSE "done"
  <2>1. /\ worker[f].pc = "retry" /\ res[worker[f].h].state = "gone"
        /\ worker' = [worker EXCEPT ![f].pc = p, ![f].h = NoHandle]
        /\ chan' = Sent(Event("Retrying", f, worker[f].h))
    BY <1>4 DEF WaitEnds, RetryBegins, CancelEnds
  <2>3. p \in WorkerStates \ {"off"}
    BY DEF WorkerStates
  <2>4. p = IF chanOpen THEN "dial" ELSE "done"
    OBVIOUS
  <2> HIDE DEF p
  <2>5. WorkerStep(f, p, NoHandle)
    BY <1>2, <2>1, <2>3, WorkerUpdates
  <2>6. /\ worker[f].pc = "retry" /\ chan' = Sent(Event("Retrying", f, worker[f].h))
        /\ res[worker[f].h].state = "gone"
    BY <2>1
  <2>7. "Retrying" \in {"Started", "Confirmed", "Retrying"} /\ NoHandle \in {worker[f].h, NoHandle}
    OBVIOUS
  <2> QED BY <1>0, <1>2, <2>3, <2>4, <2>5, <2>6, <2>7, SayingStepKeeps
<1> QED BY <1>3, <1>4

\* A pending attempt is dropped: with a start that rolls back, its reservation too
LEMMA AbortKeeps ==
    ASSUME IInv, NEW f \in Fences, AbortAttempt(f), NEW c,
           Core(Local', c, res, notices, pending, detached),
           \A s \in Slots : Local'.slot[s].gen = slot[s].gen,
           Local'.worker[f].pc # "minted", \A g \in Fences : g # f => Local'.worker[g] = worker[g],
           worker[f].pc \in {"dial", "minted", "answered", "started", "waiting"}
    PROVE  /\ Core(Local', c, res', notices', pending, detached)
           /\ StartRollsBack => \A k \in Handles :
                 IsUp(res', k) => (Kept(f) = k \/ (IsUp(res, k) /\ worker[f].h # k))
<1> DEFINE h == worker[f].h
<1>1. CASE worker[f].pc = "answered" /\ StartRollsBack /\ Up(worker[f].h)
  <2>1. h \in Handles /\ IsUp(res, h)
    BY <1>1, WorkerHandles DEF Up, IsUp
  <2>2. Torn(h, "canceling")
    BY <1>1 DEF AbortAttempt, TearDown, Torn
  <2>3. \A g \in Fences : Local'.worker[g].pc = "minted" => Local'.worker[g].h # h
    BY <2>1, OneWorkerEach
  <2>4. res[h].state \notin {"free", "gone"} /\ "canceling" \in {"canceling", "gone"}
    BY <2>1 DEF IsUp
  <2> HIDE DEF h
  <2>5. /\ Core(Local', c, res', notices', pending, detached)
        /\ \A k \in Handles : IsUp(res', k) => (k # h /\ IsUp(res, k))
    BY <2>1, <2>2, <2>3, <2>4, TearingKeeps
  <2> QED BY <2>5 DEF h
<1>2. CASE ~(worker[f].pc = "answered" /\ StartRollsBack /\ Up(worker[f].h))
  <2>1. res' = res /\ notices' = notices
    BY <1>2 DEF AbortAttempt, transportVars
  <2>2. ASSUME StartRollsBack, NEW k \in Handles, IsUp(res, k), worker[f].h = k
        PROVE  Kept(f) = k
    <3>1. worker[f].pc # "dial"
      BY <2>2, WorkerHandles, GensAre
    <3>2. worker[f].pc # "minted"
      BY <2>2, WorkerHandles DEF IsUp
    <3>3. worker[f].pc # "answered"
      BY <1>2, <2>2 DEF IsUp, Up
    <3> QED BY <2>2, <3>1, <3>2, <3>3 DEF Kept
  <2> QED BY <2>1, <2>2
<1> QED BY <1>1, <1>2

LEMMA KeptIs ==
    ASSUME IInv, NEW f \in Fences
    PROVE  Kept(f) \in {worker[f].h, NoHandle} /\ Kept(f) \in AnyHandle
BY WorkerHandles DEF Kept, AnyHandle

\* The attempt is over, told or untold
LEMMA DroppingSteps ==
    ASSUME IInv, NEW f \in Fences, Abandon(f) \/ GiveUp(f)
    PROVE  IInv'
<1>0. WorkerFrame /\ AbortAttempt(f) /\ worker[f].pc \in {"dial", "minted", "answered", "started", "waiting"}
  BY DEF Abandon, GiveUp
<1>1. worker[f].pc \in LivePcs /\ worker[f].pc \notin {"off", "done"}
  BY <1>0 DEF LivePcs
<1>2. Kept(f) \in {worker[f].h, NoHandle} /\ Kept(f) \in AnyHandle
  BY KeptIs
<1>3. CASE Abandon(f)
  <2>1. worker' = [worker EXCEPT ![f].pc = "done", ![f].h = Kept(f)] /\ chan' = chan
    BY <1>3 DEF Abandon
  <2>2. "done" \in WorkerStates \ {"off"} /\ "done" \notin LivePcs
    BY DEF WorkerStates, LivePcs
  <2>3. WorkerStep(f, "done", Kept(f))
    BY <1>2, <2>1, <2>2, WorkerUpdates
  <2>4. chan' = chan
    BY <2>1
  <2>5. /\ Core(Local', chan, res, notices, pending, detached)
        /\ \A s \in Slots : Local'.slot[s].gen = slot[s].gen
        /\ Local'.worker[f].pc = "done" /\ \A g \in Fences : g # f => Local'.worker[g] = worker[g]
    BY <1>0, <1>1, <1>2, <2>2, <2>3, QuietStepKeeps
  <2>6. /\ Core(Local', chan, res', notices', pending, detached)
        /\ StartRollsBack => \A k \in Handles :
              IsUp(res', k) => (Kept(f) = k \/ (IsUp(res, k) /\ worker[f].h # k))
    BY <1>0, <2>5, AbortKeeps
  <2> QED BY <1>0, <1>2, <2>2, <2>3, <2>4, <2>6, WorkerStepKeeps
<1>4. CASE GiveUp(f)
  <2> DEFINE h == Kept(f)
             p == IF ~chanOpen /\ h # NoHandle THEN "release" ELSE "done"
  <2>1. Finish(f, h) /\ Announced(worker[f]) \in {NoHandle, h}
    BY <1>4 DEF GiveUp, Announced
  <2>2. /\ WorkerStep(f, p, h) /\ Core(Local', chan', res, notices, pending, detached)
        /\ p \in WorkerStates \ {"off"} /\ (p = "release" => ~chanOpen)
        /\ ~chanOpen => chan' = chan
        /\ \A s \in Slots : Local'.slot[s].gen = slot[s].gen
        /\ Local'.worker[f].pc = p /\ \A g \in Fences : g # f => Local'.worker[g] = worker[g]
    BY <1>0, <1>1, <1>2, <2>1, FinishKeeps
  <2>3. p # "minted"
    OBVIOUS
  <2> HIDE DEF p
  <2>4. /\ Core(Local', chan', res', notices', pending, detached)
        /\ StartRollsBack => \A k \in Handles :
              IsUp(res', k) => (Kept(f) = k \/ (IsUp(res, k) /\ worker[f].h # k))
    BY <1>0, <2>2, <2>3, AbortKeeps
  <2> QED BY <1>0, <1>2, <2>2, <2>4, WorkerStepKeeps
<1> QED BY <1>3, <1>4

LEMMA ReleaseStep ==
    ASSUME IInv, NEW f \in Fences, Release(f)
    PROVE  IInv'
<1> DEFINE h == worker[f].h
<1>0. worker[f].pc = "release" /\ chan' = chan /\ WorkerFrame
  BY DEF Release
<1>1. /\ h \in Handles /\ h \in AnyHandle /\ NoHandle \in AnyHandle
      /\ Core(Local, chan, res, notices, pending, detached)
  BY <1>0, WorkerHandles, VariableTypes DEF AnyHandle
<1>2. ~chanOpen
  BY <1>0, LocalIs DEF IInv, PhaseInv, Calm
<1>3. "done" \in WorkerStates \ {"off"} /\ "done" \notin LivePcs /\ "release" \notin LivePcs
  BY DEF WorkerStates, LivePcs
<1>4. CASE CancelBegins(h) /\ UNCHANGED worker
  <2>1. /\ IsUp(res, h) /\ Torn(h, "canceling")
        /\ UNCHANGED <<dmsVars, localVars, actorVars, queueVars, endVars>>
    BY <1>0, <1>4 DEF CancelBegins, TearDown, Torn, Up, IsUp, WorkerFrame, localVars, queueVars
  <2>2. \A g \in Fences : Local.worker[g].pc = "minted" => Local.worker[g].h # h
    BY <1>0, <1>1, OneWorkerEach, LocalIs
  <2>3. res[h].state \notin {"free", "gone"} /\ "canceling" \in {"canceling", "gone"}
        /\ \A s \in Slots : Local.slot[s].gen = slot[s].gen
    BY <2>1, LocalIs DEF IsUp
  <2> HIDE DEF h
  <2>4. /\ Core(Local, chan, res', notices', pending, detached)
        /\ \A k \in Handles : IsUp(res', k) => (k # h /\ IsUp(res, k))
    BY <1>1, <2>1, <2>2, <2>3, TearingKeeps
  <2> QED BY <2>1, <2>4, TransportOnly
<1>5. CASE CancelEnds(h) /\ worker' = [worker EXCEPT ![f].pc = "done", ![f].h = NoHandle]
  <2>1. WorkerStep(f, "done", NoHandle)
    BY <1>1, <1>3, <1>5, WorkerUpdates
  <2>2. res' = res /\ notices' = notices /\ res[h].state = "gone"
    BY <1>5 DEF CancelEnds, transportVars
  <2>3. Core(Local', chan, res, notices, pending, detached)
    BY <1>0, <1>1, <1>3, <2>1, QuietStepKeeps
  <2>4. \A k \in Handles : IsUp(res', k) => (IsUp(res, k) /\ worker[f].h # k)
    BY <2>2 DEF IsUp
  <2> QED BY <1>0, <1>1, <1>2, <1>3, <2>1, <2>2, <2>3, <2>4, WorkerStepKeeps
<1>6. CASE /\ CancelFails /\ UNCHANGED notices
           /\ worker' = [worker EXCEPT ![f].pc = "done", ![f].h = NoHandle, ![f].err = TRUE]
  <2>1. worker \in [Fences -> WorkerRecord] /\ worker[f] \in WorkerRecord
    BY VariableTypes
  <2>2. /\ worker' \in [Fences -> WorkerRecord] /\ \A g \in Fences : g # f => worker'[g] = worker[g]
        /\ worker'[f].pc = "done" /\ worker'[f].h = NoHandle /\ worker'[f].err = TRUE
        /\ worker'[f].relay = worker[f].relay
    BY <1>1, <1>6, <2>1 DEF WorkerRecord, WorkerStates
  <2>3. /\ UNCHANGED <<slot, retiring, gens, routes, pending, detached, snap, lapsed, timers, chanOpen>>
        /\ UNCHANGED <<dmsVars, endVars>> /\ res' = res /\ notices' = notices /\ CallsTimeOut
    BY <1>0, <1>6 DEF WorkerFrame, actorVars, CancelFails
  <2>4. Local' \in LocalRecord
    BY <2>2, <2>3, LocalNextType, VariableTypes
  <2>5. WorkedTo(Local, Local', f)
    BY <1>0, <1>3, <2>2, <2>3, LocalIs, LocalNextIs DEF WorkedTo
  <2>6. /\ Local.worker[f].pc # "done" /\ Local'.worker[f].pc \notin LivePcs
        /\ Local'.worker[f].pc = "done" /\ Local'.worker[f].h = NoHandle
    BY <1>0, <1>3, <2>2, LocalIs, LocalNextIs
  <2>7. Core(Local', chan, res, notices, pending, detached)
    BY <1>1, <2>4, <2>5, <2>6, QuietWorkKeepsCore
  <2>8. FlagsType' /\ AnswerInv(dms, snap)'
    BY <2>3, SameFlags DEF IInv
  <2>9. PhaseInv'
    <3>1. NothingLeft => NothingLeft'
      BY <2>3 DEF NothingLeft, Retiring
    <3>2. PhaseInv /\ \A s \in Slots : slot'[s].gen = slot[s].gen
      BY <2>3 DEF IInv
    <3> QED BY <1>0, <1>2, <2>3, <3>1, <3>2, SamePhase
  <2>10. SnapshotInv(Local, snap)'
    <3>1. SnapshotInv(Local, snap)
      BY DEF IInv
    <3> QED BY <2>3, <3>1, LocalIs, LocalNextIs DEF SnapshotInv
  <2>11. KeeperInv'
    BY <2>2, <2>3, LocalNextIs DEF KeeperInv, Trouble
  <2>12. Core(Local, chan, res, notices, pending, detached)'
    BY <1>0, <2>3, <2>7
  <2> QED BY <2>8, <2>9, <2>10, <2>11, <2>12 DEF IInv
<1> QED BY <1>4, <1>5, <1>6 DEF Release

LEMMA WorkerSteps ==
    ASSUME IInv, NEW f \in Fences, WorkerNext(f)
    PROVE  IInv'
<1>1. CASE \E h \in Handles : Mint(f, h)
  BY <1>1, MintStep
<1>2. CASE Answer(f)
  BY <1>2, AnswerStep
<1>3. CASE AttemptEnds(f) \/ WaitSucceeds(f) \/ WaitRetries(f)
  BY <1>3, QuietSteps
<1>4. CASE AttemptFails(f)
  BY <1>4, AttemptFailsStep
<1>5. CASE ReportStarted(f) \/ ReportConfirmed(f)
  BY <1>5, SayingSteps
<1>6. CASE WaitEnds(f) \/ RetryBegins(f)
  BY <1>6, WaitingSteps
<1>7. CASE Release(f)
  BY <1>7, ReleaseStep
<1>8. CASE Abandon(f) \/ GiveUp(f)
  BY <1>8, DroppingSteps
<1> QED BY <1>1, <1>2, <1>3, <1>4, <1>5, <1>6, <1>7, <1>8 DEF WorkerNext

-----------------------------------------------------------------------------
(* Steps of the cleanup tasks *)

\* From the parts of a cleanup's step to the invariant
LEMMA CleanupKeeps ==
    ASSUME IInv, NEW s \in Slots, Retiring(s), CleanupFrame, TidiedTo(Local, Local'),
           Core(Local', chan', res', notices', pending, detached),
           ~chanOpen => chan' = chan,
           StartRollsBack =>
              \/ CallsTimeOut /\ \E t \in Slots : retiring'[t].err
              \/ /\ \A t \in Slots : retiring[t].err => retiring'[t].err
                 /\ \A f \in Fences : worker[f].err => (worker'[f].err \/ \E t \in Slots : retiring'[t].err)
                 /\ KeepInv(Local, res, detached) => KeepInv(Local', res', detached)
    PROVE  IInv'
<1>1. /\ UNCHANGED <<slot, gens, routes, pending, detached, snap, lapsed, timers, chanOpen>>
      /\ UNCHANGED <<dmsVars, endVars>> /\ phase' = phase /\ exit' = exit /\ failed' = failed
  BY DEF CleanupFrame, actorVars, endVars
<1>2. FlagsType' /\ AnswerInv(dms, snap)'
  BY <1>1, SameFlags DEF IInv
<1>3. PhaseInv'
  <2>1. ~NothingLeft
    BY DEF NothingLeft
  <2>2. Calm(Local) => Calm(Local')
    BY DEF Calm, TidiedTo
  <2>3. PhaseInv /\ UNCHANGED <<endVars, chanOpen>> /\ \A t \in Slots : slot'[t].gen = slot[t].gen
    BY <1>1 DEF IInv
  <2> QED BY <2>1, <2>2, <2>3, SamePhase
<1>4. Core(Local, chan, res, notices, pending, detached)'
  BY <1>1
<1>5. SnapshotInv(Local, snap)'
  <2>1. SnapshotInv(Local, snap)
    BY DEF IInv
  <2> QED BY <1>1, <2>1, LocalIs, LocalNextIs DEF SnapshotInv
<1>6. ASSUME StartRollsBack PROVE KeeperInv'
  <2>1. CASE CallsTimeOut /\ \E t \in Slots : retiring'[t].err
    BY <2>1, LocalNextIs DEF KeeperInv, Trouble
  <2>2. CASE /\ \A t \in Slots : retiring[t].err => retiring'[t].err
             /\ \A f \in Fences : worker[f].err => (worker'[f].err \/ \E t \in Slots : retiring'[t].err)
             /\ KeepInv(Local, res, detached) => KeepInv(Local', res', detached)
    <3>1. Trouble(Local) => Trouble(Local)'
      BY <1>1, <2>2, LocalIs, LocalNextIs DEF Trouble
    <3> QED BY <1>1, <1>6, <2>2, <3>1 DEF KeeperInv, IInv
  <2> QED BY <1>6, <2>1, <2>2
<1> QED BY <1>2, <1>3, <1>4, <1>5, <1>6 DEF IInv

\* What a cleanup may do to its own record and to its worker
CleanupTo(s, j, t, e, d) ==
    /\ retiring' \in [Slots -> RetiringRecord]
    /\ \A u \in Slots : u # s => retiring'[u] = retiring[u]
    /\ retiring'[s].gen = retiring[s].gen
    /\ retiring'[s].join = j /\ retiring'[s].todo = t /\ retiring'[s].err = e /\ retiring'[s].done = d

\* The forms in which the actions update a cleanup
LEMMA CleanupUpdates ==
    ASSUME IInv, NEW s \in Slots, NEW t \in SUBSET Handles, NEW e \in BOOLEAN
    PROVE  /\ retiring' = [retiring EXCEPT ![s].join = FALSE, ![s].todo = t, ![s].err = e]
                 => CleanupTo(s, FALSE, t, e, retiring[s].done)
           /\ retiring' = [retiring EXCEPT ![s].join = FALSE, ![s].err = e]
                 => CleanupTo(s, FALSE, retiring[s].todo, e, retiring[s].done)
           /\ retiring' = [retiring EXCEPT ![s].todo = t]
                 => CleanupTo(s, retiring[s].join, t, retiring[s].err, retiring[s].done)
           /\ retiring' = [retiring EXCEPT ![s].todo = t, ![s].err = e]
                 => CleanupTo(s, retiring[s].join, t, e, retiring[s].done)
           /\ retiring' = [retiring EXCEPT ![s].done = TRUE]
                 => CleanupTo(s, retiring[s].join, retiring[s].todo, retiring[s].err, TRUE)
<1>1. retiring \in [Slots -> RetiringRecord] /\ retiring[s] \in RetiringRecord
  BY VariableTypes
<1>2. ASSUME retiring' = [retiring EXCEPT ![s].join = FALSE, ![s].todo = t, ![s].err = e]
      PROVE  CleanupTo(s, FALSE, t, e, retiring[s].done)
  BY <1>1, <1>2 DEF CleanupTo, RetiringRecord
<1>3. ASSUME retiring' = [retiring EXCEPT ![s].join = FALSE, ![s].err = e]
      PROVE  CleanupTo(s, FALSE, retiring[s].todo, e, retiring[s].done)
  BY <1>1, <1>3 DEF CleanupTo, RetiringRecord
<1>4. ASSUME retiring' = [retiring EXCEPT ![s].todo = t]
      PROVE  CleanupTo(s, retiring[s].join, t, retiring[s].err, retiring[s].done)
  BY <1>1, <1>4 DEF CleanupTo, RetiringRecord
<1>5. ASSUME retiring' = [retiring EXCEPT ![s].todo = t, ![s].err = e]
      PROVE  CleanupTo(s, retiring[s].join, t, e, retiring[s].done)
  BY <1>1, <1>5 DEF CleanupTo, RetiringRecord
<1>6. ASSUME retiring' = [retiring EXCEPT ![s].done = TRUE]
      PROVE  CleanupTo(s, retiring[s].join, retiring[s].todo, retiring[s].err, TRUE)
  BY <1>1, <1>6 DEF CleanupTo, RetiringRecord
<1> QED BY <1>2, <1>3, <1>4, <1>5, <1>6

\* The fence of a retiring slot is not current
LEMMA RetiringFence ==
    ASSUME IInv, NEW s \in Slots, Retiring(s)
    PROVE  /\ <<s, retiring[s].gen>> \in Fences /\ ~Current(Local, <<s, retiring[s].gen>>)
           /\ retiring[s].gen <= gens[s]
           /\ \A f \in Fences : (f[1] = s /\ f[2] = retiring[s].gen) => f = <<s, retiring[s].gen>>
           /\ retiring[s].done => (~retiring[s].join /\ retiring[s].todo = {})
           /\ retiring[s].join => ~retiring[s].err
           /\ ~retiring[s].join => worker[<<s, retiring[s].gen>>].pc = "off"
<1>1. LocalInv(Local) /\ retiring[s] \in RetiringRecord
  BY VariableTypes
<1>2. retiring[s].gen \in Gens
  BY <1>1 DEF RetiringRecord, Retiring
<1>3. <<s, retiring[s].gen>> \in Fences /\ <<s, retiring[s].gen>>[1] = s /\ <<s, retiring[s].gen>>[2] = retiring[s].gen
  BY <1>2, FenceIs
<1>4. ~Current(Local, <<s, retiring[s].gen>>) /\ retiring[s].gen <= gens[s]
  BY <1>1, <1>2, <1>3, LocalIs, GensAre DEF LocalInv, Current
<1>5. \A f \in Fences : (f[1] = s /\ f[2] = retiring[s].gen) => f = <<s, retiring[s].gen>>
  BY FenceIs
<1>6. /\ retiring[s].done => (~retiring[s].join /\ retiring[s].todo = {})
      /\ retiring[s].join => ~retiring[s].err
      /\ ~retiring[s].join => worker[<<s, retiring[s].gen>>].pc = "off"
  BY <1>1, <1>3, <1>4, LocalIs DEF LocalInv
<1> QED BY <1>3, <1>4, <1>5, <1>6

\* The worker of a cleanup is joined, or aborted
LEMMA CleanupJoining ==
    ASSUME IInv, NEW s \in Slots, CleanupJoins(s) \/ CleanupAborts(s)
    PROVE  IInv'
<1> DEFINE f == <<s, retiring[s].gen>>
           t == retiring[s].todo \cup Returned(f)
<1>0. /\ Retiring(s) /\ retiring[s].join /\ CleanupFrame /\ worker' = [worker EXCEPT ![f] = NoWorker]
      /\ res' = res /\ notices' = notices /\ chan' = chan
  BY DEF CleanupJoins, CleanupAborts, transportVars
<1>1. /\ f \in Fences /\ ~Current(Local, f) /\ ~retiring[s].done /\ ~retiring[s].err
      /\ \A g \in Fences : (g[1] = s /\ g[2] = retiring[s].gen) => g = f
  BY <1>0, RetiringFence
<1>2. /\ worker[f] \in WorkerRecord /\ retiring[s] \in RetiringRecord /\ worker[f].err \in BOOLEAN
      /\ Returned(f) \in SUBSET Handles /\ retiring[s].todo \in SUBSET Handles
      /\ Core(Local, chan, res, notices, pending, detached)
  <2>1. worker[f] \in WorkerRecord /\ retiring[s] \in RetiringRecord
    BY <1>1, VariableTypes
  <2> QED BY <2>1, VariableTypes DEF WorkerRecord, RetiringRecord, Returned, HandleSet, AnyHandle
<1> HIDE DEF f
<1>3. /\ worker' \in [Fences -> WorkerRecord] /\ worker'[f] = NoWorker
      /\ \A g \in Fences : g # f => worker'[g] = worker[g]
  BY <1>0, <1>1, ConstantsType, VariableTypes
<1>4. \/ CleanupTo(s, FALSE, t, worker[f].err, retiring[s].done)
      \/ CallsTimeOut /\ CleanupTo(s, FALSE, retiring[s].todo, TRUE, retiring[s].done)
  <2>0. t \in SUBSET Handles
    BY <1>2
  <2> HIDE DEF t
  <2>1. CASE CleanupJoins(s)
    <3>1. retiring' = [retiring EXCEPT ![s].join = FALSE, ![s].todo = t, ![s].err = worker[f].err]
      BY <2>1 DEF CleanupJoins, t, f
    <3> QED BY <1>2, <2>0, <3>1, CleanupUpdates
  <2>2. CASE CleanupAborts(s)
    <3>1. CallsTimeOut /\ retiring' = [retiring EXCEPT ![s].join = FALSE, ![s].err = TRUE]
      BY <2>2 DEF CleanupAborts
    <3> QED BY <2>0, <3>1, CleanupUpdates
  <2> QED BY <2>1, <2>2
<1>5. /\ UNCHANGED <<slot, gens, routes>> /\ retiring' \in [Slots -> RetiringRecord]
      /\ \A u \in Slots : u # s => retiring'[u] = retiring[u]
      /\ retiring'[s].gen = retiring[s].gen /\ ~retiring'[s].join /\ ~retiring'[s].done
      /\ \A h \in Handles : h \in retiring'[s].todo => (h \in retiring[s].todo \/ worker[f].h = h)
  BY <1>0, <1>1, <1>4 DEF CleanupFrame, CleanupTo, Returned, HandleSet
<1>6. Local' \in LocalRecord
  BY <1>3, <1>5, LocalNextType, VariableTypes
<1>7. TidiedTo(Local, Local')
  <2>1. \A g \in Fences : Local'.worker[g] = Local.worker[g] \/
          /\ ~Current(Local, g)
          /\ Local'.worker[g].pc = "off" /\ Local'.worker[g].h = NoHandle /\ Local'.worker[g].err = FALSE
    BY <1>1, <1>3, LocalIs, LocalNextIs, ConstantsType
  <2>2. /\ \A u \in Slots : Local.retiring[u].gen = 0 => Local'.retiring[u] = Local.retiring[u]
        /\ \A u \in Slots :
             /\ Local'.retiring[u].gen = Local.retiring[u].gen
             /\ Local.retiring[u].done => Local'.retiring[u].done
    BY <1>0, <1>1, <1>5, LocalIs, LocalNextIs DEF Retiring
  <2>3. \A u \in Slots : /\ Local'.retiring[u].done => (~Local'.retiring[u].join /\ Local'.retiring[u].todo = {})
                         /\ Local'.retiring[u].join => ~Local'.retiring[u].err
    BY <1>5, VariableTypes, LocalIs, LocalNextIs DEF LocalInv
  <2>4. \A g \in Fences :
          (Local'.worker[g].pc # "off" /\ Local.retiring[g[1]].gen = g[2] /\ Local.retiring[g[1]].join)
             => (Local'.retiring[g[1]].gen = g[2] /\ Local'.retiring[g[1]].join)
    BY <1>1, <1>3, <1>5, LocalIs, LocalNextIs, ConstantsType, FenceIs
  <2>5. \A u \in Slots, h \in Handles : h \in Local'.retiring[u].todo =>
          (h \in Local.retiring[u].todo \/ \E g \in Fences : ~Current(Local, g) /\ Local.worker[g].h = h)
    BY <1>1, <1>5, LocalIs, LocalNextIs
  <2>6. Local'.slot = Local.slot /\ Local'.gens = Local.gens /\ Local'.routes = Local.routes
    BY <1>5, LocalIs, LocalNextIs
  <2> QED BY <2>1, <2>2, <2>3, <2>4, <2>5, <2>6 DEF TidiedTo
<1>8. Core(Local', chan', res', notices', pending, detached)
  BY <1>0, <1>2, <1>6, <1>7, TidyKeepsCore
<1>9. CASE CleanupTo(s, FALSE, t, worker[f].err, retiring[s].done)
  <2>1. /\ \A u \in Slots : retiring[u].err => retiring'[u].err
        /\ \A g \in Fences : worker[g].err => (worker'[g].err \/ \E u \in Slots : retiring'[u].err)
    BY <1>1, <1>3, <1>9 DEF CleanupTo
  <2>2. ASSUME NEW h \in Handles, Keeper(Local, detached, h) PROVE Keeper(Local', detached, h)
    <3>1. \A u \in Slots : h \in retiring[u].todo => h \in retiring'[u].todo
      BY <1>5, <1>9 DEF CleanupTo
    <3>2. \A g \in Fences : worker[g].h = h => (worker'[g].h = h \/ h \in retiring'[s].todo)
      BY <1>3, <1>9, GensAre DEF CleanupTo, Returned, HandleSet
    <3> QED BY <1>5, <2>2, <3>1, <3>2, LocalIs, LocalNextIs DEF Keeper
  <2>3. KeepInv(Local, res, detached) => KeepInv(Local', res', detached)
    BY <1>0, <2>2 DEF KeepInv
  <2> QED BY <1>0, <1>7, <1>8, <2>1, <2>3, CleanupKeeps
<1>10. CASE CallsTimeOut /\ CleanupTo(s, FALSE, retiring[s].todo, TRUE, retiring[s].done)
  <2>1. CallsTimeOut /\ \E u \in Slots : retiring'[u].err
    BY <1>10 DEF CleanupTo
  <2> QED BY <1>0, <1>7, <1>8, <2>1, CleanupKeeps
<1> QED BY <1>4, <1>9, <1>10

\* A cleanup that leaves its worker alone
LEMMA CleanupTidies ==
    ASSUME IInv, NEW s \in Slots, Retiring(s), UNCHANGED <<slot, gens, routes, worker>>,
           NEW t, NEW e, NEW d, CleanupTo(s, retiring[s].join, t, e, d), t \subseteq retiring[s].todo,
           retiring[s].done => d, d => (~retiring[s].join /\ t = {}), retiring[s].join => ~e
    PROVE  Local' \in LocalRecord /\ TidiedTo(Local, Local')
<1>1. /\ retiring' \in [Slots -> RetiringRecord] /\ \A u \in Slots : u # s => retiring'[u] = retiring[u]
      /\ retiring'[s].gen = retiring[s].gen /\ retiring'[s].join = retiring[s].join
      /\ retiring'[s].todo = t /\ retiring'[s].err = e /\ retiring'[s].done = d
  BY DEF CleanupTo
<1>2. Local' \in LocalRecord
  BY <1>1, LocalNextType, VariableTypes
<1>3. \A u \in Slots : /\ Local'.retiring[u].done => (~Local'.retiring[u].join /\ Local'.retiring[u].todo = {})
                       /\ Local'.retiring[u].join => ~Local'.retiring[u].err
  BY <1>1, VariableTypes, LocalIs, LocalNextIs DEF LocalInv
<1>4. /\ \A u \in Slots : Local.retiring[u].gen = 0 => Local'.retiring[u] = Local.retiring[u]
      /\ \A u \in Slots : /\ Local'.retiring[u].gen = Local.retiring[u].gen
                          /\ Local'.retiring[u].join = Local.retiring[u].join
                          /\ Local.retiring[u].done => Local'.retiring[u].done
      /\ \A u \in Slots, h \in Handles : h \in Local'.retiring[u].todo => h \in Local.retiring[u].todo
  BY <1>1, LocalIs, LocalNextIs DEF Retiring
<1>5. Local'.slot = Local.slot /\ Local'.gens = Local.gens /\ Local'.routes = Local.routes /\ Local'.worker = Local.worker
  BY LocalIs, LocalNextIs
<1>6. TidiedTo(Local, Local')
  BY <1>3, <1>4, <1>5, FenceIs DEF TidiedTo
<1> QED BY <1>2, <1>6

LEMMA CleanupCancelling ==
    ASSUME IInv, NEW s \in Slots, CleanupCancels(s)
    PROVE  IInv'
<1>0. Retiring(s) /\ ~retiring[s].join /\ CleanupFrame /\ worker' = worker /\ chan' = chan
  BY DEF CleanupCancels
<1>1. PICK h \in retiring[s].todo :
         \/ CancelBegins(h) /\ UNCHANGED retiring
         \/ /\ CancelEnds(h)
            /\ retiring' = [retiring EXCEPT ![s].todo = @ \ {h}]
         \/ /\ CancelFails /\ UNCHANGED notices
            /\ retiring' = [retiring EXCEPT ![s].todo = @ \ {h}, ![s].err = TRUE]
  BY DEF CleanupCancels
<1> DEFINE t == retiring[s].todo \ {h}
<1>2. /\ retiring[s] \in RetiringRecord /\ h \in Handles /\ t \in SUBSET Handles /\ t \subseteq retiring[s].todo
      /\ Core(Local, chan, res, notices, pending, detached)
      /\ UNCHANGED <<slot, gens, routes, worker>>
  <2>1. retiring[s] \in RetiringRecord
    BY VariableTypes
  <2> QED BY <1>0, <2>1, VariableTypes DEF RetiringRecord, CleanupFrame
<1>3. retiring[s].done => retiring[s].todo = {}
  BY <1>0, RetiringFence
<1>4. CASE CancelBegins(h) /\ UNCHANGED retiring
  <2>1. /\ IsUp(res, h) /\ Torn(h, "canceling")
        /\ UNCHANGED <<dmsVars, localVars, actorVars, queueVars, endVars>>
    BY <1>0, <1>4 DEF CancelBegins, TearDown, Torn, Up, IsUp, CleanupFrame, localVars, queueVars
  <2>2. \A g \in Fences : Local.worker[g].pc = "minted" => Local.worker[g].h # h
    BY <2>1, MintedIsDispatching, LocalIs DEF IsUp
  <2>3. res[h].state \notin {"free", "gone"} /\ "canceling" \in {"canceling", "gone"}
        /\ \A u \in Slots : Local.slot[u].gen = slot[u].gen
    BY <2>1, LocalIs DEF IsUp
  <2>4. /\ Core(Local, chan, res', notices', pending, detached)
        /\ \A k \in Handles : IsUp(res', k) => (k # h /\ IsUp(res, k))
    BY <1>2, <2>1, <2>2, <2>3, TearingKeeps
  <2> QED BY <2>1, <2>4, TransportOnly
<1>5. CASE CancelEnds(h) /\ retiring' = [retiring EXCEPT ![s].todo = @ \ {h}]
  <2>0. res' = res /\ notices' = notices /\ res[h].state = "gone"
    BY <1>5 DEF CancelEnds, transportVars
  <2>1. retiring' = [retiring EXCEPT ![s].todo = t]
    BY <1>5
  <2>2. (retiring[s].done => (~retiring[s].join /\ t = {})) /\ t \subseteq retiring[s].todo
    BY <1>0, <1>3
  <2> HIDE DEF t
  <2>3. CleanupTo(s, retiring[s].join, t, retiring[s].err, retiring[s].done)
    BY <1>2, <2>1, CleanupUpdates
  <2>4. Local' \in LocalRecord /\ TidiedTo(Local, Local')
    <3>1. Retiring(s) /\ UNCHANGED <<slot, gens, routes, worker>> /\ ~retiring[s].join
      BY <1>0, <1>2
    <3> QED BY <2>2, <2>3, <3>1, CleanupTidies
  <2>5. Core(Local', chan', res', notices', pending, detached)
    BY <1>0, <1>2, <2>0, <2>4, TidyKeepsCore
  <2>6. /\ \A u \in Slots : retiring[u].err => retiring'[u].err
        /\ \A g \in Fences : worker[g].err => worker'[g].err
    BY <1>0, <2>3 DEF CleanupTo
  <2>7. ASSUME NEW k \in Handles, k # h, Keeper(Local, detached, k) PROVE Keeper(Local', detached, k)
    <3>1. \A u \in Slots : k \in retiring[u].todo => k \in retiring'[u].todo
      BY <2>3, <2>7 DEF CleanupTo, t
    <3> QED BY <1>2, <2>7, <3>1, LocalIs, LocalNextIs DEF Keeper
  <2>8. KeepInv(Local, res, detached) => KeepInv(Local', res', detached)
    BY <2>0, <2>7 DEF KeepInv
  <2> QED BY <1>0, <2>4, <2>5, <2>6, <2>8, CleanupKeeps
<1>6. CASE /\ CancelFails /\ UNCHANGED notices
           /\ retiring' = [retiring EXCEPT ![s].todo = @ \ {h}, ![s].err = TRUE]
  <2>0. res' = res /\ notices' = notices /\ CallsTimeOut
    BY <1>6 DEF CancelFails
  <2>1. retiring' = [retiring EXCEPT ![s].todo = t, ![s].err = TRUE]
    BY <1>6
  <2>2. t = {} \/ ~retiring[s].done
    BY <1>3
  <2> HIDE DEF t
  <2>3. CleanupTo(s, retiring[s].join, t, TRUE, retiring[s].done)
    BY <1>2, <2>1, CleanupUpdates
  <2>4. Local' \in LocalRecord /\ TidiedTo(Local, Local')
    BY <1>0, <1>2, <2>2, <2>3, CleanupTidies
  <2>5. Core(Local', chan', res', notices', pending, detached)
    BY <1>0, <1>2, <2>0, <2>4, TidyKeepsCore
  <2>6. CallsTimeOut /\ \E u \in Slots : retiring'[u].err
    BY <2>0, <2>3 DEF CleanupTo
  <2> QED BY <1>0, <2>4, <2>5, <2>6, CleanupKeeps
<1> QED BY <1>1, <1>4, <1>5, <1>6

LEMMA CleanupEnding ==
    ASSUME IInv, NEW s \in Slots, CleanupDone(s)
    PROVE  IInv'
<1> DEFINE f == <<s, retiring[s].gen>>
           e == Event("CleanupComplete", f, NoHandle)
<1>0. /\ Retiring(s) /\ ~retiring[s].done /\ ~retiring[s].join /\ retiring[s].todo = {}
      /\ retiring' = [retiring EXCEPT ![s].done = TRUE] /\ chan' = Sent(e)
      /\ res' = res /\ notices' = notices /\ worker' = worker /\ CleanupFrame
  BY DEF CleanupDone, transportVars
<1>1. /\ f \in Fences /\ ~Current(Local, f) /\ worker[f].pc = "off" /\ f[1] = s /\ f[2] = retiring[s].gen
      /\ retiring[s].gen <= gens[s]
  BY <1>0, RetiringFence
<1>2. /\ Core(Local, chan, res, notices, pending, detached) /\ UNCHANGED <<slot, gens, routes, worker>>
      /\ retiring[s].todo \in SUBSET Handles /\ NoHandle \in AnyHandle /\ retiring[s].err \in BOOLEAN
  <2>1. retiring[s] \in RetiringRecord
    BY VariableTypes
  <2> QED BY <1>0, <2>1, VariableTypes DEF CleanupFrame, AnyHandle, RetiringRecord
<1>3. CleanupTo(s, retiring[s].join, retiring[s].todo, retiring[s].err, TRUE)
  BY <1>0, <1>2, CleanupUpdates
<1>4. /\ e \in EventRecord /\ e.kind = "CleanupComplete" /\ e.fence = f /\ e.h = NoHandle
      /\ chanOpen => Grown(chan, Sent(e), Len(chan) + 1, e)
      /\ ~chanOpen => Sent(e) = chan
  <2>1. "CleanupComplete" \in EventKinds
    BY DEF EventKinds
  <2> QED BY <1>1, <1>2, <2>1, SentIs
<1>5. \A i \in DOMAIN chan : chan[i].kind = "CleanupComplete" => chan[i].fence # f
  BY <1>0, <1>1, <1>2, LocalIs DEF Core, ChannelInv, CompleteInv
<1>6. chan' = Sent(e) /\ Retiring(s) /\ CleanupFrame /\ res' = res /\ notices' = notices
      /\ ~retiring[s].done /\ ~retiring[s].join /\ retiring[s].todo = {}
  BY <1>0
<1> HIDE DEF f, e
<1>7. Local' \in LocalRecord /\ TidiedTo(Local, Local')
  BY <1>2, <1>3, <1>6, CleanupTidies
<1>8. Core(Local', chan, res, notices, pending, detached)
  BY <1>2, <1>7, TidyKeepsCore
<1>9. Core(Local', chan', res', notices', pending, detached)
  <2>1. CASE chanOpen
    <3>1. Grown(chan, chan', Len(chan) + 1, e)
      BY <1>4, <1>6, <2>1
    <3>2. /\ e.kind = "CleanupComplete" /\ e.fence[2] <= Local'.gens[e.fence[1]]
          /\ Local'.worker[e.fence].pc = "off" /\ ~Current(Local', e.fence)
          /\ Local'.retiring[e.fence[1]].done
          /\ \A i \in DOMAIN chan : chan[i].kind = "CleanupComplete" => chan[i].fence # e.fence
      BY <1>1, <1>2, <1>3, <1>4, <1>5, LocalIs, LocalNextIs DEF Current, CleanupTo
    <3> QED BY <1>4, <1>6, <1>8, <3>1, <3>2, NoteKeepsCore
  <2>2. CASE ~chanOpen
    BY <1>4, <1>6, <1>8, <2>2
  <2> QED BY <2>1, <2>2
<1>10. /\ \A u \in Slots : retiring[u].err => retiring'[u].err
       /\ \A g \in Fences : worker[g].err => worker'[g].err
  BY <1>2, <1>3 DEF CleanupTo
<1>11. ASSUME NEW k \in Handles, Keeper(Local, detached, k) PROVE Keeper(Local', detached, k)
  <2>1. \A u \in Slots : k \in retiring[u].todo => k \in retiring'[u].todo
    BY <1>3 DEF CleanupTo
  <2> QED BY <1>2, <1>11, <2>1, LocalIs, LocalNextIs DEF Keeper
<1>12. KeepInv(Local, res, detached) => KeepInv(Local', res', detached)
  BY <1>6, <1>11 DEF KeepInv
<1>13. ~chanOpen => chan' = chan
  BY <1>4, <1>6
<1> QED BY <1>6, <1>7, <1>9, <1>10, <1>12, <1>13, CleanupKeeps

LEMMA CleanupSteps ==
    ASSUME IInv, NEW s \in Slots, CleanupNext(s)
    PROVE  IInv'
BY CleanupJoining, CleanupCancelling, CleanupEnding DEF CleanupNext

-----------------------------------------------------------------------------
(* Leaving the loop *)

\* Nobody hears what is left in the channel
LEMMA SilenceKeepsCore ==
    ASSUME NEW l, NEW ch, NEW rs, NEW nt, NEW pd, NEW dt, Core(l, ch, rs, nt, pd, dt),
           \A s \in Slots : l.slot[s].gen = 0
    PROVE  Core(l, <<>>, rs, {}, {}, dt)
<1> DEFINE c == <<>>
<1>1. c \in Seq(EventRecord) /\ DOMAIN c = {}
  OBVIOUS
<1> HIDE DEF c
<1>2. \A f \in Fences : ~Current(l, f)
  BY FenceIs, GensAre DEF Current
<1>3. EventsInv(l, c) /\ FinalInv(l, c) /\ CompleteInv(l, c)
  BY <1>1 DEF EventsInv, FinalInv, CompleteInv
<1>4. StoryInv(l, c)
  BY <1>1, <1>2 DEF StoryInv
<1>5. \A h \in Handles, f \in Fences : Mentions(l, c, h, f) => Mentions(l, ch, h, f)
  BY <1>1 DEF Mentions
<1>6. HandleInv(l, c, rs, dt)
  BY <1>2, <1>5 DEF Core, HandleInv
<1>7. OrderInv(l, c, rs) /\ RelayInv(l, c, rs)
  BY <1>1, <1>2 DEF Core, OrderInv, RelayInv
<1>8. \A s \in Slots : l.slot[s].state # "confirmed"
  BY ConstantsType DEF Core, LocalInv
<1>9. RouteInv(l, c, rs, {}, {})
  BY <1>1, <1>2, <1>8 DEF RouteInv
<1>10. Core(l, c, rs, {}, {}, dt)
  BY <1>1, <1>3, <1>4, <1>6, <1>7, <1>9 DEF Core, ChannelInv
<1> QED BY <1>10 DEF c

Removing(rt) == [s \in Slots |-> IF rt[s].gen = 0 THEN rt[s] ELSE [rt[s] EXCEPT !.action = "remove"]]

DrainedOf(l) ==
    [RetireSlots(l, {s \in Slots : l.slot[s].state # "vacant"}, [s \in Slots |-> "remove"])
        EXCEPT !.retiring = Removing(@)]

LEMMA RemovingIs ==
    ASSUME NEW l \in LocalRecord, LocalInv(l)
    PROVE  LET r == [l EXCEPT !.retiring = Removing(@)]
           IN /\ r \in LocalRecord /\ TidiedTo(l, r)
              /\ r.slot = l.slot /\ r.worker = l.worker
              /\ \A s \in Slots : r.retiring[s].err = l.retiring[s].err /\ r.retiring[s].todo = l.retiring[s].todo
<1> DEFINE rt == Removing(l.retiring)
           r == [l EXCEPT !.retiring = rt]
<1>1. ASSUME NEW s \in Slots
      PROVE  /\ rt[s] \in RetiringRecord /\ rt[s].gen = l.retiring[s].gen /\ rt[s].done = l.retiring[s].done
             /\ rt[s].join = l.retiring[s].join /\ rt[s].err = l.retiring[s].err /\ rt[s].todo = l.retiring[s].todo
             /\ l.retiring[s].gen = 0 => rt[s] = l.retiring[s]
  <2>1. l.retiring[s] \in RetiringRecord
    BY LocalFields
  <2>2. rt[s] = IF l.retiring[s].gen = 0 THEN l.retiring[s] ELSE [l.retiring[s] EXCEPT !.action = "remove"]
    BY DEF Removing
  <2> QED BY <2>1, <2>2 DEF RetiringRecord
<1>2. rt \in [Slots -> RetiringRecord]
  <2>1. rt = [s \in Slots |-> rt[s]]
    BY DEF Removing
  <2> HIDE DEF rt
  <2> QED BY <1>1, <2>1
<1> HIDE DEF rt
<1>3. r \in LocalRecord /\ r.retiring = rt /\ r.slot = l.slot /\ r.gens = l.gens /\ r.worker = l.worker /\ r.routes = l.routes
  BY <1>2 DEF LocalRecord
<1> HIDE DEF r
<1>4. TidiedTo(l, r)
  <2>1. \A s \in Slots : /\ r.retiring[s].done => (~r.retiring[s].join /\ r.retiring[s].todo = {})
                         /\ r.retiring[s].join => ~r.retiring[s].err
    BY <1>1, <1>3 DEF LocalInv
  <2> QED BY <1>1, <1>3, <2>1, FenceIs DEF TidiedTo
<1>5. r = [l EXCEPT !.retiring = Removing(@)]
  BY DEF r, rt
<1> QED BY <1>1, <1>3, <1>4, <1>5

Erring(l) == (\E s \in Slots : l.retiring[s].err) \/ \E f \in Fences : l.worker[f].err

LEMMA DrainedIs ==
    ASSUME NEW l, NEW ch, NEW rs, NEW nt, NEW pd, NEW dt, Core(l, ch, rs, nt, pd, dt)
    PROVE  LET r == DrainedOf(l)
           IN /\ r \in LocalRecord /\ Core(r, <<>>, rs, {}, {}, dt)
              /\ \A s \in Slots : r.slot[s] = Vacant
              /\ Erring(l) => Erring(r)
              /\ KeepInv(l, rs, dt) => KeepInv(r, rs, dt)
<1> DEFINE ss == {s \in Slots : l.slot[s].state # "vacant"}
           act == [s \in Slots |-> "remove"]
           all == RetireSlots(l, ss, act)
           r == [all EXCEPT !.retiring = Removing(@)]
<1>1. l \in LocalRecord /\ LocalInv(l)
  BY DEF Core
<1>2. ss \in SUBSET Slots /\ \A s \in ss : l.slot[s].gen # 0
  BY <1>1, NotVacant
<1>3. \A s \in ss : act[s] \in {"reconcile", "report", "remove"}
  BY <1>2
<1>4. \A s \in Slots : s \notin ss => l.slot[s] = Vacant
  BY <1>1, NotVacant DEF LocalInv
<1> HIDE DEF ss, act
<1>5. all \in LocalRecord /\ RetiredTo(l, all, ss)
  BY <1>1, <1>2, <1>3, RetireIs
<1> HIDE DEF all
<1>6. Core(all, ch, rs, nt, pd, dt)
  BY <1>2, <1>5, RetireKeepsCore
<1>7. SameErrors(l, all) /\ \A s \in ss : l.retiring[s].todo = {}
  BY <1>1, <1>2, <1>5, RetireKeepsErrors
<1>8. KeepInv(l, rs, dt) => KeepInv(all, rs, dt)
  BY <1>1, <1>2, <1>5, <1>7, RetireKeepsKeepers
<1>9. /\ r \in LocalRecord /\ TidiedTo(all, r) /\ r.slot = all.slot /\ r.worker = all.worker
      /\ \A s \in Slots : r.retiring[s].err = all.retiring[s].err /\ r.retiring[s].todo = all.retiring[s].todo
  <2>1. LocalInv(all)
    BY <1>6 DEF Core
  <2> QED BY <1>5, <2>1, RemovingIs
<1>10. DrainedOf(l) = r
  BY DEF DrainedOf, r, all, ss, act
<1> HIDE DEF r
<1>11. Core(r, ch, rs, nt, pd, dt)
  BY <1>6, <1>9, TidyKeepsCore
<1>12. \A s \in Slots : r.slot[s] = Vacant
  BY <1>2, <1>4, <1>5, <1>9 DEF RetiredTo
<1>13. Core(r, <<>>, rs, {}, {}, dt)
  BY <1>11, <1>12, SilenceKeepsCore, ConstantsType
<1>14. Erring(l) => Erring(r)
  BY <1>7, <1>9 DEF Erring, SameErrors
<1>15. KeepInv(all, rs, dt) => KeepInv(r, rs, dt)
  BY <1>9 DEF KeepInv, Keeper
<1> QED BY <1>8, <1>9, <1>10, <1>12, <1>13, <1>14, <1>15

\* Every way out of the loop
LEMMA DrainKeeps ==
    ASSUME FlagsType, AnswerInv(dms, snap), NEW l, NEW ch, NEW nt, NEW pd,
           Core(l, ch, res, nt, pd, detached'),
           NEW why \in {"stop", "ended", "failed", "forced"}, Drain(l, why), UNCHANGED <<dmsVars, res, snap>>,
           StartRollsBack => ((CallsTimeOut => (why = "stop" /\ ~Erring(l))) => KeepInv(l, res, detached'))
    PROVE  IInv'
<1> DEFINE r == DrainedOf(l)
<1>1. /\ r \in LocalRecord /\ Core(r, <<>>, res, {}, {}, detached')
      /\ \A s \in Slots : r.slot[s] = Vacant
      /\ Erring(l) => Erring(r)
      /\ KeepInv(l, res, detached') => KeepInv(r, res, detached')
  BY DrainedIs
<1>2. /\ SetLocal(r) /\ chan' = <<>> /\ chanOpen' = FALSE /\ timers' = {}
      /\ regClosed' = (regClosed \/ why \in {"failed", "forced"}) /\ forcing' = (forcing /\ why # "forced")
      /\ phase' = "draining" /\ blocked' = NoSlot /\ exit' = why /\ failed' = FALSE
      /\ notices' = {} /\ pending' = {} /\ lapsed' = {}
  BY DEF Drain, DrainedOf, Removing
<1> HIDE DEF r
<1>3. Local' = r
  BY <1>1, <1>2, SetLocalIs
<1>4. FlagsType'
  BY <1>2 DEF FlagsType, dmsVars
<1>5. AnswerInv(dms, snap)' /\ res' = res
  BY DEF dmsVars
<1>6. \A s \in Slots : slot'[s].gen = 0
  BY <1>1, <1>3, LocalNextIs, ConstantsType
<1>7. PhaseInv'
  BY <1>2, <1>6 DEF PhaseInv
<1>8. Core(Local, chan, res, notices, pending, detached)'
  BY <1>1, <1>2, <1>3, <1>5
<1>9. SnapshotInv(Local, snap)'
  BY <1>1, <1>3, ConstantsType DEF SnapshotInv
<1>10. ASSUME StartRollsBack PROVE KeeperInv'
  <2>1. Trouble(Local)' <=> (CallsTimeOut /\ (why # "stop" \/ Erring(r)))
    BY <1>2, <1>3 DEF Trouble, Erring
  <2>2. ~Trouble(Local)' => KeepInv(Local', res', detached')
    BY <1>1, <1>3, <1>5, <1>10, <2>1
  <2> QED BY <2>2 DEF KeeperInv
<1> QED BY <1>4, <1>5, <1>7, <1>8, <1>9, <1>10 DEF IInv

LEMMA LeavingKeeps ==
    ASSUME IInv, phase # "panicked", NEW why \in {"stop", "ended", "failed", "forced"},
           why = "stop" => phase = "running", Drain(Local, why), UNCHANGED <<dmsVars, res, snap, detached>>
    PROVE  IInv'
<1>1. FlagsType /\ AnswerInv(dms, snap) /\ Core(Local, chan, res, notices, pending, detached') /\ PhaseInv
  BY DEF IInv
<1>2. ASSUME StartRollsBack, CallsTimeOut => (why = "stop" /\ ~Erring(Local))
      PROVE  KeepInv(Local, res, detached')
  <2>1. KeeperInv
    BY <1>2 DEF IInv
  <2>2. ~Trouble(Local)
    BY <1>1, <1>2 DEF Trouble, Erring, PhaseInv
  <2> QED BY <2>1, <2>2 DEF KeeperInv
<1> QED BY <1>1, <1>2, DrainKeeps

LEMMA LeavingSteps ==
    ASSUME IInv, Stop \/ ActorFails \/ AuthorityEnds \/ ForceShutdown
    PROVE  IInv'
<1>1. CASE Stop
  <2>1. phase = "running" /\ Drain(Local, "stop") /\ UNCHANGED <<dmsVars, res, snap, detached>>
    BY <1>1 DEF Stop
  <2> QED BY <2>1, LeavingKeeps
<1>2. CASE ActorFails
  <2>1. phase = "running" /\ Drain(Local, "failed") /\ UNCHANGED <<dmsVars, res, snap, detached>>
    BY <1>2 DEF ActorFails
  <2> QED BY <2>1, LeavingKeeps
<1>3. CASE AuthorityEnds
  <2>1. phase = "running" /\ Drain(Local, "ended") /\ UNCHANGED <<dmsVars, res, snap, detached>>
    BY <1>3 DEF AuthorityEnds
  <2> QED BY <2>1, LeavingKeeps
<1>4. CASE ForceShutdown
  <2>1. phase # "panicked" /\ Drain(Local, "forced") /\ UNCHANGED <<dmsVars, res, snap, detached>>
    BY <1>4 DEF ForceShutdown
  <2> QED BY <2>1, LeavingKeeps
<1> QED BY <1>1, <1>2, <1>3, <1>4

\* finish_retirement of a cleanup that is over
LEMMA ReapedIs ==
    ASSUME IInv, NEW s \in Slots, retiring[s].done
    PROVE  LET r == Reaped(s)
           IN /\ r \in LocalRecord /\ TidiedTo(Local, r) /\ Retiring(s)
              /\ r.slot = slot /\ r.gens = gens /\ r.worker = worker /\ r.routes = routes
              /\ r.retiring[s] = NotRetiring /\ \A u \in Slots : u # s => r.retiring[u] = retiring[u]
              /\ Core(r, chan, res, notices, pending, detached)
              /\ KeepInv(Local, res, detached) => KeepInv(r, res, detached)
<1> DEFINE r == Reaped(s)
<1>1. /\ Local \in LocalRecord /\ LocalInv(Local) /\ retiring \in [Slots -> RetiringRecord]
      /\ Core(Local, chan, res, notices, pending, detached)
  BY VariableTypes
<1>2. /\ r \in LocalRecord /\ r.slot = slot /\ r.gens = gens /\ r.worker = worker /\ r.routes = routes
      /\ r.retiring = [retiring EXCEPT ![s] = NotRetiring]
  BY <1>1, LocalIs, ConstantsType DEF Reaped, LocalRecord
<1>3. r.retiring[s] = NotRetiring /\ \A u \in Slots : u # s => r.retiring[u] = retiring[u]
  BY <1>1, <1>2
<1>4. Retiring(s) /\ ~retiring[s].join /\ retiring[s].todo = {}
  BY <1>1, LocalIs, ConstantsType DEF LocalInv, Retiring
<1> HIDE DEF r
<1>5. TidiedTo(Local, r)
  <2>1. \A u \in Slots : r.retiring[u] = NotRetiring \/
          /\ r.retiring[u].gen = Local.retiring[u].gen
          /\ Local.retiring[u].done => r.retiring[u].done
          /\ r.retiring[u].done => (~r.retiring[u].join /\ r.retiring[u].todo = {})
          /\ r.retiring[u].join => ~r.retiring[u].err
    BY <1>1, <1>3, LocalIs DEF LocalInv
  <2>2. \A u \in Slots : Local.retiring[u].gen = 0 => r.retiring[u] = Local.retiring[u]
    BY <1>3, <1>4, LocalIs DEF Retiring
  <2>3. \A g \in Fences :
          (r.worker[g].pc # "off" /\ Local.retiring[g[1]].gen = g[2] /\ Local.retiring[g[1]].join)
             => (r.retiring[g[1]].gen = g[2] /\ r.retiring[g[1]].join)
    BY <1>3, <1>4, LocalIs, FenceIs
  <2>4. \A u \in Slots, h \in Handles : h \in r.retiring[u].todo => h \in Local.retiring[u].todo
    BY <1>3, LocalIs, ConstantsType
  <2> QED BY <1>2, <2>1, <2>2, <2>3, <2>4, LocalIs DEF TidiedTo
<1>6. Core(r, chan, res, notices, pending, detached)
  BY <1>1, <1>2, <1>5, TidyKeepsCore
<1>7. KeepInv(Local, res, detached) => KeepInv(r, res, detached)
  BY <1>2, <1>3, <1>4, LocalIs DEF KeepInv, Keeper
<1> QED BY <1>2, <1>3, <1>4, <1>5, <1>6, <1>7 DEF r

LEMMA UnreapedIs ==
    ASSUME IInv, NEW s \in Slots, retiring[s].done
    PROVE  LET r == Unreaped(s)
           IN /\ r \in LocalRecord /\ Core(r, chan, res, notices, pending, detached)
              /\ KeepInv(Local, res, detached) => KeepInv(r, res, detached)
<1> DEFINE r == Unreaped(s)
<1>1. /\ Local \in LocalRecord /\ LocalInv(Local) /\ retiring \in [Slots -> RetiringRecord]
      /\ Core(Local, chan, res, notices, pending, detached) /\ retiring[s] \in RetiringRecord
  BY VariableTypes
<1> DEFINE x == [retiring[s] EXCEPT !.polled = TRUE]
<1>2. /\ x \in RetiringRecord /\ x.gen = retiring[s].gen /\ x.join = retiring[s].join /\ x.todo = retiring[s].todo
      /\ x.err = retiring[s].err /\ x.done = retiring[s].done
  BY <1>1 DEF RetiringRecord
<1>3. r = [Local EXCEPT !.retiring = [retiring EXCEPT ![s] = x]]
  BY LocalIs DEF Unreaped
<1> HIDE DEF x, r
<1>4. /\ r \in LocalRecord /\ r.slot = slot /\ r.gens = gens /\ r.worker = worker /\ r.routes = routes
      /\ r.retiring = [retiring EXCEPT ![s] = x]
  BY <1>1, <1>2, <1>3, LocalIs DEF LocalRecord
<1>5. \A u \in Slots : /\ r.retiring[u].gen = retiring[u].gen /\ r.retiring[u].join = retiring[u].join
                       /\ r.retiring[u].todo = retiring[u].todo /\ r.retiring[u].err = retiring[u].err
                       /\ r.retiring[u].done = retiring[u].done
  BY <1>1, <1>2, <1>4
<1>6. \A u \in Slots : retiring[u].gen = 0 => r.retiring[u] = retiring[u]
  <2>1. retiring[s].gen # 0
    BY <1>1, LocalIs, ConstantsType DEF LocalInv
  <2> QED BY <1>1, <1>4, <2>1
<1>7. TidiedTo(Local, r)
  <2>1. \A u \in Slots : /\ r.retiring[u].done => (~r.retiring[u].join /\ r.retiring[u].todo = {})
                         /\ r.retiring[u].join => ~r.retiring[u].err
    BY <1>1, <1>5, LocalIs DEF LocalInv
  <2> QED BY <1>4, <1>5, <1>6, <2>1, LocalIs, FenceIs DEF TidiedTo
<1>8. Core(r, chan, res, notices, pending, detached)
  BY <1>1, <1>4, <1>7, TidyKeepsCore
<1>9. KeepInv(Local, res, detached) => KeepInv(r, res, detached)
  BY <1>4, <1>5, LocalIs DEF KeepInv, Keeper
<1> QED BY <1>4, <1>8, <1>9 DEF r

\* A cleanup's result makes the actor leave its loop
LEMMA LeavingOnResult ==
    ASSUME IInv, phase # "panicked", NEW s \in Slots, retiring[s].done, NEW r \in {Reaped(s), Unreaped(s)},
           NEW why \in {"ended", "failed"}, Drain(r, why), UNCHANGED <<dmsVars, res, snap, detached>>
    PROVE  IInv'
<1>1. FlagsType /\ AnswerInv(dms, snap) /\ detached' = detached
  BY DEF IInv
<1>2. Core(r, chan, res, notices, pending, detached')
  BY <1>1, ReapedIs, UnreapedIs
<1>3. KeepInv(Local, res, detached) => KeepInv(r, res, detached')
  BY <1>1, ReapedIs, UnreapedIs
<1>4. ASSUME StartRollsBack, ~CallsTimeOut PROVE KeepInv(r, res, detached')
  BY <1>3, <1>4 DEF IInv, KeeperInv, Trouble
<1> QED BY <1>1, <1>2, <1>4, DrainKeeps

LEMMA RefusedStep ==
    ASSUME IInv, RefusedCleanupEnds
    PROVE  IInv'
<1> DEFINE r == IF retiring[blocked].err THEN Unreaped(blocked) ELSE Reaped(blocked)
<1>1. /\ phase = "awaiting" /\ retiring[blocked].done /\ Drain(r, "failed")
      /\ UNCHANGED <<dmsVars, res, snap, detached>>
  BY DEF RefusedCleanupEnds
<1>2. blocked \in Slots /\ r \in {Reaped(blocked), Unreaped(blocked)}
  BY <1>1 DEF IInv, PhaseInv
<1> HIDE DEF r
<1> QED BY <1>1, <1>2, LeavingOnResult

-----------------------------------------------------------------------------
(* Steps of the detached cleanups *)

LEMMA DetachedEndsStep ==
    ASSUME IInv, NEW h \in Handles, DetachedEnds(h)
    PROVE  IInv'
<1>0. /\ phase \in {"running", "draining"} /\ res[h].state = "gone" /\ res' = res /\ notices' = notices
      /\ detached' = detached \ {h} /\ UNCHANGED <<dmsVars, localVars, snap, lapsed, pending, queueVars, endVars>>
  BY DEF DetachedEnds, JoinsDetached, CancelEnds, transportVars
<1>1. /\ Local' = Local /\ chan' = chan /\ slot' = slot /\ timers' = timers /\ chanOpen' = chanOpen
      /\ phase' = phase /\ exit' = exit /\ failed' = failed /\ snap' = snap /\ lapsed' = lapsed /\ pending' = pending
      /\ UNCHANGED <<dmsVars, endVars>>
  BY <1>0 DEF localVars, queueVars, endVars, Local
<1>2. FlagsType' /\ AnswerInv(dms, snap)'
  BY <1>1, SameFlags DEF IInv
<1>3. PhaseInv'
  BY <1>0, <1>1, SamePhase DEF IInv
<1>4. Core(Local, chan, res, notices, pending, detached')
  <2>1. TidiedTo(Local, Local)
    BY VariableTypes DEF TidiedTo, LocalInv
  <2> QED BY <1>0, <2>1, VariableTypes, TidyKeepsCore
<1>5. Core(Local, chan, res, notices, pending, detached)'
  BY <1>0, <1>1, <1>4
<1>6. SnapshotInv(Local, snap)'
  BY <1>1 DEF IInv
<1>7. ASSUME StartRollsBack PROVE KeeperInv'
  <2>1. KeepInv(Local, res, detached) => KeepInv(Local', res', detached')
    BY <1>0, <1>1 DEF KeepInv, Keeper
  <2>2. SameErrors(Local, Local')
    BY <1>1 DEF SameErrors
  <2> QED BY <1>1, <1>7, <2>1, <2>2, SameKeepers DEF IInv
<1> QED BY <1>2, <1>3, <1>5, <1>6, <1>7 DEF IInv

LEMMA DetachedFailsStep ==
    ASSUME IInv, NEW h \in Handles, DetachedFails(h)
    PROVE  IInv'
<1>0. CallsTimeOut /\ res' = res /\ detached' = detached \ {h} /\ UNCHANGED <<dmsVars, snap>>
  BY DEF DetachedFails, CancelFails
<1>1. Core(Local, chan, res, notices, pending, detached')
  <2>1. TidiedTo(Local, Local)
    BY VariableTypes DEF TidiedTo, LocalInv
  <2> QED BY <1>0, <2>1, VariableTypes, TidyKeepsCore
<1>2. FlagsType /\ AnswerInv(dms, snap)
  BY DEF IInv
<1>3. CASE phase = "running" /\ Drain(Local, "failed")
  BY <1>0, <1>1, <1>2, <1>3, DrainKeeps
<1>4. CASE /\ phase = "draining" /\ failed' = TRUE
           /\ UNCHANGED <<localVars, queueVars, notices, lapsed, pending, regClosed, forcing, phase, blocked, exit>>
  <2>1. /\ Local' = Local /\ chan' = chan /\ slot' = slot /\ timers' = timers /\ chanOpen' = chanOpen
        /\ phase' = phase /\ exit' = exit /\ failed' = TRUE /\ snap' = snap /\ lapsed' = lapsed /\ pending' = pending
        /\ notices' = notices /\ regClosed' = regClosed /\ forcing' = forcing /\ blocked' = blocked
        /\ UNCHANGED <<dmsVars>>
    BY <1>0, <1>4 DEF localVars, queueVars, Local
  <2>2. FlagsType' /\ AnswerInv(dms, snap)'
    BY <1>2, <2>1 DEF FlagsType, dmsVars
  <2>3. PhaseInv'
    BY <1>4, <2>1 DEF IInv, PhaseInv
  <2>4. Core(Local, chan, res, notices, pending, detached)'
    BY <1>0, <1>1, <2>1
  <2>5. SnapshotInv(Local, snap)'
    BY <2>1 DEF IInv
  <2>6. KeeperInv'
    BY <1>0, <2>1 DEF KeeperInv, Trouble
  <2> QED BY <2>2, <2>3, <2>4, <2>5, <2>6 DEF IInv
<1> QED BY <1>3, <1>4 DEF DetachedFails

-----------------------------------------------------------------------------
(* The final drain *)

\* While the channel is closed nothing is published
LEMMA NothingPublished ==
    ASSUME IInv, ~chanOpen
    PROVE  routes = {} /\ chan = <<>>
<1>1. LocalInv(Local) /\ routes \subseteq Fences /\ PhaseInv
  BY VariableTypes DEF IInv
<1>2. \A f \in Fences : ~Current(Local, f)
  BY <1>1, NobodyCurrent, LocalIs
<1> QED BY <1>1, <1>2, LocalIs DEF LocalInv, PhaseInv

\* What the steps after the loop have in common
LEMMA DrainingKeeps ==
    ASSUME IInv, ~chanOpen, phase # "panicked",
           UNCHANGED <<dms, snap, lapsed, timers, chan, chanOpen, res, notices, pending, slot, exit>>,
           booked' \in BOOLEAN, regClosed' \in BOOLEAN, forcing' \in BOOLEAN, failed' \in BOOLEAN,
           blocked' = blocked,
           phase' \in {"draining", "deleting", "ended", "panicked"},
           phase' \in {"deleting", "ended"} => NothingLeft',
           phase' = "deleting" => ~failed',
           Core(Local', chan, res, notices, pending, detached'),
           phase' # "panicked" => /\ Trouble(Local) => Trouble(Local)'
                                  /\ KeepInv(Local, res, detached) => KeepInv(Local', res, detached')
    PROVE  IInv'
<1>1. FlagsType /\ PhaseInv /\ AnswerInv(dms, snap) /\ SnapshotInv(Local, snap)
  BY DEF IInv
<1>2. FlagsType' /\ AnswerInv(dms, snap)'
  BY <1>1 DEF FlagsType
<1>3. PhaseInv'
  BY <1>1 DEF PhaseInv
<1>4. Core(Local, chan, res, notices, pending, detached)'
  OBVIOUS
<1>5. SnapshotInv(Local, snap)'
  BY <1>1, LocalIs, LocalNextIs DEF SnapshotInv
<1>6. ASSUME StartRollsBack PROVE KeeperInv'
  BY <1>6 DEF KeeperInv, IInv
<1> QED BY <1>2, <1>3, <1>4, <1>5, <1>6 DEF IInv

LEMMA DrainOneStep ==
    ASSUME IInv, NEW s \in Slots, DrainOne(s)
    PROVE  IInv'
<1> DEFINE r == Reaped(s)
<1>1. /\ phase = "draining" /\ Retiring(s) /\ retiring[s].done /\ failed' = (failed \/ retiring[s].err) /\ SetLocal(r)
      /\ UNCHANGED <<dmsVars, transportVars, actorVars, queueVars, regClosed, forcing, phase, blocked, exit>>
  BY DEF DrainOne, DrainError
<1>2. /\ r \in LocalRecord /\ r.slot = slot /\ r.worker = worker
      /\ r.retiring[s] = NotRetiring /\ \A u \in Slots : u # s => r.retiring[u] = retiring[u]
      /\ Core(r, chan, res, notices, pending, detached)
      /\ KeepInv(Local, res, detached) => KeepInv(r, res, detached)
  BY <1>1, ReapedIs
<1> HIDE DEF r
<1>3. Local' = r
  BY <1>1, <1>2, SetLocalIs
<1>4. ~chanOpen /\ retiring[s].err \in BOOLEAN /\ FlagsType
  <2>1. retiring[s] \in RetiringRecord
    BY VariableTypes
  <2> QED BY <1>1, <2>1 DEF IInv, PhaseInv, RetiringRecord
<1>5. Trouble(Local) => Trouble(Local)'
  <2>1. Local'.worker = Local.worker /\ exit' = exit
    BY <1>1, <1>2, <1>3, LocalIs
  <2>2. \A u \in Slots : Local.retiring[u].err => (Local'.retiring[u].err \/ failed')
    BY <1>1, <1>2, <1>3, LocalIs
  <2>3. failed => failed'
    BY <1>1
  <2> QED BY <2>1, <2>2, <2>3 DEF Trouble
<1>6. /\ UNCHANGED <<dms, snap, lapsed, timers, chan, chanOpen, res, notices, pending, slot, exit, detached, blocked>>
      /\ booked' \in BOOLEAN /\ regClosed' \in BOOLEAN /\ forcing' \in BOOLEAN /\ failed' \in BOOLEAN
      /\ phase' = "draining" /\ phase # "panicked"
  BY <1>1, <1>2, <1>3, <1>4, LocalNextIs DEF dmsVars, transportVars, actorVars, queueVars, FlagsType
<1> QED BY <1>2, <1>3, <1>4, <1>5, <1>6, DrainingKeeps

LEMMA DrainPanicsStep ==
    ASSUME IInv, NEW s \in Slots, DrainPanics(s)
    PROVE  IInv'
<1> DEFINE rt == [t \in Slots |-> NotRetiring]
           wk == [f \in Fences |-> NoWorker]
           r == [Local EXCEPT !.routes = {}, !.retiring = rt, !.worker = wk]
<1>1. /\ phase = "draining" /\ phase' = "panicked" /\ regClosed' = TRUE /\ detached' = {} /\ SetLocal(r)
      /\ UNCHANGED <<dmsVars, transportVars, snap, lapsed, pending, queueVars, forcing, blocked, exit, failed>>
  BY DEF DrainPanics
<1>2. ~chanOpen /\ FlagsType /\ PhaseInv /\ Core(Local, chan, res, notices, pending, detached) /\ LocalInv(Local)
  BY <1>1, VariableTypes DEF IInv, PhaseInv
<1>3. \A f \in Fences : ~Current(Local, f)
  BY <1>2, NobodyCurrent, LocalIs
<1>4. /\ rt \in [Slots -> RetiringRecord] /\ wk \in [Fences -> WorkerRecord]
      /\ \A t \in Slots : rt[t] = NotRetiring
      /\ \A f \in Fences : wk[f] = NoWorker
  BY ConstantsType
<1> HIDE DEF rt, wk
<1>5. r \in LocalRecord /\ r.slot = slot /\ r.gens = gens /\ r.routes = {} /\ r.retiring = rt /\ r.worker = wk
  BY <1>4, VariableTypes, LocalIs DEF LocalRecord
<1> HIDE DEF r
<1>6. TidiedTo(Local, r)
  BY <1>2, <1>3, <1>4, <1>5, LocalIs, ConstantsType DEF TidiedTo, LocalInv
<1>7. Core(r, chan, res, notices, pending, detached')
  BY <1>1, <1>2, <1>5, <1>6, TidyKeepsCore
<1>8. Local' = r
  BY <1>1, <1>5, SetLocalIs
<1>9. /\ UNCHANGED <<dms, snap, lapsed, timers, chan, chanOpen, res, notices, pending, slot, exit, blocked>>
      /\ booked' \in BOOLEAN /\ regClosed' \in BOOLEAN /\ forcing' \in BOOLEAN /\ failed' \in BOOLEAN
      /\ phase' = "panicked" /\ phase # "panicked"
  BY <1>1, <1>2, <1>5, <1>8, LocalNextIs DEF dmsVars, transportVars, queueVars, FlagsType
<1> QED BY <1>2, <1>7, <1>8, <1>9, DrainingKeeps

\* The drain is over, and the booking is deleted
LEMMA EndingSteps ==
    ASSUME IInv, Drained \/ DeleteBooking
    PROVE  IInv'
<1>1. /\ phase \in {"draining", "deleting"} /\ NothingLeft /\ (phase = "deleting" => ~failed)
      /\ ~chanOpen /\ FlagsType
  BY DEF IInv, PhaseInv, Drained, DeleteBooking
<1>2. routes = {} /\ Core(Local, chan, res, notices, pending, detached)
  BY <1>1, NothingPublished, VariableTypes
<1>3. /\ UNCHANGED <<dms, snap, lapsed, timers, chan, chanOpen, res, notices, pending, slot, retiring, gens, worker, exit,
                     detached, blocked>>
      /\ booked' \in BOOLEAN /\ regClosed' \in BOOLEAN /\ forcing' \in BOOLEAN /\ failed' \in BOOLEAN
      /\ phase' \in {"deleting", "ended"} /\ (phase' = "deleting" => ~failed')
      /\ routes' = {} /\ (failed => failed')
  <2>1. CASE Drained
    BY <1>1, <1>2, <2>1 DEF Drained, Ends, dmsVars, transportVars, actorVars, queueVars, FlagsType
  <2>2. CASE DeleteBooking
    BY <1>1, <1>2, <2>2 DEF DeleteBooking, Ends, dmsVars, transportVars, actorVars, queueVars, FlagsType
  <2> QED BY <2>1, <2>2
<1>4. Local' = Local /\ NothingLeft'
  BY <1>1, <1>2, <1>3 DEF Local, NothingLeft, Retiring
<1>5. Trouble(Local) => Trouble(Local)'
  BY <1>3, <1>4 DEF Trouble
<1> QED BY <1>1, <1>2, <1>3, <1>4, <1>5, DrainingKeeps

\* fence_all from outside the actor
LEMMA FenceRegistryStep ==
    ASSUME IInv, FenceRegistry
    PROVE  IInv'
<1>1. /\ regClosed' = TRUE /\ forcing' = TRUE /\ routes' = {}
      /\ UNCHANGED <<dmsVars, transportVars, slot, retiring, gens, worker, actorVars, queueVars, phase, blocked, exit, failed>>
  BY DEF FenceRegistry
<1>2. /\ UNCHANGED <<dms, booked, snap, lapsed, timers, chan, chanOpen, res, notices, pending, detached>>
      /\ FlagsType /\ PhaseInv /\ AnswerInv(dms, snap) /\ SnapshotInv(Local, snap)
      /\ Core(Local, chan, res, notices, pending, detached)
  BY <1>1 DEF dmsVars, transportVars, actorVars, queueVars, IInv
<1>3. Local' \in LocalRecord
  BY <1>1, VariableTypes, LocalNextType
<1>4. /\ Local'.slot = Local.slot /\ Local'.retiring = Local.retiring /\ Local'.gens = Local.gens
      /\ Local'.worker = Local.worker /\ Local'.routes = {}
  BY <1>1, LocalIs, LocalNextIs
<1>5. TidiedTo(Local, Local')
  <2>1. LocalInv(Local)
    BY VariableTypes
  <2> QED BY <1>4, <2>1 DEF TidiedTo, LocalInv
<1>6. Core(Local', chan, res, notices, pending, detached)
  BY <1>2, <1>3, <1>5, TidyKeepsCore
<1>7. Core(Local, chan, res, notices, pending, detached)'
  BY <1>2, <1>6
<1>8. FlagsType' /\ AnswerInv(dms, snap)'
  BY <1>1, <1>2 DEF FlagsType
<1>9. PhaseInv'
  <2>1. NothingLeft' <=> NothingLeft
    BY <1>1, <1>2 DEF NothingLeft, Retiring
  <2>2. Calm(Local') <=> Calm(Local)
    BY <1>4 DEF Calm
  <2> QED BY <1>1, <1>2, <2>1, <2>2 DEF PhaseInv
<1>10. SnapshotInv(Local, snap)'
  BY <1>2, <1>4 DEF SnapshotInv
<1>11. ASSUME StartRollsBack PROVE KeeperInv'
  <2>1. KeepInv(Local, res, detached) => KeepInv(Local', res', detached')
    BY <1>2, <1>4 DEF KeepInv, Keeper
  <2>2. SameErrors(Local, Local')
    BY <1>4 DEF SameErrors
  <2> QED BY <1>1, <1>11, <2>1, <2>2, SameKeepers DEF IInv
<1> QED BY <1>7, <1>8, <1>9, <1>10, <1>11 DEF IInv

\* What a step of the actor's loop that stays in the loop owes the invariant
LEMMA HandledKeeps ==
    ASSUME IInv, phase = "running", UNCHANGED <<endVars, chanOpen>>,
           dms' \in Snapshot, snap' \in Snapshot, booked' \in BOOLEAN, lapsed' \subseteq Slots,
           timers' \subseteq Fences, AnswerInv(dms', snap'),
           Core(Local', chan', res', notices', pending', detached'), SnapshotInv(Local', snap'),
           SameErrors(Local, Local'),
           StartRollsBack => (KeepInv(Local, res, detached) => KeepInv(Local', res', detached'))
    PROVE  IInv'
<1>1. FlagsType /\ PhaseInv /\ phase' = phase /\ exit' = exit /\ failed' = failed /\ chanOpen
  BY DEF IInv, endVars, PhaseInv
<1>2. FlagsType'
  BY <1>1 DEF FlagsType, endVars
<1>3. PhaseInv'
  <2>1. Calm(Local) => Calm(Local')
    BY DEF Calm, SameErrors
  <2> QED BY <1>1, <2>1, SamePhase
<1>4. ASSUME StartRollsBack PROVE KeeperInv'
  BY <1>1, <1>4, SameKeepers DEF IInv
<1> QED BY <1>2, <1>3, <1>4 DEF IInv

\* ... when it does not concern the DMS
LEMMA HandledLocally ==
    ASSUME IInv, phase = "running", UNCHANGED <<dmsVars, snap, lapsed, endVars, chanOpen, timers>>,
           Core(Local', chan', res', notices', pending', detached'), SnapshotInv(Local', snap),
           SameErrors(Local, Local'),
           StartRollsBack => (KeepInv(Local, res, detached) => KeepInv(Local', res', detached'))
    PROVE  IInv'
<1>1. FlagsType /\ AnswerInv(dms, snap)
  BY DEF IInv
<1>2. /\ dms' = dms /\ snap' = snap
      /\ dms' \in Snapshot /\ snap' \in Snapshot /\ booked' \in BOOLEAN /\ lapsed' \subseteq Slots
      /\ timers' \subseteq Fences /\ UNCHANGED <<endVars, chanOpen>>
  BY <1>1 DEF FlagsType, dmsVars
<1> QED BY <1>1, <1>2, HandledKeeps

\* A timer puts its event into the channel, if it is still open
LEMMA TimerStep ==
    ASSUME IInv, NEW f \in Fences, TimerFires(f)
    PROVE  IInv'
<1> DEFINE e == Event("RetryFailure", f, NoHandle)
<1>1. /\ timers' = timers \ {f} /\ chan' = Sent(e)
      /\ UNCHANGED <<dmsVars, transportVars, localVars, actorVars, chanOpen, endVars>>
  BY DEF TimerFires
<1>2. /\ e \in EventRecord /\ e.kind = "RetryFailure" /\ e.h = NoHandle
      /\ chanOpen => Grown(chan, Sent(e), Len(chan) + 1, e)
      /\ ~chanOpen => Sent(e) = chan
  <2>1. "RetryFailure" \in EventKinds /\ NoHandle \in AnyHandle
    BY DEF EventKinds, AnyHandle
  <2> QED BY <2>1, SentIs
<1> HIDE DEF e
<1>3. /\ Local' = Local /\ slot' = slot /\ retiring' = retiring /\ res' = res /\ notices' = notices /\ pending' = pending
      /\ detached' = detached /\ snap' = snap /\ lapsed' = lapsed /\ chanOpen' = chanOpen /\ UNCHANGED <<dmsVars, endVars>>
      /\ phase' = phase /\ exit' = exit /\ failed' = failed
  BY <1>1 DEF localVars, transportVars, actorVars, endVars, Local
<1>4. Core(Local, chan', res, notices, pending, detached)
  <2>1. Core(Local, chan, res, notices, pending, detached)
    BY VariableTypes
  <2>2. CASE chanOpen
    <3>1. Grown(chan, chan', Len(chan) + 1, e)
      BY <1>1, <1>2, <2>2
    <3> QED BY <1>2, <2>1, <3>1, NoteKeepsCore
  <2>3. CASE ~chanOpen
    BY <1>1, <1>2, <2>1, <2>3
  <2> QED BY <2>2, <2>3
<1>5. Core(Local, chan, res, notices, pending, detached)'
  BY <1>3, <1>4
<1>6. FlagsType' /\ AnswerInv(dms, snap)'
  BY <1>1, <1>3 DEF IInv, FlagsType, dmsVars, endVars
<1>7. PhaseInv'
  <2>1. NothingLeft => NothingLeft'
    BY <1>3 DEF NothingLeft, Retiring
  <2>2. ~chanOpen => chan' = chan
    BY <1>1, <1>2
  <2> QED BY <1>3, <2>1, <2>2, SamePhase DEF IInv
<1>8. SnapshotInv(Local, snap)'
  BY <1>3 DEF IInv
<1>9. ASSUME StartRollsBack PROVE KeeperInv'
  <2>1. SameErrors(Local, Local')
    BY <1>3 DEF SameErrors
  <2> QED BY <1>3, <1>9, <2>1, SameKeepers DEF IInv
<1> QED BY <1>5, <1>6, <1>7, <1>8, <1>9 DEF IInv

-----------------------------------------------------------------------------
(* Steps of the DMS *)

\* An answer moves on from what the snapshot says
LEMMA ReassignedIs ==
    ASSUME dms \in Snapshot, snap \in Snapshot, AnswerInv(dms, snap),
           NEW s \in Slots, NEW epoch, NEW d \in Reassigned(s, epoch)
    PROVE  d \in Snapshot /\ AnswerInv(d, snap)
<1>1. CASE dms[s].epoch # epoch
  BY <1>1 DEF Reassigned
<1>2. CASE dms[s].epoch = epoch
  <2>1. PICK a \in IF epoch < MaxEpoch
                   THEN [epoch : {epoch + 1}, relay : Relays, ready : BOOLEAN]
                   ELSE {[dms[s] EXCEPT !.ready = FALSE]} :
           d = [dms EXCEPT ![s] = a] /\ DistinctProviders(d)
    BY <1>2 DEF Reassigned
  <2>2. dms[s] \in Assignments /\ dms[s].epoch \in 1..MaxEpoch /\ dms[s].epoch \in Nat /\ snap[s].epoch \in Nat
    BY BoundsAreNaturals DEF Snapshot, Assignments
  <2>3. a \in Assignments /\ (a.epoch = epoch + 1 \/ (a.epoch = epoch /\ a.relay = dms[s].relay))
    <3>1. CASE epoch < MaxEpoch
      BY <1>2, <2>1, <2>2, <3>1, BoundsAreNaturals DEF Assignments
    <3>2. CASE ~(epoch < MaxEpoch)
      BY <1>2, <2>1, <2>2, <3>2 DEF Assignments
    <3> QED BY <3>1, <3>2
  <2>4. d \in Snapshot /\ d[s] = a /\ \A t \in Slots : t # s => d[t] = dms[t]
    BY <2>1, <2>3 DEF Snapshot
  <2>5. \A t \in Slots : /\ snap[t].epoch <= d[t].epoch
                         /\ snap[t].epoch = d[t].epoch => snap[t].relay = d[t].relay
    <3>1. snap[s].epoch <= d[s].epoch /\ (snap[s].epoch = d[s].epoch => snap[s].relay = d[s].relay)
      BY <1>2, <2>2, <2>3, <2>4 DEF AnswerInv
    <3> QED BY <2>4, <3>1 DEF AnswerInv
  <2> QED BY <2>1, <2>4, <2>5 DEF AnswerInv
<1> QED BY <1>1, <1>2

LEMMA EnvKeeps ==
    ASSUME IInv, EnvFrame, dms' \in Snapshot, booked' \in BOOLEAN, lapsed' \subseteq Slots, AnswerInv(dms', snap)
    PROVE  IInv'
<1>1. /\ Local' = Local /\ slot' = slot /\ retiring' = retiring /\ res' = res /\ notices' = notices /\ pending' = pending
      /\ detached' = detached /\ snap' = snap /\ chan' = chan /\ chanOpen' = chanOpen /\ timers' = timers
      /\ UNCHANGED endVars /\ phase' = phase /\ exit' = exit /\ failed' = failed
  BY DEF EnvFrame, transportVars, localVars, queueVars, endVars, Local
<1>2. FlagsType' /\ AnswerInv(dms, snap)'
  BY <1>1 DEF IInv, FlagsType, endVars
<1>3. PhaseInv'
  <2>1. NothingLeft => NothingLeft'
    BY <1>1 DEF NothingLeft, Retiring
  <2> QED BY <1>1, <2>1, SamePhase DEF IInv
<1>4. Core(Local, chan, res, notices, pending, detached)' /\ SnapshotInv(Local, snap)'
  BY <1>1 DEF IInv
<1>5. ASSUME StartRollsBack PROVE KeeperInv'
  <2>1. SameErrors(Local, Local')
    BY <1>1 DEF SameErrors
  <2> QED BY <1>1, <1>5, <2>1, SameKeepers DEF IInv
<1> QED BY <1>2, <1>3, <1>4, <1>5 DEF IInv

LEMMA DMSSteps ==
    ASSUME IInv, DMSNext
    PROVE  IInv'
<1>0. FlagsType /\ AnswerInv(dms, snap)
  BY DEF IInv
<1>1. CASE EndBooking
  <2>1. EnvFrame /\ dms' = dms /\ lapsed' = lapsed /\ booked' = FALSE
    BY <1>1 DEF EndBooking
  <2> QED BY <1>0, <2>1, EnvKeeps DEF FlagsType
<1>2. ASSUME NEW s \in Slots, Reassign(s) PROVE IInv'
  <2>1. EnvFrame /\ dms' \in Reassigned(s, dms[s].epoch) /\ booked' = booked /\ lapsed' = lapsed
    BY <1>2 DEF Reassign
  <2>2. dms' \in Snapshot /\ AnswerInv(dms', snap)
    BY <1>0, <2>1, ReassignedIs DEF FlagsType
  <2> QED BY <1>0, <2>1, <2>2, EnvKeeps DEF FlagsType
<1>3. ASSUME NEW s \in Slots, BecomeReady(s) PROVE IInv'
  <2>1. EnvFrame /\ dms' = [dms EXCEPT ![s].ready = TRUE] /\ DistinctProviders(dms') /\ booked' = booked /\ lapsed' = lapsed
    BY <1>3 DEF BecomeReady
  <2>2. /\ dms' \in Snapshot
        /\ \A t \in Slots : dms'[t].epoch = dms[t].epoch /\ dms'[t].relay = dms[t].relay
    BY <1>0, <2>1 DEF FlagsType, Snapshot, Assignments
  <2>3. AnswerInv(dms', snap)
    <3>1. DistinctProviders(dms')
      BY <2>1
    <3> QED BY <1>0, <2>2, <3>1 DEF AnswerInv
  <2>4. EnvFrame /\ booked' = booked /\ lapsed' = lapsed
    BY <2>1
  <2> QED BY <1>0, <2>2, <2>3, <2>4, EnvKeeps DEF FlagsType
<1>4. ASSUME NEW s \in Slots, Lapse(s) PROVE IInv'
  <2>1. EnvFrame /\ dms' = dms /\ lapsed' = lapsed \cup {s} /\ booked' = booked
    BY <1>4 DEF Lapse, dmsVars
  <2> QED BY <1>0, <2>1, EnvKeeps DEF FlagsType
<1> QED BY <1>1, <1>2, <1>3, <1>4 DEF DMSNext

-----------------------------------------------------------------------------
(* Steps of the actor's loop *)

\* A retirement, with all that a step owes for it
LEMMA RetiringSlots ==
    ASSUME NEW l, NEW ch, NEW rs, NEW nt, NEW pd, NEW dt, Core(l, ch, rs, nt, pd, dt), NEW sn, SnapshotInv(l, sn),
           NEW ss \in SUBSET Slots, \A s \in ss : l.slot[s].state # "vacant",
           NEW action, \A s \in ss : action[s] \in {"reconcile", "report", "remove"}
    PROVE  LET r == RetireSlots(l, ss, action)
           IN /\ r \in LocalRecord /\ Core(r, ch, rs, nt, pd, dt) /\ SnapshotInv(r, sn) /\ SameErrors(l, r)
              /\ KeepInv(l, rs, dt) => KeepInv(r, rs, dt)
              /\ RetiredTo(l, r, ss)
<1> DEFINE r == RetireSlots(l, ss, action)
<1>1. l \in LocalRecord /\ LocalInv(l)
  BY DEF Core
<1>2. \A s \in ss : l.slot[s].gen # 0
  BY <1>1, NotVacant
<1>3. r \in LocalRecord /\ RetiredTo(l, r, ss)
  BY <1>1, RetireIs
<1> HIDE DEF r
<1>4. Core(r, ch, rs, nt, pd, dt)
  BY <1>2, <1>3, RetireKeepsCore
<1>5. SameErrors(l, r) /\ \A s \in ss : l.retiring[s].todo = {}
  BY <1>1, <1>2, <1>3, RetireKeepsErrors
<1>6. KeepInv(l, rs, dt) => KeepInv(r, rs, dt)
  BY <1>1, <1>3, <1>5, RetireKeepsKeepers
<1>7. SnapshotInv(r, sn)
  BY <1>1, <1>3, RetireKeepsKeepers
<1> QED BY <1>3, <1>4, <1>5, <1>6, <1>7 DEF r

\* A reservation that a slot or a worker of a current attempt holds
LEMMA HolderIs ==
    ASSUME NEW l, NEW ch, NEW rs, NEW nt, NEW pd, NEW dt, Core(l, ch, rs, nt, pd, dt),
           NEW h \in Handles, NEW s \in Slots, l.slot[s].handle = h
    PROVE  \A f \in Fences : Mentions(l, ch, h, f) => (f[1] = s /\ Current(l, f))
<1>1. l \in LocalRecord /\ LocalInv(l) /\ HandleInv(l, ch, rs, dt)
  BY DEF Core
<1>2. l.slot[s].gen # 0 /\ l.slot[s] \in SlotRecord
  BY <1>1, ConstantsType, GensAre, LocalFields DEF LocalInv
<1> DEFINE g == <<s, l.slot[s].gen>>
<1>3. g \in Fences /\ g[1] = s /\ g[2] = l.slot[s].gen
  BY <1>2, FenceIs DEF SlotRecord
<1> HIDE DEF g
<1>4. Current(l, g) /\ Mentions(l, ch, h, g)
  BY <1>3 DEF Current, Mentions
<1> QED BY <1>1, <1>3, <1>4 DEF HandleInv

\* observe_relay_failure
LEMMA ObserveStep ==
    ASSUME IInv, NEW h \in Handles, ObserveFailure(h)
    PROVE  IInv'
<1> DEFINE hit == ConfirmedFor(h)
           act == [s \in hit |-> "report"]
           r == RetireSlots(Local, hit, act)
           n2 == notices \ {h}
<1>0. /\ phase = "running" /\ notices' = n2 /\ res' = res /\ chan' = chan /\ detached' = detached
      /\ UNCHANGED <<dmsVars, snap, lapsed, endVars, chanOpen, timers>>
  BY DEF ObserveFailure, queueVars
<1>1. /\ Core(Local, chan, res, notices, pending, detached) /\ SnapshotInv(Local, snap)
      /\ Local \in LocalRecord /\ LocalInv(Local) /\ chan \in Seq(EventRecord)
  BY VariableTypes DEF IInv
<1>2. hit \in SUBSET Slots /\ \A s \in hit : Local.slot[s].state # "vacant" /\ Local.slot[s].handle = h
  BY LocalIs DEF ConfirmedFor
<1>3. \A s \in hit : act[s] \in {"reconcile", "report", "remove"}
  OBVIOUS
<1>4. \A s \in Slots : (Local.slot[s].state = "confirmed" /\ Local.slot[s].handle = h) => s \in hit
  BY LocalIs DEF ConfirmedFor
<1>5. CASE hit # {} /\ pending' = pending \ {h} /\ SetLocal(r)
  <2> DEFINE p2 == pending \ {h}
  <2> HIDE DEF hit, act
  <2>1. /\ r \in LocalRecord /\ Core(r, chan, res, notices, pending, detached) /\ SnapshotInv(r, snap)
        /\ SameErrors(Local, r)
        /\ KeepInv(Local, res, detached) => KeepInv(r, res, detached)
        /\ RetiredTo(Local, r, hit)
    BY <1>1, <1>2, <1>3, RetiringSlots
  <2>2. Local' = r
    BY <1>5, <2>1, SetLocalIs
  <2> HIDE DEF r
  <2>3. PICK s \in hit : s \in Slots /\ Local.slot[s].handle = h
    BY <1>2, <1>5
  <2>4. \A f \in Fences : Mentions(Local, chan, h, f) => f[1] = s
    BY <1>1, <2>3, HolderIs
  <2>5. \A f \in Fences : Current(r, f) => (f[1] # s /\ Current(Local, f))
    BY <2>1, <2>3, FenceIs, GensAre, ConstantsType DEF RetiredTo, Current
  <2>6. /\ \A u \in Slots : r.slot[u].state = "confirmed" => r.slot[u].handle # h
        /\ \A f \in Fences : Current(r, f) => r.worker[f].h # h
        /\ \A i \in DOMAIN chan : Current(r, chan[i].fence) => chan[i].h # h
    <3>1. \A u \in Slots : r.slot[u].state = "confirmed" => r.slot[u].handle # h
      BY <1>2, <1>4, <2>1, ConstantsType DEF RetiredTo
    <3>2. \A f \in Fences : Current(r, f) => r.worker[f].h # h
      BY <2>1, <2>4, <2>5 DEF RetiredTo, SameWorker, Mentions
    <3>3. \A i \in DOMAIN chan : Current(r, chan[i].fence) => chan[i].h # h
      BY <1>1, <2>4, <2>5, ChannelType DEF Mentions
    <3> QED BY <3>1, <3>2, <3>3
  <2>7. Core(r, chan, res, n2, p2, detached)
    <3>1. /\ n2 \cup p2 \subseteq notices \cup pending
          /\ \A k \in notices \cup pending : k # h => k \in n2 \cup p2
          /\ \A k \in notices : k # h => k \in n2
      OBVIOUS
    <3> HIDE DEF n2, p2
    <3> QED BY <2>1, <2>6, <3>1, PruneKeepsCore
  <2> QED BY <1>0, <1>5, <2>1, <2>2, <2>7, HandledLocally
<1>6. CASE hit = {} /\ pending' = Evidence(h) /\ UNCHANGED localVars
  <2> DEFINE p2 == Evidence(h)
  <2>1. Local' = Local
    BY <1>6 DEF localVars, Local
  <2>2. \A u \in Slots : Local.slot[u].state = "confirmed" => Local.slot[u].handle # h
    BY <1>4, <1>6
  <2>3. CASE \E s \in Slots : slot[s].state = "reserving" /\ slot[s].relay = res[h].relay
    <3>1. p2 = pending \cup {h}
      BY <2>3 DEF Evidence
    <3>2. /\ n2 \cup p2 \subseteq notices \cup pending
          /\ \A k \in notices \cup pending : k \in n2 \cup p2
          /\ \A k \in notices : k # h => k \in n2
      BY <3>1 DEF ObserveFailure
    <3> HIDE DEF n2, p2
    <3>3. Core(Local, chan, res, n2, p2, detached)
      BY <1>1, <2>2, <3>2, PruneKeepsCore
    <3>4. SameErrors(Local, Local)
      BY DEF SameErrors
    <3> QED BY <1>0, <1>1, <1>6, <2>1, <3>3, <3>4, HandledLocally DEF p2
  <2>4. CASE ~ \E s \in Slots : slot[s].state = "reserving" /\ slot[s].relay = res[h].relay
    <3>1. p2 = pending
      BY <2>4 DEF Evidence
    <3>2. /\ n2 \cup p2 \subseteq notices \cup pending
          /\ \A k \in notices \cup pending : k # h => k \in n2 \cup p2
          /\ \A k \in notices : k # h => k \in n2
      BY <3>1
    <3>3. RelayInv(Local, chan, res) /\ EventsInv(Local, chan)
      BY <1>1 DEF Core, ChannelInv
    <3>4. \A f \in Fences : (Current(Local, f) /\ Local.worker[f].pc = "confirmed") => Local.worker[f].h # h
      <4> SUFFICES ASSUME NEW f \in Fences, Current(Local, f), Local.worker[f].pc = "confirmed", Local.worker[f].h = h
                   PROVE  FALSE
        OBVIOUS
      <4>1. Local.slot[f[1]].state = "reserving" /\ f[1] \in Slots
        BY <1>1, WorkingIsReserving, FenceIs
      <4>2. Mentions(Local, chan, h, f)
        BY DEF Mentions
      <4>3. res[h].relay = Local.slot[f[1]].relay
        BY <3>3, <4>2 DEF RelayInv
      <4> QED BY <2>4, <4>1, <4>3, LocalIs
    <3>5. \A i \in DOMAIN chan : (Current(Local, chan[i].fence) /\ chan[i].kind = "Confirmed") => chan[i].h # h
      <4> SUFFICES ASSUME NEW i \in DOMAIN chan, Current(Local, chan[i].fence), chan[i].kind = "Confirmed", chan[i].h = h
                   PROVE  FALSE
        OBVIOUS
      <4>1. chan[i].fence \in Fences /\ chan[i].fence[1] \in Slots
        BY <1>1, ChannelType, FenceIs
      <4>2. Local.slot[chan[i].fence[1]].state = "reserving"
        BY <3>3 DEF EventsInv, WorkerKinds
      <4>3. Mentions(Local, chan, h, chan[i].fence)
        BY DEF Mentions
      <4>4. res[h].relay = Local.slot[chan[i].fence[1]].relay
        BY <3>3, <4>1, <4>3 DEF RelayInv
      <4> QED BY <2>4, <4>1, <4>2, <4>4, LocalIs
    <3> HIDE DEF n2, p2
    <3>6. Core(Local, chan, res, n2, p2, detached)
      BY <1>1, <2>2, <3>2, <3>4, <3>5, PruneKeepsCore
    <3>7. SameErrors(Local, Local)
      BY DEF SameErrors
    <3> QED BY <1>0, <1>1, <1>6, <2>1, <3>6, <3>7, HandledLocally DEF p2
  <2> QED BY <2>3, <2>4
<1> QED BY <1>5, <1>6 DEF ObserveFailure

LEMMA ExpireStep ==
    ASSUME IInv, ExpireLocalAuthority
    PROVE  IInv'
<1> DEFINE due == {s \in lapsed : slot[s].state \in {"reserving", "confirmed"}}
           act == [s \in due |-> "remove"]
           r == RetireSlots(Local, due, act)
<1>0. /\ phase = "running" /\ SetLocal(r)
      /\ UNCHANGED <<dmsVars, transportVars, actorVars, queueVars, endVars>>
  BY DEF ExpireLocalAuthority
<1>1. /\ UNCHANGED <<dmsVars, snap, lapsed, endVars, chanOpen, timers>> /\ phase = "running"
      /\ UNCHANGED <<chan, res, notices, pending, detached>>
  BY <1>0 DEF transportVars, actorVars, queueVars
<1>2. Core(Local, chan, res, notices, pending, detached) /\ SnapshotInv(Local, snap)
  BY DEF IInv
<1>3. due \in SUBSET Slots /\ (\A s \in due : Local.slot[s].state # "vacant")
      /\ \A s \in due : act[s] \in {"reconcile", "report", "remove"}
  BY LocalIs DEF IInv, FlagsType
<1>4. SetLocal(r)
  BY <1>0
<1> HIDE DEF due, act
<1>5. /\ r \in LocalRecord /\ Core(r, chan, res, notices, pending, detached) /\ SnapshotInv(r, snap)
      /\ SameErrors(Local, r)
      /\ KeepInv(Local, res, detached) => KeepInv(r, res, detached)
  BY <1>2, <1>3, RetiringSlots
<1> HIDE DEF r
<1>6. Local' = r
  BY <1>4, <1>5, SetLocalIs
<1> QED BY <1>1, <1>5, <1>6, HandledLocally

\* An answer of the DMS is applied to what the earlier parts of the step made of the actor's state
LEMMA AnswerKeeps ==
    ASSUME IInv, phase = "running", UNCHANGED <<endVars, chanOpen, res, detached>>,
           NEW l, NEW d \in Snapshot, dms' = d, booked' \in BOOLEAN, timers' \subseteq Fences,
           Core(l, chan', res, notices', pending', detached), SnapshotInv(l, snap), SameErrors(Local, l),
           StartRollsBack => (KeepInv(Local, res, detached) => KeepInv(l, res, detached)),
           AnswerInv(d, snap), ApplyAnswer(l, d)
    PROVE  IInv'
<1>1. PICK lp \in SUBSET IF "lapse" \in Disturbances THEN Slots ELSE {} :
         lapsed' = lp /\ SetLocal(ApplySnapshot(l, d, lp))
  BY DEF ApplyAnswer
<1>2. snap' = d /\ lapsed' \subseteq Slots
  BY <1>1 DEF ApplyAnswer
<1> DEFINE r == ApplySnapshot(l, d, lp)
<1>3. \A s \in Slots : d[s].epoch = snap[s].epoch => d[s].relay = snap[s].relay
  BY DEF AnswerInv
<1>4. /\ r \in LocalRecord /\ Core(r, chan', res, notices', pending', detached) /\ SnapshotInv(r, d)
      /\ SameErrors(l, r)
      /\ KeepInv(l, res, detached) => KeepInv(r, res, detached)
  BY <1>3, ApplyKeeps
<1>5. SetLocal(r)
  BY <1>1
<1> HIDE DEF r
<1>6. Local' = r
  BY <1>4, <1>5, SetLocalIs
<1>7. SameErrors(Local, r)
  BY <1>4 DEF SameErrors
<1>8. AnswerInv(d, d)
  <2>1. \A s \in Slots : d[s].epoch \in Nat
    BY DEF Snapshot, Assignments
  <2> QED BY <2>1 DEF AnswerInv
<1> QED BY <1>2, <1>4, <1>6, <1>7, <1>8, HandledKeeps

LEMMA RefreshStep ==
    ASSUME IInv, RefreshBooking
    PROVE  IInv'
<1>0. /\ phase = "running" /\ ApplyAnswer(Local, dms)
      /\ UNCHANGED <<dmsVars, transportVars, pending, detached, queueVars, endVars>>
  BY DEF RefreshBooking
<1>1. /\ Core(Local, chan, res, notices, pending, detached) /\ SnapshotInv(Local, snap) /\ AnswerInv(dms, snap)
      /\ dms \in Snapshot /\ booked \in BOOLEAN /\ timers \subseteq Fences
  BY DEF IInv, FlagsType
<1>2. /\ UNCHANGED <<endVars, chanOpen, res, detached>>
      /\ dms' = dms /\ booked' = booked /\ timers' = timers /\ chan' = chan /\ notices' = notices /\ pending' = pending
  BY <1>0 DEF dmsVars, transportVars, queueVars
<1>3. SameErrors(Local, Local)
  BY DEF SameErrors
<1> QED BY <1>0, <1>1, <1>2, <1>3, AnswerKeeps

-----------------------------------------------------------------------------
(* Steps of handle_child_event *)

\* What is known of the first event in the channel
HeadKnown(e) ==
    /\ e = chan[1] /\ 1 \in DOMAIN chan /\ e \in EventRecord /\ e.h \in AnyHandle
    /\ e.fence \in Fences /\ e.fence[1] \in Slots /\ e.fence[2] # 0
    /\ Shifted(chan, Tail(chan))
    /\ e.kind \in {"Started", "Confirmed", "Retrying"} => e.h \in Handles
    /\ (e.kind \in WorkerKinds /\ Current(Local, e.fence)) =>
          /\ slot[e.fence[1]].state = "reserving" /\ Fits(slot[e.fence[1]].handle, e)
          /\ snap[e.fence[1]].epoch = slot[e.fence[1]].epoch
          /\ IsReserving(e.fence)
    /\ e.kind \in {"Confirmed", "Failed"} =>
          /\ Silent(Tail(chan), e.fence)
          /\ worker[e.fence].h = NoHandle \/ worker[e.fence].h = e.h
    /\ e.h \in Handles =>
          /\ Mentions(Local, chan, e.h, e.fence) /\ res[e.h].state # "free"
          /\ \A f \in Fences : Mentions(Local, chan, e.h, f) => f = e.fence

LEMMA HeadFacts ==
    ASSUME IInv, chan # <<>>
    PROVE  HeadKnown(Head(chan))
<1> DEFINE e == Head(chan)
<1>0. /\ Core(Local, chan, res, notices, pending, detached) /\ chan \in Seq(EventRecord) /\ SnapshotInv(Local, snap)
      /\ LocalInv(Local)
  BY VariableTypes DEF IInv
<1>1. Shifted(chan, Tail(chan)) /\ e = chan[1] /\ 1 \in DOMAIN chan
  BY <1>0, TailIs DEF Shifted
<1>2. e \in EventRecord /\ e.h \in AnyHandle /\ e.fence \in Fences
  BY <1>0, <1>1, ChannelType DEF EventRecord
<1>3. e.fence[1] \in Slots /\ e.fence[2] # 0
  BY <1>2, FenceIs, GensAre
<1> HIDE DEF e
<1>4. EventsInv(Local, chan) /\ FinalInv(Local, chan) /\ StoryInv(Local, chan) /\ HandleInv(Local, chan, res, detached)
  BY <1>0 DEF Core, ChannelInv
<1>5. e.kind \in {"Started", "Confirmed", "Retrying"} => e.h \in Handles
  BY <1>1, <1>4 DEF EventsInv
<1>6. ASSUME e.kind \in WorkerKinds, Current(Local, e.fence)
      PROVE  /\ slot[e.fence[1]].state = "reserving" /\ Fits(slot[e.fence[1]].handle, e)
             /\ snap[e.fence[1]].epoch = slot[e.fence[1]].epoch /\ IsReserving(e.fence)
  <2>1. slot[e.fence[1]].state = "reserving"
    BY <1>1, <1>4, <1>6, LocalIs DEF EventsInv
  <2>2. ~Before(chan, 1, e.fence)
    BY <1>0, ChannelType DEF Before
  <2>3. Fits(slot[e.fence[1]].handle, e)
    BY <1>1, <1>4, <1>6, <2>2, LocalIs DEF StoryInv
  <2>4. snap[e.fence[1]].epoch = slot[e.fence[1]].epoch
    BY <1>0, <1>3, <2>1, LocalIs DEF SnapshotInv
  <2> QED BY <1>6, <2>1, <2>3, <2>4, LocalIs DEF IsReserving, IsCurrent, SnapshotHas, Current
<1>7. ASSUME e.kind \in {"Confirmed", "Failed"}
      PROVE  Silent(Tail(chan), e.fence) /\ (worker[e.fence].h = NoHandle \/ worker[e.fence].h = e.h)
  <2>1. ~After(chan, 1, e.fence) /\ (worker[e.fence].pc = "off" \/ worker[e.fence].h = e.h)
    BY <1>1, <1>4, <1>7, LocalIs DEF FinalInv
  <2>2. ShiftKept(chan, Tail(chan))
    BY <1>0, <1>1, ShiftFacts
  <2>3. worker[e.fence].pc = "off" => worker[e.fence].h = NoHandle
    BY <1>0, <1>2, LocalIs DEF LocalInv
  <2> QED BY <1>2, <2>1, <2>2, <2>3 DEF ShiftKept
<1>8. ASSUME e.h \in Handles
      PROVE  /\ Mentions(Local, chan, e.h, e.fence) /\ res[e.h].state # "free"
             /\ \A f \in Fences : Mentions(Local, chan, e.h, f) => f = e.fence
  <2>1. Mentions(Local, chan, e.h, e.fence)
    BY <1>1 DEF Mentions
  <2> QED BY <1>2, <1>4, <1>8, <2>1 DEF HandleInv
<1>9. HeadKnown(e)
  BY <1>1, <1>2, <1>3, <1>5, <1>6, <1>7, <1>8 DEF HeadKnown
<1> QED BY <1>9 DEF e

\* A handler that leaves the actor's own state alone
LEMMA HeardInVain ==
    ASSUME IInv, NEW l \in LocalRecord, Core(l, chan, res, notices, pending, detached), HeadKnown(Head(chan)),
           ~Current(l, Head(chan).fence) \/ Head(chan).kind \notin {"Started", "Retrying"}
    PROVE  Core(l, Tail(chan), res, notices, pending, detached)
<1>1. HeardTo(l, l, chan)
  BY DEF HeardTo, HeadKnown
<1> QED BY <1>1, HearingKeepsCore DEF HeadKnown

\* Evidence about a reservation that no current attempt mentions is dropped
LEMMA ForgetKeepsCore ==
    ASSUME NEW l, NEW ch, NEW rs, NEW nt, NEW pd, NEW dt, Core(l, ch, rs, nt, pd, dt),
           NEW h, \A f \in Fences : Mentions(l, ch, h, f) => ~Current(l, f)
    PROVE  Core(l, ch, rs, nt, pd \ {h}, dt)
<1> DEFINE p2 == pd \ {h}
<1>1. /\ nt \cup p2 \subseteq nt \cup pd
      /\ \A k \in nt \cup pd : k # h => k \in nt \cup p2
      /\ \A k \in nt : k \in nt
  OBVIOUS
<1>2. \A f \in Fences : Current(l, f) => l.worker[f].h # h
  BY DEF Mentions
<1>3. \A i \in DOMAIN ch : Current(l, ch[i].fence) => ch[i].h # h
  BY ChannelType DEF Mentions, Core
<1> HIDE DEF p2
<1>4. Core(l, ch, rs, nt, p2, dt)
  BY <1>1, <1>2, <1>3, PruneKeepsCore
<1> QED BY <1>4 DEF p2

\* The event of an older attempt: its reservation is cancelled on the side
LEMMA DisownedEvent ==
    ASSUME IInv, NEW e, e = Head(chan), HeadKnown(e), e.h \in Handles, ~Current(Local, e.fence)
    PROVE  /\ Core(Local, Tail(chan), res, notices, pending, detached \cup {e.h})
           /\ Core(Local, Tail(chan), res, notices, pending \ {e.h}, detached \cup {e.h})
<1>1. Local \in LocalRecord /\ Core(Local, chan, res, notices, pending, detached) /\ chan \in Seq(EventRecord)
  BY VariableTypes
<1>2. Core(Local, Tail(chan), res, notices, pending, detached)
  BY <1>1, HeardInVain
<1>3. \A f \in Fences : Mentions(Local, Tail(chan), e.h, f) => ~Current(Local, f)
  <2>1. \A f \in Fences : Mentions(Local, Tail(chan), e.h, f) => Mentions(Local, chan, e.h, f)
    BY DEF Mentions, HeadKnown, Shifted
  <2> QED BY <2>1 DEF HeadKnown
<1>4. Core(Local, Tail(chan), res, notices, pending, detached \cup {e.h})
  BY <1>2, <1>3, DisownKeepsCore DEF HeadKnown
<1>5. Core(Local, Tail(chan), res, notices, pending \ {e.h}, detached \cup {e.h})
  BY <1>3, <1>4, ForgetKeepsCore
<1> QED BY <1>4, <1>5

\* The three events that may come too late
LEMMA TooLateSteps ==
    ASSUME IInv, \/ OnStarted /\ ~StartsCurrent(Head(chan))
                 \/ ConfirmedTooLate \/ FailedTooLate
    PROVE  IInv'
<1> DEFINE e == Head(chan)
<1>0. /\ phase = "running" /\ chan # <<>> /\ e.kind \in WorkerKinds /\ chan' = Tail(chan)
      /\ UNCHANGED <<dmsVars, snap, lapsed, endVars, chanOpen, timers>>
      /\ Local' = Local /\ res' = res /\ notices' = notices
      /\ e.kind # "Retrying"
  BY DEF OnStarted, ConfirmedTooLate, FailedTooLate, Hears, Consumed, WorkerKinds, localVars, transportVars, Local
<1>1. HeadKnown(e)
  BY <1>0, HeadFacts
<1>2. ~Current(Local, e.fence)
  <2> SUFFICES ASSUME Current(Local, e.fence) PROVE FALSE
    OBVIOUS
  <2>1. slot[e.fence[1]].gen = e.fence[2]
    BY LocalIs DEF Current
  <2>2. slot[e.fence[1]].state = "reserving" /\ Fits(slot[e.fence[1]].handle, e) /\ IsReserving(e.fence)
    BY <1>0, <1>1 DEF HeadKnown
  <2> QED BY <2>1, <2>2 DEF OnStarted, ConfirmedTooLate, FailedTooLate, StartsCurrent, ConfirmsCurrent, Hears, Fits
<1>3. \/ e.h \in Handles /\ pending' \in {pending, pending \ {e.h}} /\ detached' = detached \cup {e.h}
      \/ e.h \notin Handles /\ pending' = pending /\ detached' = detached
  <2>1. CASE OnStarted /\ ~StartsCurrent(e)
    BY <1>1, <2>1 DEF OnStarted, Disown, Hears, HeadKnown
  <2>2. CASE ConfirmedTooLate
    BY <1>1, <2>2 DEF ConfirmedTooLate, Disown, Hears, HeadKnown
  <2>3. CASE FailedTooLate
    BY <1>1, <2>3, GensAre DEF FailedTooLate, HandleSet, HeadKnown, AnyHandle
  <2> QED BY <2>1, <2>2, <2>3
<1>4. Core(Local, chan', res, notices, pending', detached')
  <2>1. CASE e.h \in Handles /\ pending' \in {pending, pending \ {e.h}} /\ detached' = detached \cup {e.h}
    BY <1>0, <1>1, <1>2, <2>1, DisownedEvent
  <2>2. CASE e.h \notin Handles /\ pending' = pending /\ detached' = detached
    BY <1>0, <1>1, <1>2, <2>2, HeardInVain, VariableTypes
  <2> QED BY <1>3, <2>1, <2>2
<1>5. KeepInv(Local, res, detached) => KeepInv(Local, res, detached')
  BY <1>3 DEF KeepInv, Keeper
<1>6. SameErrors(Local, Local) /\ SnapshotInv(Local, snap)
  BY DEF SameErrors, IInv
<1> HIDE DEF e
<1> QED BY <1>0, <1>4, <1>5, <1>6, HandledLocally

\* Two reserving attempts with reservations of one relay are one
LEMMA OneAttemptPerRelay ==
    ASSUME IInv, NEW f \in Fences, NEW g \in Fences, Current(Local, f), Current(Local, g),
           slot[f[1]].state = "reserving", slot[g[1]].state = "reserving",
           NEW h \in Handles, NEW k \in Handles, Mentions(Local, chan, h, f), Mentions(Local, chan, k, g),
           res[h].relay = res[k].relay
    PROVE  f = g
<1>1. RelayInv(Local, chan, res) /\ SnapshotInv(Local, snap) /\ DistinctProviders(snap)
  BY DEF IInv, Core, AnswerInv
<1>2. f[1] \in Slots /\ g[1] \in Slots
  BY FenceIs
<1>3. Local.slot[f[1]].relay = Local.slot[g[1]].relay
  BY <1>1 DEF RelayInv
<1>4. /\ snap[f[1]].ready /\ snap[f[1]].relay = Local.slot[f[1]].relay
      /\ snap[g[1]].ready /\ snap[g[1]].relay = Local.slot[g[1]].relay
  BY <1>1, <1>2, LocalIs DEF SnapshotInv
<1>5. f[1] = g[1]
  BY <1>1, <1>2, <1>3, <1>4 DEF DistinctProviders
<1> QED BY <1>5, FenceIs DEF Current

\* A slot gets another handle
LEMMA HeldIs ==
    ASSUME NEW sl \in [Slots -> SlotRecord], NEW s \in Slots, NEW h \in AnyHandle,
           NEW v, v = [sl EXCEPT ![s].handle = h]
    PROVE  /\ v \in [Slots -> SlotRecord]
           /\ \A t \in Slots : t # s => v[t] = sl[t]
           /\ v[s].gen = sl[s].gen /\ v[s].state = sl[s].state /\ v[s].epoch = sl[s].epoch
           /\ v[s].relay = sl[s].relay /\ v[s].worker = sl[s].worker /\ v[s].handle = h
BY DEF SlotRecord

LEMMA StartedStep ==
    ASSUME IInv, OnStarted, StartsCurrent(Head(chan))
    PROVE  IInv'
<1> DEFINE e == Head(chan)
           s == e.fence[1]
           c == Tail(chan)
           p2 == {h \in pending : ~Superseded(h, e.h)}
<1>0. /\ phase = "running" /\ chan # <<>> /\ e.kind = "Started" /\ chan' = c /\ pending' = p2
      /\ UNCHANGED <<dmsVars, snap, lapsed, endVars, chanOpen, timers>>
      /\ res' = res /\ notices' = notices /\ detached' = detached
      /\ slot' = [slot EXCEPT ![s].handle = e.h] /\ UNCHANGED <<retiring, gens, worker, routes>>
  BY DEF OnStarted, Hears, Consumed, transportVars
<1>1. HeadKnown(e)
  BY <1>0, HeadFacts
<1>2. /\ e.fence \in Fences /\ s \in Slots /\ e.h \in Handles /\ e.h \in AnyHandle /\ e = chan[1] /\ 1 \in DOMAIN chan
      /\ Shifted(chan, c) /\ Mentions(Local, chan, e.h, e.fence)
  BY <1>0, <1>1 DEF HeadKnown
<1>3. Current(Local, e.fence) /\ slot[s].state = "reserving" /\ slot[s].handle = NoHandle
  BY LocalIs DEF StartsCurrent, Current
<1>4. /\ Core(Local, chan, res, notices, pending, detached) /\ SnapshotInv(Local, snap) /\ LocalInv(Local)
      /\ slot \in [Slots -> SlotRecord] /\ retiring \in [Slots -> RetiringRecord]
      /\ gens \in [Slots -> 0..MaxGen] /\ worker \in [Fences -> WorkerRecord] /\ routes \in SUBSET Fences
      /\ Local \in LocalRecord /\ chan \in Seq(EventRecord)
  BY VariableTypes DEF IInv
<1> HIDE DEF e, s, c, p2
<1>5. /\ slot' \in [Slots -> SlotRecord]
      /\ \A t \in Slots : t # s => slot'[t] = slot[t]
      /\ slot'[s].gen = slot[s].gen /\ slot'[s].state = slot[s].state /\ slot'[s].epoch = slot[s].epoch
      /\ slot'[s].relay = slot[s].relay /\ slot'[s].worker = slot[s].worker /\ slot'[s].handle = e.h
  <2>1. slot' = [slot EXCEPT ![s].handle = e.h] /\ s \in Slots /\ e.h \in AnyHandle
        /\ slot \in [Slots -> SlotRecord]
    BY <1>0, <1>2, <1>4
  <2>2. \A h \in AnyHandle : slot' = [slot EXCEPT ![s].handle = h] =>
        /\ slot' \in [Slots -> SlotRecord]
        /\ \A t \in Slots : t # s => slot'[t] = slot[t]
        /\ slot'[s].gen = slot[s].gen /\ slot'[s].state = slot[s].state /\ slot'[s].epoch = slot[s].epoch
        /\ slot'[s].relay = slot[s].relay /\ slot'[s].worker = slot[s].worker /\ slot'[s].handle = h
    BY <2>1, HeldIs
  <2> QED BY <2>1, <2>2
<1>6. Local' \in LocalRecord
  BY <1>0, <1>4, <1>5, LocalNextType
<1>7. HeardTo(Local, Local', chan)
  BY <1>0, <1>2, <1>3, <1>5, LocalIs, LocalNextIs DEF HeardTo, Held, WorkerKinds, s
<1>8. Core(Local', c, res, notices, pending, detached)
  BY <1>2, <1>4, <1>6, <1>7, HearingKeepsCore
<1>9. \A f \in Fences : Current(Local', f) <=> Current(Local, f)
  BY <1>5, LocalIs, LocalNextIs, FenceIs DEF Current
<1>10. OrderInv(Local, chan, res)
  BY <1>4 DEF Core
<1>11. p2 \subseteq pending /\ \A k \in pending : k \notin p2 => (k < e.h /\ res[k].relay = res[e.h].relay)
  BY DEF p2, Superseded
<1>12. Core(Local', c, res, notices, p2, detached)
  <2>1. notices \cup p2 \subseteq notices \cup pending
    BY <1>11
  <2>2. ASSUME NEW f \in Fences, Current(Local', f), Local'.worker[f].pc = "confirmed",
               Local'.worker[f].h \in notices \cup pending
        PROVE  Local'.worker[f].h \in notices \cup p2
    <3> DEFINE k == Local'.worker[f].h
    <3> SUFFICES ASSUME k \in pending, k \notin p2 PROVE FALSE
      BY <2>2
    <3>1. /\ Current(Local, f) /\ Local.worker[f].pc = "confirmed" /\ Local.worker[f].h = k /\ k \in Handles
          /\ k < e.h /\ res[k].relay = res[e.h].relay
      BY <1>0, <1>4, <1>9, <1>11, <2>2, LocalIs, LocalNextIs DEF Core
    <3>2. slot[f[1]].state = "reserving"
      BY <1>4, <3>1, WorkingIsReserving, LocalIs
    <3>3. Mentions(Local, chan, k, f)
      BY <3>1 DEF Mentions
    <3> HIDE DEF k
    <3>4. f = e.fence
      BY <1>2, <1>3, <3>1, <3>2, <3>3, OneAttemptPerRelay DEF s
    <3>5. IsEvent(chan, 1, e.fence)
      BY <1>0, <1>2 DEF IsEvent, WorkerKinds
    <3>6. e.h <= k
      BY <1>2, <1>10, <3>1, <3>4, <3>5 DEF OrderInv
    <3> QED BY <1>2, <3>1, <3>6, GensAre
  <2>3. ASSUME NEW i \in DOMAIN c, Current(Local', c[i].fence), c[i].kind = "Confirmed",
               c[i].h \in notices \cup pending
        PROVE  c[i].h \in notices \cup p2
    <3> DEFINE k == c[i].h
               f == c[i].fence
    <3> SUFFICES ASSUME k \in pending, k \notin p2 PROVE FALSE
      BY <2>3
    <3>1. i \in Nat /\ i + 1 \in DOMAIN chan /\ c[i] = chan[i + 1] /\ 1 < i + 1
      BY <1>2 DEF Shifted
    <3>2. f \in Fences /\ k \in Handles /\ k < e.h /\ res[k].relay = res[e.h].relay /\ Current(Local, f)
      BY <1>4, <1>9, <1>11, <2>3, <3>1, ChannelType DEF Core
    <3>3. slot[f[1]].state = "reserving"
      BY <1>4, <2>3, <3>1, <3>2, LocalIs DEF Core, ChannelInv, EventsInv, WorkerKinds
    <3>4. Mentions(Local, chan, k, f)
      BY <3>1 DEF Mentions
    <3>5. chan[i + 1].fence = f /\ chan[i + 1].h = k /\ chan[i + 1].kind \in WorkerKinds
      BY <2>3, <3>1 DEF WorkerKinds
    <3> HIDE DEF k, f
    <3>6. f = e.fence
      BY <1>2, <1>3, <3>2, <3>3, <3>4, OneAttemptPerRelay DEF s
    <3>7. IsEvent(chan, i + 1, chan[1].fence) /\ chan[1].kind \in WorkerKinds
      BY <1>0, <1>2, <3>5, <3>6 DEF IsEvent, WorkerKinds
    <3>8. e.h <= k
      BY <1>2, <1>10, <3>1, <3>2, <3>5, <3>7 DEF OrderInv
    <3> QED BY <1>2, <3>2, <3>8, GensAre
  <2> QED BY <1>8, <2>1, <2>2, <2>3, PruneKeepsCore
<1>13. SnapshotInv(Local', snap) /\ SameErrors(Local, Local')
  BY <1>0, <1>4, <1>5, LocalIs, LocalNextIs DEF SnapshotInv, SameErrors
<1>14. KeepInv(Local, res, detached) => KeepInv(Local', res, detached)
  <2>1. \A h \in Handles, t \in Slots : slot[t].handle = h => slot'[t].handle = h
    BY <1>3, <1>5, GensAre
  <2> QED BY <1>0, <2>1, LocalIs, LocalNextIs DEF KeepInv, Keeper
<1> QED BY <1>0, <1>12, <1>13, <1>14, HandledLocally

\* The actor handles the last word of a current attempt: its worker is joined, and the
\* slot holds the handle that the event names.
EndedTo(l, r, f, h) ==
    /\ r.gens = l.gens /\ r.retiring = l.retiring /\ r.routes = l.routes
    /\ \A s \in Slots : s # f[1] => r.slot[s] = l.slot[s]
    /\ r.slot[f[1]].gen = l.slot[f[1]].gen /\ r.slot[f[1]].state = l.slot[f[1]].state
    /\ r.slot[f[1]].epoch = l.slot[f[1]].epoch /\ r.slot[f[1]].relay = l.slot[f[1]].relay
    /\ r.slot[f[1]].handle = h /\ r.slot[f[1]].worker = FALSE
    /\ \A g \in Fences : g # f => r.worker[g] = l.worker[g]
    /\ r.worker[f].pc = "off" /\ r.worker[f].h = NoHandle /\ r.worker[f].err = FALSE

LastWord(e) ==
    /\ e = Head(chan) /\ HeadKnown(e) /\ e.kind \in {"Confirmed", "Failed"}
    /\ Current(Local, e.fence) /\ phase = "running"

LEMMA LastWordIs ==
    ASSUME IInv, NEW e, LastWord(e)
    PROVE  /\ e.fence \in Fences /\ e.fence[1] \in Slots /\ e.fence[2] # 0 /\ e.h \in AnyHandle
           /\ Silent(Tail(chan), e.fence) /\ Shifted(chan, Tail(chan)) /\ e = chan[1] /\ 1 \in DOMAIN chan
           /\ slot[e.fence[1]].state = "reserving" /\ slot[e.fence[1]].gen = e.fence[2]
           /\ slot[e.fence[1]].handle \in {NoHandle, e.h}
           /\ worker[e.fence].h \in {NoHandle, e.h} /\ ~worker[e.fence].err
           /\ e.kind = "Confirmed" => (e.h \in Handles /\ slot[e.fence[1]].handle = e.h)
<1>1. e.kind \in WorkerKinds
  BY DEF LastWord, WorkerKinds
<1>2. Fits(slot[e.fence[1]].handle, e) /\ slot[e.fence[1]].state = "reserving"
  BY <1>1 DEF LastWord, HeadKnown
<1>3. chanOpen /\ e.fence \in Fences
  BY DEF LastWord, HeadKnown, IInv, PhaseInv
<1>4. ~Local.worker[e.fence].err
  BY <1>3 DEF IInv, PhaseInv, Calm
<1> QED BY <1>2, <1>4, LocalIs DEF LastWord, HeadKnown, Fits, Current

LEMMA EndedKeeps ==
    ASSUME IInv, NEW e, LastWord(e), NEW r \in LocalRecord, EndedTo(Local, r, e.fence, e.h)
    PROVE  /\ Core(r, Tail(chan), res, notices, pending, detached)
           /\ SnapshotInv(r, snap) /\ SameErrors(Local, r) /\ Current(r, e.fence)
           /\ KeepInv(Local, res, detached) => KeepInv(r, res, detached)
           /\ e.h \in Handles => \A g \in Fences : Mentions(r, Tail(chan), e.h, g) => g = e.fence
<1> DEFINE s == e.fence[1]
           c == Tail(chan)
           sl == [slot EXCEPT ![s].handle = e.h]
           r0 == [slot |-> sl, retiring |-> retiring, gens |-> gens, worker |-> worker, routes |-> routes]
<1>1. /\ e.fence \in Fences /\ s \in Slots /\ e.fence[2] # 0 /\ e.h \in AnyHandle
      /\ Silent(c, e.fence) /\ Shifted(chan, c) /\ e = chan[1] /\ 1 \in DOMAIN chan
      /\ slot[s].state = "reserving" /\ slot[s].gen = e.fence[2]
      /\ slot[s].handle \in {NoHandle, e.h}
      /\ worker[e.fence].h \in {NoHandle, e.h} /\ ~worker[e.fence].err
  BY LastWordIs
<1>2. /\ Core(Local, chan, res, notices, pending, detached) /\ SnapshotInv(Local, snap)
      /\ slot \in [Slots -> SlotRecord] /\ retiring \in [Slots -> RetiringRecord]
      /\ gens \in [Slots -> 0..MaxGen] /\ worker \in [Fences -> WorkerRecord] /\ routes \in SUBSET Fences
  BY VariableTypes DEF IInv
<1>3. /\ r0.slot = sl /\ r0.retiring = Local.retiring /\ r0.gens = Local.gens /\ r0.worker = Local.worker
      /\ r0.routes = Local.routes
  BY LocalIs
<1> HIDE DEF s, c
<1>4. /\ sl \in [Slots -> SlotRecord] /\ \A t \in Slots : t # s => sl[t] = slot[t]
      /\ sl[s].gen = slot[s].gen /\ sl[s].state = slot[s].state /\ sl[s].epoch = slot[s].epoch
      /\ sl[s].relay = slot[s].relay /\ sl[s].worker = slot[s].worker /\ sl[s].handle = e.h
  BY <1>1, <1>2 DEF SlotRecord
<1> HIDE DEF sl
<1>5. r0 \in LocalRecord
  BY <1>2, <1>4 DEF LocalRecord
<1> HIDE DEF r0
<1>6. HeardTo(Local, r0, chan)
  <2>1. chan[1].kind \in WorkerKinds /\ chan[1].kind \notin {"Started", "Retrying"} /\ Current(Local, chan[1].fence)
    BY <1>1 DEF LastWord, WorkerKinds
  <2>2. \A t \in Slots : t # s => r0.slot[t] = Local.slot[t]
    BY <1>3, <1>4, LocalIs
  <2>3. /\ r0.slot[s].gen = Local.slot[s].gen /\ r0.slot[s].state = Local.slot[s].state
        /\ r0.slot[s].epoch = Local.slot[s].epoch /\ r0.slot[s].relay = Local.slot[s].relay
        /\ r0.slot[s].worker = Local.slot[s].worker /\ r0.slot[s].handle = e.h
    BY <1>3, <1>4, LocalIs
  <2> QED BY <1>1, <1>3, <2>1, <2>2, <2>3 DEF HeardTo, s
<1>7. Core(r0, c, res, notices, pending, detached)
  BY <1>1, <1>2, <1>5, <1>6, HearingKeepsCore
<1>8. Current(r0, e.fence)
  BY <1>1, <1>3, <1>4 DEF Current, s
<1>9. JoinedTo(r0, r, e.fence)
  BY <1>3, <1>4, LocalIs DEF EndedTo, JoinedTo, s
<1>10. Core(r, c, res, notices, pending, detached)
  BY <1>1, <1>7, <1>8, <1>9, JoinKeepsCore
<1>11. Current(r, e.fence)
  BY <1>1, LocalIs DEF EndedTo, Current, s
<1>12. SnapshotInv(r, snap) /\ SameErrors(Local, r)
  <2>1. SnapshotInv(r, snap)
    BY <1>1, <1>2 DEF SnapshotInv, EndedTo, s
  <2>2. SameErrors(Local, r)
    BY <1>1, LocalIs DEF SameErrors, EndedTo, s
  <2> QED BY <2>1, <2>2
<1>13. KeepInv(Local, res, detached) => KeepInv(r, res, detached)
  <2>1. ASSUME NEW h \in Handles, Keeper(Local, detached, h) PROVE Keeper(r, detached, h)
    <3>0. h # NoHandle
      BY GensAre
    <3>1. CASE \E t \in Slots : Local.slot[t].handle = h
      <4>1. PICK t \in Slots : Local.slot[t].handle = h
        BY <3>1
      <4>2. r.slot[t].handle = h
        BY <1>1, <3>0, <4>1, LocalIs DEF EndedTo, s
      <4> QED BY <4>2 DEF Keeper
    <3>2. CASE \E t \in Slots : h \in Local.retiring[t].todo
      BY <3>2 DEF Keeper, EndedTo
    <3>3. CASE \E g \in Fences : Local.worker[g].h = h
      <4>1. PICK g \in Fences : Local.worker[g].h = h
        BY <3>3
      <4>2. g # e.fence => r.worker[g].h = h
        BY <4>1 DEF EndedTo
      <4>3. g = e.fence => r.slot[s].handle = h
        BY <1>1, <3>0, <4>1, LocalIs DEF EndedTo, s
      <4> QED BY <1>1, <4>2, <4>3 DEF Keeper
    <3> QED BY <2>1, <3>1, <3>2, <3>3 DEF Keeper
  <2> QED BY <2>1 DEF KeepInv
<1>14. ASSUME e.h \in Handles, NEW g \in Fences, Mentions(r, c, e.h, g), g # e.fence PROVE FALSE
  <2>1. \A h \in Fences : Mentions(Local, chan, e.h, h) => h = e.fence
    BY <1>14 DEF LastWord, HeadKnown
  <2>2. Mentions(Local, chan, e.h, g)
    <3>1. CASE r.worker[g].h = e.h
      BY <1>14, <3>1 DEF Mentions, EndedTo
    <3>2. CASE \E i \in DOMAIN c : c[i].fence = g /\ c[i].h = e.h
      BY <1>1, <3>2 DEF Mentions, Shifted
    <3>3. CASE Current(r, g) /\ r.slot[g[1]].handle = e.h
      <4>1. g[1] \in Slots /\ g[1] # s
        BY <1>1, <1>11, <1>14, <3>3, FenceIs DEF Current, s
      <4> QED BY <3>3, <4>1 DEF Mentions, EndedTo, Current, s
    <3> QED BY <1>14, <3>1, <3>2, <3>3 DEF Mentions
  <2> QED BY <1>14, <2>1, <2>2
<1> QED BY <1>10, <1>11, <1>12, <1>13, <1>14 DEF c

\* ... and the slot is retired
LEMMA EndedAndRetired ==
    ASSUME IInv, NEW e, LastWord(e), NEW r \in LocalRecord, EndedTo(Local, r, e.fence, e.h),
           NEW a \in {"reconcile", "report", "remove"}
    PROVE  LET q == Retire(r, e.fence[1], a)
           IN /\ q \in LocalRecord /\ Core(q, Tail(chan), res, notices, pending, detached)
              /\ Core(q, Tail(chan), res, notices, pending \ {e.h}, detached)
              /\ SnapshotInv(q, snap) /\ SameErrors(Local, q)
              /\ KeepInv(Local, res, detached) => KeepInv(q, res, detached)
<1> DEFINE s == e.fence[1]
           c == Tail(chan)
           act == [t \in {s} |-> a]
           q == RetireSlots(r, {s}, act)
<1>1. /\ e.fence \in Fences /\ s \in Slots /\ e.fence[2] # 0 /\ e.h \in AnyHandle /\ slot[s].state = "reserving"
  BY LastWordIs
<1>2. /\ Core(r, c, res, notices, pending, detached)
      /\ SnapshotInv(r, snap) /\ SameErrors(Local, r) /\ Current(r, e.fence)
      /\ KeepInv(Local, res, detached) => KeepInv(r, res, detached)
      /\ e.h \in Handles => \A g \in Fences : Mentions(r, c, e.h, g) => g = e.fence
  BY EndedKeeps
<1>3. /\ {s} \in SUBSET Slots /\ \A t \in {s} : r.slot[t].state # "vacant"
      /\ \A t \in {s} : act[t] \in {"reconcile", "report", "remove"}
  BY <1>1, LocalIs DEF EndedTo
<1> HIDE DEF s, c, act
<1>4. /\ q \in LocalRecord /\ Core(q, c, res, notices, pending, detached) /\ SnapshotInv(q, snap) /\ SameErrors(r, q)
      /\ KeepInv(r, res, detached) => KeepInv(q, res, detached)
      /\ RetiredTo(r, q, {s})
  BY <1>2, <1>3, RetiringSlots
<1> HIDE DEF q
<1>5. SameErrors(Local, q)
  BY <1>2, <1>4 DEF SameErrors
<1>6. Core(q, c, res, notices, pending \ {e.h}, detached)
  <2>1. CASE e.h \in Handles
    <3>1. \A g \in Fences : Mentions(q, c, e.h, g) => ~Current(q, g)
      <4> SUFFICES ASSUME NEW g \in Fences, Mentions(q, c, e.h, g), Current(q, g) PROVE FALSE
        OBVIOUS
      <4>1. g[1] # s /\ Current(r, g) /\ q.slot[g[1]] = r.slot[g[1]]
        BY <1>4, ConstantsType, FenceIs, GensAre DEF RetiredTo, Current
      <4>2. Mentions(r, c, e.h, g)
        BY <1>4, <4>1 DEF Mentions, RetiredTo, SameWorker
      <4> QED BY <1>2, <2>1, <4>1, <4>2 DEF s
    <3> QED BY <1>4, <3>1, ForgetKeepsCore
  <2>2. CASE e.h \notin Handles
    <3>1. pending \ {e.h} = pending
      BY <2>2, VariableTypes
    <3> QED BY <1>4, <3>1
  <2> QED BY <2>1, <2>2
<1> QED BY <1>2, <1>4, <1>5, <1>6 DEF q, s, c, act, Retire

\* What join_slot_worker makes of the actor's state
LEMMA JoinedIs ==
    ASSUME NEW l \in LocalRecord, NEW f \in Fences, NEW r, r = Joined(l, f)
    PROVE  r \in LocalRecord /\ EndedTo(l, r, f, l.slot[f[1]].handle)
<1> DEFINE sl == [l.slot EXCEPT ![f[1]].worker = FALSE]
           wk == [l.worker EXCEPT ![f] = NoWorker]
<1>1. r = [l EXCEPT !.slot = sl, !.worker = wk]
  BY DEF Joined, LocalRecord
<1>2. f[1] \in Slots /\ l.slot \in [Slots -> SlotRecord] /\ l.worker \in [Fences -> WorkerRecord]
  BY FenceIs DEF LocalRecord
<1>3. /\ sl \in [Slots -> SlotRecord] /\ \A t \in Slots : t # f[1] => sl[t] = l.slot[t]
      /\ sl[f[1]].gen = l.slot[f[1]].gen /\ sl[f[1]].state = l.slot[f[1]].state
      /\ sl[f[1]].epoch = l.slot[f[1]].epoch /\ sl[f[1]].relay = l.slot[f[1]].relay
      /\ sl[f[1]].handle = l.slot[f[1]].handle /\ sl[f[1]].worker = FALSE
  BY <1>2 DEF SlotRecord
<1>4. /\ wk \in [Fences -> WorkerRecord] /\ \A g \in Fences : g # f => wk[g] = l.worker[g]
      /\ wk[f] = NoWorker
  BY <1>2, ConstantsType
<1> HIDE DEF sl, wk
<1>5. /\ r \in LocalRecord /\ r.slot = sl /\ r.worker = wk /\ r.gens = l.gens /\ r.retiring = l.retiring
      /\ r.routes = l.routes
  BY <1>1, <1>3, <1>4 DEF LocalRecord
<1> QED BY <1>3, <1>4, <1>5, ConstantsType DEF EndedTo

LEMMA ConfirmedIs ==
    ASSUME IInv, Hears("Confirmed"), ConfirmsCurrent(Head(chan))
    PROVE  /\ LastWord(Head(chan)) /\ Head(chan).kind = "Confirmed"
           /\ Joined(Local, Head(chan).fence) \in LocalRecord
           /\ EndedTo(Local, Joined(Local, Head(chan).fence), Head(chan).fence, Head(chan).h)
<1> DEFINE e == Head(chan)
           r == Joined(Local, e.fence)
<1>1. phase = "running" /\ chan # <<>> /\ e.kind = "Confirmed" /\ slot[e.fence[1]].gen = e.fence[2]
      /\ slot[e.fence[1]].handle = e.h
  BY DEF Hears, ConfirmsCurrent, IsReserving, IsCurrent
<1>2. HeadKnown(e)
  BY <1>1, HeadFacts
<1> HIDE DEF e
<1>3. LastWord(e)
  BY <1>1, <1>2, LocalIs DEF LastWord, Current, e
<1>4. e.fence \in Fences
  BY <1>2 DEF HeadKnown
<1>5. Local \in LocalRecord
  BY VariableTypes
<1>6. r \in LocalRecord /\ EndedTo(Local, r, e.fence, Local.slot[e.fence[1]].handle)
  BY <1>4, <1>5, JoinedIs
<1> QED BY <1>1, <1>3, <1>6, LocalIs DEF e

LEMMA ConfirmedButLostStep ==
    ASSUME IInv, ConfirmedButLost
    PROVE  IInv'
<1> DEFINE e == Head(chan)
           r == Joined(Local, e.fence)
           q == Retire(r, e.fence[1], "report")
<1>1. /\ Hears("Confirmed") /\ ConfirmsCurrent(e) /\ phase = "running" /\ SetLocal(q)
      /\ chan' = Tail(chan) /\ pending' = pending \ {e.h}
      /\ UNCHANGED <<dmsVars, snap, lapsed, endVars, chanOpen, timers>>
      /\ res' = res /\ notices' = notices /\ detached' = detached
  BY DEF ConfirmedButLost, Consumed, transportVars, Hears
<1>2. LastWord(e) /\ r \in LocalRecord /\ EndedTo(Local, r, e.fence, e.h)
  BY <1>1, ConfirmedIs
<1> HIDE DEF e, r
<1>3. /\ q \in LocalRecord /\ Core(q, Tail(chan), res, notices, pending \ {e.h}, detached)
      /\ SnapshotInv(q, snap) /\ SameErrors(Local, q)
      /\ KeepInv(Local, res, detached) => KeepInv(q, res, detached)
  BY <1>2, EndedAndRetired
<1> HIDE DEF q
<1>4. Local' = q
  BY <1>1, <1>3, SetLocalIs
<1> QED BY <1>1, <1>3, <1>4, HandledLocally

LEMMA ConfirmedButRefusedStep ==
    ASSUME IInv, ConfirmedButRefused
    PROVE  IInv'
<1> DEFINE e == Head(chan)
           r == Joined(Local, e.fence)
           q == Retire(r, e.fence[1], "remove")
<1>1. /\ Hears("Confirmed") /\ ConfirmsCurrent(e) /\ phase = "running" /\ SetLocal(q)
      /\ chan' = Tail(chan) /\ pending' = pending
      /\ UNCHANGED <<dmsVars, snap, lapsed, chanOpen, timers, regClosed, forcing, exit, failed>>
      /\ res' = res /\ notices' = notices /\ detached' = detached
      /\ phase' = "awaiting" /\ blocked' = e.fence[1]
  BY DEF ConfirmedButRefused, Consumed, transportVars, Hears, actorVars
<1>2. LastWord(e) /\ r \in LocalRecord /\ EndedTo(Local, r, e.fence, e.h)
  BY <1>1, ConfirmedIs
<1>0. e.fence[1] \in Slots
  BY <1>2, LastWordIs
<1> HIDE DEF e, r
<1>3. /\ q \in LocalRecord /\ Core(q, Tail(chan), res, notices, pending, detached)
      /\ SnapshotInv(q, snap) /\ SameErrors(Local, q)
      /\ KeepInv(Local, res, detached) => KeepInv(q, res, detached)
  BY <1>2, EndedAndRetired
<1> HIDE DEF q
<1>4. Local' = q
  BY <1>1, <1>3, SetLocalIs
<1>5. FlagsType /\ PhaseInv /\ AnswerInv(dms, snap) /\ dms' = dms /\ booked' = booked
  BY <1>1 DEF IInv, dmsVars
<1>6. FlagsType'
  BY <1>0, <1>1, <1>5 DEF FlagsType
<1>7. PhaseInv'
  <2>1. chanOpen /\ exit = "none" /\ ~failed /\ Calm(Local)
    BY <1>1, <1>5 DEF PhaseInv
  <2>2. Calm(Local')
    BY <1>3, <1>4, <2>1 DEF Calm, SameErrors
  <2> QED BY <1>0, <1>1, <2>1, <2>2 DEF PhaseInv
<1>8. Core(Local, chan, res, notices, pending, detached)' /\ SnapshotInv(Local, snap)'
  BY <1>1, <1>3, <1>4
<1>9. ASSUME StartRollsBack PROVE KeeperInv'
  <2>1. KeepInv(Local, res, detached) => KeepInv(Local', res', detached')
    BY <1>1, <1>3, <1>4
  <2>2. SameErrors(Local, Local')
    BY <1>3, <1>4
  <2> QED BY <1>1, <1>9, <2>1, <2>2, SameKeepers DEF IInv
<1> QED BY <1>1, <1>5, <1>6, <1>7, <1>8, <1>9 DEF IInv

LEMMA ConfirmedAndPublishedStep ==
    ASSUME IInv, ConfirmedAndPublished
    PROVE  IInv'
<1> DEFINE e == Head(chan)
           s == e.fence[1]
           r == Joined(Local, e.fence)
           q == [r EXCEPT !.slot[s].state = "confirmed", !.routes = @ \cup {e.fence}]
<1>1. /\ Hears("Confirmed") /\ ConfirmsCurrent(e) /\ phase = "running" /\ SetLocal(q)
      /\ chan' = Tail(chan) /\ pending' = pending /\ e.h \notin pending
      /\ UNCHANGED <<dmsVars, snap, lapsed, endVars, chanOpen, timers>>
      /\ res' = res /\ notices' = notices /\ detached' = detached
  BY DEF ConfirmedAndPublished, Consumed, transportVars, actorVars, Hears
<1>2. LastWord(e) /\ e.kind = "Confirmed" /\ r \in LocalRecord /\ EndedTo(Local, r, e.fence, e.h)
  BY <1>1, ConfirmedIs
<1>3. /\ e.fence \in Fences /\ s \in Slots /\ e.fence[2] # 0 /\ e.h \in Handles /\ Silent(Tail(chan), e.fence)
      /\ e = chan[1] /\ 1 \in DOMAIN chan
  BY <1>2, LastWordIs
<1> HIDE DEF e, r, s
<1>4. /\ Core(r, Tail(chan), res, notices, pending, detached)
      /\ SnapshotInv(r, snap) /\ SameErrors(Local, r) /\ Current(r, e.fence)
      /\ KeepInv(Local, res, detached) => KeepInv(r, res, detached)
  BY <1>2, EndedKeeps
<1> DEFINE sl == [r.slot EXCEPT ![s].state = "confirmed"]
<1>5. r.slot \in [Slots -> SlotRecord] /\ r.routes \cup {e.fence} \in SUBSET Fences
  BY <1>2, <1>3 DEF LocalRecord
<1>6. q = [r EXCEPT !.slot = sl, !.routes = r.routes \cup {e.fence}]
  BY <1>2 DEF LocalRecord
<1>7. /\ sl \in [Slots -> SlotRecord] /\ \A t \in Slots : t # s => sl[t] = r.slot[t]
      /\ sl[s].gen = r.slot[s].gen /\ sl[s].state = "confirmed"
      /\ sl[s].epoch = r.slot[s].epoch /\ sl[s].relay = r.slot[s].relay
      /\ sl[s].handle = r.slot[s].handle /\ sl[s].worker = r.slot[s].worker
  BY <1>3, <1>5 DEF SlotRecord
<1> HIDE DEF sl, q
<1>8. /\ q \in LocalRecord /\ q.slot = sl /\ q.worker = r.worker /\ q.gens = r.gens /\ q.retiring = r.retiring
      /\ q.routes = r.routes \cup {e.fence}
  BY <1>2, <1>5, <1>6, <1>7 DEF LocalRecord
<1>9. PublishedTo(r, q, e.fence)
  BY <1>7, <1>8 DEF PublishedTo, s
<1>10. ~r.slot[s].worker /\ r.slot[s].handle = e.h
  BY <1>2 DEF EndedTo, s
<1>11. res[e.h].state = "publishable" \/ e.h \in notices
  <2>1. RouteInv(Local, chan, res, notices, pending)
    BY DEF IInv, Core
  <2>2. Evident(res, notices, pending, e.h)
    BY <1>2, <1>3, <2>1 DEF RouteInv, LastWord
  <2> QED BY <1>1, <2>2 DEF Evident
<1>12. Core(q, Tail(chan), res, notices, pending, detached)
  BY <1>3, <1>4, <1>8, <1>9, <1>10, <1>11, PublishKeepsCore DEF s
<1>13. Local' = q
  BY <1>1, <1>8, SetLocalIs
<1>14. SnapshotInv(q, snap)
  <2>1. r.slot[s].state \in {"reserving", "confirmed"}
    BY <1>2, <1>3, LastWordIs, LocalIs DEF EndedTo, s
  <2> QED BY <1>3, <1>4, <1>7, <1>8, <2>1 DEF SnapshotInv
<1>15. SameErrors(Local, q)
  BY <1>4, <1>8 DEF SameErrors
<1>16. KeepInv(Local, res, detached) => KeepInv(q, res, detached)
  <2>1. \A t \in Slots : q.slot[t].handle = r.slot[t].handle
    BY <1>7, <1>8
  <2> QED BY <1>4, <1>8, <2>1 DEF KeepInv, Keeper
<1> QED BY <1>1, <1>12, <1>13, <1>14, <1>15, <1>16, HandledLocally

\* The slot of a failed attempt takes over the handle that the event names
LEMMA FailedIs ==
    ASSUME IInv, Hears("Failed"), IsReserving(Head(chan).fence), NEW r,
           r = [Joined(Local, Head(chan).fence) EXCEPT
                  !.slot[Head(chan).fence[1]].handle = IF @ = NoHandle THEN Head(chan).h ELSE @]
    PROVE  /\ LastWord(Head(chan)) /\ r \in LocalRecord /\ Head(chan).fence[1] \in Slots
           /\ EndedTo(Local, r, Head(chan).fence, Head(chan).h)
<1> DEFINE e == Head(chan)
           s == e.fence[1]
           j == Joined(Local, e.fence)
<1>1. phase = "running" /\ chan # <<>> /\ e.kind = "Failed" /\ IsReserving(e.fence)
  BY DEF Hears
<1>2. HeadKnown(e)
  BY <1>1, HeadFacts
<1>3. LastWord(e)
  BY <1>1, <1>2, LocalIs DEF LastWord, Current, IsReserving, IsCurrent
<1>4. e.fence \in Fences /\ s \in Slots /\ e.h \in AnyHandle /\ slot[s].handle \in {NoHandle, e.h}
  BY <1>3, LastWordIs
<1>5. Local \in LocalRecord
  BY VariableTypes
<1>0. r = [j EXCEPT !.slot[s].handle = IF @ = NoHandle THEN e.h ELSE @]
  OBVIOUS
<1> HIDE DEF e, s
<1>6. j \in LocalRecord /\ EndedTo(Local, j, e.fence, Local.slot[s].handle)
  BY <1>4, <1>5, JoinedIs DEF s
<1> HIDE DEF j
<1> DEFINE sl == [j.slot EXCEPT ![s].handle = e.h]
<1>7. j.slot \in [Slots -> SlotRecord] /\ j.slot[s].handle \in {NoHandle, e.h}
  BY <1>4, <1>6, LocalIs DEF LocalRecord, EndedTo, s
<1>8. r = [j EXCEPT !.slot = sl]
  BY <1>0, <1>6, <1>7 DEF LocalRecord
<1>9. /\ sl \in [Slots -> SlotRecord] /\ \A t \in Slots : t # s => sl[t] = j.slot[t]
      /\ sl[s].gen = j.slot[s].gen /\ sl[s].state = j.slot[s].state
      /\ sl[s].epoch = j.slot[s].epoch /\ sl[s].relay = j.slot[s].relay
      /\ sl[s].handle = e.h /\ sl[s].worker = j.slot[s].worker
  BY <1>4, <1>7 DEF SlotRecord
<1> HIDE DEF sl
<1>10. /\ r \in LocalRecord /\ r.slot = sl /\ r.worker = j.worker /\ r.gens = j.gens /\ r.retiring = j.retiring
       /\ r.routes = j.routes
  BY <1>6, <1>8, <1>9 DEF LocalRecord
<1>11. EndedTo(Local, r, e.fence, e.h)
  BY <1>4, <1>6, <1>9, <1>10 DEF EndedTo, s
<1> QED BY <1>3, <1>4, <1>10, <1>11 DEF e, s

LEMMA FailedStep ==
    ASSUME IInv, OnFailed
    PROVE  IInv'
<1> DEFINE e == Head(chan)
           s == e.fence[1]
           r == [Joined(Local, e.fence) EXCEPT !.slot[s].handle = IF @ = NoHandle THEN e.h ELSE @]
           q == Retire(r, s, "report")
<1>1. /\ Hears("Failed") /\ IsReserving(e.fence) /\ phase = "running" /\ SetLocal(q)
      /\ chan' = Tail(chan) /\ pending' = pending \ {e.h}
      /\ UNCHANGED <<dmsVars, snap, lapsed, endVars, chanOpen, timers>>
      /\ res' = res /\ notices' = notices /\ detached' = detached
  BY DEF OnFailed, Consumed, transportVars, Hears
<1>2. LastWord(e) /\ r \in LocalRecord /\ EndedTo(Local, r, e.fence, e.h)
  BY <1>1, FailedIs
<1> HIDE DEF e, s, r
<1>3. /\ q \in LocalRecord /\ Core(q, Tail(chan), res, notices, pending \ {e.h}, detached)
      /\ SnapshotInv(q, snap) /\ SameErrors(Local, q)
      /\ KeepInv(Local, res, detached) => KeepInv(q, res, detached)
  BY <1>2, EndedAndRetired DEF s
<1> HIDE DEF q
<1>4. Local' = q
  BY <1>1, <1>3, SetLocalIs
<1> QED BY <1>1, <1>3, <1>4, HandledLocally

\* The worker told that its reservation is gone and that it tries again
LEMMA RetryingStep ==
    ASSUME IInv, OnRetrying
    PROVE  IInv'
<1> DEFINE e == Head(chan)
           s == e.fence[1]
           c == Tail(chan)
<1>0. /\ phase = "running" /\ chan # <<>> /\ e.kind = "Retrying" /\ chan' = c /\ pending' = pending \ {e.h}
      /\ UNCHANGED <<dmsVars, snap, lapsed, endVars, chanOpen, timers>>
      /\ res' = res /\ notices' = notices /\ detached' = detached
      /\ UNCHANGED <<retiring, gens, worker, routes>>
  BY DEF OnRetrying, Hears, Consumed, transportVars
<1>1. HeadKnown(e)
  BY <1>0, HeadFacts
<1>2. /\ e.fence \in Fences /\ s \in Slots /\ e.h \in Handles /\ e = chan[1] /\ 1 \in DOMAIN chan
      /\ Shifted(chan, c) /\ e.kind \in WorkerKinds
      /\ \A f \in Fences : Mentions(Local, chan, e.h, f) => f = e.fence
  BY <1>0, <1>1 DEF HeadKnown, WorkerKinds
<1>3. /\ Core(Local, chan, res, notices, pending, detached) /\ SnapshotInv(Local, snap) /\ LocalInv(Local)
      /\ slot \in [Slots -> SlotRecord] /\ retiring \in [Slots -> RetiringRecord]
      /\ gens \in [Slots -> 0..MaxGen] /\ worker \in [Fences -> WorkerRecord] /\ routes \in SUBSET Fences
      /\ Local \in LocalRecord /\ chan \in Seq(EventRecord) /\ OrderInv(Local, chan, res)
  BY VariableTypes DEF IInv, Core
<1>4. ~Current(Local, e.fence) => slot' = slot
  BY LocalIs DEF OnRetrying, Current
<1>5. ASSUME Current(Local, e.fence)
      PROVE  slot[s].state = "reserving" /\ slot[s].handle = e.h /\ slot' = [slot EXCEPT ![s].handle = NoHandle]
  <2>1. slot[s].state = "reserving" /\ slot[s].handle = e.h /\ slot[s].gen = e.fence[2]
    BY <1>0, <1>1, <1>2, <1>5, LocalIs DEF HeadKnown, Fits, Current
  <2> QED BY <2>1 DEF OnRetrying
<1>6. NoHandle \in AnyHandle
  BY DEF AnyHandle
<1> HIDE DEF e, s, c
<1>7. ASSUME Current(Local, e.fence)
      PROVE /\ slot' \in [Slots -> SlotRecord] /\ \A t \in Slots : t # s => slot'[t] = slot[t]
            /\ slot'[s].gen = slot[s].gen /\ slot'[s].state = slot[s].state /\ slot'[s].epoch = slot[s].epoch
            /\ slot'[s].relay = slot[s].relay /\ slot'[s].worker = slot[s].worker /\ slot'[s].handle = NoHandle
  <2>0. s \in Slots /\ slot \in [Slots -> SlotRecord]
    BY <1>2, <1>3
  <2>1. \A h \in AnyHandle : slot' = [slot EXCEPT ![s].handle = h] =>
        /\ slot' \in [Slots -> SlotRecord]
        /\ \A t \in Slots : t # s => slot'[t] = slot[t]
        /\ slot'[s].gen = slot[s].gen /\ slot'[s].state = slot[s].state /\ slot'[s].epoch = slot[s].epoch
        /\ slot'[s].relay = slot[s].relay /\ slot'[s].worker = slot[s].worker /\ slot'[s].handle = h
    BY <2>0, HeldIs
  <2> QED BY <1>5, <1>6, <1>7, <2>1
<1>8. /\ slot' \in [Slots -> SlotRecord]
      /\ \A t \in Slots : /\ slot'[t].gen = slot[t].gen /\ slot'[t].state = slot[t].state
                          /\ slot'[t].epoch = slot[t].epoch /\ slot'[t].relay = slot[t].relay
                          /\ slot'[t].worker = slot[t].worker /\ slot'[t].handle \in {slot[t].handle, NoHandle}
                          /\ (slot'[t] # slot[t]) => (t = s /\ Current(Local, e.fence))
      /\ Current(Local, e.fence) => (slot'[s].handle = NoHandle /\ slot[s].handle = e.h)
  BY <1>3, <1>4, <1>5, <1>7
<1>9. Local' \in LocalRecord
  BY <1>0, <1>3, <1>8, LocalNextType
<1>10. HeardTo(Local, Local', chan)
  BY <1>0, <1>2, <1>8, LocalIs, LocalNextIs DEF HeardTo, Held, s
<1>11. Core(Local', c, res, notices, pending, detached)
  BY <1>2, <1>3, <1>9, <1>10, HearingKeepsCore
<1>12. \A f \in Fences : Current(Local', f) <=> Current(Local, f)
  BY <1>8, LocalIs, LocalNextIs, FenceIs DEF Current
<1>13. \A f \in Fences : Mentions(Local', c, e.h, f) => ~Current(Local', f)
  <2> SUFFICES ASSUME NEW f \in Fences, Mentions(Local', c, e.h, f), Current(Local', f) PROVE FALSE
    OBVIOUS
  <2>0. IsEvent(chan, 1, e.fence) /\ chan[1].kind = "Retrying" /\ chan[1].h = e.h /\ e.h \in Nat /\ e.h # NoHandle
    BY <1>0, <1>2, GensAre DEF IsEvent
  <2>1. CASE Local'.worker[f].h = e.h
    <3>1. Local.worker[f].h = e.h
      BY <1>0, <2>1, LocalIs, LocalNextIs
    <3>2. f = e.fence
      BY <1>2, <3>1 DEF Mentions
    <3>3. e.h < Local.worker[f].h
      BY <1>2, <1>3, <2>0, <3>1, <3>2 DEF OrderInv
    <3> QED BY <2>0, <3>1, <3>3
  <2>2. CASE \E i \in DOMAIN c : c[i].fence = f /\ c[i].h = e.h
    <3>1. PICK i \in DOMAIN c : c[i].fence = f /\ c[i].h = e.h
      BY <2>2
    <3>2. i + 1 \in DOMAIN chan /\ 1 < i + 1 /\ chan[i + 1].fence = f /\ chan[i + 1].h = e.h
      BY <1>2, <3>1 DEF Shifted
    <3>3. f = e.fence
      BY <1>2, <3>2 DEF Mentions
    <3>4. chan[i + 1].kind \in WorkerKinds
      <4>1. EventsInv(Local, chan) /\ chan[i + 1].kind \in EventKinds
        BY <1>3, <3>2, ChannelType DEF Core, ChannelInv
      <4> QED BY <2>0, <3>2, <4>1 DEF EventsInv, EventKinds, WorkerKinds
    <3>5. IsEvent(chan, i + 1, chan[1].fence)
      BY <1>2, <3>2, <3>3, <3>4 DEF IsEvent
    <3>6. chan[1].h < chan[i + 1].h
      BY <1>2, <1>3, <2>0, <3>2, <3>5 DEF OrderInv
    <3> QED BY <2>0, <3>2, <3>6
  <2>3. CASE Current(Local', f) /\ Local'.slot[f[1]].handle = e.h
    <3>1. f[1] \in Slots /\ Local.slot[f[1]].handle = e.h /\ Current(Local, f)
      BY <1>8, <1>12, <2>0, <2>3, LocalIs, LocalNextIs, FenceIs
    <3>2. f = e.fence
      BY <1>2, <3>1 DEF Mentions
    <3> QED BY <1>8, <2>0, <2>3, <3>1, <3>2, LocalNextIs DEF s
  <2> QED BY <2>1, <2>2, <2>3 DEF Mentions
<1>14. Core(Local', c, res, notices, pending \ {e.h}, detached)
  BY <1>11, <1>13, ForgetKeepsCore
<1>15. SnapshotInv(Local', snap) /\ SameErrors(Local, Local')
  BY <1>0, <1>3, <1>8, LocalIs, LocalNextIs DEF SnapshotInv, SameErrors
<1>16. KeepInv(Local, res, detached) => KeepInv(Local', res, detached)
  <2>1. res[e.h].state = "gone"
    BY <1>0, <1>2, <1>3 DEF OrderInv
  <2>2. \A h \in Handles, t \in Slots : (slot[t].handle = h /\ h # e.h) => slot'[t].handle = h
    BY <1>8
  <2> QED BY <1>0, <2>1, <2>2, LocalIs, LocalNextIs DEF KeepInv, Keeper
<1> QED BY <1>0, <1>14, <1>15, <1>16, HandledLocally

-----------------------------------------------------------------------------
(* Failure reports *)

\* What report_failure starts from: the first event is handled as far as `l'
ReportsFrom(l, f) ==
    /\ phase = "running" /\ f \in Fences /\ l \in LocalRecord /\ l.slot[f[1]].state # "vacant"
    /\ Core(l, Tail(chan), res, notices, pending, detached) /\ SnapshotInv(l, snap) /\ SameErrors(Local, l)
    /\ KeepInv(Local, res, detached) => KeepInv(l, res, detached)

LEMMA ReportAppliedKeeps ==
    ASSUME IInv, NEW l, NEW f, ReportsFrom(l, f), ReportApplied(l, f), UNCHANGED <<res, detached>>
    PROVE  IInv'
<1> DEFINE act == [t \in {f[1]} |-> "reconcile"]
           q == RetireSlots(l, {f[1]}, act)
           c == Tail(chan)
<1>1. PICK d \in Reassigned(f[1], l.slot[f[1]].epoch) : dms' = d /\ ApplyAnswer(q, d)
  BY DEF ReportApplied, Retire
<1>2. /\ chan' = c /\ booked' = booked /\ notices' = notices /\ pending' = pending /\ timers' = timers
      /\ UNCHANGED <<endVars, chanOpen, res, detached>>
  BY DEF ReportApplied, Consumed
<1>3. /\ dms \in Snapshot /\ snap \in Snapshot /\ AnswerInv(dms, snap) /\ booked \in BOOLEAN /\ timers \subseteq Fences
  BY DEF IInv, FlagsType
<1>4. f \in Fences /\ f[1] \in Slots /\ l.slot[f[1]].state # "vacant" /\ phase = "running"
  BY FenceIs DEF ReportsFrom
<1>5. {f[1]} \in SUBSET Slots /\ (\A t \in {f[1]} : l.slot[t].state # "vacant")
      /\ \A t \in {f[1]} : act[t] \in {"reconcile", "report", "remove"}
  BY <1>4
<1> HIDE DEF act, c
<1>6. /\ Core(l, c, res, notices, pending, detached) /\ SnapshotInv(l, snap) /\ SameErrors(Local, l)
      /\ KeepInv(Local, res, detached) => KeepInv(l, res, detached)
  BY DEF ReportsFrom, c
<1>7. /\ Core(q, c, res, notices, pending, detached) /\ SnapshotInv(q, snap) /\ SameErrors(l, q)
      /\ KeepInv(l, res, detached) => KeepInv(q, res, detached)
  BY <1>5, <1>6, RetiringSlots
<1> HIDE DEF q
<1>8. SameErrors(Local, q)
  BY <1>6, <1>7 DEF SameErrors
<1>9. d \in Snapshot /\ AnswerInv(d, snap)
  BY <1>3, <1>4, ReassignedIs
<1>10. Core(q, chan', res, notices', pending', detached)
  BY <1>2, <1>7
<1>11. booked' \in BOOLEAN /\ timers' \subseteq Fences
  BY <1>2, <1>3
<1>12. KeepInv(Local, res, detached) => KeepInv(q, res, detached)
  BY <1>6, <1>7
<1> QED BY <1>1, <1>2, <1>4, <1>7, <1>8, <1>9, <1>10, <1>11, <1>12, AnswerKeeps

LEMMA ReportKeeps ==
    ASSUME IInv, NEW l, NEW f, ReportsFrom(l, f), Report(l, f), UNCHANGED <<res, detached>>
    PROVE  IInv'
<1>0. /\ dms \in Snapshot /\ snap \in Snapshot /\ AnswerInv(dms, snap) /\ booked \in BOOLEAN /\ timers \subseteq Fences
      /\ lapsed \subseteq Slots /\ FlagsType
  BY DEF IInv, FlagsType
<1>1. CASE ReportApplied(l, f)
  BY <1>1, ReportAppliedKeeps
<1>2. CASE ReportRetried(l, f) \/ ReportRefused(l, f)
  <2>1. /\ SetLocal(l) /\ chan' = Tail(chan) /\ booked' = booked /\ snap' = snap /\ lapsed' = lapsed
        /\ notices' = notices /\ pending' = pending /\ UNCHANGED <<endVars, chanOpen>>
        /\ res' = res /\ detached' = detached
    BY <1>2 DEF ReportRetried, ReportRefused, Consumed, dmsVars
  <2>2. f \in Fences /\ f[1] \in Slots
    BY FenceIs DEF ReportsFrom
  <2>3. dms' \in Reassigned(f[1], l.slot[f[1]].epoch) \/ dms' = dms
    BY <1>2 DEF ReportRetried, ReportRefused, dmsVars
  <2>4. dms' \in Snapshot /\ AnswerInv(dms', snap)
    BY <1>0, <2>2, <2>3, ReassignedIs
  <2>5. timers' \subseteq Fences
    BY <1>0, <1>2, <2>2 DEF ReportRetried, ReportRefused, Consumed
  <2>6. Local' = l
    BY <2>1, SetLocalIs DEF ReportsFrom
  <2>7. Core(Local', chan', res', notices', pending', detached') /\ SnapshotInv(Local', snap')
        /\ SameErrors(Local, Local') /\ phase = "running"
    BY <2>1, <2>6 DEF ReportsFrom
  <2>8. KeepInv(Local, res, detached) => KeepInv(Local', res', detached')
    BY <2>1, <2>6 DEF ReportsFrom
  <2> QED BY <1>0, <2>1, <2>4, <2>5, <2>7, <2>8, HandledKeeps
<1>3. CASE ReportEnds(l, f)
  <2>1. Drain(l, "ended") /\ UNCHANGED <<dmsVars, res, snap>> /\ detached' = detached
    BY <1>3 DEF ReportEnds
  <2>2. Core(l, Tail(chan), res, notices, pending, detached')
    BY <2>1 DEF ReportsFrom
  <2>3. ASSUME StartRollsBack, ~CallsTimeOut PROVE KeepInv(l, res, detached')
    BY <2>1, <2>3 DEF ReportsFrom, IInv, KeeperInv, Trouble
  <2> QED BY <1>0, <2>1, <2>2, <2>3, DrainKeeps
<1> QED BY <1>1, <1>2, <1>3 DEF Report

LEMMA RetryFailureStep ==
    ASSUME IInv, OnRetryFailure
    PROVE  IInv'
<1> DEFINE e == Head(chan)
           f == e.fence
<1>1. /\ phase = "running" /\ chan # <<>> /\ e.kind = "RetryFailure" /\ UNCHANGED <<res, detached>>
  BY DEF OnRetryFailure, Hears
<1>2. HeadKnown(e)
  BY <1>1, HeadFacts
<1>3. f \in Fences /\ f[1] \in Slots /\ f[2] # 0
  BY <1>2 DEF HeadKnown
<1>4. Local \in LocalRecord /\ LocalInv(Local) /\ Core(Local, chan, res, notices, pending, detached)
  BY VariableTypes
<1>5. Core(Local, Tail(chan), res, notices, pending, detached)
  BY <1>1, <1>2, <1>4, HeardInVain
<1>6. SameErrors(Local, Local) /\ SnapshotInv(Local, snap)
  BY DEF SameErrors, IInv
<1>7. CASE IsCurrent(f) /\ Report(Local, f)
  <2>1. Local.slot[f[1]].state # "vacant"
    BY <1>3, <1>4, <1>7, NotVacant, LocalIs DEF IsCurrent
  <2> HIDE DEF f
  <2>2. ReportsFrom(Local, f)
    BY <1>1, <1>3, <1>4, <1>5, <1>6, <2>1 DEF ReportsFrom
  <2> QED BY <1>1, <1>7, <2>2, ReportKeeps
<1>8. CASE ~IsCurrent(f) /\ Consumed /\ UNCHANGED <<dmsVars, localVars, snap, lapsed, notices, pending, endVars>>
  <2>1. /\ chan' = Tail(chan) /\ UNCHANGED <<dmsVars, snap, lapsed, endVars, chanOpen, timers>>
        /\ notices' = notices /\ pending' = pending /\ res' = res /\ detached' = detached /\ Local' = Local
    BY <1>1, <1>8 DEF Consumed, localVars, Local
  <2> QED BY <1>1, <1>5, <1>6, <2>1, HandledLocally
<1> QED BY <1>7, <1>8 DEF OnRetryFailure

-----------------------------------------------------------------------------
(* The end of a retirement *)

\* A cleanup reports once, after the last word of its worker
LEMMA CompletionIs ==
    ASSUME IInv, Hears("CleanupComplete"), retiring[Head(chan).fence[1]].gen = Head(chan).fence[2]
    PROVE  /\ HeadKnown(Head(chan)) /\ retiring[Head(chan).fence[1]].done
           /\ Silent(Tail(chan), Head(chan).fence)
           /\ \A i \in DOMAIN Tail(chan) : Tail(chan)[i].kind = "CleanupComplete" => Tail(chan)[i].fence # Head(chan).fence
           /\ Head(chan).kind = "CleanupComplete"
<1> DEFINE e == Head(chan)
           c == Tail(chan)
<1>1. chan # <<>> /\ e.kind = "CleanupComplete" /\ retiring[e.fence[1]].gen = e.fence[2]
  BY DEF Hears
<1>2. HeadKnown(e)
  BY <1>1, HeadFacts
<1> HIDE DEF e, c
<1>3. e = chan[1] /\ 1 \in DOMAIN chan /\ e.fence \in Fences /\ Shifted(chan, c)
  BY <1>2 DEF HeadKnown, c
<1>4. CompleteInv(Local, chan) /\ chan \in Seq(EventRecord)
  BY VariableTypes DEF Core, ChannelInv
<1>5. retiring[e.fence[1]].done /\ ~After(chan, 1, e.fence)
  BY <1>1, <1>3, <1>4, LocalIs DEF CompleteInv
<1>6. Silent(c, e.fence)
  BY <1>3, <1>4, <1>5, ShiftFacts DEF ShiftKept
<1>7. \A i \in DOMAIN c : c[i].kind = "CleanupComplete" => c[i].fence # e.fence
  <2>1. \A i \in DOMAIN c : i + 1 \in DOMAIN chan /\ i + 1 # 1 /\ c[i] = chan[i + 1]
    BY <1>3 DEF Shifted
  <2> QED BY <1>1, <1>3, <1>4, <2>1 DEF CompleteInv
<1> QED BY <1>1, <1>2, <1>5, <1>6, <1>7 DEF e, c

LEMMA ReportingIs ==
    ASSUME IInv, Hears("CleanupComplete"), retiring[Head(chan).fence[1]].gen = Head(chan).fence[2],
           ~retiring[Head(chan).fence[1]].err
    PROVE  ReportsFrom(Reporting(Head(chan).fence[1]), Head(chan).fence)
<1> DEFINE e == Head(chan)
           f == e.fence
           s == f[1]
           c == Tail(chan)
           a == Reaped(s)
           x == [gen |-> retiring[s].gen, epoch |-> retiring[s].epoch, relay |-> retiring[s].relay,
                 state |-> "reporting", handle |-> NoHandle, worker |-> FALSE]
           r == Reporting(s)
<1>1. /\ HeadKnown(e) /\ retiring[s].done /\ Silent(c, f) /\ e.kind = "CleanupComplete"
      /\ (\A i \in DOMAIN c : c[i].kind = "CleanupComplete" => c[i].fence # f)
      /\ ~retiring[s].err /\ retiring[s].gen = f[2] /\ phase = "running"
  BY CompletionIs DEF Hears
<1>2. f \in Fences /\ s \in Slots /\ f[2] # 0
  BY <1>1 DEF HeadKnown
<1> HIDE DEF e, c
<1> HIDE DEF f, s
<1>3. /\ a \in LocalRecord /\ Retiring(s)
      /\ a.slot = slot /\ a.gens = gens /\ a.worker = worker /\ a.routes = routes
      /\ a.retiring[s] = NotRetiring /\ (\A u \in Slots : u # s => a.retiring[u] = retiring[u])
      /\ Core(a, chan, res, notices, pending, detached)
      /\ KeepInv(Local, res, detached) => KeepInv(a, res, detached)
  BY <1>1, <1>2, ReapedIs
<1>4. retiring[s] \in RetiringRecord /\ LocalInv(Local) /\ slot \in [Slots -> SlotRecord] /\ SnapshotInv(Local, snap)
  BY <1>2, VariableTypes DEF IInv
<1>5. x \in SlotRecord
  BY <1>4 DEF RetiringRecord, SlotRecord, AnyHandle
<1>6. r = [a EXCEPT !.slot[s] = x]
  BY DEF Reporting
<1>7. x.gen = f[2] /\ x.state = "reporting" /\ x.handle = NoHandle /\ x.worker = FALSE
  BY <1>1
<1> HIDE DEF x, a, r
<1>8. /\ r \in LocalRecord /\ r.slot = [slot EXCEPT ![s] = x] /\ r.gens = a.gens /\ r.worker = a.worker
      /\ r.routes = a.routes /\ r.retiring = a.retiring
  BY <1>2, <1>3, <1>5, <1>6 DEF LocalRecord
<1>9. r.slot[s] = x /\ \A t \in Slots : t # s => r.slot[t] = slot[t]
  BY <1>2, <1>4, <1>8
<1>10. slot[s].gen = 0 /\ a.retiring[s].gen = 0 /\ f[2] <= a.gens[s] /\ slot[s].handle = NoHandle
  BY <1>1, <1>2, <1>3, <1>4, LocalIs, ConstantsType DEF LocalInv
<1>11. Core(a, c, res, notices, pending, detached)
  BY <1>1, <1>3, HeardInVain DEF e, c
<1>12. ReportingTo(a, r, f)
  BY <1>3, <1>7, <1>8, <1>9 DEF ReportingTo, s
<1>13. Core(r, c, res, notices, pending, detached)
  BY <1>1, <1>2, <1>3, <1>8, <1>10, <1>11, <1>12, ReportingKeepsCore DEF s
<1>14. SnapshotInv(r, snap)
  BY <1>4, <1>7, <1>9, LocalIs DEF SnapshotInv
<1>15. SameErrors(Local, r)
  BY <1>1, <1>3, <1>8, LocalIs DEF SameErrors
<1>16. KeepInv(a, res, detached) => KeepInv(r, res, detached)
  <2>1. \A h \in Handles, t \in Slots : a.slot[t].handle = h => r.slot[t].handle = h
    BY <1>3, <1>9, <1>10, GensAre
  <2> QED BY <1>8, <2>1 DEF KeepInv, Keeper
<1>17. r.slot[s].state # "vacant"
  BY <1>7, <1>9
<1>18. ReportsFrom(r, f)
  BY <1>1, <1>2, <1>3, <1>8, <1>13, <1>14, <1>15, <1>16, <1>17 DEF ReportsFrom, c, s
<1> QED BY <1>18 DEF r, f, s, e

LEMMA CleanupCompleteStep ==
    ASSUME IInv, OnCleanupComplete
    PROVE  IInv'
<1> DEFINE e == Head(chan)
           f == e.fence
           s == f[1]
<1>1. Hears("CleanupComplete") /\ retiring[s].gen = f[2] /\ UNCHANGED <<res, detached>> /\ phase = "running"
  BY DEF OnCleanupComplete, Hears
<1>2. HeadKnown(e) /\ retiring[s].done /\ e.kind = "CleanupComplete"
  BY <1>1, CompletionIs
<1>3. s \in Slots
  BY <1>2 DEF HeadKnown
<1>4. CASE retiring[s].err /\ Drain(Unreaped(s), "failed") /\ UNCHANGED <<dmsVars, snap>>
  BY <1>1, <1>2, <1>3, <1>4, LeavingOnResult
<1>5. CASE ~retiring[s].err /\ Report(Reporting(s), f)
  <2>1. ReportsFrom(Reporting(s), f)
    BY <1>1, <1>5, ReportingIs
  <2> QED BY <1>1, <1>5, <2>1, ReportKeeps
<1>6. CASE /\ ~retiring[s].err
           /\ SetLocal(IF retiring[s].action = "remove" THEN Reaped(s) ELSE ApplySnapshot(Reaped(s), snap, lapsed))
           /\ Consumed /\ UNCHANGED <<dmsVars, snap, lapsed, notices, pending, endVars>>
  <2> DEFINE a == Reaped(s)
             r == IF retiring[s].action = "remove" THEN a ELSE ApplySnapshot(a, snap, lapsed)
  <2>1. /\ chan' = Tail(chan) /\ UNCHANGED <<dmsVars, snap, lapsed, endVars, chanOpen, timers>>
        /\ notices' = notices /\ pending' = pending /\ res' = res /\ detached' = detached /\ SetLocal(r)
        /\ ~retiring[s].err
    BY <1>1, <1>6 DEF Consumed
  <2>2. /\ a \in LocalRecord /\ a.slot = slot /\ a.worker = worker
        /\ a.retiring[s] = NotRetiring /\ (\A u \in Slots : u # s => a.retiring[u] = retiring[u])
        /\ Core(a, chan, res, notices, pending, detached)
        /\ KeepInv(Local, res, detached) => KeepInv(a, res, detached)
    BY <1>2, <1>3, ReapedIs
  <2> HIDE DEF a, s, f
  <2>3. Core(a, Tail(chan), res, notices, pending, detached)
    BY <1>2, <2>2, HeardInVain
  <2>4. SnapshotInv(a, snap) /\ SameErrors(Local, a) /\ snap \in Snapshot
    BY <2>1, <2>2, LocalIs DEF SnapshotInv, SameErrors, IInv, FlagsType
  <2> DEFINE p == ApplySnapshot(a, snap, lapsed)
  <2>5. /\ p \in LocalRecord /\ Core(p, Tail(chan), res, notices, pending, detached) /\ SnapshotInv(p, snap)
        /\ SameErrors(a, p)
        /\ KeepInv(a, res, detached) => KeepInv(p, res, detached)
    BY <2>3, <2>4, ApplyKeeps
  <2>6. r = a \/ r = p
    OBVIOUS
  <2> HIDE DEF r, p
  <2>7. SameErrors(Local, p)
    BY <2>4, <2>5 DEF SameErrors
  <2>8. /\ r \in LocalRecord /\ Core(r, Tail(chan), res, notices, pending, detached) /\ SnapshotInv(r, snap)
        /\ SameErrors(Local, r)
        /\ KeepInv(Local, res, detached) => KeepInv(r, res, detached)
    BY <2>2, <2>3, <2>4, <2>5, <2>6, <2>7
  <2>9. Local' = r
    BY <2>1, <2>8, SetLocalIs
  <2> QED BY <1>1, <2>1, <2>8, <2>9, HandledLocally
<1> QED BY <1>4, <1>5, <1>6 DEF OnCleanupComplete

-----------------------------------------------------------------------------
(* The invariant is inductive *)

\* The actor before it has applied a snapshot
Idle == [slot |-> [s \in Slots |-> Vacant], retiring |-> [s \in Slots |-> NotRetiring],
         gens |-> [s \in Slots |-> 0], worker |-> [f \in Fences |-> NoWorker], routes |-> {}]

LEMMA IdleIs ==
    ASSUME NEW rs \in [Handles -> ReservationRecord], \A h \in Handles : rs[h].state = "free"
    PROVE  Core(Idle, <<>>, rs, {}, {}, {})
<1>1. /\ Idle.slot = [s \in Slots |-> Vacant] /\ Idle.retiring = [s \in Slots |-> NotRetiring]
      /\ Idle.gens = [s \in Slots |-> 0] /\ Idle.worker = [f \in Fences |-> NoWorker] /\ Idle.routes = {}
  BY DEF Idle
<1>2. Idle \in LocalRecord
  BY ConstantsType, BoundsAreNaturals DEF Idle, LocalRecord
<1>3. /\ \A s \in Slots : Idle.slot[s] = Vacant /\ Idle.retiring[s] = NotRetiring /\ Idle.gens[s] = 0
      /\ \A f \in Fences : Idle.worker[f] = NoWorker
  BY <1>1
<1> HIDE DEF Idle
<1>4. LocalInv(Idle)
  BY <1>1, <1>3, ConstantsType DEF LocalInv, LivePcs
<1>5. <<>> \in Seq(EventRecord) /\ DOMAIN <<>> = {}
  OBVIOUS
<1> DEFINE ch == <<>>
<1>6. ch \in Seq(EventRecord) /\ \A i : i \notin DOMAIN ch
  BY <1>5
<1> HIDE DEF ch
<1>7. \A f \in Fences : ~Current(Idle, f) /\ Idle.worker[f].pc = "off" /\ Idle.worker[f].h = NoHandle
  BY <1>3, ConstantsType, FenceIs, GensAre DEF Current
<1>8. ChannelInv(Idle, ch)
  BY <1>6, <1>7 DEF ChannelInv, EventsInv, FinalInv, StoryInv, CompleteInv
<1>9. \A h \in Handles, f \in Fences : ~Mentions(Idle, ch, h, f)
  BY <1>6, <1>7, GensAre DEF Mentions
<1>10. \A h \in Handles : ~Disowned(Idle, {}, h)
  BY <1>3, ConstantsType DEF Disowned
<1>11. HandleInv(Idle, ch, rs, {})
  BY <1>9, <1>10 DEF HandleInv
<1>12. OrderInv(Idle, ch, rs)
  BY <1>6, <1>7, GensAre DEF OrderInv
<1>13. RelayInv(Idle, ch, rs)
  BY <1>7 DEF RelayInv
<1>14. RouteInv(Idle, ch, rs, {}, {})
  BY <1>3, <1>6, <1>7, ConstantsType DEF RouteInv
<1>15. Core(Idle, ch, rs, {}, {}, {})
  BY <1>2, <1>4, <1>6, <1>8, <1>11, <1>12, <1>13, <1>14 DEF Core
<1> QED BY <1>15 DEF ch

LEMMA Initially ==
    ASSUME Init
    PROVE  IInv
<1> DEFINE r == ApplySnapshot(Idle, dms, {})
<1>1. /\ slot = r.slot /\ retiring = r.retiring /\ gens = r.gens /\ worker = r.worker /\ routes = r.routes
  BY DEF Init, Idle
<1>2. /\ dms \in [Slots -> {a \in Assignments : a.epoch = 1}] /\ DistinctProviders(dms) /\ booked = TRUE
      /\ res = [h \in Handles |-> [state |-> "free", relay |-> "none"]]
      /\ notices = {} /\ snap = dms /\ lapsed = {} /\ regClosed = FALSE /\ chan = <<>> /\ chanOpen = TRUE
      /\ timers = {} /\ pending = {} /\ detached = {} /\ forcing = FALSE /\ phase = "running"
      /\ blocked = NoSlot /\ exit = "none" /\ failed = FALSE
  BY DEF Init
<1>3. dms \in Snapshot
  BY <1>2 DEF Snapshot
<1>4. res \in [Handles -> ReservationRecord] /\ \A h \in Handles : res[h].state = "free"
  BY <1>2 DEF ReservationRecord, AnyRelay
<1>5. Core(Idle, <<>>, res, {}, {}, {})
  BY <1>4, IdleIs
<1>6. SnapshotInv(Idle, dms) /\ \A f \in Fences : ~Idle.worker[f].err /\ Idle.worker[f].pc # "release"
  BY ConstantsType DEF SnapshotInv, Idle
<1>7. r \in LocalRecord /\ Core(r, <<>>, res, {}, {}, {}) /\ SnapshotInv(r, dms) /\ SameErrors(Idle, r)
  BY <1>3, <1>5, <1>6, ApplyKeeps
<1> HIDE DEF r
<1>8. Local = r
  BY <1>1, <1>7 DEF Local, LocalRecord
<1>9. FlagsType
  BY <1>2, <1>3 DEF FlagsType
<1>10. AnswerInv(dms, snap)
  BY <1>2, <1>3, BoundsAreNaturals DEF AnswerInv, Snapshot, Assignments
<1>11. PhaseInv
  <2>1. Calm(Local)
    BY <1>6, <1>7, <1>8 DEF Calm, SameErrors
  <2> QED BY <1>2, <2>1 DEF PhaseInv
<1>12. KeeperInv
  BY <1>4 DEF KeeperInv, KeepInv
<1> QED BY <1>2, <1>7, <1>8, <1>9, <1>10, <1>11, <1>12 DEF IInv

LEMMA Stuttering ==
    ASSUME IInv, UNCHANGED vars
    PROVE  IInv'
<1>1. /\ UNCHANGED <<dms, booked, res, notices, slot, retiring, gens, worker, routes, snap, lapsed, pending, detached>>
      /\ UNCHANGED <<chan, chanOpen, timers, regClosed, forcing, phase, blocked, exit, failed>>
  BY DEF vars, dmsVars, transportVars, localVars, actorVars, queueVars, endVars
<1>2. Local' = Local
  BY <1>1 DEF Local
<1>3. FlagsType' /\ AnswerInv(dms, snap)'
  BY <1>1 DEF IInv, FlagsType
<1>4. Core(Local, chan, res, notices, pending, detached)' /\ SnapshotInv(Local, snap)'
  BY <1>1, <1>2 DEF IInv
<1>5. PhaseInv'
  BY <1>1, <1>2 DEF IInv, PhaseInv, NothingLeft, Retiring
<1>6. StartRollsBack => KeeperInv'
  BY <1>1, <1>2 DEF IInv, KeeperInv, Trouble
<1> QED BY <1>3, <1>4, <1>5, <1>6 DEF IInv

LEMMA ChildEventSteps ==
    ASSUME IInv, ChildEventNext
    PROVE  IInv'
<1>1. CASE OnStarted
  BY <1>1, StartedStep, TooLateSteps
<1>2. CASE ConfirmedTooLate \/ FailedTooLate
  BY <1>2, TooLateSteps
<1>3. CASE ConfirmedButLost
  BY <1>3, ConfirmedButLostStep
<1>4. CASE ConfirmedAndPublished
  BY <1>4, ConfirmedAndPublishedStep
<1>5. CASE ConfirmedButRefused
  BY <1>5, ConfirmedButRefusedStep
<1>6. CASE OnRetrying
  BY <1>6, RetryingStep
<1>7. CASE OnFailed
  BY <1>7, FailedStep
<1>8. CASE OnRetryFailure
  BY <1>8, RetryFailureStep
<1>9. CASE OnCleanupComplete
  BY <1>9, CleanupCompleteStep
<1> QED BY <1>1, <1>2, <1>3, <1>4, <1>5, <1>6, <1>7, <1>8, <1>9 DEF ChildEventNext

\* One case per action of the system
LEMMA Inductive ==
    ASSUME IInv, [Next]_vars
    PROVE  IInv'
<1>1. ASSUME NEW h \in Handles, TransportNext(h) PROVE IInv'
  BY <1>1, TransportSteps
<1>2. ASSUME NEW h \in Handles, DetachedNext(h) PROVE IInv'
  BY <1>2, TransportSteps, DetachedEndsStep, DetachedFailsStep DEF DetachedNext
<1>3. ASSUME NEW h \in Handles, ObserveFailure(h) PROVE IInv'
  BY <1>3, ObserveStep
<1>4. ASSUME NEW f \in Fences, WorkerNext(f) PROVE IInv'
  BY <1>4, WorkerSteps
<1>5. ASSUME NEW f \in Fences, TimerFires(f) PROVE IInv'
  BY <1>5, TimerStep
<1>6. ASSUME NEW s \in Slots, CleanupNext(s) PROVE IInv'
  BY <1>6, CleanupSteps
<1>7. CASE ChildEventNext
  BY <1>7, ChildEventSteps
<1>8. CASE RefreshBooking
  BY <1>8, RefreshStep
<1>9. CASE ExpireLocalAuthority
  BY <1>9, ExpireStep
<1>10. CASE AuthorityEnds \/ ActorFails \/ Stop \/ ForceShutdown
  BY <1>10, LeavingSteps
<1>11. CASE FenceRegistry
  BY <1>11, FenceRegistryStep
<1>12. CASE RefusedCleanupEnds
  BY <1>12, RefusedStep
<1>13. ASSUME NEW s \in Slots, DrainOne(s) \/ DrainPanics(s) PROVE IInv'
  BY <1>13, DrainOneStep, DrainPanicsStep
<1>14. CASE Drained \/ DeleteBooking
  BY <1>14, EndingSteps
<1>15. CASE DMSNext
  BY <1>15, DMSSteps
<1>16. CASE UNCHANGED vars
  BY <1>16, Stuttering
<1>17. CASE StopNext
  BY <1>10, <1>12, <1>13, <1>14, <1>17 DEF StopNext
<1> QED BY <1>1, <1>2, <1>3, <1>4, <1>5, <1>6, <1>7, <1>8, <1>9, <1>10, <1>11, <1>15, <1>16, <1>17 DEF Next

LEMMA Always ==
    Spec => []IInv
<1>1. Init => IInv
  BY Initially
<1>2. IInv /\ [Next]_vars => IInv'
  BY Inductive
<1> QED BY <1>1, <1>2, PTL DEF Spec

-----------------------------------------------------------------------------
(* Theorems *)

\* The actor, its children and its queues keep the shape that the code gives them, for
\* any number of slots, relays, attempts and reservations.
THEOREM CoordinatorTypeCorrect == Spec => []TypeOK
<1>1. IInv => TypeOK
  BY IInvIsTyped
<1> QED BY <1>1, Always, PTL

\* A route in the catalog belongs to a confirmed slot of that very generation, and its
\* reservation is up unless the notice of its loss is still on its way to the actor
\* (publish_confirmed_route against the broadcast that overtakes Started and Confirmed).
THEOREM RoutesStandOnReservations == Spec => []RouteHasReservation
<1>1. IInv => RouteHasReservation
  <2> SUFFICES ASSUME IInv PROVE RouteHasReservation
    OBVIOUS
  <2>1. LocalInv(Local) /\ RouteInv(Local, chan, res, notices, pending) /\ routes \subseteq Fences
    BY VariableTypes DEF Core
  <2>2. \A f \in routes : f[1] \in Slots /\ slot[f[1]].gen = f[2] /\ slot[f[1]].state = "confirmed"
    BY <2>1, LocalIs, FenceIs DEF LocalInv, Current
  <2>3. \A s \in Slots : slot[s].state = "confirmed" =>
           (res[slot[s].handle].state = "publishable" \/ slot[s].handle \in notices)
    BY <2>1, LocalIs DEF RouteInv
  <2> QED BY <2>2, <2>3 DEF RouteHasReservation
<1> QED BY <1>1, Always, PTL

\* No cleanup, in the slot's own retirement or on the side, cancels the reservation of a
\* current attempt: late events of an older generation disown only their own handle.
THEOREM CleanupsSpareTheCurrent == Spec => []NoFriendlyFire
<1>1. IInv => NoFriendlyFire
  <2> SUFFICES ASSUME IInv, NEW s \in Slots, slot[s].handle # NoHandle
               PROVE  slot[s].handle \notin detached /\ \A t \in Slots : slot[s].handle \notin retiring[t].todo
    BY DEF NoFriendlyFire
  <2> DEFINE h == slot[s].handle
             f == <<s, slot[s].gen>>
  <2>1. /\ Core(Local, chan, res, notices, pending, detached) /\ slot[s] \in SlotRecord /\ LocalInv(Local)
        /\ HandleInv(Local, chan, res, detached)
    BY VariableTypes DEF Core
  <2>2. h \in Handles
    BY <2>1 DEF SlotRecord, AnyHandle
  <2>3. slot[s].gen \in Gens
    BY <2>1, LocalIs, ConstantsType DEF LocalInv, SlotRecord
  <2>4. f \in Fences /\ f[1] = s /\ f[2] = slot[s].gen
    BY <2>3, FenceIs
  <2> HIDE DEF f
  <2>5. Current(Local, f) /\ Mentions(Local, chan, h, f)
    BY <2>4, LocalIs DEF Current, Mentions
  <2>6. ~Disowned(Local, detached, h)
    BY <2>1, <2>2, <2>4, <2>5 DEF HandleInv
  <2> QED BY <2>6, LocalIs DEF Disowned
<1> QED BY <1>1, Always, PTL

\* When starting a reservation is cancellation-safe, as RelayReservationBackend::start
\* demands, a stop that reports success has released every reservation and withdrawn
\* every route, however the workers, the cleanups and the buffered events of any number
\* of slots were interleaved with it, and also when calls of the transport time out.
THEOREM StopsReleaseAll ==
    ASSUME StartRollsBack
    PROVE  Spec => []GracefulStopReleasesAll
<1>1. IInv => GracefulStopReleasesAll
  <2> SUFFICES ASSUME IInv, phase = "ended", exit = "stop", ~failed
               PROVE  routes = {} /\ \A h \in Handles : ~Up(h)
    BY DEF GracefulStopReleasesAll
  <2>1. LocalInv(Local) /\ PhaseInv /\ KeeperInv /\ routes \subseteq Fences
    BY VariableTypes DEF IInv
  <2>2. (\A s \in Slots : slot[s].gen = 0 /\ retiring[s].gen = 0) /\ detached = {}
    BY <2>1 DEF PhaseInv, NothingLeft, Retiring
  <2>3. \A s \in Slots : slot[s] = Vacant /\ retiring[s] = NotRetiring
    BY <2>1, <2>2, LocalIs DEF LocalInv
  <2>4. \A f \in Fences : worker[f].pc = "off"
    BY <2>1, <2>2, LocalIs, FenceIs, GensAre DEF LocalInv, Current
  <2>5. \A f \in Fences : worker[f].h = NoHandle /\ ~worker[f].err
    BY <2>1, <2>4, LocalIs DEF LocalInv
  <2>6. ~Trouble(Local)
    BY <2>3, <2>5, LocalIs, ConstantsType DEF Trouble
  <2>7. KeepInv(Local, res, detached)
    BY <2>1, <2>6 DEF KeeperInv
  <2>8. \A h \in Handles : ~Keeper(Local, detached, h)
    BY <2>2, <2>3, <2>5, LocalIs, ConstantsType, GensAre DEF Keeper
  <2>9. routes = {}
    BY <2>1, <2>2, LocalIs, FenceIs, GensAre DEF LocalInv, Current
  <2> QED BY <2>7, <2>8, <2>9 DEF KeepInv, Up
<1> QED BY <1>1, Always, PTL

\* Under the same demand, and as long as no call of the transport times out, every
\* reservation that the transport keeps up has somebody who will cancel it: a slot, a
\* retirement, a worker or a detached cleanup.
THEOREM ReservationsHaveOwners ==
    ASSUME StartRollsBack, ~CallsTimeOut
    PROVE  Spec => []ReservationsAreOwned
<1>1. IInv => ReservationsAreOwned
  <2> SUFFICES ASSUME IInv, phase # "panicked", NEW h \in Handles, Up(h)
               PROVE  Owned(h)
    BY DEF ReservationsAreOwned
  <2>1. KeepInv(Local, res, detached)
    BY DEF IInv, KeeperInv, Trouble
  <2>2. Keeper(Local, detached, h)
    BY <2>1 DEF KeepInv, Up
  <2> QED BY <2>2, LocalIs DEF Keeper, Owned
<1> QED BY <1>1, Always, PTL

-----------------------------------------------------------------------------
(* What a healthy route may lose *)

\* Of the slots that are confirmed now, `l' has none retired with a failure report
Unreported(l) ==
    \A s \in Slots : slot[s].state = "confirmed" => (l.retiring[s].gen = 0 \/ l.retiring[s].action # "report")

LEMMA NowUnreported ==
    ASSUME IInv
    PROVE  /\ Unreported(Local) /\ \A s \in Slots : slot[s].state = "confirmed" => (slot[s].gen # 0 /\ retiring[s].gen = 0)
           /\ \A s \in Slots : Retiring(s) => slot[s].state # "confirmed"
<1>1. LocalInv(Local) /\ Local \in LocalRecord
  BY VariableTypes
<1>2. \A s \in Slots : slot[s].state = "confirmed" => slot[s].gen # 0
  BY <1>1, NotVacant, LocalIs
<1>3. \A s \in Slots : slot[s].state = "confirmed" => retiring[s].gen = 0
  BY <1>1, <1>2, LocalIs DEF LocalInv
<1> QED BY <1>2, <1>3, LocalIs DEF Unreported, Retiring

LEMMA SameUnreported ==
    ASSUME IInv, \A s \in Slots : retiring'[s] = retiring[s] \/ Retiring(s) \/ retiring'[s].gen = 0
    PROVE  Unreported(Local')
BY NowUnreported, LocalIs, LocalNextIs DEF Unreported

\* The actions of a retirement are the ones it was given
LEMMA ActionsAre ==
    ASSUME NEW l \in LocalRecord, NEW ss \in SUBSET Slots, NEW action, NEW s \in Slots
    PROVE  LET r == RetireSlots(l, ss, action)
           IN /\ s \notin ss => r.retiring[s] = l.retiring[s]
              /\ s \in ss => r.retiring[s].action = action[s]
<1> DEFINE rt == [u \in Slots |->
              IF u \notin ss THEN l.retiring[u]
              ELSE [gen |-> l.slot[u].gen, epoch |-> l.slot[u].epoch,
                    relay |-> l.slot[u].relay, action |-> action[u],
                    join |-> l.slot[u].worker,
                    todo |-> HandleSet(l.slot[u].handle),
                    err |-> FALSE, done |-> FALSE, polled |-> FALSE]]
<1>1. RetireSlots(l, ss, action).retiring = rt
  BY DEF RetireSlots, LocalRecord
<1>2. /\ s \notin ss => rt[s] = l.retiring[s]
      /\ s \in ss => rt[s].action = action[s]
  OBVIOUS
<1> QED BY <1>1, <1>2

LEMMA RetireUnreported ==
    ASSUME NEW l \in LocalRecord, Unreported(l), NEW ss \in SUBSET Slots, NEW action,
           \A s \in ss : slot[s].state = "confirmed" => action[s] # "report"
    PROVE  Unreported(RetireSlots(l, ss, action))
<1> DEFINE r == RetireSlots(l, ss, action)
<1>1. \A s \in Slots : (s \notin ss => r.retiring[s] = l.retiring[s]) /\ (s \in ss => r.retiring[s].action = action[s])
  BY ActionsAre
<1> HIDE DEF r
<1>2. Unreported(r)
  BY <1>1 DEF Unreported
<1> QED BY <1>2 DEF r

LEMMA ApplyUnreported ==
    ASSUME NEW l \in LocalRecord, Unreported(l), NEW sn, NEW lp
    PROVE  Unreported(ApplySnapshot(l, sn, lp))
<1> DEFINE ss == Leaving(l, sn, lp)
           act == [s \in Slots |-> IF ~Stale(l, sn, s) /\ s \in lp THEN "remove" ELSE "reconcile"]
           k == RetireSlots(l, ss, act)
           r == StartWorkers(k, sn, Entering(k, sn, lp))
<1>1. ss \in SUBSET Slots /\ \A s \in ss : act[s] \in {"reconcile", "report", "remove"} /\ act[s] # "report"
  BY DEF Leaving
<1>2. ApplySnapshot(l, sn, lp) = r
  BY DEF ApplySnapshot, Reconciled
<1> HIDE DEF ss, act
<1>3. Unreported(k) /\ k \in LocalRecord
  BY <1>1, RetireUnreported, RetireIs
<1> HIDE DEF k
<1>4. r.retiring = k.retiring
  BY <1>3 DEF StartWorkers, LocalRecord
<1> HIDE DEF r
<1> QED BY <1>2, <1>3, <1>4 DEF Unreported

LEMMA DrainUnreported ==
    ASSUME NEW l \in LocalRecord, NEW why, Drain(l, why)
    PROVE  Unreported(Local')
<1> DEFINE ss == {s \in Slots : l.slot[s].state # "vacant"}
           act == [s \in Slots |-> "remove"]
           all == RetireSlots(l, ss, act)
           rt == [s \in Slots |-> IF all.retiring[s].gen = 0 THEN all.retiring[s]
                                  ELSE [all.retiring[s] EXCEPT !.action = "remove"]]
<1>1. ss \in SUBSET Slots /\ \A s \in ss : act[s] \in {"reconcile", "report", "remove"}
  OBVIOUS
<1>2. SetLocal([all EXCEPT !.retiring = rt])
  BY DEF Drain
<1> HIDE DEF ss, act
<1>3. all \in LocalRecord
  BY <1>1, RetireIs
<1> HIDE DEF all
<1>4. retiring' = rt
  BY <1>2, <1>3 DEF SetLocal, LocalRecord
<1>5. \A s \in Slots : all.retiring[s] \in RetiringRecord
  BY <1>3, LocalFields
<1>6. \A s \in Slots : rt[s].gen = 0 \/ rt[s].action = "remove"
  BY <1>5 DEF RetiringRecord
<1> QED BY <1>4, <1>6, LocalNextIs DEF Unreported

LEMMA ReportUnreported ==
    ASSUME IInv, NEW l \in LocalRecord, Unreported(l), NEW f \in Fences, Report(l, f)
    PROVE  Unreported(Local')
<1>1. CASE ReportApplied(l, f)
  <2> DEFINE act == [t \in {f[1]} |-> "reconcile"]
             q == RetireSlots(l, {f[1]}, act)
  <2>1. PICK d, lp : SetLocal(ApplySnapshot(q, d, lp))
    BY <1>1 DEF ReportApplied, Retire, ApplyAnswer
  <2>2. /\ {f[1]} \in SUBSET Slots
        /\ \A s \in {f[1]} : act[s] \in {"reconcile", "report", "remove"} /\ act[s] # "report"
    BY FenceIs
  <2> HIDE DEF act
  <2>3. q \in LocalRecord /\ Unreported(q)
    BY <2>2, RetireIs, RetireUnreported
  <2> HIDE DEF q
  <2>4. Unreported(ApplySnapshot(q, d, lp))
    BY <2>3, ApplyUnreported
  <2> QED BY <2>1, <2>4, LocalNextIs DEF Unreported, SetLocal
<1>2. CASE ReportRetried(l, f) \/ ReportRefused(l, f)
  <2>1. SetLocal(l)
    BY <1>2 DEF ReportRetried, ReportRefused
  <2> QED BY <2>1, LocalNextIs DEF Unreported, SetLocal
<1>3. CASE ReportEnds(l, f)
  BY <1>3, DrainUnreported DEF ReportEnds
<1> QED BY <1>1, <1>2, <1>3 DEF Report

\* A retirement of one slot that is not confirmed, after steps that leave `retiring' alone
LEMMA RetiringOneUnreported ==
    ASSUME IInv, NEW l \in LocalRecord, l.retiring = retiring, NEW s \in Slots, NEW what,
           slot[s].state # "confirmed" \/ what # "report", SetLocal(Retire(l, s, what))
    PROVE  Unreported(Local')
<1> DEFINE act == [t \in {s} |-> what]
           q == RetireSlots(l, {s}, act)
<1>1. SetLocal(q)
  BY DEF Retire
<1>2. {s} \in SUBSET Slots /\ \A t \in {s} : slot[t].state = "confirmed" => act[t] # "report"
  OBVIOUS
<1>3. Unreported(l)
  BY NowUnreported, LocalIs DEF Unreported
<1> HIDE DEF act
<1>4. Unreported(q)
  BY <1>2, <1>3, RetireUnreported
<1> HIDE DEF q
<1> QED BY <1>1, <1>4, LocalNextIs DEF Unreported, SetLocal

LEMMA LoopUnreported ==
    ASSUME IInv, RefreshBooking \/ ExpireLocalAuthority \/ Stop \/ ActorFails \/ AuthorityEnds
                 \/ RefusedCleanupEnds \/ ForceShutdown
    PROVE  Unreported(Local')
<1>0. Local \in LocalRecord /\ Unreported(Local)
  BY VariableTypes, NowUnreported
<1>1. CASE RefreshBooking
  <2>1. PICK lp : SetLocal(ApplySnapshot(Local, dms, lp))
    BY <1>1 DEF RefreshBooking, ApplyAnswer
  <2>2. Unreported(ApplySnapshot(Local, dms, lp))
    BY <1>0, ApplyUnreported
  <2> QED BY <2>1, <2>2, LocalNextIs DEF Unreported, SetLocal
<1>2. CASE ExpireLocalAuthority
  <2> DEFINE due == {s \in lapsed : slot[s].state \in {"reserving", "confirmed"}}
             act == [s \in due |-> "remove"]
             r == RetireSlots(Local, due, act)
  <2>1. SetLocal(r) /\ due \in SUBSET Slots /\ \A s \in due : act[s] # "report"
    BY <1>2 DEF ExpireLocalAuthority, IInv, FlagsType
  <2> HIDE DEF due, act
  <2>2. Unreported(r)
    BY <1>0, <2>1, RetireUnreported
  <2> HIDE DEF r
  <2> QED BY <2>1, <2>2, LocalNextIs DEF Unreported, SetLocal
<1>3. CASE Stop \/ ActorFails \/ AuthorityEnds \/ ForceShutdown
  <2>1. PICK why : Drain(Local, why)
    BY <1>3 DEF Stop, ActorFails, AuthorityEnds, ForceShutdown
  <2> QED BY <1>0, <2>1, DrainUnreported
<1>4. CASE RefusedCleanupEnds
  <2> DEFINE r == IF retiring[blocked].err THEN Unreaped(blocked) ELSE Reaped(blocked)
  <2>1. Drain(r, "failed") /\ blocked \in Slots /\ retiring[blocked].done
    BY <1>4 DEF RefusedCleanupEnds, IInv, PhaseInv
  <2>2. r \in LocalRecord
    BY <2>1, ReapedIs, UnreapedIs
  <2> HIDE DEF r
  <2> QED BY <2>1, <2>2, DrainUnreported
<1> QED BY <1>1, <1>2, <1>3, <1>4

LEMMA EventsUnreported ==
    ASSUME IInv, ChildEventNext
    PROVE  Unreported(Local')
<1> DEFINE e == Head(chan)
           s == e.fence[1]
<1>0. Local \in LocalRecord /\ Unreported(Local)
  BY VariableTypes, NowUnreported
<1>1. CASE OnStarted \/ ConfirmedTooLate \/ OnRetrying \/ FailedTooLate
  <2>1. retiring' = retiring
    BY <1>1 DEF OnStarted, ConfirmedTooLate, OnRetrying, FailedTooLate, localVars
  <2> QED BY <2>1, SameUnreported
<1>2. ASSUME Hears("Confirmed"), ConfirmsCurrent(e)
      PROVE  /\ s \in Slots /\ slot[s].state # "confirmed" /\ Joined(Local, e.fence) \in LocalRecord
             /\ Joined(Local, e.fence).retiring = retiring
  <2>1. LastWord(e) /\ Joined(Local, e.fence) \in LocalRecord /\ EndedTo(Local, Joined(Local, e.fence), e.fence, e.h)
    BY <1>2, ConfirmedIs
  <2>2. s \in Slots /\ slot[s].state = "reserving"
    BY <2>1, LastWordIs
  <2> QED BY <2>1, <2>2, LocalIs DEF EndedTo
<1>3. CASE ConfirmedButLost \/ ConfirmedButRefused
  <2>1. PICK what : SetLocal(Retire(Joined(Local, e.fence), s, what)) /\ Hears("Confirmed") /\ ConfirmsCurrent(e)
    BY <1>3 DEF ConfirmedButLost, ConfirmedButRefused
  <2>2. /\ s \in Slots /\ slot[s].state # "confirmed" /\ Joined(Local, e.fence) \in LocalRecord
        /\ Joined(Local, e.fence).retiring = retiring
    BY <1>2, <2>1
  <2> DEFINE j == Joined(Local, e.fence)
  <2>3. SetLocal(Retire(j, s, what)) /\ j \in LocalRecord /\ j.retiring = retiring
    BY <2>1, <2>2
  <2> HIDE DEF j, s
  <2> QED BY <2>2, <2>3, RetiringOneUnreported
<1>4. CASE ConfirmedAndPublished
  <2> DEFINE j == Joined(Local, e.fence)
  <2>1. Hears("Confirmed") /\ ConfirmsCurrent(e)
        /\ SetLocal([j EXCEPT !.slot[s].state = "confirmed", !.routes = @ \cup {e.fence}])
    BY <1>4 DEF ConfirmedAndPublished
  <2>2. j \in LocalRecord /\ j.retiring = retiring
    BY <1>2, <2>1
  <2> HIDE DEF j, s, e
  <2>3. retiring' = retiring
    BY <2>1, <2>2 DEF SetLocal, LocalRecord
  <2> QED BY <2>3, SameUnreported
<1>5. CASE OnFailed
  <2> DEFINE r == [Joined(Local, e.fence) EXCEPT !.slot[s].handle = IF @ = NoHandle THEN e.h ELSE @]
  <2>1. Hears("Failed") /\ IsReserving(e.fence) /\ SetLocal(Retire(r, s, "report"))
    BY <1>5 DEF OnFailed
  <2>2. r \in LocalRecord /\ EndedTo(Local, r, e.fence, e.h) /\ s \in Slots
    BY <2>1, FailedIs
  <2>3. r.retiring = retiring /\ slot[s].state # "confirmed"
    BY <2>1, <2>2, LocalIs DEF EndedTo, IsReserving
  <2> HIDE DEF r, s
  <2> QED BY <2>1, <2>2, <2>3, RetiringOneUnreported
<1>6. CASE OnRetryFailure
  <2>1. CASE Report(Local, e.fence)
    <3>1. e.fence \in Fences
      BY <1>6, HeadFacts DEF OnRetryFailure, Hears, HeadKnown
    <3> QED BY <1>0, <2>1, <3>1, ReportUnreported
  <2>2. CASE retiring' = retiring
    BY <2>2, SameUnreported
  <2> QED BY <1>6, <2>1, <2>2 DEF OnRetryFailure, localVars
<1>7. CASE OnCleanupComplete
  <2>1. Hears("CleanupComplete") /\ retiring[s].gen = e.fence[2]
    BY <1>7 DEF OnCleanupComplete
  <2>2. HeadKnown(e) /\ retiring[s].done
    BY <2>1, CompletionIs
  <2>3. e.fence \in Fences /\ s \in Slots
    BY <2>2 DEF HeadKnown
  <2>4. /\ Reaped(s) \in LocalRecord /\ Reaped(s).retiring[s] = NotRetiring
        /\ \A u \in Slots : u # s => Reaped(s).retiring[u] = retiring[u]
    BY <2>2, <2>3, ReapedIs
  <2>5. Unreported(Reaped(s))
    BY <1>0, <2>4, LocalIs, ConstantsType DEF Unreported
  <2>6. CASE Drain(Unreaped(s), "failed")
    BY <2>2, <2>3, <2>6, UnreapedIs, DrainUnreported
  <2>7. CASE ~retiring[s].err /\ Report(Reporting(s), e.fence)
    <3>1. ReportsFrom(Reporting(s), e.fence)
      BY <2>1, <2>7, ReportingIs
    <3>2. Reporting(s).retiring = Reaped(s).retiring
      <4>1. \A x : \A l \in LocalRecord : [l EXCEPT !.slot[s] = x].retiring = l.retiring
        BY DEF LocalRecord
      <4> QED BY <2>4, <4>1 DEF Reporting
    <3>3. Unreported(Reporting(s)) /\ Reporting(s) \in LocalRecord
      BY <2>5, <3>1, <3>2 DEF Unreported, ReportsFrom
    <3> QED BY <2>3, <2>7, <3>3, ReportUnreported
  <2>8. CASE SetLocal(IF retiring[s].action = "remove" THEN Reaped(s) ELSE ApplySnapshot(Reaped(s), snap, lapsed))
    <3> DEFINE r == IF retiring[s].action = "remove" THEN Reaped(s) ELSE ApplySnapshot(Reaped(s), snap, lapsed)
    <3>1. Unreported(r)
      BY <2>4, <2>5, ApplyUnreported
    <3> HIDE DEF r
    <3>2. SetLocal(r)
      BY <2>8 DEF r
    <3> QED BY <3>1, <3>2, LocalNextIs DEF Unreported, SetLocal
  <2> QED BY <1>7, <2>6, <2>7, <2>8 DEF OnCleanupComplete
<1> QED BY <1>1, <1>3, <1>4, <1>5, <1>6, <1>7 DEF ChildEventNext

LEMMA CleanupUnreported ==
    ASSUME IInv, NEW s \in Slots, CleanupNext(s)
    PROVE  Unreported(Local')
<1>1. Retiring(s) /\ retiring \in [Slots -> RetiringRecord]
  BY VariableTypes DEF CleanupNext, CleanupJoins, CleanupAborts, CleanupCancels, CleanupDone
<1>2. \A t \in Slots : t # s => retiring'[t] = retiring[t]
  BY <1>1 DEF CleanupNext, CleanupJoins, CleanupAborts, CleanupCancels, CleanupDone
<1> QED BY <1>1, <1>2, SameUnreported

LEMMA ObservedIsDown ==
    ASSUME IInv, NEW h \in Handles, ObserveFailure(h), NEW s \in Slots, slot[s].state = "confirmed",
           retiring'[s].gen = slot[s].gen, retiring'[s].action = "report"
    PROVE  res[slot[s].handle].state # "publishable"
<1> DEFINE hit == ConfirmedFor(h)
           act == [t \in hit |-> "report"]
           r == RetireSlots(Local, hit, act)
<1>1. slot[s].gen # 0 /\ retiring[s].gen = 0 /\ Local \in LocalRecord
  BY NowUnreported, VariableTypes
<1>2. hit # {} /\ SetLocal(r) /\ h \in notices
  BY <1>1 DEF ObserveFailure, localVars
<1>3. hit \in SUBSET Slots /\ \A t \in hit : slot[t].handle = h
  BY DEF ConfirmedFor
<1> HIDE DEF hit, act
<1>4. s \notin hit => r.retiring[s] = retiring[s]
  BY <1>1, <1>3, ActionsAre, LocalIs
<1> HIDE DEF r
<1>5. retiring' = r.retiring
  BY <1>2 DEF SetLocal
<1>6. slot[s].handle = h
  BY <1>1, <1>3, <1>4, <1>5
<1>7. res[h].state \in {"canceling", "gone"}
  BY <1>2 DEF IInv, Core, RouteInv
<1> QED BY <1>6, <1>7

\* A healthy confirmed slot, one whose own reservation is up, is never retired with a
\* failure report: evidence about an older handle of the same relay, late events of an
\* older attempt and failed cleanups do not take its route away.
THEOREM HealthyRoutesStay == Spec => HealthyNotReported
<1> DEFINE Healthy == \A s \in Slots :
          /\ slot[s].state = "confirmed"
          /\ retiring'[s].gen = slot[s].gen
          /\ retiring'[s].action = "report"
          => res[slot[s].handle].state # "publishable"
<1>1. ASSUME IInv, Unreported(Local') PROVE Healthy
  BY <1>1, NowUnreported, LocalNextIs DEF Unreported
<1>2. ASSUME IInv, [Next]_vars PROVE Healthy
  <2>1. CASE retiring' = retiring
    BY <1>1, <1>2, <2>1, SameUnreported
  <2>2. ASSUME NEW h \in Handles, TransportNext(h) PROVE Healthy
    <3>1. retiring' = retiring
      BY <2>2 DEF TransportNext, TransportConfirms, TransportLoses, DispatchUnclaimed, TransportReleases, localVars
    <3> QED BY <2>1, <3>1
  <2>3. ASSUME NEW h \in Handles, DetachedNext(h) PROVE Healthy
    <3>1. CASE Drain(Local, "failed")
      BY <1>1, <1>2, <3>1, VariableTypes, DrainUnreported
    <3>2. CASE ~Drain(Local, "failed")
      <4>1. retiring' = retiring
        BY <2>3, <3>2 DEF DetachedNext, DetachedBegins, DetachedEnds, DetachedFails, localVars
      <4> QED BY <2>1, <4>1
    <3> QED BY <3>1, <3>2
  <2>4. ASSUME NEW h \in Handles, ObserveFailure(h) PROVE Healthy
    BY <1>2, <2>4, ObservedIsDown
  <2>5. ASSUME NEW f \in Fences, WorkerNext(f) \/ TimerFires(f) PROVE Healthy
    <3>1. retiring' = retiring
      BY <2>5 DEF WorkerNext, Mint, Answer, AttemptEnds, AttemptFails, GiveUp, ReportStarted, WaitSucceeds,
         ReportConfirmed, WaitEnds, WaitRetries, RetryBegins, Release, Abandon, WorkerFrame, TimerFires, localVars
    <3> QED BY <2>1, <3>1
  <2>6. ASSUME NEW s \in Slots, CleanupNext(s) PROVE Healthy
    BY <1>1, <1>2, <2>6, CleanupUnreported
  <2>7. CASE ChildEventNext
    BY <1>1, <1>2, <2>7, EventsUnreported
  <2>8. CASE RefreshBooking \/ ExpireLocalAuthority \/ Stop \/ ActorFails \/ AuthorityEnds
             \/ RefusedCleanupEnds \/ ForceShutdown
    BY <1>1, <1>2, <2>8, LoopUnreported
  <2>9. ASSUME NEW s \in Slots, DrainOne(s) \/ DrainPanics(s) PROVE Healthy
    <3>1. \A t \in Slots : retiring'[t] = retiring[t] \/ retiring'[t].gen = 0
      <4>1. CASE DrainOne(s)
        <5>1. retiring[s].done /\ SetLocal(Reaped(s))
          BY <4>1 DEF DrainOne
        <5>2. /\ Reaped(s).retiring[s] = NotRetiring
              /\ \A u \in Slots : u # s => Reaped(s).retiring[u] = retiring[u]
          BY <1>2, <5>1, ReapedIs
        <5> QED BY <5>1, <5>2, ConstantsType DEF SetLocal
      <4>2. CASE DrainPanics(s)
        <5>1. retiring' = [t \in Slots |-> NotRetiring]
          BY <4>2 DEF DrainPanics, SetLocal, Local
        <5> QED BY <5>1, ConstantsType
      <4> QED BY <2>9, <4>1, <4>2
    <3> QED BY <1>1, <1>2, <3>1, SameUnreported
  <2>10. CASE Drained \/ DeleteBooking \/ FenceRegistry \/ DMSNext \/ UNCHANGED vars
    <3>1. retiring' = retiring
      BY <2>10 DEF Drained, DeleteBooking, FenceRegistry, DMSNext, EndBooking, Reassign, BecomeReady, Lapse,
         EnvFrame, vars, localVars
    <3> QED BY <2>1, <3>1
  <2> HIDE DEF Healthy
  <2> QED BY <1>2, <2>2, <2>3, <2>4, <2>5, <2>6, <2>7, <2>8, <2>9, <2>10 DEF Next, StopNext
<1>3. IInv /\ [Next]_vars => [Healthy]_vars
  BY <1>2
<1> QED BY <1>3, Always, PTL DEF Spec, HealthyNotReported
=============================================================================
