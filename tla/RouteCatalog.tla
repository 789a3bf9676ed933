---------------------------- MODULE RouteCatalog ----------------------------
(***************************************************************************)
(* The local route catalog of a peer (core/auki-p2p/src/routing.rs), the   *)
(* per-coordinator publication fence around it (FencedRouteCatalog in      *)
(* core/auki-sdk/src/relay/coordinator.rs) and the way the peer runtime    *)
(* reads, watches and finally clears it.                                   *)
(*                                                                         *)
(* Every catalog call is two steps: one under the catalog's mutex, and the *)
(* later send of the status computed there to the watch channel, which     *)
(* happens after the mutex is released.  A registry (an "owner") holds its *)
(* own outer mutex across both, so an owner has one call in flight; the    *)
(* calls of different callers interleave freely.                           *)
(*                                                                         *)
(* A call reads the clock before it waits for the mutex: `now' is any      *)
(* instant at most Lag ticks old when the locked step runs.                *)
(***************************************************************************)
EXTENDS Naturals, FiniteSets

CONSTANTS
    Owners,          \* registries (coordinators) sharing the catalog
    Slots,           \* route ids
    Readers,         \* which of "app" and "publisher" read the catalog
    Relays,          \* relay peers; a relay peer stands for its two endpoints
    DirectRoutes,    \* direct routes the peer may advertise
    HostMutates,     \* the host changes routes before it shuts down: TRUE for a
                     \* direct user of the catalog, FALSE for AukiPeer
    MaxRoutes,       \* RouteCatalogLimits.maximum_routes
    MaxRelayRoutes,  \* RouteCatalogLimits.maximum_relay_routes
    Lag,             \* how stale `now' may be when the mutex is obtained
    MaxTime,         \* bound on the clock
    MaxGeneration,   \* bound on NEXT_LOCAL_RELAY_GENERATION
    MaxRevision      \* bound on the revision (a u64 in the code)

ASSUME LimitsAreNaturals ==
    /\ MaxRoutes \in Nat /\ MaxRelayRoutes \in Nat
    /\ Lag \in Nat /\ MaxTime \in Nat /\ MaxGeneration \in Nat
    /\ MaxRevision \in Nat

ASSUME HostMutatesIsBoolean == HostMutates \in BOOLEAN

ASSUME CallersAreDistinct ==
    /\ Owners \cap {"host", "app", "publisher"} = {}
    /\ Readers \subseteq {"app", "publisher"}

ASSUME DirectRoutesFinite ==
    IsFiniteSet(DirectRoutes) /\ Cardinality(DirectRoutes) <= MaxRoutes

Callers == Owners \cup Readers \cup {"host"}

VARIABLES
    clock,      \* wall-clock time
    direct,     \* RouteState.direct_routes
    stored,     \* RouteState.relay_routes: at most one entry per slot
    revision,   \* RouteState.revision
    watch,      \* the value held by the status watch channel
    sending,    \* per caller: the status it computed and has not sent yet
    nextGen,    \* NEXT_LOCAL_RELAY_GENERATION
    closed,     \* FencedRouteState.closed, per owner
    owned,      \* FencedRouteState.owned, per owner
    fencing,    \* fences an owner's running fence_all has still to tombstone
    phase,      \* life of the peer runtime that owns the catalog
    orderly,    \* AukiPeer::shutdown (TRUE) or Drop (FALSE)
    publishing, \* the DDS publisher task is alive
    seen,       \* snapshot last read by the application
    committed   \* snapshot its last commit_if_current ran on

catalogVars == <<direct, stored, revision>>
ownerVars == <<nextGen, closed, owned, fencing>>
hostVars == <<phase, orderly, publishing>>
readerVars == <<seen, committed>>
vars == <<clock, catalogVars, watch, sending, ownerVars, hostVars, readerVars>>

Nothing == [kind |-> "nothing"]

Fence == [slot : Slots, gen : Nat]
Entry == [fence : Fence, relay : Relays, until : Nat, live : BOOLEAN]
Status == [revision : Nat, directs : Nat, relays : Nat]
Snapshot == [revision : Nat, direct : SUBSET DirectRoutes, fences : SUBSET Fence]

-----------------------------------------------------------------------------
(* The locked state *)

\* Entries whose publishable flag is set
Live(entries) == {e \in entries : e.live}

\* publishable_relay_count: publishable and still authorized at `now'
Publishable(entries, now) == {e \in Live(entries) : e.until > now}

Overdue(entries, now) == {e \in Live(entries) : e.until <= now}

\* expire_authorizations: drop the flag of every overdue entry ...
Expired(entries, now) ==
    {IF e.live /\ e.until <= now THEN [e EXCEPT !.live = FALSE] ELSE e :
        e \in entries}

\* Mutant: an expiry does not advance the revision
ExpiredRevisionUnchanged(now) == revision

\* ... and advance the revision once per entry
ExpiredRevision(now) == revision + Cardinality(Overdue(stored, now))

StatusOf(d, entries, rev, now) ==
    [revision |-> rev, directs |-> Cardinality(d),
     relays |-> Cardinality(Publishable(entries, now))]

SnapshotOf(d, entries, rev, now) ==
    [revision |-> rev, direct |-> d,
     fences |-> {e.fence : e \in Publishable(entries, now)}]

EntryOf(f) == {e \in stored : e.fence = f}
Without(entries, f) == {e \in entries : e.fence # f}

\* The instants a call that obtains the mutex now may have read
Instants == {n \in 0..MaxTime : n <= clock /\ clock <= n + Lag}

Idle(c) == sending[c] = Nothing

\* Leave the catalog as expire_authorizations left it: every early return
\* behind the lock does this, and none of them sends a status
ExpireOnly(now) ==
    /\ stored' = Expired(stored, now)
    /\ revision' = ExpiredRevision(now)
    /\ UNCHANGED <<direct, watch, sending>>

\* Replace the locked state; the caller still has to send the status
Store(c, d, entries, rev, now) ==
    /\ direct' = d
    /\ stored' = entries
    /\ revision' = rev
    /\ sending' = [sending EXCEPT ![c] = StatusOf(d, entries, rev, now)]
    /\ UNCHANGED watch

-----------------------------------------------------------------------------
(* FencedRouteCatalog: publish, refresh_authority, tombstone, fence_all *)

\* The owner's outer mutex is free
Unlocked(o) == Idle(o) /\ fencing[o] = {}

\* publish_confirmed accepts a route for a slot the catalog does not hold.
\* A fence is published once, with a fresh generation, so an entry already in
\* the slot always has another fence: RelaySlotOccupied
Admits(f, relay, now) ==
    LET entries == Expired(stored, now)
    IN /\ \A e \in entries : e.fence.slot # f.slot
       /\ Cardinality(entries) < MaxRelayRoutes
       /\ \A e \in entries : e.relay # relay
       /\ Cardinality(direct) + Cardinality(Publishable(entries, now)) + 1
            <= MaxRoutes

\* Mutant: the permanent bit is not looked at
OpenAlways(o) == TRUE

Open(o) == ~closed[o]

\* Mutant: a publication is not recorded as owned
RecordedNot(o, f) == owned

\* Mutant: a slot is recorded instead of the exact fence
RecordedSlot(o, f) == [owned EXCEPT ![o] = @ \cup {f.slot}]

Recorded(o, f) == [owned EXCEPT ![o] = @ \cup {f}]

Publish(o, slot, relay, until, now) ==
    LET f == [slot |-> slot, gen |-> nextGen]
        entry == [fence |-> f, relay |-> relay, until |-> until, live |-> TRUE]
    IN /\ Unlocked(o)
       /\ Open(o)
       /\ until > now
       /\ nextGen' = nextGen + 1
       /\ \/ /\ Admits(f, relay, now)
             /\ Store(o, direct, Expired(stored, now) \cup {entry},
                      ExpiredRevision(now) + 1, now)
             /\ owned' = Recorded(o, f)
          \/ /\ ~Admits(f, relay, now)
             /\ ExpireOnly(now)
             /\ UNCHANGED owned
       /\ UNCHANGED <<clock, closed, fencing, hostVars, readerVars>>

\* refresh_authorization of the entry `e' that holds the fence
Refreshed(e, until, now) ==
    [e EXCEPT !.until = until, !.live = (until > now)]

\* Mutant: a route comes back to life without a look at the limit
RefreshFitsAlways(e, until, now) == TRUE

RefreshFits(e, until, now) ==
    \/ until <= now
    \/ e.live
    \/ Cardinality(direct) + Cardinality(Publishable(Expired(stored, now), now)) + 1
         <= MaxRoutes

RefreshAuthority(o, f, until, now) ==
    /\ Unlocked(o)
    /\ Open(o)
    /\ f \in owned[o]
    /\ \/ \E e \in Expired(stored, now) :
            /\ e.fence = f
            /\ RefreshFits(e, until, now)
            /\ Store(o, direct,
                     Without(Expired(stored, now), f) \cup {Refreshed(e, until, now)},
                     ExpiredRevision(now)
                       + (IF e.live # (until > now) THEN 1 ELSE 0), now)
            /\ UNCHANGED owned
       \/ /\ \E e \in Expired(stored, now) :
               e.fence = f /\ ~RefreshFits(e, until, now)
          /\ ExpireOnly(now)
          /\ UNCHANGED owned
       \/ /\ EntryOf(f) = {}      \* RouteNotFound, StaleRouteFence
          /\ ExpireOnly(now)
          /\ owned' = [owned EXCEPT ![o] = @ \ {f}]
    /\ UNCHANGED <<clock, nextGen, closed, fencing, hostVars, readerVars>>

\* RouteCatalog::tombstone under the owner's mutex; whether or not the catalog
\* still holds the fence, the owner forgets it
TombstoneEntry(o, f, now) ==
    /\ \/ \E e \in Expired(stored, now) :
            /\ e.fence = f
            /\ Store(o, direct, Without(Expired(stored, now), f),
                     ExpiredRevision(now) + (IF e.live THEN 1 ELSE 0), now)
       \/ EntryOf(f) = {} /\ ExpireOnly(now)
    /\ owned' = [owned EXCEPT ![o] = @ \ {f}]

Tombstone(o, f, now) ==
    /\ Unlocked(o)
    /\ f \in owned[o]
    /\ TombstoneEntry(o, f, now)
    /\ UNCHANGED <<clock, nextGen, closed, fencing, hostVars, readerVars>>

\* Mutant: fence_all takes the fences of the whole catalog
FenceAllOfCatalog(o) ==
    /\ Unlocked(o)
    /\ closed' = [closed EXCEPT ![o] = TRUE]
    /\ fencing' = [fencing EXCEPT ![o] = owned[o] \cup {e.fence : e \in stored}]
    /\ UNCHANGED <<clock, catalogVars, watch, sending, nextGen, owned,
                   hostVars, readerVars>>

\* fence_all sets the permanent bit and collects the owned fences; the outer
\* mutex stays held until each of them has been tombstoned
FenceAll(o) ==
    /\ Unlocked(o)
    /\ closed' = [closed EXCEPT ![o] = TRUE]
    /\ fencing' = [fencing EXCEPT ![o] = owned[o]]
    /\ UNCHANGED <<clock, catalogVars, watch, sending, nextGen, owned,
                   hostVars, readerVars>>

FenceOne(o, f, now) ==
    /\ Idle(o)
    /\ f \in fencing[o]
    /\ TombstoneEntry(o, f, now)
    /\ fencing' = [fencing EXCEPT ![o] = @ \ {f}]
    /\ UNCHANGED <<clock, nextGen, closed, hostVars, readerVars>>

-----------------------------------------------------------------------------
(* The host: direct routes, tombstone_all and the two ways to stop *)

ReplaceDirect(routes, now) ==
    IF direct = routes \/ Cardinality(routes)
          + Cardinality(Publishable(Expired(stored, now), now)) > MaxRoutes
    THEN ExpireOnly(now)
    ELSE Store("host", routes, Expired(stored, now), ExpiredRevision(now) + 1, now)

HostReplaceDirect(routes, now) ==
    /\ HostMutates
    /\ phase = "running"
    /\ Idle("host")
    /\ ReplaceDirect(routes, now)
    /\ UNCHANGED <<clock, ownerVars, hostVars, readerVars>>

TombstoneAll(now) ==
    LET entries == Expired(stored, now)
    IN Store("host", direct, {},
             ExpiredRevision(now) + Cardinality(Live(entries)), now)

HostTombstoneAll(now) ==
    /\ HostMutates
    /\ phase = "running"
    /\ Idle("host")
    /\ TombstoneAll(now)
    /\ UNCHANGED <<clock, ownerVars, hostVars, readerVars>>

\* ContextLifecycle::fence takes the mutex every AukiPeerRoutes call holds
BeginShutdown(inOrder) ==
    /\ phase = "running"
    /\ Idle("host")
    /\ "app" \in Readers => Idle("app")
    /\ phase' = "stopping"
    /\ orderly' = inOrder
    /\ UNCHANGED <<clock, catalogVars, watch, sending, ownerVars, publishing,
                   readerVars>>

\* The publisher task ends between two catalog calls: it is cancelled, or the
\* authority of the peer stopped
StopPublisher ==
    /\ publishing
    /\ Idle("publisher")
    /\ publishing' = FALSE
    /\ UNCHANGED <<clock, catalogVars, watch, sending, ownerVars, phase, orderly,
                   readerVars>>

\* Mutant: the publisher is told to stop but not joined
PublisherJoinedNot == TRUE

PublisherJoined == orderly => ~publishing

\* Mutant: the catalog is cleared before the coordinators are fenced
OwnersFencedNot == TRUE

OwnersFenced == \A o \in Owners : closed[o] /\ Unlocked(o)

\* shutdown joins the publisher; both ways end every coordinator with fence_all
ClearRelayRoutes(now) ==
    /\ phase = "stopping"
    /\ PublisherJoined
    /\ OwnersFenced
    /\ TombstoneAll(now)
    /\ phase' = "clearing"
    /\ UNCHANGED <<clock, ownerVars, orderly, publishing, readerVars>>

ClearDirectRoutes(now) ==
    /\ phase = "clearing"
    /\ Idle("host")
    /\ ReplaceDirect({}, now)
    /\ phase' = "cleared"
    /\ UNCHANGED <<clock, ownerVars, orderly, publishing, readerVars>>

-----------------------------------------------------------------------------
(* Readers: the application through AukiPeerRoutes, the DDS publisher *)

\* Mutant: a read does not send the status
ReadSnapshotQuietly(c, now) == ExpireOnly(now)

ReadSnapshot(c, now) ==
    Store(c, direct, Expired(stored, now), ExpiredRevision(now), now)

AppSnapshot(now) ==
    /\ "app" \in Readers
    /\ phase = "running"
    /\ Idle("app")
    /\ ReadSnapshot("app", now)
    /\ seen' = SnapshotOf(direct, stored', revision', now)
    /\ committed' = Nothing
    /\ UNCHANGED <<clock, ownerVars, hostVars>>

PublisherSnapshot(now) ==
    /\ publishing
    /\ Idle("publisher")
    /\ ReadSnapshot("publisher", now)
    /\ UNCHANGED <<clock, ownerVars, hostVars, readerVars>>

\* commit_if_current(seen.revision, expected, ..): the callback runs on the
\* snapshot taken under the same lock.  No status is sent, expired or not
SeenFences == IF seen = Nothing THEN {} ELSE seen.fences

\* Mutant: only the expected routes are compared, not the revision
CommitIsCurrentByRoutes(expected, now) ==
    \A f \in expected :
        \E e \in Publishable(Expired(stored, now), now) : e.fence = f

CommitIsCurrent(expected, now) ==
    /\ ExpiredRevision(now) = seen.revision
    /\ \A f \in expected :
         \E e \in Publishable(Expired(stored, now), now) : e.fence = f

Commit(expected, now) ==
    /\ phase = "running"
    /\ seen # Nothing
    /\ Idle("app")
    /\ expected \subseteq SeenFences
    /\ ExpireOnly(now)
    /\ committed' = IF CommitIsCurrent(expected, now)
                    THEN SnapshotOf(direct, stored', revision', now)
                    ELSE committed
    /\ UNCHANGED <<clock, ownerVars, hostVars, seen>>

-----------------------------------------------------------------------------

\* status.send_replace / send_if_modified, after the catalog mutex is released
SendStatus(c) ==
    /\ ~Idle(c)
    /\ watch' = sending[c]
    /\ sending' = [sending EXCEPT ![c] = Nothing]
    /\ UNCHANGED <<clock, catalogVars, ownerVars, hostVars, readerVars>>

Tick ==
    /\ clock < MaxTime
    /\ clock' = clock + 1
    /\ UNCHANGED <<catalogVars, watch, sending, ownerVars, hostVars, readerVars>>

Init ==
    /\ clock = 0
    /\ direct \in SUBSET DirectRoutes
    /\ stored = {}
    /\ revision = IF direct = {} THEN 0 ELSE 1
    /\ watch = StatusOf(direct, {}, revision, 0)
    /\ sending = [c \in Callers |-> Nothing]
    /\ nextGen = 1
    /\ closed = [o \in Owners |-> FALSE]
    /\ owned = [o \in Owners |-> {}]
    /\ fencing = [o \in Owners |-> {}]
    /\ phase = "running"
    /\ orderly = TRUE
    /\ publishing = ("publisher" \in Readers)
    /\ seen = Nothing
    /\ committed = Nothing

\* MaxGeneration and MaxRevision bound the calls that add routes; clearing,
\* fencing and expiry stay possible at the bound
OwnerNext(o) ==
    \/ \E now \in Instants :
         \/ \E slot \in Slots, relay \in Relays, until \in 1..MaxTime :
              /\ nextGen <= MaxGeneration /\ revision < MaxRevision
              /\ Publish(o, slot, relay, until, now)
         \/ \E f \in owned[o], until \in 1..MaxTime :
              revision < MaxRevision /\ RefreshAuthority(o, f, until, now)
         \/ \E f \in owned[o] : Tombstone(o, f, now)
         \/ \E f \in fencing[o] : FenceOne(o, f, now)
    \/ FenceAll(o)

HostNext ==
    \/ \E now \in Instants :
         \/ \E routes \in SUBSET DirectRoutes :
              revision < MaxRevision /\ HostReplaceDirect(routes, now)
         \/ HostTombstoneAll(now)
         \/ ClearRelayRoutes(now)
         \/ ClearDirectRoutes(now)
    \/ \E inOrder \in BOOLEAN : BeginShutdown(inOrder)

ReaderNext ==
    \/ \E now \in Instants :
         \/ AppSnapshot(now)
         \/ PublisherSnapshot(now)
         \/ \E expected \in SUBSET SeenFences : Commit(expected, now)
    \/ StopPublisher

Next ==
    \/ \E o \in Owners : OwnerNext(o)
    \/ HostNext
    \/ ReaderNext
    \/ \E c \in Callers : SendStatus(c)
    \/ Tick

Spec == Init /\ [][Next]_vars

\* A call that left the mutex sends its status, and the publisher's renewal
\* interval makes it read the catalog again and again
Fairness ==
    /\ \A c \in Callers : WF_vars(SendStatus(c))
    /\ WF_vars(\E now \in Instants : PublisherSnapshot(now))

FairSpec == Spec /\ Fairness

-----------------------------------------------------------------------------
(* Properties *)

\* Every variable has the shape of the Rust field it stands for; in particular
\* every counter of a status is a count, and a fence always carries both parts
TypeOK ==
    /\ clock \in Nat
    /\ direct \in SUBSET DirectRoutes
    /\ stored \in SUBSET Entry
    /\ revision \in Nat
    /\ watch \in Status
    /\ sending \in [Callers -> Status \cup {Nothing}]
    /\ nextGen \in Nat
    /\ closed \in [Owners -> BOOLEAN]
    /\ owned \in [Owners -> SUBSET Fence]
    /\ fencing \in [Owners -> SUBSET Fence]
    /\ phase \in {"running", "stopping", "clearing", "cleared"}
    /\ orderly \in BOOLEAN
    /\ publishing \in BOOLEAN
    /\ seen \in Snapshot \cup {Nothing}
    /\ committed \in Snapshot \cup {Nothing}

\* The catalog advertises at most maximum_routes routes and stores at most
\* maximum_relay_routes, one per slot and per relay peer, although expired
\* entries keep their slot and may come back to life on a refresh.
WithinLimits ==
    /\ Cardinality(direct) + Cardinality(Live(stored)) <= MaxRoutes
    /\ Cardinality(stored) <= MaxRelayRoutes
    /\ \A e1, e2 \in stored :
         e1 # e2 => e1.fence.slot # e2.fence.slot /\ e1.relay # e2.relay

\* "A publication either commits before fence_all and is removed by it, or
\* sees the closed bit and cannot commit" (FencedRouteCatalog), first half:
\* every stored route belongs to a registry that still owns its exact fence, so
\* no route can outlive what its registry will tombstone, whatever its peers do.
EveryRouteHasItsOwner ==
    \A e \in stored : \E o \in Owners : e.fence \in owned[o]

\* Second half: once a closed registry has let go of its mutex it owns nothing,
\* and by the first half no route of its making is left.
FencedOwnerLeftNothing ==
    \A o \in Owners : closed[o] /\ Unlocked(o) => owned[o] = {}

\* Exact fences keep registries apart: a route disappears only by a call of
\* the registry that published it (and then owns it no more) or by the host's
\* tombstone_all, never by the fence_all of another coordinator.
OnlyOwnerRemoves ==
    [][\A e \in stored, o \in Owners :
         /\ e.fence \in owned[o]
         /\ \A e2 \in stored' : e2.fence # e.fence
         => e.fence \notin owned'[o] \/ stored' = {}]_vars

\* commit_if_current runs its callback on exactly the routes the application
\* had observed: an equal revision means an equal set of advertised routes.
CommitSawItsSnapshot == committed # Nothing => committed = seen

\* "Runtime shutdown fences active operations first, then clears the catalog
\* so existing receivers can observe the empty route set": after an orderly
\* shutdown the watch channel holds the final, empty status for good.
ShutdownIsObserved ==
    phase = "cleared" /\ orderly /\ Idle("host")
        => /\ stored = {} /\ direct = {}
           /\ watch = [revision |-> revision, directs |-> 0, relays |-> 0]

\* However the runtime stopped, nothing is advertised after the clearing.
ClearedForGood ==
    [][phase = "cleared" => stored' = {} /\ direct' = {}]_vars

\* AukiPeerRoutes::status returns "the current route counts and monotonic
\* revision": the revision observed on the watch channel never goes back.
WatchRevisionMonotonic == [][watch'.revision >= watch.revision]_vars

\* While the DDS publisher runs, a status overtaken by an older one, or an
\* expiry nobody announced, is corrected.
WatchCatchesUp ==
    (watch.revision # revision)
        ~> (watch.revision = revision \/ ~publishing)

\* The catalog implements the ledger its readers rely on
Ledger == INSTANCE RouteLedger
            WITH version <- revision,
                 content <- <<direct, {e.fence : e \in Live(stored)}>>

\* Equal revisions mean equal advertised routes, for every catalog step.
ImplementsLedger == Ledger!LedgerSpec
=============================================================================
