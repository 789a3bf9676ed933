------------------------- MODULE RouteCatalogProofs -------------------------
(***************************************************************************)
(* Proofs about the route catalog, for any number of registries, slots,    *)
(* relays and routes, any limits and any clock: its fences, its limits,    *)
(* the ledger its readers rely on, and what commit_if_current and the last *)
(* status owe to it.                                                       *)
(***************************************************************************)
EXTENDS RouteCatalog, FiniteSetTheorems, TLAPS

(* The catalog is finite: its counts are numbers *)
TypeInv == TypeOK /\ IsFiniteSet(stored)

-----------------------------------------------------------------------------
(* What the helpers return *)

\* A call's `now' is a number
LEMMA InstantsType == ASSUME NEW now \in Instants PROVE now \in Nat
BY LimitsAreNaturals DEF Instants

\* expire_authorizations neither adds nor removes an entry
LEMMA ExpiredType ==
    ASSUME NEW entries \in SUBSET Entry, IsFiniteSet(entries), NEW now \in Nat
    PROVE  Expired(entries, now) \in SUBSET Entry /\ IsFiniteSet(Expired(entries, now))
<1> DEFINE op == [e \in entries |->
                    IF e.live /\ e.until <= now THEN [e EXCEPT !.live = FALSE] ELSE e]
<1>1. Expired(entries, now) \in SUBSET Entry
  BY DEF Expired, Entry
<1>2. op \in Surjection(entries, Expired(entries, now))
  BY DEF Surjection, Expired
<1>3. IsFiniteSet(Expired(entries, now))
  BY <1>2, FS_Surjection
<1> QED BY <1>1, <1>3

\* An expired entry keeps its fence and loses at most its flag
LEMMA ExpiredFences ==
    ASSUME NEW entries \in SUBSET Entry, NEW now \in Nat,
           NEW x \in Expired(entries, now)
    PROVE  \E e \in entries : /\ x.fence = e.fence /\ x.relay = e.relay
                              /\ x.until = e.until
                              /\ x.live <=> (e.live /\ e.until > now)
<1>1. PICK e \in entries :
        x = IF e.live /\ e.until <= now THEN [e EXCEPT !.live = FALSE] ELSE e
  BY DEF Expired
<1>2. e \in Entry OBVIOUS
<1>3. CASE e.live /\ e.until <= now
  BY <1>1, <1>2, <1>3 DEF Entry
<1>4. CASE ~(e.live /\ e.until <= now)
  BY <1>1, <1>2, <1>4 DEF Entry
<1> QED BY <1>3, <1>4

LEMMA SubsetsFinite ==
    ASSUME NEW entries, IsFiniteSet(entries), NEW now \in Nat
    PROVE  /\ IsFiniteSet(Live(entries)) /\ Cardinality(Live(entries)) \in Nat
           /\ IsFiniteSet(Publishable(entries, now))
           /\ Cardinality(Publishable(entries, now)) \in Nat
           /\ IsFiniteSet(Overdue(entries, now))
           /\ Cardinality(Overdue(entries, now)) \in Nat
<1>1. Live(entries) \in SUBSET entries BY DEF Live
<1>2. Publishable(entries, now) \in SUBSET entries BY DEF Publishable, Live
<1>3. Overdue(entries, now) \in SUBSET entries BY DEF Overdue, Live
<1> QED BY <1>1, <1>2, <1>3, FS_Subset, FS_CardinalityType

\* Every status is made of counts
LEMMA StatusType ==
    ASSUME NEW d \in SUBSET DirectRoutes, NEW entries, IsFiniteSet(entries),
           NEW rev \in Nat, NEW now \in Nat
    PROVE  StatusOf(d, entries, rev, now) \in Status
<1>1. Cardinality(d) \in Nat
  BY DirectRoutesFinite, FS_Subset, FS_CardinalityType
<1> QED BY <1>1, SubsetsFinite DEF StatusOf, Status

LEMMA SnapshotType ==
    ASSUME NEW d \in SUBSET DirectRoutes, NEW entries \in SUBSET Entry,
           NEW rev \in Nat, NEW now \in Nat
    PROVE  SnapshotOf(d, entries, rev, now) \in Snapshot
BY DEF SnapshotOf, Snapshot, Publishable, Live, Entry

\* An expiry advances the revision exactly when it changes the catalog
LEMMA ExpiredRevisionType ==
    ASSUME TypeInv, NEW now \in Nat
    PROVE  /\ ExpiredRevision(now) \in Nat
           /\ ExpiredRevision(now) >= revision
           /\ ExpiredRevision(now) = revision <=> Overdue(stored, now) = {}
<1>1. /\ IsFiniteSet(Overdue(stored, now))
      /\ Cardinality(Overdue(stored, now)) \in Nat
  BY SubsetsFinite DEF TypeInv
<1>2. Cardinality(Overdue(stored, now)) = 0 <=> Overdue(stored, now) = {}
  BY <1>1, FS_EmptySet
<1> QED BY <1>1, <1>2 DEF ExpiredRevision, TypeInv, TypeOK

-----------------------------------------------------------------------------
(* Type correctness *)

\* The part of the state that the locked steps change
CatalogType ==
    /\ direct \in SUBSET DirectRoutes
    /\ stored \in SUBSET Entry
    /\ IsFiniteSet(stored)
    /\ revision \in Nat
    /\ watch \in Status
    /\ sending \in [Callers -> Status \cup {Nothing}]

LEMMA StoreType ==
    ASSUME TypeInv, NEW c \in Callers, NEW d \in SUBSET DirectRoutes,
           NEW entries \in SUBSET Entry, IsFiniteSet(entries),
           NEW rev \in Nat, NEW now \in Nat, Store(c, d, entries, rev, now)
    PROVE  CatalogType'
BY StatusType DEF Store, TypeInv, TypeOK, CatalogType

LEMMA ExpireOnlyType ==
    ASSUME TypeInv, NEW now \in Nat, ExpireOnly(now)
    PROVE  CatalogType'
BY ExpiredType, ExpiredRevisionType DEF ExpireOnly, TypeInv, TypeOK, CatalogType

LEMMA TombstoneEntryType ==
    ASSUME TypeInv, NEW o \in Owners, NEW f, NEW now \in Nat, TombstoneEntry(o, f, now)
    PROVE  CatalogType' /\ owned' \in [Owners -> SUBSET Fence]
<1>1. owned' \in [Owners -> SUBSET Fence]
  BY DEF TombstoneEntry, TypeInv, TypeOK
<1>2. CASE EntryOf(f) = {} /\ ExpireOnly(now)
  BY <1>1, <1>2, ExpireOnlyType
<1>3. ASSUME NEW e \in Expired(stored, now),
             Store(o, direct, Without(Expired(stored, now), f),
                   ExpiredRevision(now) + (IF e.live THEN 1 ELSE 0), now)
      PROVE  CatalogType'
  <2> DEFINE left == Without(Expired(stored, now), f)
             rev == ExpiredRevision(now) + (IF e.live THEN 1 ELSE 0)
  <2>1. Expired(stored, now) \in SUBSET Entry /\ IsFiniteSet(Expired(stored, now))
    BY ExpiredType DEF TypeInv, TypeOK
  <2>2. left \in SUBSET Expired(stored, now) BY DEF Without
  <2>3. left \in SUBSET Entry /\ IsFiniteSet(left)
    BY <2>1, <2>2, FS_Subset
  <2>4. rev \in Nat BY ExpiredRevisionType
  <2>5. direct \in SUBSET DirectRoutes /\ o \in Callers BY DEF TypeInv, TypeOK, Callers
  <2> HIDE DEF left, rev
  <2>6. Store(o, direct, left, rev, now) BY <1>3 DEF left, rev
  <2> QED BY <2>3, <2>4, <2>5, <2>6, StoreType
<1> QED BY <1>1, <1>2, <1>3 DEF TombstoneEntry

LEMMA TombstoneAllType ==
    ASSUME TypeInv, NEW now \in Nat, TombstoneAll(now)
    PROVE  CatalogType'
<1> DEFINE rev == ExpiredRevision(now) + Cardinality(Live(Expired(stored, now)))
<1>1. IsFiniteSet(Expired(stored, now)) BY ExpiredType DEF TypeInv, TypeOK
<1>2. rev \in Nat BY <1>1, SubsetsFinite, ExpiredRevisionType
<1>3. "host" \in Callers /\ direct \in SUBSET DirectRoutes BY DEF Callers, TypeInv, TypeOK
<1>4. {} \in SUBSET Entry /\ IsFiniteSet({}) BY FS_EmptySet
<1> HIDE DEF rev
<1>5. Store("host", direct, {}, rev, now) BY DEF TombstoneAll, rev
<1> QED BY <1>2, <1>3, <1>4, <1>5, StoreType

LEMMA ReplaceDirectType ==
    ASSUME TypeInv, NEW now \in Nat, NEW routes \in SUBSET DirectRoutes,
           ReplaceDirect(routes, now)
    PROVE  CatalogType'
<1>1. CASE ExpireOnly(now) BY <1>1, ExpireOnlyType
<1>2. CASE Store("host", routes, Expired(stored, now), ExpiredRevision(now) + 1, now)
  <2>1. Expired(stored, now) \in SUBSET Entry /\ IsFiniteSet(Expired(stored, now))
    BY ExpiredType DEF TypeInv, TypeOK
  <2>2. ExpiredRevision(now) + 1 \in Nat BY ExpiredRevisionType
  <2>3. "host" \in Callers BY DEF Callers
  <2> QED BY <1>2, <2>1, <2>2, <2>3, StoreType
<1> QED BY <1>1, <1>2 DEF ReplaceDirect

LEMMA ReadSnapshotType ==
    ASSUME TypeInv, NEW c \in Callers, NEW now \in Nat, ReadSnapshot(c, now)
    PROVE  CatalogType'
<1>1. Expired(stored, now) \in SUBSET Entry /\ IsFiniteSet(Expired(stored, now))
  BY ExpiredType DEF TypeInv, TypeOK
<1>2. ExpiredRevision(now) \in Nat BY ExpiredRevisionType
<1>3. direct \in SUBSET DirectRoutes BY DEF TypeInv, TypeOK
<1> QED BY <1>1, <1>2, <1>3, StoreType DEF ReadSnapshot

\* The rest of the state
OwnerType ==
    /\ nextGen \in Nat
    /\ closed \in [Owners -> BOOLEAN]
    /\ owned \in [Owners -> SUBSET Fence]
    /\ fencing \in [Owners -> SUBSET Fence]

HostType ==
    /\ phase \in {"running", "stopping", "clearing", "cleared"}
    /\ orderly \in BOOLEAN
    /\ publishing \in BOOLEAN

ReaderType ==
    /\ seen \in Snapshot \cup {Nothing}
    /\ committed \in Snapshot \cup {Nothing}

LEMMA TypeParts ==
    clock' \in Nat /\ CatalogType' /\ OwnerType' /\ HostType' /\ ReaderType' => TypeInv'
BY DEF TypeInv, TypeOK, CatalogType, OwnerType, HostType, ReaderType

\* A step that leaves a part of the state alone leaves its type alone
LEMMA TypeFrames ==
    ASSUME TypeInv
    PROVE  /\ UNCHANGED clock => clock' \in Nat
           /\ UNCHANGED <<catalogVars, watch, sending>> => CatalogType'
           /\ UNCHANGED ownerVars => OwnerType'
           /\ UNCHANGED hostVars => HostType'
           /\ UNCHANGED readerVars => ReaderType'
<1>0. UNCHANGED clock => clock' \in Nat BY DEF TypeInv, TypeOK
<1>1. UNCHANGED <<catalogVars, watch, sending>> => CatalogType'
  BY DEF TypeInv, TypeOK, catalogVars, CatalogType
<1>2. UNCHANGED ownerVars => OwnerType' BY DEF TypeInv, TypeOK, ownerVars, OwnerType
<1>3. UNCHANGED hostVars => HostType' BY DEF TypeInv, TypeOK, hostVars, HostType
<1>4. UNCHANGED readerVars => ReaderType' BY DEF TypeInv, TypeOK, readerVars, ReaderType
<1> QED BY <1>0, <1>1, <1>2, <1>3, <1>4

LEMMA PublishType ==
    ASSUME TypeInv, NEW o \in Owners, NEW slot \in Slots, NEW relay \in Relays,
           NEW until \in Nat, NEW now \in Nat, Publish(o, slot, relay, until, now)
    PROVE  CatalogType' /\ OwnerType'
<1> DEFINE f == [slot |-> slot, gen |-> nextGen]
           entry == [fence |-> f, relay |-> relay, until |-> until, live |-> TRUE]
           entries == Expired(stored, now) \cup {entry}
           rev == ExpiredRevision(now) + 1
<1>1. f \in Fence /\ entry \in Entry BY DEF TypeInv, TypeOK, Fence, Entry
<1>2. Expired(stored, now) \in SUBSET Entry /\ IsFiniteSet(Expired(stored, now))
  BY ExpiredType DEF TypeInv, TypeOK
<1>3. entries \in SUBSET Entry /\ IsFiniteSet(entries) BY <1>1, <1>2, FS_AddElement
<1>4. rev \in Nat BY ExpiredRevisionType
<1>5. o \in Callers /\ direct \in SUBSET DirectRoutes BY DEF Callers, TypeInv, TypeOK
<1>6. OwnerType'
  BY <1>1 DEF Publish, TypeInv, TypeOK, OwnerType, Recorded
<1>7. CASE ExpireOnly(now) BY <1>6, <1>7, ExpireOnlyType
<1>8. CASE Store(o, direct, entries, rev, now)
  <2> HIDE DEF entries, rev
  <2> QED BY <1>3, <1>4, <1>5, <1>6, <1>8, StoreType
<1> QED BY <1>7, <1>8 DEF Publish

LEMMA RefreshAuthorityType ==
    ASSUME TypeInv, NEW o \in Owners, NEW f \in Fence, NEW until \in Nat,
           NEW now \in Nat, RefreshAuthority(o, f, until, now)
    PROVE  CatalogType' /\ OwnerType'
<1>1. OwnerType' BY DEF RefreshAuthority, TypeInv, TypeOK, OwnerType
<1>2. CASE ExpireOnly(now) BY <1>1, <1>2, ExpireOnlyType
<1>3. ASSUME NEW e \in Expired(stored, now),
             Store(o, direct,
                   Without(Expired(stored, now), f) \cup {Refreshed(e, until, now)},
                   ExpiredRevision(now)
                     + (IF e.live # (until > now) THEN 1 ELSE 0), now)
      PROVE  CatalogType'
  <2> DEFINE entries == Without(Expired(stored, now), f) \cup {Refreshed(e, until, now)}
             rev == ExpiredRevision(now) + (IF e.live # (until > now) THEN 1 ELSE 0)
  <2>1. Expired(stored, now) \in SUBSET Entry /\ IsFiniteSet(Expired(stored, now))
    BY ExpiredType DEF TypeInv, TypeOK
  <2>2. Refreshed(e, until, now) \in Entry
    <3> DEFINE live == until > now
    <3>1. live \in BOOLEAN /\ e \in Entry BY <2>1
    <3> HIDE DEF live
    <3>2. [e EXCEPT !.until = until, !.live = live] \in Entry BY <3>1 DEF Entry
    <3> QED BY <3>2 DEF Refreshed, live
  <2>3. /\ Without(Expired(stored, now), f) \in SUBSET Entry
        /\ IsFiniteSet(Without(Expired(stored, now), f))
    BY <2>1, FS_Subset DEF Without
  <2>4. entries \in SUBSET Entry /\ IsFiniteSet(entries) BY <2>2, <2>3, FS_AddElement
  <2>5. rev \in Nat BY ExpiredRevisionType
  <2>6. o \in Callers /\ direct \in SUBSET DirectRoutes BY DEF Callers, TypeInv, TypeOK
  <2> HIDE DEF entries, rev
  <2>7. Store(o, direct, entries, rev, now) BY <1>3 DEF entries, rev
  <2> QED BY <2>4, <2>5, <2>6, <2>7, StoreType
<1> QED BY <1>1, <1>2, <1>3 DEF RefreshAuthority

LEMMA OwnerNextType ==
    ASSUME TypeInv, NEW o \in Owners, OwnerNext(o)
    PROVE  TypeInv'
<1>1. ASSUME NEW now \in Instants, NEW slot \in Slots, NEW relay \in Relays,
             NEW until \in 1..MaxTime, Publish(o, slot, relay, until, now)
      PROVE  TypeInv'
  <2>1. now \in Nat /\ until \in Nat BY InstantsType, LimitsAreNaturals
  <2>2. clock' = clock /\ UNCHANGED hostVars /\ UNCHANGED readerVars
    BY <1>1 DEF Publish
  <2> QED BY <1>1, <2>1, <2>2, PublishType, TypeFrames, TypeParts
<1>2. ASSUME NEW now \in Instants, NEW f \in owned[o], NEW until \in 1..MaxTime,
             RefreshAuthority(o, f, until, now)
      PROVE  TypeInv'
  <2>1. now \in Nat /\ until \in Nat /\ f \in Fence
    BY InstantsType, LimitsAreNaturals DEF TypeInv, TypeOK
  <2>2. clock' = clock /\ UNCHANGED hostVars /\ UNCHANGED readerVars
    BY <1>2 DEF RefreshAuthority
  <2> QED BY <1>2, <2>1, <2>2, RefreshAuthorityType, TypeFrames, TypeParts
<1>3. ASSUME NEW now \in Instants, NEW f \in owned[o], Tombstone(o, f, now)
      PROVE  TypeInv'
  <2>1. now \in Nat BY InstantsType
  <2>2. /\ clock' = clock /\ UNCHANGED hostVars /\ UNCHANGED readerVars
        /\ TombstoneEntry(o, f, now) /\ UNCHANGED <<nextGen, closed, fencing>>
    BY <1>3 DEF Tombstone
  <2>3. CatalogType' /\ OwnerType'
    BY <2>1, <2>2, TombstoneEntryType DEF OwnerType, TypeInv, TypeOK
  <2> QED BY <2>2, <2>3, TypeFrames, TypeParts
<1>4. ASSUME NEW now \in Instants, NEW f \in fencing[o], FenceOne(o, f, now)
      PROVE  TypeInv'
  <2>1. now \in Nat BY InstantsType
  <2>2. /\ clock' = clock /\ UNCHANGED hostVars /\ UNCHANGED readerVars
        /\ TombstoneEntry(o, f, now) /\ UNCHANGED <<nextGen, closed>>
        /\ fencing' = [fencing EXCEPT ![o] = @ \ {f}]
    BY <1>4 DEF FenceOne
  <2>3. CatalogType' /\ OwnerType'
    BY <2>1, <2>2, TombstoneEntryType DEF OwnerType, TypeInv, TypeOK
  <2> QED BY <2>2, <2>3, TypeFrames, TypeParts
<1>5. CASE FenceAll(o)
  <2>1. OwnerType' BY <1>5 DEF FenceAll, OwnerType, TypeInv, TypeOK
  <2> QED BY <1>5, <2>1, TypeFrames, TypeParts DEF FenceAll
<1> QED BY <1>1, <1>2, <1>3, <1>4, <1>5 DEF OwnerNext

LEMMA HostNextType ==
    ASSUME TypeInv, HostNext
    PROVE  TypeInv'
<1>1. ASSUME NEW now \in Instants, NEW routes \in SUBSET DirectRoutes,
             HostReplaceDirect(routes, now)
      PROVE  TypeInv'
  BY <1>1, InstantsType, ReplaceDirectType, TypeFrames, TypeParts DEF HostReplaceDirect
<1>2. ASSUME NEW now \in Instants, HostTombstoneAll(now)
      PROVE  TypeInv'
  BY <1>2, InstantsType, TombstoneAllType, TypeFrames, TypeParts DEF HostTombstoneAll
<1>3. ASSUME NEW now \in Instants, ClearRelayRoutes(now)
      PROVE  TypeInv'
  <2>1. HostType' BY <1>3 DEF ClearRelayRoutes, HostType, TypeInv, TypeOK
  <2> QED BY <1>3, <2>1, InstantsType, TombstoneAllType, TypeFrames, TypeParts
          DEF ClearRelayRoutes
<1>4. ASSUME NEW now \in Instants, ClearDirectRoutes(now)
      PROVE  TypeInv'
  <2>1. HostType' BY <1>4 DEF ClearDirectRoutes, HostType, TypeInv, TypeOK
  <2>2. {} \in SUBSET DirectRoutes OBVIOUS
  <2> QED BY <1>4, <2>1, <2>2, InstantsType, ReplaceDirectType, TypeFrames, TypeParts
          DEF ClearDirectRoutes
<1>5. ASSUME NEW inOrder \in BOOLEAN, BeginShutdown(inOrder)
      PROVE  TypeInv'
  <2>1. HostType' BY <1>5 DEF BeginShutdown, HostType, TypeInv, TypeOK
  <2> QED BY <1>5, <2>1, TypeFrames, TypeParts DEF BeginShutdown
<1> QED BY <1>1, <1>2, <1>3, <1>4, <1>5 DEF HostNext

LEMMA ReaderNextType ==
    ASSUME TypeInv, ReaderNext
    PROVE  TypeInv'
<1>1. ASSUME NEW now \in Instants, AppSnapshot(now)
      PROVE  TypeInv'
  <2>1. now \in Nat /\ "app" \in Callers
    BY <1>1, InstantsType DEF AppSnapshot, Callers
  <2>2. CatalogType' BY <1>1, <2>1, ReadSnapshotType DEF AppSnapshot
  <2>3. direct \in SUBSET DirectRoutes BY DEF TypeInv, TypeOK
  <2>4. SnapshotOf(direct, stored', revision', now) \in Snapshot
    BY <2>1, <2>2, <2>3, SnapshotType DEF CatalogType
  <2>5. ReaderType' BY <1>1, <2>4 DEF AppSnapshot, ReaderType
  <2> QED BY <1>1, <2>2, <2>5, TypeFrames, TypeParts DEF AppSnapshot
<1>2. ASSUME NEW now \in Instants, PublisherSnapshot(now)
      PROVE  TypeInv'
  <2>1. CASE "publisher" \in Callers
    BY <1>2, <2>1, InstantsType, ReadSnapshotType, TypeFrames, TypeParts
       DEF PublisherSnapshot
  <2>2. CASE "publisher" \notin Callers
    <3>1. Store("publisher", direct, Expired(stored, now), ExpiredRevision(now), now)
      BY <1>2 DEF PublisherSnapshot, ReadSnapshot
    <3>2. /\ Expired(stored, now) \in SUBSET Entry
          /\ IsFiniteSet(Expired(stored, now))
          /\ ExpiredRevision(now) \in Nat
      BY InstantsType, ExpiredType, ExpiredRevisionType DEF TypeInv, TypeOK
    <3>3. CatalogType' BY <2>2, <3>1, <3>2 DEF Store, CatalogType, TypeInv, TypeOK
    <3> QED BY <1>2, <3>3, TypeFrames, TypeParts DEF PublisherSnapshot
  <2> QED BY <2>1, <2>2
<1>3. ASSUME NEW now \in Instants, NEW expected \in SUBSET SeenFences,
             Commit(expected, now)
      PROVE  TypeInv'
  <2>1. now \in Nat BY InstantsType
  <2>2. CatalogType' BY <1>3, <2>1, ExpireOnlyType DEF Commit
  <2>3. direct \in SUBSET DirectRoutes BY DEF TypeInv, TypeOK
  <2>4. SnapshotOf(direct, stored', revision', now) \in Snapshot
    BY <2>1, <2>2, <2>3, SnapshotType DEF CatalogType
  <2>5. ReaderType' BY <1>3, <2>4 DEF Commit, ReaderType, TypeInv, TypeOK
  <2> QED BY <1>3, <2>2, <2>5, TypeFrames, TypeParts DEF Commit
<1>4. CASE StopPublisher
  <2>1. HostType' BY <1>4 DEF StopPublisher, HostType, TypeInv, TypeOK
  <2> QED BY <1>4, <2>1, TypeFrames, TypeParts DEF StopPublisher
<1> QED BY <1>1, <1>2, <1>3, <1>4 DEF ReaderNext

LEMMA InitType == Init => TypeInv
<1> SUFFICES ASSUME Init PROVE TypeInv OBVIOUS
<1>1. IsFiniteSet({}) BY FS_EmptySet
<1>2. revision \in Nat /\ 0 \in Nat /\ direct \in SUBSET DirectRoutes BY DEF Init
<1>3. watch \in Status BY <1>1, <1>2, StatusType DEF Init
<1>4. publishing \in BOOLEAN BY DEF Init
<1> QED BY <1>1, <1>2, <1>3, <1>4 DEF Init, TypeInv, TypeOK

LEMMA NextType == TypeInv /\ [Next]_vars => TypeInv'
<1> SUFFICES ASSUME TypeInv, [Next]_vars PROVE TypeInv' OBVIOUS
<1>1. ASSUME NEW o \in Owners, OwnerNext(o) PROVE TypeInv' BY <1>1, OwnerNextType
<1>2. CASE HostNext BY <1>2, HostNextType
<1>3. CASE ReaderNext BY <1>3, ReaderNextType
<1>4. ASSUME NEW c \in Callers, SendStatus(c) PROVE TypeInv'
  <2>1. sending[c] \in Status BY <1>4 DEF SendStatus, Idle, TypeInv, TypeOK
  <2>2. CatalogType'
    BY <1>4, <2>1 DEF SendStatus, CatalogType, TypeInv, TypeOK, catalogVars
  <2> QED BY <1>4, <2>2, TypeFrames, TypeParts DEF SendStatus
<1>5. CASE Tick
  <2>1. clock' \in Nat BY <1>5 DEF Tick, TypeInv, TypeOK
  <2> QED BY <1>5, <2>1, TypeFrames, TypeParts DEF Tick
<1>6. CASE UNCHANGED vars
  <2>1. clock' \in Nat BY <1>6 DEF vars, TypeInv, TypeOK
  <2> QED BY <1>6, <2>1, TypeFrames, TypeParts DEF vars
<1> QED BY <1>1, <1>2, <1>3, <1>4, <1>5, <1>6 DEF Next

\* Every reachable state has the shape of the Rust fields, and the catalog is
\* finite, so that its status always consists of counts
THEOREM TypeCorrect == Spec => []TypeOK
<1>1. TypeInv => TypeOK BY DEF TypeInv
<1> QED BY <1>1, InitType, NextType, PTL DEF Spec

-----------------------------------------------------------------------------
(* Ownership: the publication fence *)

\* Generations are handed out once
FencesAreIssued == \A o \in Owners : \A f \in owned[o] : f.gen < nextGen

\* ... so two registries never own the same fence
OwnersAreDisjoint ==
    \A o, p \in Owners : o # p => owned[o] \cap owned[p] = {}

\* A closed registry owns exactly what its fence_all has still to tombstone
ClosedOwnsItsFencing ==
    \A o \in Owners : fencing[o] = IF closed[o] THEN owned[o] ELSE {}

OwnershipInv ==
    /\ FencesAreIssued
    /\ OwnersAreDisjoint
    /\ ClosedOwnsItsFencing
    /\ EveryRouteHasItsOwner

\* No new fence appears in the catalog
NoNewFence == \A x \in stored' : \E e \in stored : x.fence = e.fence

LEMMA ExpireAddsNothing ==
    ASSUME TypeInv, NEW now \in Nat, stored' = Expired(stored, now)
    PROVE  NoNewFence
BY ExpiredFences DEF NoNewFence, TypeInv, TypeOK

LEMMA TombstoneEntryRemoves ==
    ASSUME TypeInv, NEW o \in Owners, NEW f, NEW now \in Nat, TombstoneEntry(o, f, now)
    PROVE  NoNewFence /\ \A x \in stored' : x.fence # f
<1>0. stored \in SUBSET Entry BY DEF TypeInv, TypeOK
<1>1. CASE EntryOf(f) = {} /\ ExpireOnly(now)
  <2>1. stored' = Expired(stored, now) BY <1>1 DEF ExpireOnly
  <2>2. \A e \in stored : e.fence # f BY <1>1 DEF EntryOf
  <2> QED BY <1>0, <2>1, <2>2, ExpiredFences DEF NoNewFence
<1>2. CASE stored' = Without(Expired(stored, now), f)
  BY <1>0, <1>2, ExpiredFences DEF NoNewFence, Without
<1> QED BY <1>1, <1>2 DEF TombstoneEntry, Store

LEMMA RefreshAddsNothing ==
    ASSUME TypeInv, NEW o \in Owners, NEW f \in Fence, NEW until \in Nat,
           NEW now \in Nat, RefreshAuthority(o, f, until, now)
    PROVE  /\ NoNewFence
           /\ \/ UNCHANGED owned
              \/ owned' = [owned EXCEPT ![o] = @ \ {f}] /\ \A x \in stored' : x.fence # f
           /\ \/ \A e \in stored : e.fence # f
              \/ UNCHANGED owned
<1>0. stored \in SUBSET Entry BY DEF TypeInv, TypeOK
<1>1. CASE ExpireOnly(now) /\ UNCHANGED owned
  <2>1. stored' = Expired(stored, now) BY <1>1 DEF ExpireOnly
  <2> QED BY <1>1, <2>1, ExpireAddsNothing
<1>2. CASE EntryOf(f) = {} /\ ExpireOnly(now) /\ owned' = [owned EXCEPT ![o] = @ \ {f}]
  <2>1. stored' = Expired(stored, now) BY <1>2 DEF ExpireOnly
  <2>2. \A e \in stored : e.fence # f BY <1>2 DEF EntryOf
  <2> QED BY <1>0, <1>2, <2>1, <2>2, ExpiredFences DEF NoNewFence
<1>3. ASSUME NEW e \in Expired(stored, now), e.fence = f, UNCHANGED owned,
             stored' = Without(Expired(stored, now), f) \cup {Refreshed(e, until, now)}
      PROVE  NoNewFence
  <2>1. e \in Entry BY <1>0, <1>3, ExpiredType DEF TypeInv
  <2>2. Refreshed(e, until, now).fence = e.fence BY <2>1 DEF Refreshed, Entry
  <2> QED BY <1>0, <1>3, <2>2, ExpiredFences DEF NoNewFence, Without
<1> QED BY <1>1, <1>2, <1>3 DEF RefreshAuthority, Store

\* A step that adds no fence and moves no registry keeps ownership
LEMMA OwnershipFrame ==
    ASSUME OwnershipInv, NoNewFence, UNCHANGED ownerVars
    PROVE  OwnershipInv'
BY DEF OwnershipInv, NoNewFence, ownerVars, FencesAreIssued, OwnersAreDisjoint,
       ClosedOwnsItsFencing, EveryRouteHasItsOwner

\* Forgetting a fence the catalog no longer holds keeps ownership
LEMMA OwnershipForget ==
    ASSUME TypeInv, OwnershipInv, NoNewFence, NEW o \in Owners, NEW f,
           \A x \in stored' : x.fence # f,
           owned' = [owned EXCEPT ![o] = @ \ {f}],
           UNCHANGED <<nextGen, closed>>,
           \/ fencing' = [fencing EXCEPT ![o] = @ \ {f}]
           \/ UNCHANGED fencing /\ fencing[o] = {}
    PROVE  OwnershipInv'
<1>1. FencesAreIssued' BY DEF OwnershipInv, FencesAreIssued, TypeInv, TypeOK
<1>2. OwnersAreDisjoint' BY DEF OwnershipInv, OwnersAreDisjoint, TypeInv, TypeOK
<1>3. ClosedOwnsItsFencing' BY DEF OwnershipInv, ClosedOwnsItsFencing, TypeInv, TypeOK
<1>4. EveryRouteHasItsOwner'
  BY DEF OwnershipInv, EveryRouteHasItsOwner, NoNewFence, TypeInv, TypeOK
<1> QED BY <1>1, <1>2, <1>3, <1>4 DEF OwnershipInv

LEMMA PublishOwnership ==
    ASSUME TypeInv, OwnershipInv, NEW o \in Owners, NEW slot \in Slots,
           NEW relay \in Relays, NEW until \in Nat, NEW now \in Nat,
           Publish(o, slot, relay, until, now)
    PROVE  OwnershipInv'
<1> DEFINE f == [slot |-> slot, gen |-> nextGen]
           entry == [fence |-> f, relay |-> relay, until |-> until, live |-> TRUE]
<1>0. nextGen \in Nat /\ f.gen = nextGen /\ entry.fence = f
  BY DEF TypeInv, TypeOK
<1>1. UNCHANGED <<closed, fencing>> /\ ~closed[o] /\ nextGen' = nextGen + 1
  BY DEF Publish, Open
<1>2. CASE ExpireOnly(now) /\ UNCHANGED owned
  <2>1. NoNewFence BY <1>2, ExpireAddsNothing DEF ExpireOnly
  <2>2. FencesAreIssued'
    BY <1>0, <1>1, <1>2 DEF OwnershipInv, FencesAreIssued, TypeInv, TypeOK, Fence
  <2> QED BY <1>1, <1>2, <2>1, <2>2
          DEF OwnershipInv, NoNewFence, OwnersAreDisjoint, ClosedOwnsItsFencing,
              EveryRouteHasItsOwner
<1>3. CASE /\ stored' = Expired(stored, now) \cup {entry}
           /\ owned' = [owned EXCEPT ![o] = @ \cup {f}]
  <2> HIDE DEF f, entry
  <2>1. FencesAreIssued'
    BY <1>0, <1>1, <1>3 DEF OwnershipInv, FencesAreIssued, TypeInv, TypeOK, Fence
  <2>2. \A p \in Owners : f \notin owned[p]
    BY <1>0 DEF OwnershipInv, FencesAreIssued, TypeInv, TypeOK, Fence
  <2>3. OwnersAreDisjoint'
    BY <1>3, <2>2 DEF OwnershipInv, OwnersAreDisjoint, TypeInv, TypeOK
  <2>4. ClosedOwnsItsFencing'
    BY <1>1, <1>3 DEF OwnershipInv, ClosedOwnsItsFencing, TypeInv, TypeOK
  <2>5. EveryRouteHasItsOwner'
    <3> SUFFICES ASSUME NEW x \in stored' PROVE \E p \in Owners : x.fence \in owned'[p]
      BY DEF EveryRouteHasItsOwner
    <3>1. CASE x = entry BY <1>0, <1>3, <3>1 DEF TypeInv, TypeOK
    <3>2. CASE x \in Expired(stored, now)
      <4>1. PICK e \in stored : x.fence = e.fence
        BY <3>2, ExpiredFences DEF TypeInv, TypeOK
      <4>2. PICK p \in Owners : e.fence \in owned[p]
        BY DEF OwnershipInv, EveryRouteHasItsOwner
      <4> QED BY <1>3, <4>1, <4>2 DEF TypeInv, TypeOK
    <3> QED BY <1>3, <3>1, <3>2
  <2> QED BY <2>1, <2>3, <2>4, <2>5 DEF OwnershipInv
<1> QED BY <1>2, <1>3 DEF Publish, Store, Recorded

LEMMA OwnerNextOwnership ==
    ASSUME TypeInv, OwnershipInv, NEW o \in Owners, OwnerNext(o)
    PROVE  OwnershipInv'
<1>1. ASSUME NEW now \in Instants, NEW slot \in Slots, NEW relay \in Relays,
             NEW until \in 1..MaxTime, Publish(o, slot, relay, until, now)
      PROVE  OwnershipInv'
  <2>1. now \in Nat /\ until \in Nat BY InstantsType, LimitsAreNaturals
  <2> QED BY <1>1, <2>1, PublishOwnership
<1>2. ASSUME NEW now \in Instants, NEW f \in owned[o], NEW until \in 1..MaxTime,
             RefreshAuthority(o, f, until, now)
      PROVE  OwnershipInv'
  <2>1. now \in Nat /\ until \in Nat /\ f \in Fence
    BY InstantsType, LimitsAreNaturals DEF TypeInv, TypeOK
  <2>2. UNCHANGED <<nextGen, closed, fencing>> /\ fencing[o] = {}
    BY <1>2 DEF RefreshAuthority, Unlocked
  <2>3. NoNewFence BY <1>2, <2>1, RefreshAddsNothing
  <2>4. CASE UNCHANGED owned BY <2>2, <2>3, <2>4, OwnershipFrame DEF ownerVars
  <2>5. CASE owned' = [owned EXCEPT ![o] = @ \ {f}] /\ \A x \in stored' : x.fence # f
    BY <2>2, <2>3, <2>5, OwnershipForget
  <2> QED BY <1>2, <2>1, <2>4, <2>5, RefreshAddsNothing
<1>3. ASSUME NEW now \in Instants, NEW f \in owned[o], Tombstone(o, f, now)
      PROVE  OwnershipInv'
  <2>1. /\ UNCHANGED <<nextGen, closed, fencing>> /\ fencing[o] = {}
        /\ TombstoneEntry(o, f, now)
    BY <1>3 DEF Tombstone, Unlocked
  <2>2. owned' = [owned EXCEPT ![o] = @ \ {f}] BY <2>1 DEF TombstoneEntry
  <2> QED BY <2>1, <2>2, InstantsType, TombstoneEntryRemoves, OwnershipForget
<1>4. ASSUME NEW now \in Instants, NEW f \in fencing[o], FenceOne(o, f, now)
      PROVE  OwnershipInv'
  <2>1. /\ UNCHANGED <<nextGen, closed>> /\ TombstoneEntry(o, f, now)
        /\ fencing' = [fencing EXCEPT ![o] = @ \ {f}]
    BY <1>4 DEF FenceOne
  <2>2. owned' = [owned EXCEPT ![o] = @ \ {f}] BY <2>1 DEF TombstoneEntry
  <2> QED BY <2>1, <2>2, InstantsType, TombstoneEntryRemoves, OwnershipForget
<1>5. CASE FenceAll(o)
  BY <1>5 DEF FenceAll, catalogVars, OwnershipInv, FencesAreIssued, OwnersAreDisjoint,
              ClosedOwnsItsFencing, EveryRouteHasItsOwner, TypeInv, TypeOK
<1> QED BY <1>1, <1>2, <1>3, <1>4, <1>5 DEF OwnerNext

\* The host and the readers move no registry and add no fence
LEMMA OthersAddNothing ==
    ASSUME TypeInv,
           \/ HostNext \/ ReaderNext \/ Tick \/ UNCHANGED vars
           \/ \E c \in Callers : SendStatus(c)
    PROVE  NoNewFence /\ UNCHANGED ownerVars
<1>1. CASE HostNext
  <2>1. UNCHANGED ownerVars
    BY <1>1 DEF HostNext, HostReplaceDirect, HostTombstoneAll, ClearRelayRoutes,
                ClearDirectRoutes, BeginShutdown
  <2>2. \/ stored' = {} \/ stored' = stored
        \/ \E now \in Instants : stored' = Expired(stored, now)
    BY <1>1 DEF HostNext, HostReplaceDirect, HostTombstoneAll, ClearRelayRoutes,
                ClearDirectRoutes, BeginShutdown, ReplaceDirect, TombstoneAll,
                ExpireOnly, Store, catalogVars
  <2> QED BY <2>1, <2>2, InstantsType, ExpireAddsNothing DEF NoNewFence
<1>2. CASE ReaderNext
  <2>1. UNCHANGED ownerVars
    BY <1>2 DEF ReaderNext, AppSnapshot, PublisherSnapshot, Commit, StopPublisher
  <2>2. \/ stored' = stored
        \/ \E now \in Instants : stored' = Expired(stored, now)
    BY <1>2 DEF ReaderNext, AppSnapshot, PublisherSnapshot, Commit, StopPublisher,
                ReadSnapshot, ExpireOnly, Store, catalogVars
  <2> QED BY <2>1, <2>2, InstantsType, ExpireAddsNothing DEF NoNewFence
<1>3. CASE Tick \/ UNCHANGED vars \/ \E c \in Callers : SendStatus(c)
  BY <1>3 DEF NoNewFence, Tick, SendStatus, vars, catalogVars
<1> QED BY <1>1, <1>2, <1>3

LEMMA NextOwnership == TypeInv /\ OwnershipInv /\ [Next]_vars => OwnershipInv'
<1> SUFFICES ASSUME TypeInv, OwnershipInv, [Next]_vars PROVE OwnershipInv' OBVIOUS
<1>1. ASSUME NEW o \in Owners, OwnerNext(o) PROVE OwnershipInv'
  BY <1>1, OwnerNextOwnership
<1>2. CASE \/ HostNext \/ ReaderNext \/ Tick \/ UNCHANGED vars
           \/ \E c \in Callers : SendStatus(c)
  BY <1>2, OthersAddNothing, OwnershipFrame
<1> QED BY <1>1, <1>2 DEF Next

LEMMA InitOwnership == Init => OwnershipInv
BY DEF Init, OwnershipInv, FencesAreIssued, OwnersAreDisjoint, ClosedOwnsItsFencing,
       EveryRouteHasItsOwner

\* FencedRouteCatalog: every stored route has a registry that still owns its
\* exact fence, for any number of registries
THEOREM RoutesAreOwned == Spec => []EveryRouteHasItsOwner
<1>1. OwnershipInv => EveryRouteHasItsOwner BY DEF OwnershipInv
<1> QED BY <1>1, InitType, NextType, InitOwnership, NextOwnership, PTL DEF Spec

\* fence_all is permanent and complete: a closed registry that holds its mutex
\* no more owns nothing
THEOREM FencingIsComplete == Spec => []FencedOwnerLeftNothing
<1>1. OwnershipInv => FencedOwnerLeftNothing
  BY DEF OwnershipInv, ClosedOwnsItsFencing, FencedOwnerLeftNothing, Unlocked
<1> QED BY <1>1, InitType, NextType, InitOwnership, NextOwnership, PTL DEF Spec

-----------------------------------------------------------------------------
(* Exact fences: nobody removes another registry's route *)

\* No fence disappears from the catalog
NoLostFence == \A e \in stored : \E x \in stored' : x.fence = e.fence

LEMMA ExpireLosesNothing ==
    ASSUME TypeInv, NEW now \in Nat, Expired(stored, now) \subseteq stored'
    PROVE  NoLostFence
<1> SUFFICES ASSUME NEW e \in stored PROVE \E x \in stored' : x.fence = e.fence
  BY DEF NoLostFence
<1> DEFINE x == IF e.live /\ e.until <= now THEN [e EXCEPT !.live = FALSE] ELSE e
<1>1. e \in Entry BY DEF TypeInv, TypeOK
<1>2. x.fence = e.fence BY <1>1 DEF Entry
<1>3. x \in Expired(stored, now) BY DEF Expired
<1> QED BY <1>2, <1>3

LEMMA RefreshLosesNothing ==
    ASSUME TypeInv, NEW o \in Owners, NEW f \in Fence, NEW until \in Nat,
           NEW now \in Nat, RefreshAuthority(o, f, until, now)
    PROVE  NoLostFence
<1>1. CASE ExpireOnly(now) BY <1>1, ExpireLosesNothing DEF ExpireOnly
<1>2. ASSUME NEW e \in Expired(stored, now), e.fence = f,
             stored' = Without(Expired(stored, now), f) \cup {Refreshed(e, until, now)}
      PROVE  NoLostFence
  <2> SUFFICES ASSUME NEW d \in stored PROVE \E x \in stored' : x.fence = d.fence
    BY DEF NoLostFence
  <2> DEFINE x == IF d.live /\ d.until <= now THEN [d EXCEPT !.live = FALSE] ELSE d
  <2>1. e \in Entry /\ d \in Entry BY <1>2, ExpiredType DEF TypeInv, TypeOK
  <2>2. Refreshed(e, until, now).fence = f BY <1>2, <2>1 DEF Refreshed, Entry
  <2>3. x.fence = d.fence BY <2>1 DEF Entry
  <2>4. x \in Expired(stored, now) BY DEF Expired
  <2> HIDE DEF x
  <2>5. CASE d.fence = f BY <1>2, <2>2, <2>5
  <2>6. CASE d.fence # f BY <1>2, <2>3, <2>4, <2>6 DEF Without
  <2> QED BY <2>5, <2>6
<1> QED BY <1>1, <1>2 DEF RefreshAuthority, Store

\* A tombstone removes the one fence it names
LEMMA TombstoneEntryLosesOne ==
    ASSUME TypeInv, NEW o \in Owners, NEW f, NEW now \in Nat, TombstoneEntry(o, f, now)
    PROVE  \A e \in stored : e.fence # f => \E x \in stored' : x.fence = e.fence
<1>1. CASE ExpireOnly(now)
  BY <1>1, ExpireLosesNothing DEF ExpireOnly, NoLostFence
<1>2. CASE stored' = Without(Expired(stored, now), f)
  <2> SUFFICES ASSUME NEW e \in stored, e.fence # f
               PROVE  \E x \in stored' : x.fence = e.fence
    OBVIOUS
  <2> DEFINE x == IF e.live /\ e.until <= now THEN [e EXCEPT !.live = FALSE] ELSE e
  <2>1. e \in Entry BY DEF TypeInv, TypeOK
  <2>2. x.fence = e.fence BY <2>1 DEF Entry
  <2>3. x \in Expired(stored, now) BY DEF Expired
  <2> HIDE DEF x
  <2> QED BY <1>2, <2>2, <2>3 DEF Without
<1> QED BY <1>1, <1>2 DEF TombstoneEntry, Store

\* What a step may remove, and for whom
RemovesOnlyItsOwn ==
    \A e \in stored, o \in Owners :
        /\ e.fence \in owned[o]
        /\ \A e2 \in stored' : e2.fence # e.fence
        => e.fence \notin owned'[o] \/ stored' = {}

\* A registry that tombstones a fence it owns takes it from nobody else
LEMMA ForgetRemovesOwn ==
    ASSUME TypeInv, OwnershipInv, NEW p \in Owners, NEW f \in owned[p],
           NEW now \in Nat, TombstoneEntry(p, f, now)
    PROVE  RemovesOnlyItsOwn
<1> SUFFICES ASSUME NEW e \in stored, NEW o \in Owners, e.fence \in owned[o],
                    \A e2 \in stored' : e2.fence # e.fence
             PROVE  e.fence \notin owned'[o]
  BY DEF RemovesOnlyItsOwn
<1>1. e.fence = f BY TombstoneEntryLosesOne
<1>2. o = p BY <1>1 DEF OwnershipInv, OwnersAreDisjoint
<1>3. owned' = [owned EXCEPT ![p] = @ \ {f}] BY DEF TombstoneEntry
<1> QED BY <1>1, <1>2, <1>3 DEF TypeInv, TypeOK

LEMMA NextRemovesOwn ==
    TypeInv /\ OwnershipInv /\ [Next]_vars => RemovesOnlyItsOwn
<1> SUFFICES ASSUME TypeInv, OwnershipInv, [Next]_vars PROVE RemovesOnlyItsOwn OBVIOUS
<1>0. NoLostFence \/ stored' = {} => RemovesOnlyItsOwn
  BY DEF NoLostFence, RemovesOnlyItsOwn
<1>1. ASSUME NEW o \in Owners, OwnerNext(o) PROVE RemovesOnlyItsOwn
  <2>1. ASSUME NEW now \in Instants, NEW slot \in Slots, NEW relay \in Relays,
               NEW until \in 1..MaxTime, Publish(o, slot, relay, until, now)
        PROVE  RemovesOnlyItsOwn
    <3>1. Expired(stored, now) \subseteq stored'
      BY <2>1 DEF Publish, Store, ExpireOnly
    <3> QED BY <1>0, <3>1, InstantsType, ExpireLosesNothing
  <2>2. ASSUME NEW now \in Instants, NEW f \in owned[o], NEW until \in 1..MaxTime,
               RefreshAuthority(o, f, until, now)
        PROVE  RemovesOnlyItsOwn
    <3>1. now \in Nat /\ until \in Nat /\ f \in Fence
      BY InstantsType, LimitsAreNaturals DEF TypeInv, TypeOK
    <3> QED BY <1>0, <2>2, <3>1, RefreshLosesNothing
  <2>3. ASSUME NEW now \in Instants, NEW f \in owned[o], Tombstone(o, f, now)
        PROVE  RemovesOnlyItsOwn
    BY <2>3, InstantsType, ForgetRemovesOwn DEF Tombstone
  <2>4. ASSUME NEW now \in Instants, NEW f \in fencing[o], FenceOne(o, f, now)
        PROVE  RemovesOnlyItsOwn
    <3>1. f \in owned[o] BY DEF OwnershipInv, ClosedOwnsItsFencing
    <3> QED BY <2>4, <3>1, InstantsType, ForgetRemovesOwn DEF FenceOne
  <2>5. CASE FenceAll(o)
    BY <1>0, <2>5 DEF FenceAll, catalogVars, NoLostFence
  <2> QED BY <1>1, <2>1, <2>2, <2>3, <2>4, <2>5 DEF OwnerNext
<1>2. CASE HostNext
  <2>1. \/ stored' = {} \/ stored' = stored
        \/ \E now \in Instants : stored' = Expired(stored, now)
    BY <1>2 DEF HostNext, HostReplaceDirect, HostTombstoneAll, ClearRelayRoutes,
                ClearDirectRoutes, BeginShutdown, ReplaceDirect, TombstoneAll,
                ExpireOnly, Store, catalogVars
  <2> QED BY <1>0, <2>1, InstantsType, ExpireLosesNothing DEF NoLostFence
<1>3. CASE ReaderNext
  <2>1. \/ stored' = stored
        \/ \E now \in Instants : stored' = Expired(stored, now)
    BY <1>3 DEF ReaderNext, AppSnapshot, PublisherSnapshot, Commit, StopPublisher,
                ReadSnapshot, ExpireOnly, Store, catalogVars
  <2> QED BY <1>0, <2>1, InstantsType, ExpireLosesNothing DEF NoLostFence
<1>4. CASE Tick \/ UNCHANGED vars \/ \E c \in Callers : SendStatus(c)
  BY <1>0, <1>4 DEF NoLostFence, Tick, SendStatus, vars, catalogVars
<1> QED BY <1>1, <1>2, <1>3, <1>4 DEF Next

\* A coordinator's tombstone or fence_all never takes a route another
\* coordinator published, in the same slot or for the same relay
THEOREM RemovalsAreExact == Spec => OnlyOwnerRemoves
<1>1. TypeInv /\ OwnershipInv /\ [Next]_vars => [RemovesOnlyItsOwn]_vars
  BY NextRemovesOwn
<1>2. Init /\ [][Next]_vars => [][RemovesOnlyItsOwn]_vars
  BY <1>1, InitType, NextType, InitOwnership, NextOwnership, PTL
<1> QED BY <1>2 DEF Spec, OnlyOwnerRemoves, RemovesOnlyItsOwn

-----------------------------------------------------------------------------
(* Clearing: nothing is advertised after the runtime stopped *)

\* The runtime clears the catalog only when nobody can publish any more
ClearingIsFinal ==
    /\ phase \in {"clearing", "cleared"} =>
         stored = {} /\ \A o \in Owners : closed[o] /\ owned[o] = {}
    /\ phase = "cleared" => direct = {}

LEMMA ExpiredEmpty == ASSUME NEW now PROVE Expired({}, now) = {}
BY DEF Expired

LEMMA NextClearing ==
    TypeInv /\ OwnershipInv /\ ClearingIsFinal /\ [Next]_vars => ClearingIsFinal'
<1> SUFFICES ASSUME TypeInv, OwnershipInv, ClearingIsFinal, [Next]_vars
             PROVE  ClearingIsFinal'
  OBVIOUS
<1>1. ASSUME NEW o \in Owners, OwnerNext(o) PROVE ClearingIsFinal'
  <2>1. UNCHANGED phase
    BY <1>1 DEF OwnerNext, Publish, RefreshAuthority, Tombstone, FenceOne, FenceAll,
                hostVars
  <2>2. CASE phase \in {"clearing", "cleared"}
    <3>1. closed[o] /\ owned[o] = {} /\ fencing[o] = {}
      BY <2>2 DEF ClearingIsFinal, OwnershipInv, ClosedOwnsItsFencing
    <3>2. FenceAll(o)
      BY <1>1, <3>1 DEF OwnerNext, Publish, Open
    <3> QED BY <2>1, <2>2, <3>2
            DEF FenceAll, catalogVars, ClearingIsFinal, TypeInv, TypeOK
  <2> QED BY <2>1, <2>2 DEF ClearingIsFinal
<1>2. CASE HostNext
  <2>1. ASSUME NEW now \in Instants, ClearRelayRoutes(now) PROVE ClearingIsFinal'
    <3>1. stored' = {} /\ phase' = "clearing" /\ UNCHANGED ownerVars
      BY <2>1 DEF ClearRelayRoutes, TombstoneAll, Store
    <3>2. \A o \in Owners : closed[o] /\ owned[o] = {}
      BY <2>1 DEF ClearRelayRoutes, OwnersFenced, Unlocked, OwnershipInv,
                  ClosedOwnsItsFencing
    <3> QED BY <3>1, <3>2 DEF ClearingIsFinal, ownerVars
  <2>2. ASSUME NEW now \in Instants, ClearDirectRoutes(now) PROVE ClearingIsFinal'
    <3>1. stored = {} /\ UNCHANGED ownerVars /\ phase = "clearing"
      BY <2>2 DEF ClearDirectRoutes, ClearingIsFinal
    <3>2. Publishable(Expired(stored, now), now) = {}
      BY <3>1, ExpiredEmpty DEF Publishable, Live
    <3>3. Cardinality({}) + Cardinality(Publishable(Expired(stored, now), now)) <= MaxRoutes
      BY <3>2, FS_EmptySet, LimitsAreNaturals
    <3>4. stored' = {} /\ direct' = {}
      <4>1. CASE direct = {} /\ ExpireOnly(now)
        BY <3>1, <4>1, ExpiredEmpty DEF ExpireOnly
      <4>2. CASE Store("host", {}, Expired(stored, now), ExpiredRevision(now) + 1, now)
        BY <3>1, <4>2, ExpiredEmpty DEF Store
      <4>3. ReplaceDirect({}, now) BY <2>2 DEF ClearDirectRoutes
      <4>4. ~(Cardinality({}) + Cardinality(Publishable(Expired(stored, now), now))
                > MaxRoutes)
        BY <3>2, FS_EmptySet, LimitsAreNaturals
      <4> QED BY <4>1, <4>2, <4>3, <4>4 DEF ReplaceDirect
    <3> QED BY <3>1, <3>4 DEF ClearingIsFinal, ownerVars
  <2>3. CASE phase' \in {"running", "stopping"} BY <2>3 DEF ClearingIsFinal
  <2>4. ASSUME NEW now \in Instants, NEW routes, HostReplaceDirect(routes, now)
        PROVE  phase' = "running"
    BY <2>4 DEF HostReplaceDirect, hostVars
  <2>5. ASSUME NEW now \in Instants, HostTombstoneAll(now) PROVE phase' = "running"
    BY <2>5 DEF HostTombstoneAll, hostVars
  <2>6. ASSUME NEW inOrder, BeginShutdown(inOrder) PROVE phase' = "stopping"
    BY <2>6 DEF BeginShutdown
  <2> QED BY <1>2, <2>1, <2>2, <2>3, <2>4, <2>5, <2>6 DEF HostNext
<1>3. CASE ReaderNext
  <2>1. UNCHANGED <<phase, direct, ownerVars>>
    BY <1>3 DEF ReaderNext, AppSnapshot, PublisherSnapshot, Commit, StopPublisher,
                ReadSnapshot, ExpireOnly, Store, catalogVars, hostVars
  <2>2. \/ stored' = stored
        \/ \E now \in Instants : stored' = Expired(stored, now)
    BY <1>3 DEF ReaderNext, AppSnapshot, PublisherSnapshot, Commit, StopPublisher,
                ReadSnapshot, ExpireOnly, Store, catalogVars
  <2> QED BY <2>1, <2>2, ExpiredEmpty DEF ClearingIsFinal, ownerVars
<1>4. CASE Tick \/ UNCHANGED vars \/ \E c \in Callers : SendStatus(c)
  BY <1>4 DEF ClearingIsFinal, Tick, SendStatus, vars, catalogVars, ownerVars, hostVars
<1> QED BY <1>1, <1>2, <1>3, <1>4 DEF Next

\* Nothing leaves the last phase
LEMMA ClearedStays == phase = "cleared" /\ [Next]_vars => phase' = "cleared"
<1> SUFFICES ASSUME phase = "cleared", [Next]_vars PROVE phase' = "cleared" OBVIOUS
<1>1. ASSUME NEW o \in Owners, OwnerNext(o) PROVE phase' = "cleared"
  BY <1>1 DEF OwnerNext, Publish, RefreshAuthority, Tombstone, FenceOne, FenceAll, hostVars
<1>2. CASE HostNext
  BY <1>2 DEF HostNext, HostReplaceDirect, HostTombstoneAll, ClearRelayRoutes,
              ClearDirectRoutes, BeginShutdown
<1>3. CASE ReaderNext
  BY <1>3 DEF ReaderNext, AppSnapshot, PublisherSnapshot, Commit, StopPublisher, hostVars
<1>4. CASE Tick \/ UNCHANGED vars \/ \E c \in Callers : SendStatus(c)
  BY <1>4 DEF Tick, SendStatus, vars, hostVars
<1> QED BY <1>1, <1>2, <1>3, <1>4 DEF Next

LEMMA InitClearing == Init => ClearingIsFinal
BY DEF Init, ClearingIsFinal

\* However the runtime stopped, and whatever registries, readers and the clock
\* still do, nothing is advertised after the catalog was cleared
THEOREM ClearingHolds == Spec => ClearedForGood
<1>1. ClearingIsFinal' /\ (phase = "cleared" => phase' = "cleared")
        => [phase = "cleared" => stored' = {} /\ direct' = {}]_vars
  BY DEF ClearingIsFinal
<1>2. Init /\ [][Next]_vars => [][phase = "cleared" => stored' = {} /\ direct' = {}]_vars
  BY <1>1, InitType, NextType, InitOwnership, NextOwnership, InitClearing, NextClearing,
     ClearedStays, PTL
<1> QED BY <1>2 DEF Spec, ClearedForGood

-----------------------------------------------------------------------------
(* What a step does to the locked state *)

\* The fences a reader is shown
LiveFences(entries) == {e.fence : e \in Live(entries)}

\* expire_authorizations alone: every read and every refused call
Expires(now) ==
    /\ direct' = direct
    /\ stored' = Expired(stored, now)
    /\ revision' = ExpiredRevision(now)

\* publish_confirmed
AdmitsRoute(now) ==
    \E slot \in Slots, relay \in Relays, until \in Nat :
        LET f == [slot |-> slot, gen |-> nextGen]
        IN  /\ Admits(f, relay, now)
            /\ direct' = direct
            /\ stored' = Expired(stored, now)
                 \cup {[fence |-> f, relay |-> relay, until |-> until, live |-> TRUE]}
            /\ revision' = ExpiredRevision(now) + 1

\* refresh_authorization
RefreshesRoute(now) ==
    \E e \in Expired(stored, now), until \in Nat :
        /\ RefreshFits(e, until, now)
        /\ direct' = direct
        /\ stored' = Without(Expired(stored, now), e.fence) \cup {Refreshed(e, until, now)}
        /\ revision' = ExpiredRevision(now) + (IF e.live # (until > now) THEN 1 ELSE 0)

\* tombstone
RemovesRoute(now) ==
    \E e \in Expired(stored, now) :
        /\ direct' = direct
        /\ stored' = Without(Expired(stored, now), e.fence)
        /\ revision' = ExpiredRevision(now) + (IF e.live THEN 1 ELSE 0)

\* tombstone_all
RemovesAll(now) ==
    /\ direct' = direct
    /\ stored' = {}
    /\ revision' = ExpiredRevision(now) + Cardinality(Live(Expired(stored, now)))

\* replace_direct_routes
ReplacesDirect(now) ==
    /\ direct' \in SUBSET DirectRoutes
    /\ Cardinality(direct') + Cardinality(Publishable(Expired(stored, now), now))
         <= MaxRoutes
    /\ stored' = Expired(stored, now)
    /\ revision' = ExpiredRevision(now) + 1

CatalogChange(now) ==
    \/ Expires(now) \/ AdmitsRoute(now) \/ RefreshesRoute(now)
    \/ RemovesRoute(now) \/ RemovesAll(now) \/ ReplacesDirect(now)

\* The locked part of every step is one of the operations of routing.rs.
CatalogStep ==
    \/ UNCHANGED catalogVars
    \/ \E now \in Nat : CatalogChange(now)

LEMMA TombstoneEntryChange ==
    ASSUME TypeInv, NEW o, NEW f, NEW now \in Nat, TombstoneEntry(o, f, now)
    PROVE  CatalogChange(now)
<1>1. CASE ExpireOnly(now)
  BY <1>1 DEF ExpireOnly, CatalogChange, Expires
<1>2. ASSUME NEW e \in Expired(stored, now), e.fence = f,
             Store(o, direct, Without(Expired(stored, now), f),
                   ExpiredRevision(now) + (IF e.live THEN 1 ELSE 0), now)
      PROVE  CatalogChange(now)
  <2>1. RemovesRoute(now) BY <1>2 DEF Store, RemovesRoute
  <2> QED BY <2>1 DEF CatalogChange
<1> QED BY <1>1, <1>2 DEF TombstoneEntry

LEMMA ReplaceDirectChange ==
    ASSUME TypeInv, NEW routes \in SUBSET DirectRoutes, NEW now \in Nat,
           ReplaceDirect(routes, now)
    PROVE  CatalogChange(now)
<1>1. CASE ExpireOnly(now)
  BY <1>1 DEF ExpireOnly, CatalogChange, Expires
<1>2. CASE ~ExpireOnly(now)
  <2>0. Cardinality(routes) \in Nat
    BY DirectRoutesFinite, FS_Subset, FS_CardinalityType
  <2>1. Cardinality(Publishable(Expired(stored, now), now)) \in Nat
    BY ExpiredType, SubsetsFinite DEF TypeInv, TypeOK
  <2>2. /\ ~(Cardinality(routes)
             + Cardinality(Publishable(Expired(stored, now), now)) > MaxRoutes)
        /\ Store("host", routes, Expired(stored, now), ExpiredRevision(now) + 1, now)
    BY <1>2 DEF ReplaceDirect
  <2>3. ReplacesDirect(now)
    BY <2>0, <2>1, <2>2, LimitsAreNaturals DEF Store, ReplacesDirect
  <2> QED BY <2>3 DEF CatalogChange
<1> QED BY <1>1, <1>2

LEMMA OwnerChange ==
    ASSUME TypeInv, NEW o \in Owners, OwnerNext(o)
    PROVE  CatalogStep
<1>1. ASSUME NEW now \in Instants, NEW slot \in Slots, NEW relay \in Relays,
             NEW until \in 1..MaxTime, Publish(o, slot, relay, until, now)
      PROVE  CatalogChange(now)
  <2>0. until \in Nat BY LimitsAreNaturals
  <2>1. CASE ExpireOnly(now)
    BY <2>1 DEF ExpireOnly, CatalogChange, Expires
  <2>2. CASE ~ExpireOnly(now)
    <3>1. AdmitsRoute(now) BY <1>1, <2>0, <2>2 DEF Publish, Store, AdmitsRoute
    <3> QED BY <3>1 DEF CatalogChange
  <2> QED BY <2>1, <2>2
<1>2. ASSUME NEW now \in Instants, NEW f \in owned[o], NEW until \in 1..MaxTime,
             RefreshAuthority(o, f, until, now)
      PROVE  CatalogChange(now)
  <2>0. until \in Nat BY LimitsAreNaturals
  <2>1. CASE ExpireOnly(now)
    BY <2>1 DEF ExpireOnly, CatalogChange, Expires
  <2>2. CASE ~ExpireOnly(now)
    <3>1. RefreshesRoute(now)
      BY <1>2, <2>0, <2>2 DEF RefreshAuthority, Store, RefreshesRoute
    <3> QED BY <3>1 DEF CatalogChange
  <2> QED BY <2>1, <2>2
<1>3. ASSUME NEW now \in Instants, NEW f \in owned[o], Tombstone(o, f, now)
      PROVE  CatalogChange(now)
  BY <1>3, InstantsType, TombstoneEntryChange DEF Tombstone
<1>4. ASSUME NEW now \in Instants, NEW f \in fencing[o], FenceOne(o, f, now)
      PROVE  CatalogChange(now)
  BY <1>4, InstantsType, TombstoneEntryChange DEF FenceOne
<1>5. CASE FenceAll(o)
  BY <1>5 DEF FenceAll, CatalogStep
<1> QED BY <1>1, <1>2, <1>3, <1>4, <1>5, InstantsType DEF OwnerNext, CatalogStep

LEMMA HostChange ==
    ASSUME TypeInv, HostNext
    PROVE  CatalogStep
<1>1. ASSUME NEW now \in Instants, NEW routes \in SUBSET DirectRoutes,
             ReplaceDirect(routes, now)
      PROVE  CatalogStep
  BY <1>1, InstantsType, ReplaceDirectChange DEF CatalogStep
<1>2. ASSUME NEW now \in Instants, TombstoneAll(now) PROVE CatalogStep
  <2>1. RemovesAll(now) BY <1>2 DEF TombstoneAll, Store, RemovesAll
  <2> QED BY <2>1, InstantsType DEF CatalogStep, CatalogChange
<1>3. ASSUME NEW inOrder, BeginShutdown(inOrder) PROVE CatalogStep
  BY <1>3 DEF BeginShutdown, CatalogStep
<1>4. {} \in SUBSET DirectRoutes OBVIOUS
<1> QED BY <1>1, <1>2, <1>3, <1>4
        DEF HostNext, HostReplaceDirect, HostTombstoneAll, ClearRelayRoutes,
            ClearDirectRoutes

LEMMA ReaderChange ==
    ASSUME TypeInv, ReaderNext
    PROVE  UNCHANGED catalogVars \/ \E now \in Nat : Expires(now)
<1>1. ASSUME NEW now \in Instants, AppSnapshot(now) PROVE Expires(now)
  BY <1>1 DEF AppSnapshot, ReadSnapshot, Store, Expires
<1>2. ASSUME NEW now \in Instants, PublisherSnapshot(now) PROVE Expires(now)
  BY <1>2 DEF PublisherSnapshot, ReadSnapshot, Store, Expires
<1>3. ASSUME NEW now \in Instants, NEW expected, Commit(expected, now) PROVE Expires(now)
  BY <1>3 DEF Commit, ExpireOnly, Expires
<1>4. CASE StopPublisher
  BY <1>4 DEF StopPublisher
<1> QED BY <1>1, <1>2, <1>3, <1>4, InstantsType DEF ReaderNext

\* Whoever takes a step, the locked state sees one of the six operations or none
LEMMA EveryStepIsACatalogStep == TypeInv /\ [Next]_vars => CatalogStep
<1> SUFFICES ASSUME TypeInv, [Next]_vars PROVE CatalogStep
  OBVIOUS
<1>1. CASE Tick \/ UNCHANGED vars \/ \E c \in Callers : SendStatus(c)
  BY <1>1 DEF Tick, SendStatus, vars, CatalogStep
<1>2. CASE ReaderNext
  BY <1>2, ReaderChange DEF CatalogStep, CatalogChange
<1> QED BY <1>1, <1>2, OwnerChange, HostChange DEF Next

-----------------------------------------------------------------------------
(* What an expiry leaves *)

\* After an expiry, and only then, the live entries are the publishable ones
LEMMA LiveAfterExpiry ==
    ASSUME NEW entries \in SUBSET Entry, NEW now \in Nat
    PROVE  /\ Live(Expired(entries, now)) = Publishable(entries, now)
           /\ Publishable(Expired(entries, now), now) = Live(Expired(entries, now))
           /\ Live(Expired(entries, now)) \in SUBSET Live(entries)
<1>1. ASSUME NEW x \in Live(Expired(entries, now)) PROVE x \in Publishable(entries, now)
  <2>1. PICK e \in entries :
          x = IF e.live /\ e.until <= now THEN [e EXCEPT !.live = FALSE] ELSE e
    BY <1>1 DEF Live, Expired
  <2>2. e \in Entry /\ x.live
    BY <1>1 DEF Live
  <2> QED BY <2>1, <2>2 DEF Entry, Publishable, Live
<1>2. ASSUME NEW x \in Publishable(entries, now)
      PROVE  x \in Live(Expired(entries, now)) /\ x.until > now
  <2>1. x \in entries /\ x.live /\ x.until > now /\ x \in Entry
    BY <1>2 DEF Publishable, Live
  <2>2. x = IF x.live /\ x.until <= now THEN [x EXCEPT !.live = FALSE] ELSE x
    BY <2>1 DEF Entry
  <2>3. x \in Expired(entries, now)
    BY <2>1, <2>2 DEF Expired
  <2> QED BY <2>1, <2>3 DEF Live
<1>3. Live(Expired(entries, now)) = Publishable(entries, now)
  BY <1>1, <1>2
<1> QED BY <1>2, <1>3 DEF Publishable

\* An expiry that finds nothing overdue changes nothing
LEMMA NothingOverdue ==
    ASSUME NEW entries \in SUBSET Entry, NEW now \in Nat, Overdue(entries, now) = {}
    PROVE  Expired(entries, now) = entries
<1>1. \A e \in entries : ~(e.live /\ e.until <= now)
  BY DEF Overdue, Live
<1> QED BY <1>1 DEF Expired

LEMMA ExpiredCount ==
    ASSUME NEW entries \in SUBSET Entry, IsFiniteSet(entries), NEW now \in Nat
    PROVE  Cardinality(Expired(entries, now)) <= Cardinality(entries)
<1> DEFINE op == [e \in entries |->
                    IF e.live /\ e.until <= now THEN [e EXCEPT !.live = FALSE] ELSE e]
<1>1. op \in Surjection(entries, Expired(entries, now))
  BY DEF Surjection, Expired
<1> QED BY <1>1, FS_Surjection

-----------------------------------------------------------------------------
(* Limits *)

\* One route per slot and per relay peer
Apart(entries) ==
    \A e1, e2 \in entries :
        e1 # e2 => e1.fence.slot # e2.fence.slot /\ e1.relay # e2.relay

LEMMA ApartAfterExpiry ==
    ASSUME NEW entries \in SUBSET Entry, NEW now \in Nat, Apart(entries)
    PROVE  Apart(Expired(entries, now))
<1> SUFFICES ASSUME NEW x1 \in Expired(entries, now), NEW x2 \in Expired(entries, now),
                    x1 # x2
             PROVE  x1.fence.slot # x2.fence.slot /\ x1.relay # x2.relay
  BY DEF Apart
<1> DEFINE op(e) == IF e.live /\ e.until <= now THEN [e EXCEPT !.live = FALSE] ELSE e
<1>0. \A e \in entries : op(e).fence = e.fence /\ op(e).relay = e.relay
  BY DEF Entry
<1>1. PICK e1 \in entries, e2 \in entries : x1 = op(e1) /\ x2 = op(e2)
  BY DEF Expired
<1> HIDE DEF op
<1>2. e1 # e2
  BY <1>1
<1> QED BY <1>0, <1>1, <1>2 DEF Apart

\* The three limits of routing.rs on a catalog of these direct and relay routes
Fits(d, entries) ==
    /\ IsFiniteSet(d) /\ IsFiniteSet(entries)
    /\ Cardinality(d) + Cardinality(Live(entries)) <= MaxRoutes
    /\ Cardinality(entries) <= MaxRelayRoutes
    /\ Apart(entries)

\* Fewer routes fit, too
LEMMA FewerFit ==
    ASSUME NEW d, NEW entries, Fits(d, entries), NEW fewer \in SUBSET entries
    PROVE  Fits(d, fewer)
<1>1. IsFiniteSet(fewer) /\ Cardinality(fewer) <= Cardinality(entries)
  BY FS_Subset DEF Fits
<1>2. Live(fewer) \in SUBSET Live(entries) /\ Live(entries) \in SUBSET entries
  BY DEF Live
<1>3. IsFiniteSet(Live(entries))
  BY <1>2, FS_Subset DEF Fits
<1>4. IsFiniteSet(Live(fewer)) /\ Cardinality(Live(fewer)) <= Cardinality(Live(entries))
  BY <1>2, <1>3, FS_Subset
<1>5. /\ Cardinality(d) \in Nat /\ Cardinality(entries) \in Nat
      /\ Cardinality(fewer) \in Nat /\ Cardinality(Live(entries)) \in Nat
      /\ Cardinality(Live(fewer)) \in Nat
  BY <1>1, <1>3, <1>4, FS_CardinalityType DEF Fits
<1>6. Apart(fewer)
  BY DEF Fits, Apart
<1> QED BY <1>1, <1>4, <1>5, <1>6, LimitsAreNaturals DEF Fits

LEMMA ExpiredFits ==
    ASSUME NEW d, NEW entries \in SUBSET Entry, NEW now \in Nat, Fits(d, entries)
    PROVE  Fits(d, Expired(entries, now))
<1>1. IsFiniteSet(Expired(entries, now)) /\ Expired(entries, now) \in SUBSET Entry
  BY ExpiredType DEF Fits
<1>2. Cardinality(Expired(entries, now)) <= Cardinality(entries)
  BY ExpiredCount DEF Fits
<1>3. IsFiniteSet(Live(entries))
  BY SubsetsFinite DEF Fits
<1>4. Cardinality(Live(Expired(entries, now))) <= Cardinality(Live(entries))
  BY <1>3, LiveAfterExpiry, FS_Subset
<1>5. /\ Cardinality(d) \in Nat /\ Cardinality(entries) \in Nat
      /\ Cardinality(Expired(entries, now)) \in Nat
      /\ Cardinality(Live(entries)) \in Nat
      /\ Cardinality(Live(Expired(entries, now))) \in Nat
  BY <1>1, <1>3, SubsetsFinite, FS_CardinalityType DEF Fits
<1>6. Apart(Expired(entries, now))
  BY ApartAfterExpiry DEF Fits
<1> QED BY <1>1, <1>2, <1>4, <1>5, <1>6, LimitsAreNaturals DEF Fits

\* A route more adds one at most to a count
LEMMA OneMore ==
    ASSUME NEW S, IsFiniteSet(S), NEW x
    PROVE  /\ IsFiniteSet(S \cup {x})
           /\ Cardinality(S) \in Nat /\ Cardinality(S \cup {x}) \in Nat
           /\ Cardinality(S \cup {x}) <= Cardinality(S) + 1
<1>1. IsFiniteSet(S \cup {x}) /\ Cardinality(S) \in Nat
  BY FS_AddElement, FS_CardinalityType
<1>2. Cardinality(S \cup {x}) \in Nat
  BY <1>1, FS_CardinalityType
<1>3. Cardinality(S \cup {x}) = IF x \in S THEN Cardinality(S) ELSE Cardinality(S) + 1
  BY FS_AddElement
<1> QED BY <1>1, <1>2, <1>3

\* publish_confirmed adds one route, and looked at every limit before it did
LEMMA AdmittedFits ==
    ASSUME NEW d, NEW entries, Fits(d, entries), NEW x, x.live,
           Cardinality(entries) < MaxRelayRoutes,
           Cardinality(d) + Cardinality(Live(entries)) + 1 <= MaxRoutes,
           \A e \in entries : e.fence.slot # x.fence.slot /\ e.relay # x.relay
    PROVE  Fits(d, entries \cup {x})
<1>1. IsFiniteSet(entries \cup {x}) /\ Cardinality(entries \cup {x}) <= Cardinality(entries) + 1
  BY OneMore DEF Fits
<1>2. Live(entries \cup {x}) = Live(entries) \cup {x}
  BY DEF Live
<1>3. IsFiniteSet(Live(entries))
  <2>1. Live(entries) \in SUBSET entries BY DEF Live
  <2> QED BY <2>1, FS_Subset DEF Fits
<1>4. Cardinality(Live(entries \cup {x})) <= Cardinality(Live(entries)) + 1
  BY <1>2, <1>3, OneMore
<1>5. /\ Cardinality(d) \in Nat /\ Cardinality(entries) \in Nat
      /\ Cardinality(entries \cup {x}) \in Nat /\ Cardinality(Live(entries)) \in Nat
      /\ Cardinality(Live(entries \cup {x})) \in Nat
  BY <1>2, <1>3, OneMore, FS_CardinalityType DEF Fits
<1>6. Apart(entries \cup {x})
  BY DEF Fits, Apart
<1> QED BY <1>1, <1>4, <1>5, <1>6, LimitsAreNaturals DEF Fits

\* refresh_authorization puts one entry in the place of another of the same slot and
\* relay; it may bring a route back to life if the limit allows one more
LEMMA RefreshedFits ==
    ASSUME NEW d, NEW entries, Fits(d, entries), NEW e \in entries, NEW x,
           x.fence = e.fence, x.relay = e.relay,
           x.live => e.live \/ Cardinality(d) + Cardinality(Live(entries)) + 1 <= MaxRoutes
    PROVE  Fits(d, Without(entries, e.fence) \cup {x})
<1> DEFINE rest == Without(entries, e.fence)
<1>0. rest \in SUBSET (entries \ {e}) /\ e \notin rest
  BY DEF Without
<1>1. /\ IsFiniteSet(entries \ {e}) /\ Cardinality(entries \ {e}) = Cardinality(entries) - 1
      /\ Cardinality(entries) \in Nat /\ Cardinality(d) \in Nat
  BY FS_RemoveElement, FS_CardinalityType DEF Fits
<1>2. /\ IsFiniteSet(rest) /\ Cardinality(rest) <= Cardinality(entries) - 1
      /\ Cardinality(rest) \in Nat
  BY <1>0, <1>1, FS_Subset, FS_CardinalityType
<1>3. /\ IsFiniteSet(rest \cup {x}) /\ Cardinality(rest \cup {x}) <= Cardinality(entries)
      /\ Cardinality(rest \cup {x}) \in Nat
  BY <1>1, <1>2, OneMore
<1>4. IsFiniteSet(Live(entries)) /\ Cardinality(Live(entries)) \in Nat
  <2>1. Live(entries) \in SUBSET entries BY DEF Live
  <2> QED BY <2>1, FS_Subset, FS_CardinalityType DEF Fits
<1>5. Cardinality(d) + Cardinality(Live(rest \cup {x})) <= MaxRoutes
  <2>1. Live(rest) \in SUBSET Live(entries)
    BY <1>0 DEF Live
  <2>2. IsFiniteSet(Live(rest)) /\ Cardinality(Live(rest)) <= Cardinality(Live(entries))
        /\ Cardinality(Live(rest)) \in Nat
    BY <1>4, <2>1, FS_Subset, FS_CardinalityType
  <2>3. CASE ~x.live
    <3>1. Live(rest \cup {x}) = Live(rest) BY <2>3 DEF Live
    <3> QED BY <1>1, <1>4, <2>2, <3>1, LimitsAreNaturals DEF Fits
  <2>4. CASE x.live
    <3>1. Live(rest \cup {x}) = Live(rest) \cup {x} BY <2>4 DEF Live
    <3>2. /\ Cardinality(Live(rest \cup {x})) <= Cardinality(Live(rest)) + 1
          /\ Cardinality(Live(rest \cup {x})) \in Nat
      BY <2>2, <3>1, OneMore
    <3>3. CASE e.live
      <4>1. Live(rest) \in SUBSET (Live(entries) \ {e}) /\ e \in Live(entries)
        BY <1>0, <3>3 DEF Live
      <4>2. /\ IsFiniteSet(Live(entries) \ {e})
            /\ Cardinality(Live(entries) \ {e}) = Cardinality(Live(entries)) - 1
        BY <1>4, <4>1, FS_RemoveElement
      <4>3. Cardinality(Live(rest)) <= Cardinality(Live(entries)) - 1
        BY <4>1, <4>2, FS_Subset
      <4> QED BY <1>1, <1>4, <2>2, <3>2, <4>3, LimitsAreNaturals DEF Fits
    <3>4. CASE ~e.live
      BY <1>1, <1>4, <2>2, <2>4, <3>2, <3>4, LimitsAreNaturals
    <3> QED BY <3>3, <3>4
  <2> QED BY <2>3, <2>4
<1>6. Apart(rest \cup {x})
  BY <1>0 DEF Fits, Apart
<1> HIDE DEF rest
<1>7. Fits(d, rest \cup {x})
  BY <1>1, <1>3, <1>5, <1>6, LimitsAreNaturals DEF Fits
<1> QED BY <1>7 DEF rest

CatalogFits == Fits(direct, stored)

LEMMA ChangeFits ==
    ASSUME TypeInv, CatalogFits, NEW now \in Nat, CatalogChange(now)
    PROVE  CatalogFits'
<1> DEFINE S == Expired(stored, now)
<1>0. stored \in SUBSET Entry /\ direct \in SUBSET DirectRoutes
  BY DEF TypeInv, TypeOK
<1>1. Fits(direct, S) /\ S \in SUBSET Entry
  BY <1>0, ExpiredFits, ExpiredType DEF CatalogFits, Fits
<1>2. Publishable(S, now) = Live(S)
  BY <1>0, LiveAfterExpiry
<1> HIDE DEF S
<1>3. CASE Expires(now)
  BY <1>1, <1>3 DEF Expires, CatalogFits, S
<1>4. CASE AdmitsRoute(now)
  <2>1. PICK slot \in Slots, relay \in Relays, until \in Nat :
          LET f == [slot |-> slot, gen |-> nextGen]
          IN  /\ Admits(f, relay, now)
              /\ direct' = direct
              /\ stored' = S \cup {[fence |-> f, relay |-> relay, until |-> until,
                                    live |-> TRUE]}
    BY <1>4 DEF AdmitsRoute, S
  <2> DEFINE x == [fence |-> [slot |-> slot, gen |-> nextGen], relay |-> relay,
                   until |-> until, live |-> TRUE]
  <2>2. /\ \A e \in S : e.fence.slot # slot /\ e.relay # relay
        /\ Cardinality(S) < MaxRelayRoutes
        /\ Cardinality(direct) + Cardinality(Live(S)) + 1 <= MaxRoutes
    BY <1>2, <2>1 DEF Admits, S
  <2>3. x.live /\ x.fence.slot = slot /\ x.relay = relay
    OBVIOUS
  <2>4. direct' = direct /\ stored' = S \cup {x}
    BY <2>1
  <2> HIDE DEF x
  <2>5. Fits(direct, S \cup {x})
    BY <1>1, <2>2, <2>3, AdmittedFits
  <2> QED BY <2>4, <2>5 DEF CatalogFits
<1>5. CASE RefreshesRoute(now)
  <2>1. PICK e \in S, until \in Nat :
          /\ RefreshFits(e, until, now)
          /\ direct' = direct
          /\ stored' = Without(S, e.fence) \cup {Refreshed(e, until, now)}
    BY <1>5 DEF RefreshesRoute, S
  <2> DEFINE x == Refreshed(e, until, now)
  <2>2. e \in Entry
    BY <1>1
  <2>3. x.fence = e.fence /\ x.relay = e.relay /\ x.live = (until > now)
    BY <2>2 DEF Refreshed, Entry
  <2>4. x.live => e.live \/ Cardinality(direct) + Cardinality(Live(S)) + 1 <= MaxRoutes
    <3>1. until <= now => ~(until > now)
      OBVIOUS
    <3>2. until <= now => ~x.live
      BY <2>3, <3>1
    <3> HIDE DEF x
    <3> QED BY <1>2, <2>1, <3>2 DEF RefreshFits, S
  <2> HIDE DEF x
  <2>5. Fits(direct, Without(S, e.fence) \cup {x})
    BY <1>1, <2>3, <2>4, RefreshedFits
  <2>6. direct' = direct /\ stored' = Without(S, e.fence) \cup {x}
    BY <2>1 DEF x
  <2> QED BY <2>5, <2>6 DEF CatalogFits
<1>6. CASE RemovesRoute(now)
  <2>1. PICK e \in S : direct' = direct /\ stored' = Without(S, e.fence)
    BY <1>6 DEF RemovesRoute, S
  <2>2. Without(S, e.fence) \in SUBSET S
    BY DEF Without
  <2> QED BY <1>1, <2>1, <2>2, FewerFit DEF CatalogFits
<1>7. CASE RemovesAll(now)
  <2>1. direct' = direct /\ stored' = {} /\ {} \in SUBSET S
    BY <1>7 DEF RemovesAll
  <2> QED BY <1>1, <2>1, FewerFit DEF CatalogFits
<1>8. CASE ReplacesDirect(now)
  <2>1. IsFiniteSet(direct')
    BY <1>8, DirectRoutesFinite, FS_Subset DEF ReplacesDirect
  <2>2. /\ stored' = S
        /\ Cardinality(direct') + Cardinality(Live(S)) <= MaxRoutes
    BY <1>2, <1>8 DEF ReplacesDirect, S
  <2> QED BY <1>1, <2>1, <2>2 DEF CatalogFits, Fits
<1> QED BY <1>3, <1>4, <1>5, <1>6, <1>7, <1>8 DEF CatalogChange

LEMMA NextFits == TypeInv /\ CatalogFits /\ [Next]_vars => CatalogFits'
<1>1. CatalogFits /\ UNCHANGED catalogVars => CatalogFits'
  BY DEF CatalogFits, catalogVars
<1> QED BY <1>1, ChangeFits, EveryStepIsACatalogStep DEF CatalogStep

LEMMA InitFits == Init => CatalogFits
<1> SUFFICES ASSUME Init PROVE CatalogFits
  OBVIOUS
<1>1. direct \in SUBSET DirectRoutes /\ stored = {}
  BY DEF Init
<1>2. /\ IsFiniteSet(direct) /\ Cardinality(direct) \in Nat
      /\ Cardinality(direct) <= Cardinality(DirectRoutes)
      /\ Cardinality(DirectRoutes) \in Nat
  BY <1>1, DirectRoutesFinite, FS_Subset, FS_CardinalityType
<1>3. Live({}) = {} /\ Apart({})
  BY DEF Live, Apart
<1>4. IsFiniteSet({}) /\ Cardinality({}) = 0
  BY FS_EmptySet
<1> QED BY <1>1, <1>2, <1>3, <1>4, DirectRoutesFinite, LimitsAreNaturals
        DEF CatalogFits, Fits

\* However registries, hosts and expiries interleave, the catalog advertises no more
\* than maximum_routes, stores no more than maximum_relay_routes, and holds one route
\* per slot and per relay, although expired entries keep their slots and come back.
THEOREM LimitsHold == Spec => []WithinLimits
<1>1. CatalogFits => WithinLimits
  BY DEF CatalogFits, Fits, Apart, WithinLimits
<1> QED BY <1>1, InitType, NextType, InitFits, NextFits, PTL DEF Spec

-----------------------------------------------------------------------------
(* The ledger *)

\* The content changes with the revision only
Revises ==
    \/ revision' > revision
    \/ revision' = revision /\ direct' = direct /\ LiveFences(stored') = LiveFences(stored)

\* In a catalog with one entry per slot the entry that holds a fence is the only one
LEMMA OneEntryPerFence ==
    ASSUME NEW entries, Apart(entries), NEW e \in entries, NEW x \in entries,
           x.fence = e.fence
    PROVE  x = e
BY DEF Apart

\* A refresh that keeps the flag, and the removal of an entry that is not shown, leave
\* the shown fences alone
LEMMA RefreshShowsTheSame ==
    ASSUME NEW entries, Apart(entries), NEW e \in entries, NEW x,
           x.fence = e.fence, x.live <=> e.live
    PROVE  LiveFences(Without(entries, e.fence) \cup {x}) = LiveFences(entries)
BY OneEntryPerFence DEF LiveFences, Live, Without

LEMMA RemovalShowsTheSame ==
    ASSUME NEW entries, Apart(entries), NEW e \in entries, ~e.live
    PROVE  LiveFences(Without(entries, e.fence)) = LiveFences(entries)
BY OneEntryPerFence DEF LiveFences, Live, Without

LEMMA ChangeRevises ==
    ASSUME TypeInv, CatalogFits, NEW now \in Nat, CatalogChange(now)
    PROVE  Revises
<1> DEFINE S == Expired(stored, now)
           R == ExpiredRevision(now)
<1>0. stored \in SUBSET Entry /\ revision \in Nat /\ IsFiniteSet(stored)
  BY DEF TypeInv, TypeOK
<1>1. R \in Nat /\ R >= revision /\ (R = revision => S = stored)
  BY <1>0, ExpiredRevisionType, NothingOverdue
<1>2. Apart(S) /\ S \in SUBSET Entry /\ IsFiniteSet(S)
  BY <1>0, ExpiredFits, ExpiredType DEF CatalogFits, Fits
<1> HIDE DEF S, R
<1>3. CASE Expires(now)
  BY <1>0, <1>1, <1>3 DEF Expires, Revises, S, R
<1>4. CASE AdmitsRoute(now)
  <2>1. revision' = R + 1 BY <1>4 DEF AdmitsRoute, R
  <2> QED BY <1>0, <1>1, <2>1 DEF Revises
<1>5. CASE RefreshesRoute(now)
  <2>1. PICK e \in S, until \in Nat :
          /\ direct' = direct
          /\ stored' = Without(S, e.fence) \cup {Refreshed(e, until, now)}
          /\ revision' = R + (IF e.live # (until > now) THEN 1 ELSE 0)
    BY <1>5 DEF RefreshesRoute, S, R
  <2>2. e \in Entry BY <1>2
  <2>3. /\ Refreshed(e, until, now).fence = e.fence
        /\ Refreshed(e, until, now).live = (until > now)
    BY <2>2 DEF Refreshed, Entry
  <2>4. CASE e.live # (until > now)
    BY <1>0, <1>1, <2>1, <2>4 DEF Revises
  <2>5. CASE e.live = (until > now)
    <3>1. LiveFences(stored') = LiveFences(S)
      BY <1>2, <2>1, <2>3, <2>5, RefreshShowsTheSame
    <3>2. revision' = R
      BY <1>1, <2>1, <2>5
    <3> QED BY <1>0, <1>1, <2>1, <3>1, <3>2 DEF Revises
  <2> QED BY <2>4, <2>5
<1>6. CASE RemovesRoute(now)
  <2>1. PICK e \in S :
          /\ direct' = direct
          /\ stored' = Without(S, e.fence)
          /\ revision' = R + (IF e.live THEN 1 ELSE 0)
    BY <1>6 DEF RemovesRoute, S, R
  <2>2. CASE e.live
    BY <1>0, <1>1, <2>1, <2>2 DEF Revises
  <2>3. CASE ~e.live
    <3>1. LiveFences(stored') = LiveFences(S)
      BY <1>2, <2>1, <2>3, RemovalShowsTheSame
    <3>2. revision' = R
      BY <1>1, <2>1, <2>3
    <3> QED BY <1>0, <1>1, <2>1, <3>1, <3>2 DEF Revises
  <2> QED BY <2>2, <2>3
<1>7. CASE RemovesAll(now)
  <2>1. direct' = direct /\ stored' = {} /\ revision' = R + Cardinality(Live(S))
    BY <1>7 DEF RemovesAll, S, R
  <2>2. IsFiniteSet(Live(S)) /\ Cardinality(Live(S)) \in Nat
    BY <1>2, SubsetsFinite
  <2>3. CASE Live(S) = {}
    <3>1. Cardinality(Live(S)) = 0
      BY <2>3, FS_EmptySet
    <3>2. LiveFences({}) = {} /\ LiveFences(S) = {}
      BY <2>3 DEF LiveFences, Live
    <3> QED BY <1>0, <1>1, <2>1, <3>1, <3>2 DEF Revises
  <2>4. CASE Live(S) # {}
    <3>1. Cardinality(Live(S)) > 0
      BY <2>2, <2>4, FS_EmptySet
    <3> QED BY <1>0, <1>1, <2>1, <2>2, <3>1 DEF Revises
  <2> QED BY <2>3, <2>4
<1>8. CASE ReplacesDirect(now)
  <2>1. revision' = R + 1 BY <1>8 DEF ReplacesDirect, R
  <2> QED BY <1>0, <1>1, <2>1 DEF Revises
<1> QED BY <1>3, <1>4, <1>5, <1>6, <1>7, <1>8 DEF CatalogChange

LEMMA NextRevises == TypeInv /\ CatalogFits /\ [Next]_vars => Revises
<1>1. TypeInv /\ UNCHANGED catalogVars => Revises
  BY DEF Revises, catalogVars
<1> QED BY <1>1, ChangeRevises, EveryStepIsACatalogStep DEF CatalogStep

\* The catalog implements the ledger of its readers: the advertised routes change only
\* together with a revision that never goes back (routing.rs, snapshot and
\* commit_if_current), step by step and from the first state.
THEOREM CatalogImplementsLedger == Spec => ImplementsLedger
<1>1. Init => Ledger!LedgerInit
  BY DEF Init, Ledger!LedgerInit
<1>2. TypeInv /\ CatalogFits /\ [Next]_vars =>
        [Ledger!Revise]_<<revision, <<direct, {e.fence : e \in Live(stored)}>>>>
  BY NextRevises DEF Revises, LiveFences, Ledger!Revise
<1> QED BY <1>1, <1>2, InitType, NextType, InitFits, NextFits, PTL
        DEF Spec, ImplementsLedger, Ledger!LedgerSpec

-----------------------------------------------------------------------------
(* commit_if_current *)

\* The snapshot the application holds is not ahead of the catalog, and while their
\* revisions are equal it shows what the catalog shows.
SeenIsLedger ==
    seen # Nothing =>
        /\ seen.revision <= revision
        /\ seen.revision = revision =>
             seen.direct = direct /\ seen.fences = LiveFences(stored)

LEMMA RevisionKeepsSeen ==
    ASSUME TypeInv, revision' \in Nat, SeenIsLedger, Revises, UNCHANGED seen
    PROVE  SeenIsLedger'
<1>1. seen # Nothing => seen.revision \in Nat
  BY DEF TypeInv, TypeOK, Snapshot
<1> QED BY <1>1 DEF SeenIsLedger, Revises, TypeInv, TypeOK

\* A snapshot shows the catalog under whose lock it was taken
LEMMA SnapshotShows ==
    ASSUME TypeInv, NEW now \in Nat, Expires(now)
    PROVE  SnapshotOf(direct, stored', revision', now) =
             [revision |-> revision', direct |-> direct', fences |-> LiveFences(stored')]
<1>1. Publishable(stored', now) = Live(stored')
  BY LiveAfterExpiry DEF Expires, TypeInv, TypeOK
<1> QED BY <1>1 DEF Expires, SnapshotOf, LiveFences

LEMMA ReaderSteps ==
    ASSUME TypeInv, [Next]_vars
    PROVE  \/ UNCHANGED readerVars
           \/ \E now \in Nat : Expires(now) /\ committed' = Nothing
                 /\ seen' = SnapshotOf(direct, stored', revision', now)
           \/ \E now \in Nat : \E expected :
                 /\ Expires(now) /\ UNCHANGED seen /\ seen # Nothing
                 /\ committed' = IF CommitIsCurrent(expected, now)
                                 THEN SnapshotOf(direct, stored', revision', now)
                                 ELSE committed
<1>1. ASSUME NEW now \in Instants, AppSnapshot(now)
      PROVE  Expires(now) /\ committed' = Nothing
                /\ seen' = SnapshotOf(direct, stored', revision', now)
  BY <1>1 DEF AppSnapshot, ReadSnapshot, Store, Expires
<1>2. ASSUME NEW now \in Instants, NEW expected, Commit(expected, now)
      PROVE  /\ Expires(now) /\ UNCHANGED seen /\ seen # Nothing
             /\ committed' = IF CommitIsCurrent(expected, now)
                             THEN SnapshotOf(direct, stored', revision', now)
                             ELSE committed
  BY <1>2 DEF Commit, ExpireOnly, Expires
<1>3. ASSUME NEW o \in Owners, OwnerNext(o) PROVE UNCHANGED readerVars
  BY <1>3 DEF OwnerNext, Publish, RefreshAuthority, Tombstone, FenceOne, FenceAll
<1>4. HostNext => UNCHANGED readerVars
  BY DEF HostNext, HostReplaceDirect, HostTombstoneAll, ClearRelayRoutes,
         ClearDirectRoutes, BeginShutdown
<1>5. Tick \/ UNCHANGED vars \/ (\E c \in Callers : SendStatus(c)) => UNCHANGED readerVars
  BY DEF Tick, SendStatus, vars
<1>6. StopPublisher \/ (\E now \in Instants : PublisherSnapshot(now)) => UNCHANGED readerVars
  BY DEF StopPublisher, PublisherSnapshot
<1> QED BY <1>1, <1>2, <1>3, <1>4, <1>5, <1>6, InstantsType DEF Next, ReaderNext

LEMMA NextSeen ==
    ASSUME TypeInv, TypeInv', CatalogFits, SeenIsLedger, CommitSawItsSnapshot, [Next]_vars
    PROVE  SeenIsLedger' /\ CommitSawItsSnapshot'
<1>0. Revises /\ revision \in Nat /\ revision' \in Nat
  BY NextRevises DEF TypeInv, TypeOK
<1>1. CASE UNCHANGED readerVars
  BY <1>0, <1>1, RevisionKeepsSeen DEF readerVars, CommitSawItsSnapshot
<1>2. ASSUME NEW now \in Nat, Expires(now), committed' = Nothing,
             seen' = SnapshotOf(direct, stored', revision', now)
      PROVE  SeenIsLedger' /\ CommitSawItsSnapshot'
  <2>1. seen' = [revision |-> revision', direct |-> direct', fences |-> LiveFences(stored')]
    BY <1>2, SnapshotShows
  <2> QED BY <1>0, <1>2, <2>1 DEF SeenIsLedger, CommitSawItsSnapshot
<1>3. ASSUME NEW now \in Nat, NEW expected, Expires(now), UNCHANGED seen, seen # Nothing,
             committed' = IF CommitIsCurrent(expected, now)
                          THEN SnapshotOf(direct, stored', revision', now)
                          ELSE committed
      PROVE  SeenIsLedger' /\ CommitSawItsSnapshot'
  <2>1. SeenIsLedger'
    BY <1>0, <1>3, RevisionKeepsSeen
  <2>2. CASE ~CommitIsCurrent(expected, now)
    BY <1>3, <2>1, <2>2 DEF CommitSawItsSnapshot
  <2>3. CASE CommitIsCurrent(expected, now)
    <3>1. committed' =
            [revision |-> revision', direct |-> direct', fences |-> LiveFences(stored')]
      BY <1>3, <2>3, SnapshotShows
    <3>2. seen.revision = revision'
      BY <1>3, <2>3 DEF CommitIsCurrent, Expires
    <3>3. seen.direct = direct' /\ seen.fences = LiveFences(stored')
      BY <1>3, <2>1, <3>2 DEF SeenIsLedger
    <3>4. seen \in Snapshot
      BY <1>3 DEF TypeInv, TypeOK
    <3>5. seen = [revision |-> seen.revision, direct |-> seen.direct, fences |-> seen.fences]
      BY <3>4 DEF Snapshot
    <3> QED BY <1>3, <2>1, <3>1, <3>2, <3>3, <3>5 DEF CommitSawItsSnapshot
  <2> QED BY <2>2, <2>3
<1> QED BY <1>1, <1>2, <1>3, ReaderSteps

\* commit_if_current runs its callback on exactly the routes the application had seen,
\* whatever was published, refreshed, withdrawn or expired in between.
THEOREM CommitsAreCurrent == Spec => []CommitSawItsSnapshot
<1>1. Init => SeenIsLedger /\ CommitSawItsSnapshot
  BY DEF Init, SeenIsLedger, CommitSawItsSnapshot
<1>2. TypeInv /\ TypeInv' /\ CatalogFits /\ SeenIsLedger /\ CommitSawItsSnapshot /\ [Next]_vars
        => SeenIsLedger' /\ CommitSawItsSnapshot'
  BY NextSeen
<1> QED BY <1>1, <1>2, InitType, NextType, InitFits, NextFits, PTL DEF Spec

-----------------------------------------------------------------------------
(* The last status *)

LastStatus == [revision |-> revision, directs |-> Cardinality(direct), relays |-> 0]

\* Who may still send: the application is fenced out before the runtime stops, the
\* publisher is idle when it ends, the registries are when the catalog is cleared, and
\* from then on the host's own status is under way or has arrived.
SendersAreDone ==
    /\ phase # "running" /\ "app" \in Readers => Idle("app")
    /\ phase = "stopping" => Idle("host")
    /\ ~publishing /\ "publisher" \in Readers => Idle("publisher")
    /\ "publisher" \notin Readers => ~publishing
    /\ phase \in {"clearing", "cleared"} =>
         /\ \A o \in Owners : Idle(o)
         /\ orderly => /\ ~publishing
                       /\ \/ sending["host"] = LastStatus
                          \/ Idle("host") /\ watch = LastStatus

\* A registry of a catalog that was cleared has nothing left to do
LEMMA ClearedOwnersRest ==
    ASSUME TypeInv, OwnershipInv, ClearingIsFinal, NEW o \in Owners, OwnerNext(o),
           phase \in {"clearing", "cleared"}
    PROVE  FenceAll(o)
<1>1. closed[o] /\ owned[o] = {} /\ fencing[o] = {}
  BY DEF ClearingIsFinal, OwnershipInv, ClosedOwnsItsFencing
<1> QED BY <1>1 DEF OwnerNext, Publish, Open

\* A registry's call changes the place of no other caller
LEMMA OwnerSendsItsOwn ==
    ASSUME TypeInv, NEW o \in Owners, OwnerNext(o)
    PROVE  /\ \A c \in Callers : c # o => sending'[c] = sending[c]
           /\ UNCHANGED <<hostVars, readerVars>>
<1>1. sending \in [Callers -> Status \cup {Nothing}] /\ o \in Callers
  BY DEF TypeInv, TypeOK, Callers
<1> DEFINE Goal == \A c \in Callers : c # o => sending'[c] = sending[c]
<1>2. ASSUME NEW d, NEW entries, NEW rev, NEW now, Store(o, d, entries, rev, now)
      PROVE  Goal
  BY <1>1, <1>2 DEF Store
<1>3. ASSUME NEW now, ExpireOnly(now) PROVE Goal
  BY <1>3 DEF ExpireOnly
<1> HIDE DEF Goal
<1>4. ASSUME NEW f, NEW now, TombstoneEntry(o, f, now) PROVE Goal
  BY <1>2, <1>3, <1>4 DEF TombstoneEntry
<1>5. ASSUME NEW slot, NEW relay, NEW until, NEW now, Publish(o, slot, relay, until, now)
      PROVE  Goal
  BY <1>2, <1>3, <1>5 DEF Publish
<1>6. ASSUME NEW f, NEW until, NEW now, RefreshAuthority(o, f, until, now)
      PROVE  Goal
  BY <1>2, <1>3, <1>6 DEF RefreshAuthority
<1>7. FenceAll(o) => Goal
  BY DEF FenceAll, Goal
<1>8. Goal
  BY <1>4, <1>5, <1>6, <1>7 DEF OwnerNext, Tombstone, FenceOne
<1>9. UNCHANGED <<hostVars, readerVars>>
  BY DEF OwnerNext, Publish, RefreshAuthority, Tombstone, FenceOne, FenceAll
<1> QED BY <1>8, <1>9 DEF Goal

LEMMA OwnerSenders ==
    ASSUME TypeInv, OwnershipInv, ClearingIsFinal, SendersAreDone,
           NEW o \in Owners, OwnerNext(o)
    PROVE  SendersAreDone'
<1>1. CASE phase \in {"clearing", "cleared"}
  <2>1. UNCHANGED <<catalogVars, watch, sending, hostVars>>
    BY <1>1, ClearedOwnersRest DEF FenceAll
  <2> QED BY <2>1 DEF SendersAreDone, LastStatus, Idle, catalogVars, hostVars
<1>2. CASE phase \in {"running", "stopping"}
  <2>1. /\ o \notin {"app", "publisher", "host"} /\ "host" \in Callers
        /\ Readers \subseteq Callers
    BY CallersAreDistinct DEF Callers
  <2>2. /\ sending'["host"] = sending["host"]
        /\ \A r \in Readers : r # o => sending'[r] = sending[r]
        /\ UNCHANGED <<phase, publishing>>
    BY <2>1, OwnerSendsItsOwn DEF hostVars
  <2> QED BY <1>2, <2>1, <2>2 DEF SendersAreDone, Idle
<1> QED BY <1>1, <1>2 DEF TypeInv, TypeOK

\* What the host sends when the catalog is empty of relay routes
LEMMA EmptyStatus ==
    ASSUME NEW d, NEW rev, NEW now
    PROVE  StatusOf(d, {}, rev, now) =
             [revision |-> rev, directs |-> Cardinality(d), relays |-> 0]
<1>1. Publishable({}, now) = {}
  BY DEF Publishable, Live
<1> QED BY <1>1, FS_EmptySet DEF StatusOf

LEMMA HostSenders ==
    ASSUME TypeInv, OwnershipInv, ClearingIsFinal, ClearingIsFinal', SendersAreDone, HostNext
    PROVE  SendersAreDone'
<1>0. /\ sending \in [Callers -> Status \cup {Nothing}] /\ "host" \in Callers
      /\ Owners \subseteq Callers /\ Readers \subseteq Callers
      /\ "host" \notin Readers /\ "host" \notin Owners
  BY CallersAreDistinct DEF TypeInv, TypeOK, Callers
<1>1. ASSUME NEW d, NEW entries, NEW rev, NEW now,
             Store("host", d, entries, rev, now) \/ ExpireOnly(now)
      PROVE  \A c \in Callers : c # "host" => sending'[c] = sending[c]
  BY <1>0, <1>1 DEF Store, ExpireOnly
<1>2. ASSUME NEW now \in Instants, NEW routes, HostReplaceDirect(routes, now)
      PROVE  SendersAreDone'
  <2>1. \A c \in Callers : c # "host" => sending'[c] = sending[c]
    BY <1>1, <1>2 DEF HostReplaceDirect, ReplaceDirect
  <2>2. phase = "running" /\ UNCHANGED <<phase, publishing>>
    BY <1>2 DEF HostReplaceDirect, hostVars
  <2> QED BY <1>0, <2>1, <2>2 DEF SendersAreDone, Idle
<1>3. ASSUME NEW now \in Instants, HostTombstoneAll(now) PROVE SendersAreDone'
  <2>1. \A c \in Callers : c # "host" => sending'[c] = sending[c]
    BY <1>1, <1>3 DEF HostTombstoneAll, TombstoneAll
  <2>2. phase = "running" /\ UNCHANGED <<phase, publishing>>
    BY <1>3 DEF HostTombstoneAll, hostVars
  <2> QED BY <1>0, <2>1, <2>2 DEF SendersAreDone, Idle
<1>4. ASSUME NEW now \in Instants, ClearRelayRoutes(now) PROVE SendersAreDone'
  <2>1. \A c \in Callers : c # "host" => sending'[c] = sending[c]
    BY <1>1, <1>4 DEF ClearRelayRoutes, TombstoneAll
  <2>2. sending'["host"] = LastStatus'
    BY <1>0, <1>4, EmptyStatus DEF ClearRelayRoutes, TombstoneAll, Store, LastStatus
  <2>3. \A o \in Owners : Idle(o)
    BY <1>4 DEF ClearRelayRoutes, OwnersFenced, Unlocked
  <2>4. /\ phase = "stopping" /\ phase' = "clearing" /\ UNCHANGED <<publishing, orderly>>
        /\ orderly => ~publishing
    BY <1>4 DEF ClearRelayRoutes, PublisherJoined
  <2> QED BY <1>0, <2>1, <2>2, <2>3, <2>4 DEF SendersAreDone, Idle
<1>5. ASSUME NEW now \in Instants, ClearDirectRoutes(now) PROVE SendersAreDone'
  <2>1. \A c \in Callers : c # "host" => sending'[c] = sending[c]
    BY <1>1, <1>5 DEF ClearDirectRoutes, ReplaceDirect
  <2>2. /\ phase = "clearing" /\ phase' = "cleared" /\ UNCHANGED <<publishing, orderly>>
        /\ Idle("host") /\ ReplaceDirect({}, now)
    BY <1>5 DEF ClearDirectRoutes
  <2>3. stored = {} /\ Expired(stored, now) = {}
    BY <2>2, ExpiredEmpty DEF ClearingIsFinal
  <2>4. orderly => sending'["host"] = LastStatus' \/ (Idle("host")' /\ watch' = LastStatus')
    <3>1. CASE ExpireOnly(now)
      <4>1. revision' = revision /\ direct' = direct /\ UNCHANGED <<watch, sending>>
        <5>1. Overdue({}, now) = {}
          BY DEF Overdue, Live
        <5>2. ExpiredRevision(now) = revision
          BY <2>3, <5>1, FS_EmptySet DEF ExpiredRevision, TypeInv, TypeOK
        <5> QED BY <3>1, <5>2 DEF ExpireOnly
      <4> QED BY <2>2, <4>1 DEF SendersAreDone, LastStatus, Idle
    <3>2. CASE Store("host", {}, Expired(stored, now), ExpiredRevision(now) + 1, now)
      BY <1>0, <2>3, <3>2, EmptyStatus DEF Store, LastStatus
    <3> QED BY <2>2, <3>1, <3>2 DEF ReplaceDirect
  <2> QED BY <1>0, <2>1, <2>2, <2>4 DEF SendersAreDone, Idle
<1>6. ASSUME NEW inOrder, BeginShutdown(inOrder) PROVE SendersAreDone'
  BY <1>6 DEF BeginShutdown, SendersAreDone, Idle
<1> QED BY <1>2, <1>3, <1>4, <1>5, <1>6 DEF HostNext

LEMMA ReaderSenders ==
    ASSUME TypeInv, ClearingIsFinal, SendersAreDone, ReaderNext
    PROVE  SendersAreDone'
<1>0. /\ sending \in [Callers -> Status \cup {Nothing}] /\ "host" \in Callers
      /\ Owners \subseteq Callers /\ Readers \subseteq Callers
      /\ Owners \cap {"app", "publisher", "host"} = {}
  BY CallersAreDistinct DEF TypeInv, TypeOK, Callers
<1>1. ASSUME NEW now \in Instants, AppSnapshot(now) PROVE SendersAreDone'
  <2>1. /\ \A c \in Callers : c # "app" => sending'[c] = sending[c]
        /\ phase = "running" /\ UNCHANGED <<phase, publishing>>
    BY <1>0, <1>1 DEF AppSnapshot, ReadSnapshot, Store, hostVars
  <2> QED BY <1>0, <2>1 DEF SendersAreDone, Idle
<1>2. ASSUME NEW now \in Instants, PublisherSnapshot(now) PROVE SendersAreDone'
  <2>1. /\ \A c \in Callers : c # "publisher" => sending'[c] = sending[c]
        /\ publishing /\ UNCHANGED <<phase, publishing, orderly>>
    BY <1>0, <1>2 DEF PublisherSnapshot, ReadSnapshot, Store, hostVars
  <2> QED BY <1>0, <2>1 DEF SendersAreDone, Idle
<1>3. ASSUME NEW now \in Instants, NEW expected, Commit(expected, now)
      PROVE  SendersAreDone'
  <2>1. phase = "running" /\ UNCHANGED <<phase, publishing, sending>>
    BY <1>3 DEF Commit, ExpireOnly, hostVars
  <2> QED BY <2>1 DEF SendersAreDone, Idle
<1>4. CASE StopPublisher
  BY <1>4 DEF StopPublisher, SendersAreDone, Idle, LastStatus, catalogVars
<1> QED BY <1>1, <1>2, <1>3, <1>4 DEF ReaderNext

LEMMA StatusSenders ==
    ASSUME TypeInv, SendersAreDone, NEW c \in Callers, SendStatus(c)
    PROVE  SendersAreDone'
<1>1. /\ \A b \in Callers : sending'[b] = IF b = c THEN Nothing ELSE sending[b]
      /\ UNCHANGED <<catalogVars, phase, orderly, publishing>>
      /\ ~Idle(c) /\ watch' = sending[c]
  BY DEF SendStatus, TypeInv, TypeOK, hostVars
<1>2. /\ "host" \in Callers /\ Owners \subseteq Callers /\ Readers \subseteq Callers
      /\ Owners \cap {"app", "publisher", "host"} = {}
      /\ Readers \subseteq {"app", "publisher"}
  BY CallersAreDistinct DEF Callers
<1>3. CASE phase \in {"clearing", "cleared"} /\ orderly
  <2>1. c = "host"
    BY <1>1, <1>2, <1>3 DEF SendersAreDone, Callers
  <2>2. watch' = LastStatus' /\ Idle("host")'
    BY <1>1, <1>2, <1>3, <2>1 DEF SendersAreDone, LastStatus, Idle, catalogVars
  <2> QED BY <1>1, <1>2, <1>3, <2>1, <2>2 DEF SendersAreDone, Idle
<1>4. CASE ~(phase \in {"clearing", "cleared"} /\ orderly)
  BY <1>1, <1>2, <1>4 DEF SendersAreDone, Idle
<1> QED BY <1>3, <1>4

LEMMA NextSenders ==
    TypeInv /\ OwnershipInv /\ ClearingIsFinal /\ ClearingIsFinal' /\ SendersAreDone
      /\ [Next]_vars => SendersAreDone'
<1>1. SendersAreDone /\ (Tick \/ UNCHANGED vars) => SendersAreDone'
  BY DEF Tick, vars, SendersAreDone, Idle, LastStatus, catalogVars, hostVars
<1> QED BY <1>1, OwnerSenders, HostSenders, ReaderSenders, StatusSenders DEF Next

\* AukiPeer::shutdown: when the clearing is done and its status sent, the watch channel
\* holds the empty route set for good, whatever statuses were under way before.
THEOREM LastStatusIsObserved == Spec => []ShutdownIsObserved
<1>1. Init => SendersAreDone
  BY DEF Init, SendersAreDone, Idle, Callers
<1>2. ClearingIsFinal /\ SendersAreDone => ShutdownIsObserved
  <2> SUFFICES ASSUME ClearingIsFinal, SendersAreDone,
                      phase = "cleared", orderly, Idle("host")
               PROVE  /\ stored = {} /\ direct = {}
                      /\ watch = [revision |-> revision, directs |-> 0, relays |-> 0]
    BY DEF ShutdownIsObserved
  <2>1. stored = {} /\ direct = {}
    BY DEF ClearingIsFinal
  <2>2. LastStatus = [revision |-> revision, directs |-> 0, relays |-> 0]
    BY <2>1, FS_EmptySet DEF LastStatus
  <2>3. LastStatus # Nothing
    BY DEF LastStatus, Nothing
  <2> QED BY <2>1, <2>2, <2>3 DEF SendersAreDone, Idle
<1> QED BY <1>1, <1>2, InitType, NextType, InitOwnership, NextOwnership, InitClearing,
           NextClearing, NextSenders, PTL DEF Spec
=============================================================================
