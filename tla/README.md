# Auki SDK: a TLA+ verification project

TLA+ models of the parts of the Auki SDK where several tasks, callbacks and
remote services act on the same state. The modules are translated from the Rust
source; `PROJECT.json` maps every definition to the lines it models.

## 1. The system

The SDK (`core/`) lets an application be a peer in the Auki network. Its parts,
the state they keep and how they meet:

| Part | State | Operations | Meets |
| --- | --- | --- | --- |
| Route catalog (`auki-p2p/src/routing.rs`) | direct and relay routes, revision, a status watch channel | publish, refresh, tombstone, snapshot, commit-if-current | coordinators write it; applications and the discovery publisher read it |
| Relay coordinator (`auki-sdk/src/relay/coordinator.rs`) | slots, retirements, generations, kept failure evidence, a fenced view of the catalog | poll/renew the booking, start and retire attempts, publish, report failures, stop, forced fence | DMS (booking), transport (reservations), catalog |
| Booking client (`auki-relay-booking`) | the booking and its snapshots | create, poll, renew, report | coordinator, DMS |
| Reservations (`auki-p2p/src/transport.rs`, `relay.rs`, `relay_client.rs`) | reservations by generation, dispatch contexts, cancellation barriers | start, wait, cancel, broadcast of losses | coordinator, libp2p's relay client |
| Circuits (`circuit_hop.rs`, `relay_dial_gate.rs`, `runtime.rs`) | circuits per target with their owners, dial permits | open, replace, release | transport, streams |
| Streams and admission (`targeted_stream.rs`, `source_admission.rs`) | opens per request id, progress per relay connection, cached admissions | open on one connection, retire a stalled relay, admit a source | swarm, relays |
| Observations (`observation.rs`, `auki-sdk/src/known_peers.rs`) | live connections and authentications per peer and domain, an event channel | record, expire, snapshot, subscribe, end | swarm, streams, applications |
| Authority and keys (`auki-sdk/src/authority.rs`, `auki-p2p/src/token.rs`) | credential, revision, key ring, update lock, a status channel | install, renew, expire, refresh after a 401, stop | host, transport, requests |
| Protocol servers (`auki-sdk/src/protocols.rs`, `served_protocols.rs`) | registrations, handlers, inbound queues, the advertised list | register, serve, close, drop, fence, drain | transport, discovery |
| Discovery publisher (`auki-sdk/src/discovery.rs`) | the advertisement at the tracker | publish with retries, compensate, renew, withdraw | catalog, DDS tracker |
| Peer runtime (`auki-sdk/src/peer_runtime.rs`) | the parts and their order of shutdown, one status | start, monitor, shutdown, drop | all of the above |
| Managed tasks (`auki-tasks`) | one permit, one lease, an event queue, a data credential, a task peer | claim, heartbeat, run handler, complete/fail, close | DMS, the host, the handler, the task's peer |
| Robot peer, machine credentials (`auki-tasks`, `auki-auth/src/machine`) | a grant and its peer; a token and its login in flight | renew, start, close; log in, back off, register, stop | auth service, tasks |
| Sessions (`auki-auth/src/client.rs`, `zitadel_session.rs`) | access and refresh tokens, the host's store | operate, refresh, save, close | provider, host |
| DMS, domain data, fleet clients | none beyond a bearer | HTTP requests | remote services |
| `labs/`, bindings, examples | recordings, protocols, maps | file formats, numeric code, wrappers | applications |

What is hard: events arrive on two channels with no order between them; every
attempt may be overtaken by a newer one; statuses are sent after the lock is
released; deadlines pass between any two steps; calls that time out still take
effect; futures are dropped at any await; a refresh token can be used once and
its answer can be lost; a shutdown runs against everything else. The list, with
lines, is `hazards` in `PROJECT.json`.

What makes the parts correct:

* catalog: limits hold; a route has an owner who will withdraw it; withdrawing
  is exact and final; an equal revision means equal routes;
* coordinator: a published route has a live reservation or a notice of its loss
  on the way; no cleanup hits a current reservation; no reservation is without
  somebody who will cancel it; a successful stop leaves nothing behind; lost
  routes are withdrawn and every shutdown ends;
* tasks: events reach the DMS once, in order and before the receipt; a lease that
  lost its authority is not admitted to its receipt; a permit covers all of a
  lease; `close` is honest about failed cleanups, and stopping always ends the
  loop;
* every other part: what it shows is backed by what it holds, what it acts on is
  still true, one request is in flight where one may be, an outcome it reports
  is what happened, nothing follows its end, and whoever waits is answered.

## 2. Modules

| Module | Models |
| --- | --- |
| `RouteCatalog` | `RouteCatalog`, `FencedRouteCatalog`, the readers and the shutdown of `AukiPeer` |
| `RouteLedger` | what readers of the catalog rely on: content changes only with a new version |
| `RouteCatalogProofs` | the proofs about `RouteCatalog` |
| `RelayCoordinator` | the coordinator actor, its workers, cleanups and shutdown |
| `RelayCoordinatorProofs` | the proofs about `RelayCoordinator` |
| `TaskRuntime` | `AukiDmsTasks::run`, `TaskLease::execute_managed`, `TaskCredential` |
| `RobotPeer` | the persistent peer of a robot, its renewal driver, start and close |
| `TokenManager` | `TokenManager`, and start, registration and close of the robot and compute credentials around it |
| `AuthSession` | user and imported ZITADEL sessions: operations, refresh, save, close |
| `AuthoritySupervisor` | `AuthorityInner`: updates, pull driver, expiry, refresh after a 401, stop |
| `DomainKeys` | `VerificationKeyRing` and `TokenStore`: when key sets and credentials may replace one another |
| `RelayReservations` | the reservation node, the runtime around it and the wrapped relay client |
| `CircuitHops` | the hop table, the dial gate, exact routes and their replacements |
| `TargetedStreams` | `TargetedStreamBehaviour`, its handler and `RelayProgress` |
| `AdmissionCache` | `AdmissionCache` and its use by `connect_relayed_inner` |
| `NodeObservations` | `NodeObservations` with its expiry driver, and an application that follows it through `AukiKnownPeers` |
| `ProtocolServers` | registrations, supervised servers, inbound queues, the fence and the drain |
| `Advertiser` | the discovery publisher, native and browser, against a tracker with delayed requests |
| `PeerRuntime` | startup with its undoing, monitor, status, ordered shutdown, drop, waiters |
| `MachineParts` | constants, variables and instances of `TaskRuntime`, `RobotPeer`, `TokenManager`, `AuthSession`, `AuthoritySupervisor` |
| `PeerParts` | the same of `RelayReservations`, `CircuitHops`, `TargetedStreams`, `AdmissionCache`, `NodeObservations`, `ProtocolServers`, `Advertiser`, `PeerRuntime` |
| `MachinePartsProofs` | the proofs about the instances of `MachineParts` |
| `PeerPartsProofs` | the proofs about `CircuitHops`, `AdmissionCache`, `ProtocolServers`, `Advertiser`, `PeerRuntime` |
| `RelayReservationsProofs`, `TargetedStreamsProofs`, `NodeObservationsProofs` | the proofs about the module each is named after |
| `ComponentsProofs` | the proofs about `DomainKeys`, and that what is proved of a component holds in `MCComponents` |
| `MCRouteCatalog`, `MCRelayCoordinator` | model values, sets and symmetry for TLC |
| `MCComponents` | `MachineParts`, `PeerParts` and `DomainKeys` side by side |

`MCComponents` runs one component at a time: its variable `subject` is chosen at
the start, only the subject moves and the others stay in an initial state. The
components share no variable there, so nothing is gained or lost by it except
that one run asks one question ("is what it reports true?", "does whoever waits
return?") of all of them. A property of that module is the conjunction of the
components' own properties that answer the question; each is defined and
explained in its component's module, and is asked of the subject alone. Three
components are instantiated through their proof modules, which add no behaviour,
so that `ComponentsProofs` can cite their lemmas. What composition there is in the code is
modelled inside a module: the catalog with its owners, readers and host; the
coordinator with transport, DMS and catalog; the task loop with DMS, host,
handler and peer; the supervisor with the transport's two installs; the runtime
with all of its parts as up, failing or down.

### RouteCatalog

A catalog call is two steps: the part under the mutex, and the later send of the
status it computed (`SendStatus`). An owner is one coordinator's
`FencedRouteCatalog`, which holds its own mutex over both steps; `fence_all`
tombstones its fences one by one (`FenceAll`, then one step per fence). `now` is
read before the lock is obtained, so each call uses an instant up to `Lag` ticks
old. Expired entries stay stored, as in the code, and a refresh may revive them.
The application takes a snapshot and commits it later; the publisher reads
whenever it likes. The host stops in order (`shutdown`) or by `Drop`.

Routes are abstracted to a slot, a relay peer (which stands for its TCP and WSS
endpoints) and an expiry; address validation is not modelled.

### RelayCoordinator

State: the assignments of the DMS, the actor's snapshot of them, its slots and
retirements, one worker per fence `<<slot, generation>>`, the event channel, the
transport's reservations and its loss notices. Workers move through dial,
minted, answered, started, waiting, confirmed, retry and release; actor actions
handle one event, one poll, one expiry or one stage of the shutdown, whole. An
action that awaits a cleanup inside a handler (`publish_confirmed_route` failing)
leaves the actor in phase `awaiting`, with the rest of the handler done when the
cleanup ends.

Abstractions: assignment id and reservation epoch are one number; failure
reasons are dropped; loss notices are a set (any order, which covers the biased
select); control-plane calls are answered at once except where `CallsTimeOut`.
`StartRollsBack` states the contract of `RelayReservationBackend::start`; runs
assume it except the one that shows the transport does not keep it.
`CallsTimeOut` lets cancelling and joining fail. `Disturbances` selects what the
environment does in a run.

Left out: the channel's capacity of 64, invalid provider metadata (the slot goes
straight to reporting), refusals by the catalog's limits beyond "publish was
refused", a shutdown future that is itself dropped half way.

### TaskRuntime

One loop, one permit. `pc` is where the loop is: poll, claiming, first (the
initial heartbeat), peer, running, joining (a handler that was entered is
awaited after its lease was lost), draining (the heartbeat in flight is awaited
after the handler returned), flush, the stages of the receipt, cleanup, ended.
`complete` and `fail` are five steps: the task's peer is shut down
(`ReleaseResources`); `is_cancelled` and `remaining` look at the lease for the
last time (`AdmitReceipt`); the DMS client awaits its bearer, perhaps a whole
login, and posts (`PostReceipt`); a first 401 makes it await another bearer and
post again (`ReceiptUnauthorized`); the reply or the timeout ends the lease
(`ReceiptEnds`). `close` cancels, takes the permit, closes the robot's peer and
then the machine's credential, and reports failed cleanups of both kinds
(`CloseBegins`, `CloseAcquires`, `RobotPeerCloses`, `CloseEnds`); how the last
two of these come about is said in `RobotPeer` and `TokenManager`. Requests to
the DMS are messages that stay under way when their sender gives up, so a lost
reply and a late effect are the same thing seen from two sides. The handler logs
events, calls for data with a rejected bearer and returns, or is cancelled. Events
are numbered in the order `log_event` accepted them.

Left out: custom loops (they call the same operations), progress values,
capability lists, the 64 KiB limit of the queue (the 1024-entry limit is
`MaxQueue`), DMS refusals of a heartbeat other than 409 and `cancel: true`. A
rejected machine credential is the same as a closed runtime.

### RobotPeer, TokenManager, AuthSession

`RobotPeer`: one driver; a grant is the moment it expires. The driver resolves
the Domain, exchanges a grant, starts the peer, renews and finally shuts it
down; each await can be cut off by close, by the expiry or by a failing
transport. `TokenManager`: "about to wait" and "waiting" for the `Notify` are
two places, since `notify_waiters` wakes only futures that exist. Callers can be
dropped at any await; a login goes on in a task of its own. `AuthSession`:
refresh tokens are numbered; the provider accepts the newest only and consumes
it, or, ZITADEL's, answers without a new one, in which case the old one is kept
(`zitadel.rs:237`); its answer may be lost. The worker of a ZITADEL session
belongs to no caller; a user session refreshes inside the operation and can lose
a rotation.

### AuthoritySupervisor, DomainKeys

An update takes the update lock, installs keys, then the credential, and only
then the supervisor's own state; either install may be refused. Statuses are
sent after the state lock is released. Readers look twice, as the code does.
`DomainKeys` has hosts that hand in key sets late, twice or out of order;
signatures are good exactly when their key made them. It has the code's two
clocks: key rings go by the monotonic one (`now`: `protected_until`,
`last_refreshed_at`), credentials by the wall clock (`wall`: `iat`, `exp`), which
runs along and can be set at any moment (`SetClock`). `TrustedKeyIsKept` is about
keys only: the key of a credential is kept for what was left of the credential's
life when the current key verified it, on the monotonic clock. Whether `verify_at`
accepts the credential meanwhile is another question: it refuses while the keys
are stale (`token.rs:354`, `Stale`), and the overlap has no slack for a wall
clock that is set back, which makes a credential valid for longer than its key
is kept. Both happen in the model.

### RelayReservations, CircuitHops, TargetedStreams, AdmissionCache

The swarm's task handles one event or one command at a time: each is an action.
What libp2p decides is nondeterministic. Relays, targets and connections are
independent of each other in the code's maps; one relay and one hop key are
modelled. In `TargetedStreams` an open of the admission protocol that times out
counts against its connection, also when its caller has gone; answers of a
handler can arrive after their connection closed. In `AdmissionCache` entries
have an identity, because the map drops and recreates them.

### NodeObservations

An operation reads the clock, then takes `transition_order` and changes the
state (`Enter`), sends its events one by one (`Send`) and moves the deadline
revision (`Leave`). Connections, the expiry driver and the end of the node share
one task; streams authenticate in tasks of their own, perhaps when their
connection has closed. The follower is an application that keeps the channel's
contract (subscribe, snapshot, apply, and another snapshot after a lag); its
snapshot may fall between a change and its events. Stopped and failed, and the
reasons of a disappearance, are not told apart.

A snapshot can show an authentication whose end has just passed: the stream read
the clock before, and the snapshot expired the state before the stream had the
lock. The driver, woken by the deadline revision, withdraws it
(`DriverIsArmed`).

### ProtocolServers, Advertiser, PeerRuntime

`ProtocolServers` follows a registration from its mount through its server task
and handlers to the drain. `Fence` is a step of its own: `shutdown` and `Drop` of
the peer fence first (`peer_runtime.rs:939`, `:1019`), which stops every server
through its child token, and the registrations and the snapshot of served
protocols are emptied only by the later drain (`protocols.rs:267`). A server whose
close was dropped while it joins the task is detached, the others of a drain that
ran out of time are aborted. `Advertiser` has a tracker at which a request that
timed out, or whose start was dropped, arrives now, later or never, and leases
that lapse; a route snapshot that fails is skipped (`LoopSkips`). `PeerRuntime`
has the startup steps in order, the undoing of a failed one, the signals the
monitor reads, the stages of the shutdown, and waiters on the status. A peer
dropped while it starts, runs or shuts down only tells its relay coordinator and
its transport to go (`Leaving`); they go later (`RelayGone`, `NodeGone`), on
their own.

## 3. Runs

| Run | States | Shows |
| --- | --- | --- |
| `catalog_owners` | 230 thousand | two owners and the host: limits, ownership, exact and complete fencing, final clearing, refinement of `RouteLedger` |
| `catalog_readers` | 356 thousand | a commit runs on the snapshot it saw; an orderly shutdown leaves the empty status on the channel; the channel catches up while the publisher runs (fair) |
| `catalog_monotonic` | | **violation**: the observed revision goes back |
| `coordinator_churn` | 899 thousand | reassignment and the forced fence: routes are backed, reservations owned, no cleanup hits a newer attempt |
| `coordinator_slots` | 222 thousand | two slots that share a relay over time, calls that fail, lapses, the end of the booking, a failing actor, the forced fence: routes are backed, a graceful stop releases all, no healthy reservation is reported |
| `coordinator_liveness` | 127 thousand | lapses: lost routes are withdrawn, retirements and shutdown end (fair) |
| `coordinator_lost_start` | | **violation**: an aborted start loses a reservation |
| `coordinator_failed_cleanup` | | **violation**: a failed cleanup is awaited twice |
| `components_safety` | 1.5 million | every component under its own concurrency and faults: see below |
| `machine_liveness` | 57 thousand | task loop, robot peer, token manager, session, authority: closing ends or is stuck where section 3 says, calls return, lost authority takes effect (fair) |
| `peer_liveness` | 18 thousand | reservations, circuits, streams, servers, advertisement, runtime: closing ends, calls return, what nobody holds goes, changes are noticed (fair) |
| `token_waits` | | **violation**: a caller can wait for a login that has ended |

`components_safety` asks: does the DMS see the whole task (`DmsSeesWholeTask`);
are outcomes honest (`OutcomesAreHonest`); is what is shown backed
(`ShownIsBacked`); is there one flight (`SingleFlight`); is the rotation of
refresh tokens safe (`RotationIsSafe`); does a refresh that succeeds bring a
newer credential (`RefreshedMeansReplaced`); is a reservation accepted by its
own answer (`AcceptanceIsOwn`); does a held circuit stay up
(`HeldCircuitStaysUp`); is the key of a trusted credential kept
(`TrustedKeyIsKept`); does the permit cover the lease
(`PermitCoversLease`); is what a component acts on current
(`ActsOnCurrentState`); does nothing follow the end (`NothingAfterTheEnd`).

All runs say `CHECK_DEADLOCK FALSE`: each of these systems really stops, and the
bounds on counters stop it too.

**Bounds.** Two owners, two slots and two relays are enough for every collision
the catalog tests for (same slot, same relay, limit reached) and for a
replacement coordinator next to a retired one; `Lag = 1` allows a clock older
than the previous caller's. Two generations and two handles per slot are enough
for an old attempt next to a current one, two epochs for a reassignment in
between. Three events with a queue of two make the queue full while one batch is
in flight; one task suffices because a lease starts from a fresh context and
leaves only the permit, `closed` and `cleanup_failed` behind. For the other
components two callers (or three openers of a circuit with one permit), two
generations and three connections give every overlap of an old and a new
attempt, and each clock runs past one expiry and one renewal; the thresholds of
`TargetedStreams` (3 timeouts, 20 s, 60 s in the code) are scaled to 2, 1 and 1,
lifetime, skew and overlap of `DomainKeys` (30, 1 and 31 minutes) are scaled to
1, 1 and 2, with clocks that reach 2, so that an overlap ends and a third key
comes; keys go stale after 1, within the overlap and not after it (60 minutes in
the code), so that the run meets stale keys; the theorem holds for any choice.
`AuthoritySupervisor` has two refreshers in `components_safety`, which contend
for `refresh_lock`. `NodeObservations` has one peer in two domains, two
connections and a channel of one entry, so that a follower lags and an
authentication is renewed after it expired. The fair runs use one caller per
component, since nothing but a lock or a channel, taken in turn, lies between
callers; in particular one refresher, as two are more than TLC finishes with
under fairness, so that a refresh which waits for `refresh_lock` for ever would
not be seen there. Bounds appear in guards only and are named constants.

**Fairness.** Catalog: a caller that computed a status sends it (no await in
between) and the publisher reads again after each notification or timer.
Coordinator: spawned tasks, the transport and the actor's loop are polled, and a
bounded call ends; nothing is assumed of the DMS, of reassignment or of lapses.
Tasks: the runner is polled, requests are answered or time out, a peer's startup
is bounded, and a handler that sees its cancellation returns, which is the
documented duty of a `TaskHandler`; a handler that is not cancelled need not
return. Its `close` gets the permit when it is free (the semaphore is fair) and
the robot's peer closes, as `ClosedEnds` shows; of the credential's close nothing
is assumed. Robot peer, token manager, session: each await has a time limit, is cut
off by a token, or is a lock handed out in turn (strong fairness of taking it).
Authority: timers fire and attempts end at their deadline; nothing is assumed of
the host or the DDS. Reservations, circuits, streams: the swarm is polled, dials
and negotiations end, what is told to close closes; the dial gate and the
command channels are first come, first served. Servers: aborted handlers end,
others need not. Advertiser: the tracker answers now and then and drops leases
nobody renews. Runtime: every stage of the shutdown has a limit or barrier of
its own, and what a dropped peer told to go goes.

### What the violations show

* `catalog_monotonic`: `snapshot` and the mutations send their status after
  unlocking (`routing.rs:404`, `:216`). A slower caller replaces a newer status
  by an older one, so the revision of `AukiPeerRoutes::status`, documented as
  monotonic (`context.rs:72`), is seen going back. `catalog_readers` shows it is
  repaired as long as the publisher runs.
* `coordinator_lost_start`: `start_relay_reservation` answers through a oneshot
  and rolls back only if that send fails (`transport.rs:2011`). An attempt that
  is aborted between the send and the receive drops the handle; the reservation
  stays up without an owner, against the contract at `coordinator.rs:77`.
* `coordinator_failed_cleanup`: `finish_retirement` returns a cleanup's error
  before it removes the retirement (`coordinator.rs:1690`); the forced fence then
  awaits the same finished `JoinHandle`, which panics. The run has one slot and
  shows the panic; with more slots the unwinding actor would take the handles of
  the other cleanups, which abort on drop, with it.
* `token_waits`: `get_access` releases the state lock and only then creates the
  future of `Notify::notified` (`token_manager.rs:253`). A login that ends in
  between has already called `notify_waiters`, which remembers nothing, so the
  caller waits for a notification that was sent, although the test at `:725`
  expects every concurrent caller to get the token.

### Cases the properties exempt

Met while modelling, allowed by the models and left out of the properties by
name, so that a change of the code shows:

* a receipt can leave after the revocation. The last look at the lease is before
  the DMS client awaits its bearer (`auki-dms/src/client.rs:187`, `:253`) and
  before it posts again after a 401 (`:207`, `:273`); a host that cancels in
  between (`auki-tasks/src/runtime.rs:935`) revokes the lease, and the request goes
  out all the same. The comment there speaks of a receipt already sent.
  `ReceiptIsLast` claims what does hold: a lease that was cancelled or ran out
  before that look is never reported, and the look comes after handler, heartbeat
  and peer are gone;
* the `close` of a machine's credential can hang, and `AukiDmsTasks::close` with it
  (`runtime.rs:615`). `background_loop` reads `stopped` as false
  (`token_manager.rs:453`), `stop` sends its notifications (`:278`), the loop then
  creates the futures it waits on (`:499`), and `stop` joins it (`:292`); the same
  if the loop waits for a login as in `token_waits`, or if `start_bg` takes the
  stop back. `CloseReturnsIfHeard` says that there is no other way: a close that
  began returns, or stays in `Unheard` for ever. `CloseReachesMachine` says that
  the close of the task runtime comes as far as that call;
* between the fence and the drain a peer advertises protocols whose servers are
  stopped. In a shutdown that lasts until monitor, publisher and relay are down;
  the peer of a task is fenced when its lease is revoked, long before it is shut
  down (`task_peer.rs:218`). `AdvertisedIsServed` holds until the fence;
  `FenceHolds` says that nothing joins what is shown behind it, and that a drained
  peer shows nothing;
* an opener of a circuit that is dropped after the swarm counted it and before it
  read the answer leaves its count behind (`transport.rs:2138`): the circuit
  stays up (`unread` in `CircuitHops`);
* a user session whose caller is dropped between rotation and commit submits the
  consumed token again (`client.rs:437`; `lost` in `AuthSession`);
* a process that ends between the rotation of a ZITADEL token and its save
  (`zitadel_session.rs:150`) finds a consumed token in its store;
* `start_bg` resets `stopped` (`token_manager.rs:302`); the credential starts it
  once, so the model marks a restart and claims nothing of it;
* the order of statuses on the authority's channel: a `Ready` can follow
  `Stopped`, an `Expired` of revision 1 the `Ready` of revision 2, and an
  `Expired` under way can overwrite `AuthenticationFailed` (`authority.rs:798`);
* two waiters of a peer that fails while it shuts down can see different ends
  (`Failed` of a part, then of the cleanup), though `peer_runtime.rs:365` speaks
  of the same terminal result for every clone;
* a `close` that races the drain of all protocols returns Ok as soon as the drain
  owns the server, whose handlers may still run (`protocols.rs:344`);
* commands in the channel of `TargetedStreams` when the swarm stops: the callers
  depend on what the channel does with what it holds.

## 4. Proofs

Eight modules hold proofs; every theorem holds for every value of the constants
that satisfies the named assumptions, so for any number of owners, slots, relays,
callers, attempts and credentials, not for the instances of section 3 only. Each
theorem is proved from an inductive invariant: it holds initially, every action
keeps it (one case per action), and it implies the theorem. The invariant of the
coordinator was checked by TLC on the bounds of `coordinator_churn` before it was
proved.

### The catalog (`RouteCatalogProofs`)

| Theorem | States |
| --- | --- |
| `TypeCorrect` | `Spec => []TypeOK` |
| `RoutesAreOwned` | `Spec => []EveryRouteHasItsOwner` |
| `FencingIsComplete` | `Spec => []FencedOwnerLeftNothing` |
| `RemovalsAreExact` | `Spec => OnlyOwnerRemoves` |
| `ClearingHolds` | `Spec => ClearedForGood` |
| `LimitsHold` | `Spec => []WithinLimits` |
| `CatalogImplementsLedger` | `Spec => ImplementsLedger` |
| `CommitsAreCurrent` | `Spec => []CommitSawItsSnapshot` |
| `LastStatusIsObserved` | `Spec => []ShutdownIsObserved` |

Assumptions: bounds are naturals, the callers' names are distinct, and the
direct routes are a finite set within the limit.

The type invariant is strengthened by the finiteness of the stored set, without
which the counts in a status need not be numbers. Ownership needs three more
facts to be inductive: fences in anybody's hands have a generation already
issued (so a fresh one collides with none), no fence has two owners, and a
closed owner owns only what its running `fence_all` has still to tombstone.
"Every route has its owner" is preserved because each removal from an owner's
set goes with the removal of the entry from the catalog, under the owner's
mutex. Completeness follows: a closed owner that is between calls has nothing
left to fence, so it owns nothing. `ClearedForGood` uses that in phase `cleared`
every owner is closed and the routes are empty, so no publication is admitted.

`LimitsHold` counts the stored entries, expired ones included (`CatalogFits`): an
expired entry keeps its slot, its relay and its place in the count, so that a
refresh that revives it needs no new room. The refinement of `RouteLedger` rests on
that too: every action is shown to be an expiry followed by at most one change, and
with one entry per slot a change of content always comes with a new revision. A
commit compares revisions only; since the routes a snapshot showed are those of
its revision, equal revisions mean equal routes. `ShutdownIsObserved` needs to
know who may still send when the shutdown clears: the callers that hold a status
computed before it are done, or hold the empty one.

### The coordinator (`RelayCoordinatorProofs`)

| Theorem | States |
| --- | --- |
| `CoordinatorTypeCorrect` | `Spec => []TypeOK` |
| `RoutesStandOnReservations` | `Spec => []RouteHasReservation` |
| `CleanupsSpareTheCurrent` | `Spec => []NoFriendlyFire` |
| `StopsReleaseAll` | if `StartRollsBack`: `Spec => []GracefulStopReleasesAll` |
| `ReservationsHaveOwners` | if `StartRollsBack` and not `CallsTimeOut`: `Spec => []ReservationsAreOwned` |
| `HealthyRoutesStay` | `Spec => HealthyNotReported` |

Assumptions: bounds are naturals, the switches are Booleans and the disturbances
are among those named; all of them may happen. Two theorems have hypotheses that
the code's own contracts state. `StartRollsBack` is the contract of
`RelayReservationBackend::start` (`coordinator.rs:77`); `coordinator_lost_start`
shows that without it ownership fails. A call that times out ends a cleanup with
an error and may leave a reservation up: the code gives it up and says so in the
result of the stop, so ownership is claimed only without such calls, and what a
*successful* stop has released is claimed with them too.

None of these is inductive, since each depends on what is under way between the
worker, the channel, the actor and the transport. `IInv` says:

* `LocalInv`: a slot is vacant, has an attempt or is being retired, never two of
  these; a worker is awaited by its slot or by its cleanup;
* `ChannelInv`: what the actor knows of an attempt, the events of its fence in
  the channel and the place of its worker form one story, each event fitting the
  one before it; Confirmed and Failed are a worker's last word; a completed
  cleanup has nothing left to do;
* `HandleInv`: a reservation is mentioned (by worker, event or slot) for one
  attempt only, and one that is being cancelled for none that is current;
* `OrderInv`: reservations are minted in order and an attempt only moves on to
  newer ones, so that a late event cannot bring an older handle back;
* `RelayInv`, `RouteInv`: an attempt's reservations are at its relay; a notice or
  kept evidence is about a reservation that is down, and the loss of a
  confirmed one is on its way or known until its route is withdrawn or refused;
* `SnapshotInv`, `AnswerInv`: attempts are for what the snapshot assigns, which
  is no newer than the DMS;
* `PhaseInv`, `KeeperInv`: how far a shutdown has come, and, under
  `StartRollsBack`, that every reservation that is up has a keeper unless a
  timed-out call has still to be reported.

The parts are operators of the actor's state as one record, of the channel, and
of the transport's state. A handler transforms that record several times (retire,
then spawn, then publish), and each transformation is a lemma of its own; the
step of an action puts the lemmas in the order of the handler.

### The components

Each of the thirteen components is proved for itself, in `MachinePartsProofs`,
`PeerPartsProofs` or a module of its own; `ComponentsProofs` shows that `MCSpec`
implies the specification of each (a step of the subject is one of its steps, a
step of another leaves it unchanged) and draws the properties that
`components_safety` checks from that. Every one of them is a theorem.

| Theorem | States | From |
| --- | --- | --- |
| `OverlapSuffices` | `Spec => []TrustedKeyIsKept` of `DomainKeys` (key retention on the monotonic clock, for any setting of the wall clock), and `TrustOutlastsRotation` the same of `MCSpec` | `KeysTypeCorrect`: the clocks, ring and store keep their types |
| `KeysNeverRollBack` | `Spec => NoKeyRollback`: the ring's generation never falls, the current key becomes the previous one before it leaves | |
| `EventsReachTheDms` | `MCSpec => []DmsSeesWholeTask` | `EventsCorrect` of the task runtime |
| `PermitsCoverLeases` | `MCSpec => PermitCoversLease` | `PermitCorrect` |
| `OutcomesStayHonest` | `MCSpec => []OutcomesAreHonest` | `CloseCorrect`, `RobotCorrect`, `NothingOutlivesClose`, `ServersCorrect`, `PeerCorrect` |
| `ShownStaysBacked` | `MCSpec => []ShownIsBacked` | `ReservationsCorrect`, `ServersCorrect`, `SelectionIsRestored`, `TransportFollows`, `FailedLeasesGo`, `ObservationsCorrect` |
| `AcceptanceStaysOwn` | `MCSpec => []AcceptanceIsOwn` | `ReservationsCorrect` |
| `CurrentStateIsActedOn` | `MCSpec => ActsOnCurrentState` | `ReadersGetTheCurrent`, `RetiredCorrect` |
| `TheEndIsTheEnd` | `MCSpec => NothingAfterTheEnd` | `ReceiptCorrect`, `CancelCorrect`, `NothingAfterClose`, `LoginIsForGood`, `FenceCorrect`, `TerminalCorrect`, `EventsCorrectlyAlternate` |
| `RequestsAreSingleFlight` | `MCSpec => []SingleFlight` | `OneLoginAtATime`, `OneRequestPerAdmission` |
| `RotationsAreSafe` | `MCSpec => []RotationIsSafe` | `TokensAreConsumedOnce`, `SavedBeforeUse` |
| `RefreshesReplace` | `MCSpec => []RefreshedMeansReplaced` | `SuccessMeansReplaced` |
| `HeldCircuitsStayUp` | `MCSpec => []HeldCircuitStaysUp` | `HeldCircuitsStay` |
| `ComponentsKeepTypes` | `MCSpec => []ComponentsTypeOK` | the type part of each component's invariant |

Assumptions: `DurationsAssumption` of `DomainKeys` says that the overlap of two
keys lasts as long as a credential and the clock skew together (31, 30 and 1
minutes in `token.rs`); `MachineConstants` and `PeerConstants` of `MachineParts`
and `PeerParts` collect what each component asks of its constants (`…Constants`
in its module): bounds are naturals, marks such as "nobody" are no callers, the
callers of a token manager are finitely many, the lifetime of an authentication
and the capacity of the event channel are not zero, and there is a key, a domain
and a connection to speak of. TLC evaluates all of them.

The component modules take their types and invariants apart: a type part, one
named conjunct per idea, one lemma per action or per group of actions that touch
the same variables. What the invariants add to the properties:

* Keys: the key of a credential that is trusted is current, or previous and
  protected for as long as was left of the credential's life (`TrustedIsCovered`).
* Tasks (`TaskInv`): which resources the loop holds at which stage (`StageInv`);
  what the DMS has logged of the leased task followed by what is queued is what
  the handler reported, in order, but for a batch whose answer has not been read
  (`QueueInv`); and every heartbeat still on its way carries events that continue
  exactly where the DMS stands, while a receipt on its way finds them all there
  (`WireInv`, `Follows`). Without the last, a delayed heartbeat could append a
  batch twice.
* Robot peer, credential, session, authority: the driver's stage says whether a
  peer is up; whoever is logging in is alone, and the state says that a login is
  in flight or stopped; a session holds the token that the provider accepts
  except while an answer is under way, and serves nobody while its worker runs;
  whoever is inside the update lock holds it, and nothing that was read or
  promised is newer than the state.
* Reservations (`ReservationInv`): a generation that lives has an open
  connection and listener and no barrier (`EntryInv`); a barrier covers every
  connection and dial there is (`ConnsInv`); what the wrapper of the relay client
  still has queued, dispatched or indexed belongs to the generation that lives, or
  is marked as cancelled behind the barrier (`WrapperInv`); and queued requests,
  answers and handler contexts are matched to the generation that made them
  (`LinkInv`). The handlers are compositions of transformations of one record
  (fence, tear down, complete, settle), each a lemma.
* Circuits and admissions: exactly the circuits that are up have owners, and a
  permit is free, travels with a command, or belongs to the dial; an entry of the
  admission map that somebody waits for or holds is kept in it, and whoever asks
  the relay holds its gate.
* Streams (`StreamInv`): the counter of timeouts of a connection has a witness, a
  set of that many requests whose recorded outcomes are timeouts begun after the
  last success, each but the last followed by another within the idle reset
  (`Stall`). The counter forgets which requests these were, the history does not,
  and the property speaks of the history.
* Observations (`ObsInv`): what was told of a peer, once the events that wait for
  their turn are added, is what a snapshot shows (`AddsUp`); the last event of a
  peer in the queue is the last that was told, and without one a follower that
  did not lag believes what was told (`FollowsK`); the driver waits for no later
  than the first expiry unless it will be woken (`DriverInv`). That there is a
  first expiry is the least-number principle, from the well-foundedness of the
  naturals (`LeastOf`).
* Protocol servers (`ProtocolInv`): a registration, the snapshot of served
  protocols and the transport's table name the same generation, whose server is
  still held by its entry and, until the fence, runs (`MountInv`); a server that ended takes no stream
  and, unless it was aborted, has no handler left (`ServerInv`); a generation has
  one owner, and a close that returned has seen its task end (`OwnerInv`).
* Peer runtime: what a failed start has undone at each step and what it still
  owes (`StartInv`), how far the ordered shutdown has come (`ShutdownInv`), and
  that an end is published behind the fence only (`EndInv`).

### Only model-checked

* Liveness, and what needs ENABLED: fairness is out of the prover's reach. These
  are the properties of the runs `coordinator_liveness`, `machine_liveness` and
  `peer_liveness`, and `WatchCatchesUp`. Every safety property of the passing
  runs is proved.
* `WatchRevisionMonotonic`, `NeverAbandonsCleanups` and `EveryWaitEnds` do not
  hold; `ReservationsAreOwned` does not without `StartRollsBack`.

## 5. Not modelled

Cryptography (tokens, identities), HTTP clients, address syntax, DNS, file
formats, floating-point code in `labs/`, generated bindings. The browser runtime
is a single-threaded variant of the native one; only its publisher is modelled.
The handshake of an authenticated stream is a fixed exchange between two ends
with no state outside it. `PROJECT.json` lists each part with its reason. About
half of the repository's lines are tests inside the source files, and most of
the rest is the code named above, so the map covers a small share of all lines.

## 6. Plan

1. The booking engine of `auki-relay-booking` with the DMS behind it, composed
   with `RelayCoordinator`; the contract the coordinator assumes of the transport
   as an abstract specification that `RelayReservations` refines.
2. The browser runtime (`browser_peer_runtime.rs`, `browser_transport.rs`).
3. The message and stream protocols of `labs/auki-protocols`.
4. Proofs: once the transport's contract of item 1 is a specification, that
   `RelayReservations` implements it, from `ReservationInv`.
