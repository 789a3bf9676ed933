-------------------------- MODULE NodeObservations ----------------------------
(***************************************************************************)
(* What a node knows of the peers it is connected to (auki-p2p,            *)
(* observation.rs) and an application that follows it (auki-sdk,           *)
(* known_peers.rs).  The node's task records connections and, in the same  *)
(* select, drives the expiry of authentications; the tasks of streams      *)
(* record authentications.  Every operation reads the clock, takes         *)
(* transition_order, changes the state and sends its events one by one.    *)
(* Events go into a broadcast channel that overwrites the oldest.          *)
(*                                                                         *)
(* A new connection has the least id that no live one of the peer has.     *)
(* The follower obeys the channel's contract: it subscribes first, reads a *)
(* snapshot, applies what it receives and, when it lagged, reads another.  *)
(***************************************************************************)
EXTENDS Integers, Sequences, FiniteSets

CONSTANTS
    Peers,
    Domains,
    MaxLive,      \* bound of the connections at a time
    Streams,      \* tasks that authenticate a stream
    Capacity,     \* PEER_OBSERVATION_CHANNEL_CAPACITY
    MaxTime,      \* bound of the clock
    Lives         \* how long an authentication may be good for

VARIABLES
    now,
    status,       \* of the node: running, or ended (stopped or failed)
    connections,  \* of every peer: its live connections
    verified,     \* authentications: verified_until of a peer in a domain, or None
    owner,        \* who holds transition_order, or Free
    batch,        \* the owner's events still to be sent: what was pruned, then the rest
    call,         \* of every actor: the operation it is in, with the time it read
    driver,       \* drive_expiry: about to read the state, or waiting for a deadline
    changed,      \* deadline_revision moved since the driver last noticed
    queue,        \* the follower's receiver
    lagged,       \* events it never received were overwritten
    follower,     \* receiving, asking for a snapshot or reading it; and what it believes
    told          \* history: what all events sent so far add up to

vars == <<now, status, connections, verified, owner, batch, call, driver, changed, queue,
          lagged, follower, told>>

None == 0
Free == "free"
Node == "node"        \* the node's task
Reader == "reader"    \* the follower, in a snapshot

\* What the theorems ask of the constants
ObservationConstants ==
    /\ MaxTime \in Nat /\ MaxLive \in Nat /\ Capacity \in Nat \ {0} /\ Lives \subseteq Nat \ {0}
    /\ Domains # {} /\ Node \notin Streams /\ Reader \notin Streams /\ Free \notin Streams

Ids == 1..MaxLive     \* of the connections of a peer
Actors == {Node, Reader} \cup Streams
Pairs == Peers \X Domains    \* keys of the authentications
Untils == {t + l : t \in 0..MaxTime, l \in Lives}
Own == CHOOSE d \in Domains : TRUE    \* domain_id of AukiKnownPeers

Idle == [op |-> "idle"]
NoBatch == <<{}, {}>>
DriverReading == [pc |-> "read", deadline |-> None]
Without(pc) == [pc |-> pc, view |-> [p \in Peers |-> None]]    \* a follower with no view

\* observation: nothing without a connection
Observation(k) == [until |-> verified[k], on |-> connections[k[1]]]
Unseen == [until |-> None, on |-> {}]
Visible(k) == IF verified[k] # None /\ connections[k[1]] # {} THEN Observation(k) ELSE Unseen

Init ==
    /\ now = 0 /\ status = "running"
    /\ connections = [p \in Peers |-> {}]
    /\ verified = [k \in Pairs |-> None]
    /\ owner = Free /\ batch = NoBatch
    /\ call = [a \in Actors |-> Idle]
    /\ driver = DriverReading /\ changed = FALSE
    /\ queue = <<>> /\ lagged = FALSE
    /\ follower = Without("ask")
    /\ told = [k \in Pairs |-> Unseen]

-----------------------------------------------------------------------------
(* Operations begin: each reads the clock before it has the lock.          *)

state == <<status, connections, verified, owner, batch, told>>
channel == <<queue, lagged>>

\* run_swarm, ConnectionEstablished and ConnectionClosed
Live == {l \in Peers \X Ids : l[2] \in connections[l[1]]}

Established(p, i) ==
    /\ call[Node] = Idle /\ Cardinality(Live) < MaxLive
    /\ i \notin connections[p] /\ \A j \in 1..(i - 1) : j \in connections[p]
    /\ call' = [call EXCEPT ![Node] = [op |-> "established", at |-> now, peer |-> p, id |-> i]]
    /\ UNCHANGED <<now, state, driver, changed, channel, follower>>

Closed(p, i) ==
    /\ call[Node] = Idle /\ i \in connections[p]
    /\ call' = [call EXCEPT ![Node] = [op |-> "closed", at |-> now, peer |-> p, id |-> i]]
    /\ UNCHANGED <<now, state, driver, changed, channel, follower>>

\* supervise_node_task, or the drop of its guard: the driver is dropped, and
\* the task does nothing else afterwards
Ends ==
    /\ call[Node] = Idle
    /\ call' = [call EXCEPT ![Node] = [op |-> "terminate"]]
    /\ driver' = DriverReading
    /\ UNCHANGED <<now, state, changed, channel, follower>>

\* A stream's handshake succeeds, with a credential that is not over; by now its connection
\* may have closed, or another one replaced it
Authenticated(s, k, life) ==
    /\ call[s] = Idle
    /\ call' = [call EXCEPT ![s] = [op |-> "authenticated", at |-> now, key |-> k,
                                    until |-> now + life]]
    /\ UNCHANGED <<now, state, driver, changed, channel, follower>>

-----------------------------------------------------------------------------
(* drive_expiry, polled by the node's task.  Its returns need an end that  *)
(* comes from elsewhere: there is none while the task runs.                *)

NextExpiration ==
    LET untils == {verified[k] : k \in Pairs} \ {None}
    IN  IF untils = {} THEN None ELSE CHOOSE u \in untils : \A v \in untils : u <= v

DriverReads ==
    /\ call[Node] = Idle /\ driver.pc = "read"
    /\ driver' = [pc |-> "wait", deadline |-> NextExpiration]
    /\ UNCHANGED <<now, state, call, changed, channel, follower>>

DriverWakes ==
    /\ call[Node] = Idle /\ driver.pc = "wait"
    /\ driver.deadline # None /\ driver.deadline <= now
    /\ driver' = DriverReading
    /\ call' = [call EXCEPT ![Node] = [op |-> "expire", at |-> now]]
    /\ UNCHANGED <<now, state, changed, channel, follower>>

DriverNotices ==
    /\ call[Node] = Idle /\ driver.pc = "wait" /\ changed
    /\ driver' = DriverReading /\ changed' = FALSE
    /\ UNCHANGED <<now, state, call, channel, follower>>

-----------------------------------------------------------------------------
(* The transition, under transition_order and the lock of the state        *)

Event(kind, k, seen) == [kind |-> kind, key |-> k, seen |-> seen]
Gone(k) == Event("disappeared", k, Unseen)
StatusChanged == [kind |-> "status"]

\* prune_expired
Expired(at) == {k \in Pairs : verified[k] # None /\ verified[k] <= at}
Pruned(at) == [k \in Pairs |-> IF k \in Expired(at) THEN None ELSE verified[k]]
PrunedEvents(at) == {Gone(k) : k \in {k \in Expired(at) : connections[k[1]] # {}}}

\* observations_for_peer, with the connections and authentications of after the change
Seen(kind, p) == {Event(kind, k, [until |-> verified'[k], on |-> connections'[p]]) :
                     k \in {k \in Pairs : k[1] = p /\ verified'[k] # None}}

ConnectionEstablished(c) ==
    /\ verified' = Pruned(c.at)
    /\ connections' = [connections EXCEPT ![c.peer] = @ \cup {c.id}]
    /\ batch' = <<PrunedEvents(c.at),
                  Seen(IF connections[c.peer] # {} THEN "updated" ELSE "appeared", c.peer)>>
    /\ UNCHANGED status

ConnectionClosed(c) ==
    /\ connections' = [connections EXCEPT ![c.peer] = @ \ {c.id}]
    /\ UNCHANGED status
    /\ \/ /\ connections'[c.peer] # {}
          /\ verified' = Pruned(c.at)
          /\ batch' = <<PrunedEvents(c.at), Seen("updated", c.peer)>>
       \/ /\ connections'[c.peer] = {}
          /\ verified' = [k \in Pairs |-> IF k[1] = c.peer THEN None ELSE Pruned(c.at)[k]]
          /\ batch' = <<PrunedEvents(c.at),
                        {Gone(k) : k \in {k \in Pairs : k[1] = c.peer /\ Pruned(c.at)[k] # None}}>>

\* Without a connection the authentication came too late and is not kept
Record(c) ==
    /\ UNCHANGED <<status, connections>>
    /\ \/ /\ connections[c.key[1]] = {}
          /\ verified' = Pruned(c.at)
          /\ batch' = <<PrunedEvents(c.at), {}>>
       \/ /\ connections[c.key[1]] # {}
          /\ verified' = [Pruned(c.at) EXCEPT ![c.key] = c.until]
          /\ batch' = <<PrunedEvents(c.at),
                        {Event(IF Pruned(c.at)[c.key] # None THEN "updated" ELSE "appeared",
                               c.key, [until |-> c.until, on |-> connections[c.key[1]]])}>>

Terminate ==
    /\ batch' = <<{Gone(k) : k \in {k \in Pairs : Visible(k) # Unseen}}, {StatusChanged}>>
    /\ connections' = [p \in Peers |-> {}]
    /\ verified' = [k \in Pairs |-> None]
    /\ status' = "ended"

\* expire_inner asks for no status
Expire(c) ==
    /\ verified' = Pruned(c.at)
    /\ batch' = <<PrunedEvents(c.at), {}>>
    /\ UNCHANGED <<status, connections>>

Transition(c) ==
    \/ c.op = "established" /\ ConnectionEstablished(c)
    \/ c.op = "closed" /\ ConnectionClosed(c)
    \/ c.op = "authenticated" /\ Record(c)
    \/ c.op = "terminate" /\ Terminate
    \/ c.op = "expire" /\ Expire(c)

Enter(a) ==
    /\ owner = Free
    /\ status = "running" \/ call[a].op = "expire"
    /\ Transition(call[a])
    /\ owner' = a
    /\ UNCHANGED <<now, call, driver, changed, channel, follower, told>>

\* The early return of an authentication that comes after the end
TooLate(s) ==
    /\ call[s].op = "authenticated" /\ owner = Free /\ status # "running"
    /\ call' = [call EXCEPT ![s] = Idle]
    /\ UNCHANGED <<now, state, driver, changed, channel, follower>>

\* broadcast::Sender::send
Broadcast(e) ==
    IF follower.pc = "closed" THEN UNCHANGED channel
    ELSE /\ queue' = IF Len(queue) < Capacity THEN Append(queue, e) ELSE Append(Tail(queue), e)
         /\ lagged' = (lagged \/ Len(queue) = Capacity)

\* send_events: a batch is a vector; what a hash map lists is in any order
Send(e) ==
    /\ owner # Free
    /\ \/ e \in batch[1] /\ batch' = <<batch[1] \ {e}, batch[2]>>
       \/ batch[1] = {} /\ e \in batch[2] /\ batch' = <<{}, batch[2] \ {e}>>
    /\ Broadcast(e)
    /\ told' = IF e = StatusChanged THEN told ELSE [told EXCEPT ![e.key] = e.seen]
    /\ UNCHANGED <<now, status, connections, verified, owner, call, driver, changed, follower>>

\* The operations that end with bump_deadline_revision
Bumps(c) == c.op \in {"closed", "authenticated", "terminate"}

\* The operation returns.  The node's task is over after terminate; a snapshot goes on
Leave ==
    /\ owner # Free /\ batch = NoBatch
    /\ owner' = Free
    /\ changed' = (changed \/ Bumps(call[owner]))
    /\ call' = [call EXCEPT ![owner] = IF @.op = "terminate" THEN [op |-> "over"] ELSE Idle]
    /\ follower' = IF owner = Reader THEN [follower EXCEPT !.pc = "read"] ELSE follower
    /\ UNCHANGED <<now, status, connections, verified, batch, driver, channel, told>>

-----------------------------------------------------------------------------
(* The follower: AukiKnownPeers and its subscription, exact in the domain  *)

\* snapshot: expire_at, which goes through Enter and Leave, then the state is read
Ask ==
    /\ follower.pc = "ask" /\ call[Reader] = Idle
    /\ call' = [call EXCEPT ![Reader] = [op |-> "expire", at |-> now]]
    /\ UNCHANGED <<now, state, driver, changed, channel, follower>>

Read ==
    /\ follower.pc = "read"
    /\ follower' = [pc |-> "recv", view |-> [p \in Peers |-> Visible(<<p, Own>>).until]]
    /\ UNCHANGED <<now, state, call, driver, changed, channel>>

\* recv: events of another domain are passed over, the end of the node closes the stream
Recv ==
    /\ follower.pc = "recv" /\ ~lagged /\ queue # <<>>
    /\ queue' = Tail(queue)
    /\ LET e == Head(queue) IN
       follower' = IF e = StatusChanged THEN Without("closed")
                   ELSE IF e.key[2] = Own THEN [follower EXCEPT !.view[e.key[1]] = e.seen.until]
                   ELSE follower
    /\ UNCHANGED <<now, state, call, driver, changed, lagged>>

Lagged ==
    /\ follower.pc = "recv" /\ lagged
    /\ lagged' = FALSE
    /\ follower' = Without("ask")
    /\ UNCHANGED <<now, state, call, driver, changed, queue>>

\* The peer's lifecycle is cancelled: recv says Closed, and a snapshot is empty
Cancelled ==
    /\ follower.pc \in {"ask", "recv"} /\ call[Reader] = Idle
    /\ follower' = Without("closed")
    /\ queue' = <<>> /\ lagged' = FALSE
    /\ UNCHANGED <<now, state, call, driver, changed>>

Tick ==
    /\ now < MaxTime
    /\ now' = now + 1
    /\ UNCHANGED <<state, call, driver, changed, channel, follower>>

Next ==
    \/ \E p \in Peers, i \in Ids : Established(p, i) \/ Closed(p, i)
    \/ Ends
    \/ \E s \in Streams :
          \/ \E k \in Pairs, l \in Lives : Authenticated(s, k, l)
          \/ TooLate(s)
    \/ DriverReads \/ DriverWakes \/ DriverNotices
    \/ \E a \in Actors : Enter(a)
    \/ \E e \in batch[1] \cup batch[2] : Send(e)
    \/ Leave
    \/ Ask \/ Read \/ Recv \/ Lagged \/ Cancelled
    \/ Tick

Spec == Init /\ [][Next]_vars

-----------------------------------------------------------------------------
Sights == [until : Untils, on : SUBSET Ids] \cup {Unseen}
Events == [kind : {"appeared", "updated", "disappeared"}, key : Pairs, seen : Sights]
            \cup {StatusChanged}

\* The type of every variable of NodeObservations.
TypeOK ==
    /\ now \in 0..MaxTime
    /\ status \in {"running", "ended"}
    /\ connections \in [Peers -> SUBSET Ids]
    /\ verified \in [Pairs -> Untils \cup {None}]
    /\ owner \in Actors \cup {Free}
    /\ \A i \in 1..2 : batch[i] \subseteq Events
    /\ \A a \in Actors : call[a].op \in {"idle", "established", "closed", "terminate", "over",
                                         "authenticated", "expire"}
    /\ driver \in [pc : {"read", "wait"}, deadline : Untils \cup {None}]
    /\ changed \in BOOLEAN /\ lagged \in BOOLEAN
    /\ Len(queue) <= Capacity /\ \A i \in DOMAIN queue : queue[i] \in Events
    /\ follower \in [pc : {"ask", "read", "recv", "closed"}, view : [Peers -> Untils \cup {None}]]
    /\ told \in [Pairs -> Sights]

\* authenticated, connection_closed: an authentication never outlives the peer's last
\* connection, so that a reconnection by itself shows nobody as authenticated.
AuthenticatedIsConnected ==
    \A k \in Pairs : verified[k] # None => connections[k[1]] # {}

\* send_events: between two transitions the events sent so far add up to the state.
EventsAddUp ==
    owner = Free => \A k \in Pairs : told[k] = Visible(k)

\* known_peers.rs: whoever follows the contract, with lag and with snapshots read in the
\* middle of a transition, believes what is true once it has received everything.
FollowerAgrees ==
    owner = Free /\ follower.pc = "recv" /\ queue = <<>> /\ ~lagged
        => \A p \in Peers : follower.view[p] = Visible(<<p, Own>>).until

\* drive_expiry: no authentication is left to expire unnoticed.  A driver that waits, with
\* no change to notice, waits for a deadline that is not after any authentication's end.
DriverIsArmed ==
    owner = Free /\ call[Node].op # "over" /\ driver.pc = "wait" /\ ~changed
        => \A k \in Pairs : verified[k] # None
               => driver.deadline # None /\ driver.deadline <= verified[k]

\* send_events under transition_order: a peer is reported gone or updated only after it
\* was reported, appears only while it is gone, and nothing follows the end of the node.
EventsAlternate ==
    [][\A e \in batch[1] \cup batch[2] :
          Send(e) /\ e # StatusChanged
              => /\ (e.kind = "appeared") = (told[e.key] = Unseen)
                 /\ call[Node].op # "over"]_vars
=============================================================================
