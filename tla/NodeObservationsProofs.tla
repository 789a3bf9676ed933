------------------------ MODULE NodeObservationsProofs -----------------------
(***************************************************************************)
(* A node's observations of other peers (observation.rs, known_peers.rs),  *)
(* for any peers, domains, streams, lifetimes and length of the queue.  The *)
(* invariant says that what was told of a peer, once the events that wait  *)
(* for their turn are added, is what a snapshot shows; that the last event *)
(* of a peer in the queue is the last that was told; and that the driver   *)
(* waits for no later than the first expiry unless it will be woken.       *)
(***************************************************************************)
EXTENDS NodeObservations, SequenceTheorems, WellFoundedInduction, TLAPS

Sightings == [kind : {"appeared", "updated", "disappeared"}, key : Pairs, seen : Sights]

NodeCalls == {Idle, [op |-> "terminate"], [op |-> "over"]}
    \cup [op : {"established", "closed"}, at : 0..MaxTime, peer : Peers, id : Ids]
    \cup [op : {"expire"}, at : 0..MaxTime]
ReaderCalls == {Idle} \cup [op : {"expire"}, at : 0..MaxTime]
StreamCalls == {Idle} \cup [op : {"authenticated"}, at : 0..MaxTime, key : Pairs, until : Untils]

ObsTypes ==
    /\ now \in 0..MaxTime /\ status \in {"running", "ended"}
    /\ connections \in [Peers -> SUBSET Ids] /\ verified \in [Pairs -> Untils \cup {None}]
    /\ owner \in Actors \cup {Free}
    /\ batch \in (SUBSET Events) \X (SUBSET Events)
    /\ DOMAIN call = Actors /\ call[Node] \in NodeCalls /\ call[Reader] \in ReaderCalls
    /\ \A s \in Streams : call[s] \in StreamCalls
    /\ driver \in [pc : {"read", "wait"}, deadline : Untils \cup {None}]
    /\ changed \in BOOLEAN /\ lagged \in BOOLEAN
    /\ queue \in Seq(Events) /\ Len(queue) <= Capacity
    /\ follower \in [pc : {"ask", "read", "recv", "closed"}, view : [Peers -> Untils \cup {None}]]
    /\ told \in [Pairs -> Sights]

\* Whoever holds transition_order is in an operation, and nobody else has events to send;
\* the node's end leaves nothing to be seen, and nothing is sent once its task is over
OrderInv ==
    /\ owner = Free => batch = NoBatch
    /\ owner # Free => call[owner] # Idle /\ call[owner].op # "over"
    /\ status = "ended" =>
          /\ \A k \in Pairs : verified[k] = None
          /\ \A p \in Peers : connections[p] = {}
          /\ call[Node].op = "over" \/ (owner = Node /\ call[Node].op = "terminate")
    /\ call[Node].op = "over" => status = "ended" /\ batch = NoBatch
    /\ call[Node].op = "terminate" /\ owner = Node => status = "ended"
    /\ call[Reader] # Idle => follower.pc = "ask"
    /\ AuthenticatedIsConnected

IsAbout(e, k) == e # StatusChanged /\ e.key = k
Pending(k) == \E e \in batch[1] \cup batch[2] : IsAbout(e, k)

\* What was told of a peer, once the events still to be sent are added, is what is seen;
\* an event says that a peer appears when at its turn nothing else has been told
AddsUp(k) ==
    /\ ~Pending(k) => told[k] = Visible(k)
    /\ Gone(k) \in batch[1] => told[k] # Unseen
    /\ Gone(k) \in batch[1] /\ (\A e \in batch[2] : ~IsAbout(e, k)) => Visible(k) = Unseen
    /\ \A e \in batch[2] : IsAbout(e, k) =>
          /\ e.seen = Visible(k)
          /\ (e.kind = "appeared") <=> (told[k] = Unseen \/ Gone(k) \in batch[1])

BatchInv ==
    /\ \A e \in batch[1] : e # StatusChanged /\ e = Gone(e.key)
    /\ \A e, f \in batch[2] : e # StatusChanged /\ f # StatusChanged /\ e.key = f.key => e = f
    /\ \A k \in Pairs : AddsUp(k)

\* The last event of a peer in the queue is the last that was told; without one, a follower
\* that did not lag believes what was told, or what is being told
FollowsK(k) ==
    /\ follower.pc # "closed" =>
          \A i \in DOMAIN queue : IsAbout(queue[i], k)
              /\ (\A j \in DOMAIN queue : j > i => ~IsAbout(queue[j], k)) => queue[i].seen = told[k]
    /\ follower.pc = "recv" /\ ~lagged /\ k[2] = Own /\ (\A i \in DOMAIN queue : ~IsAbout(queue[i], k)) =>
          follower.view[k[1]] = told[k].until \/ Pending(k)

FollowInv == \A k \in Pairs : FollowsK(k)

\* The driver waits for no later than the first expiry, unless it will be told to look again
Armed == \A k \in Pairs : verified[k] # None => driver.deadline # None /\ driver.deadline <= verified[k]
DriverInv ==
    call[Node].op # "over" /\ driver.pc = "wait" /\ ~changed =>
        Armed \/ (owner # Free /\ Bumps(call[owner]))

ObsInv == ObsTypes /\ OrderInv /\ BatchInv /\ FollowInv /\ DriverInv

LEMMA LeastOf ==
    ASSUME NEW T, T \subseteq Nat, T # {}
    PROVE  \E x \in T : \A y \in T : x <= y
<1> DEFINE R == OpToRel(<, Nat)
<1>1. IsWellFoundedOn(R, Nat)
  BY NatLessThanWellFounded
<1>2. \A x, y \in Nat : <<y, x>> \notin R => ~(y < x)
  BY DEF OpToRel
<1> HIDE DEF R
<1>3. PICK x \in T : \A y \in T : ~ (<<y, x>> \in R)
  BY <1>1, WFMin
<1>4. \A y \in T : ~(y < x)
  BY <1>2, <1>3
<1> QED BY <1>4

LEMMA UntilsArePositive ==
    ASSUME ObservationConstants
    PROVE  Untils \subseteq Nat \ {0}
<1> SUFFICES ASSUME NEW t \in 0..MaxTime, NEW l \in Lives PROVE t + l \in Nat \ {0}
  BY DEF Untils
<1>1. t \in Nat /\ l \in Nat /\ l # 0
  BY DEF ObservationConstants
<1> QED BY <1>1

LEMMA EventFacts ==
    /\ Events = Sightings \cup {StatusChanged}
    /\ \A e \in Sightings : e # StatusChanged /\ e.key \in Pairs /\ e.seen \in Sights
    /\ \A k \in Pairs : Gone(k) \in Sightings /\ Gone(k).key = k /\ Gone(k).seen = Unseen
                        /\ Gone(k).kind = "disappeared" /\ IsAbout(Gone(k), k)
    /\ \A k, l \in Pairs : IsAbout(Gone(k), l) => k = l
<1>1. \A e \in Sightings : e # StatusChanged /\ e.key \in Pairs /\ e.seen \in Sights
  BY DEF Sightings, StatusChanged
<1>2. Unseen \in Sights
  BY DEF Sights
<1>3. \A k \in Pairs : Gone(k) \in Sightings /\ Gone(k).key = k /\ Gone(k).seen = Unseen
                       /\ Gone(k).kind = "disappeared"
  BY <1>2 DEF Gone, Event, Sightings
<1> QED BY <1>1, <1>3 DEF Events, Sightings, IsAbout

LEMMA SightFacts ==
    ASSUME ObservationConstants
    PROVE  /\ Unseen \in Sights /\ Unseen.until = None
           /\ \A u \in Untils, c \in SUBSET Ids : [until |-> u, on |-> c] \in Sights /\ [until |-> u, on |-> c] # Unseen
           /\ \A s \in Sights : s.until \in Untils \cup {None}
<1>1. \A u \in Untils, c \in SUBSET Ids : [until |-> u, on |-> c] \in Sights
  BY DEF Sights
<1>2. \A u \in Untils, c \in SUBSET Ids : [until |-> u, on |-> c] # Unseen
  BY UntilsArePositive DEF Unseen, None
<1>3. \A s \in Sights : s.until \in Untils \cup {None}
  BY DEF Sights, Unseen
<1> QED BY <1>1, <1>2, <1>3 DEF Sights, Unseen

LEMMA VisibleFacts ==
    ASSUME ObservationConstants, ObsTypes, NEW k \in Pairs
    PROVE  /\ k[1] \in Peers /\ k[2] \in Domains /\ Visible(k) \in Sights
           /\ Visible(k) # Unseen <=> verified[k] # None /\ connections[k[1]] # {}
<1>1. k[1] \in Peers /\ k[2] \in Domains
  BY DEF Pairs
<1>2. verified[k] \in Untils \cup {None} /\ connections[k[1]] \in SUBSET Ids
  BY <1>1 DEF ObsTypes
<1> QED BY <1>1, <1>2, SightFacts DEF Visible, Observation

LEMMA InitObs ==
    ASSUME ObservationConstants, Init
    PROVE  ObsInv
<1>1. ObsTypes
  <2>1. queue \in Seq(Events) /\ Len(queue) = 0
    BY DEF Init
  <2>2. 0 \in 0..MaxTime /\ 0 <= Capacity
    BY DEF ObservationConstants
  <2>3. follower \in [pc : {"ask", "read", "recv", "closed"}, view : [Peers -> Untils \cup {None}]]
    BY DEF Init, Without
  <2>4. driver \in [pc : {"read", "wait"}, deadline : Untils \cup {None}]
    BY DEF Init, DriverReading
  <2>5. told \in [Pairs -> Sights]
    BY SightFacts DEF Init
  <2>6. DOMAIN call = Actors /\ \A a \in Actors : call[a] = Idle
    BY DEF Init
  <2>7. call[Node] \in NodeCalls /\ call[Reader] \in ReaderCalls /\ \A s \in Streams : call[s] \in StreamCalls
    BY <2>6 DEF Actors, NodeCalls, ReaderCalls, StreamCalls
  <2>8. batch \in (SUBSET Events) \X (SUBSET Events)
    BY DEF Init, NoBatch
  <2>9. verified \in [Pairs -> Untils \cup {None}] /\ connections \in [Peers -> SUBSET Ids]
    BY DEF Init
  <2> QED BY <2>1, <2>2, <2>3, <2>4, <2>5, <2>6, <2>7, <2>8, <2>9 DEF Init, ObsTypes
<1>2. OrderInv
  <2>1. call[Node].op = "idle" /\ call[Reader] = Idle
    BY DEF Init, Idle, Actors
  <2> QED BY <2>1 DEF Init, OrderInv, AuthenticatedIsConnected
<1>3. BatchInv
  <2>1. batch[1] = {} /\ batch[2] = {}
    BY DEF Init, NoBatch
  <2>2. \A k \in Pairs : told[k] = Unseen /\ Visible(k) = Unseen
    BY DEF Init, Visible
  <2> QED BY <2>1, <2>2 DEF BatchInv, AddsUp, Pending
<1>4. FollowInv
  BY DEF Init, Without, FollowInv, FollowsK
<1>5. DriverInv
  BY DEF Init, DriverReading, DriverInv
<1> QED BY <1>1, <1>2, <1>3, <1>4, <1>5 DEF ObsInv

LEMMA BatchFrame ==
    ASSUME BatchInv, UNCHANGED <<batch, told, verified, connections>>
    PROVE  BatchInv'
<1>1. \A k \in Pairs : AddsUp(k)'
  <2> SUFFICES ASSUME NEW k \in Pairs PROVE AddsUp(k)'
    OBVIOUS
  <2> QED BY DEF BatchInv, AddsUp, Pending, Visible, Observation
<1> QED BY <1>1 DEF BatchInv

LEMMA FollowFrame ==
    ASSUME FollowInv, UNCHANGED <<follower, channel, told, batch>>
    PROVE  FollowInv'
  BY DEF FollowInv, FollowsK, Pending, channel

\* An actor's operation begins, or is given up before it has the lock
LEMMA CallFrame ==
    ASSUME ObservationConstants, ObsInv, NEW a \in Actors, NEW c,
           call' = [call EXCEPT ![a] = c], owner # a,
           a = Node => c \in NodeCalls /\ c.op # "over" /\ call[a].op # "over"
                       /\ (owner = Free \/ owner # Node) /\ (status = "running"),
           a = Reader => c \in ReaderCalls /\ follower.pc = "ask",
           a \in Streams => c \in StreamCalls,
           UNCHANGED <<now, state, channel, follower>>
    PROVE  /\ DOMAIN call' = Actors /\ call'[Node] \in NodeCalls /\ call'[Reader] \in ReaderCalls
           /\ \A s \in Streams : call'[s] \in StreamCalls
           /\ call'[Node].op = "over" <=> call[Node].op = "over"
           /\ OrderInv' /\ BatchInv' /\ FollowInv'
           /\ owner # Free => call'[owner] = call[owner]
<1> USE DEF state
<1>1. Node \in Actors /\ Reader \in Actors /\ Streams \subseteq Actors /\ Node # Reader
  BY DEF Actors, Node, Reader
<1>2. call'[a] = c /\ \A b \in Actors : b # a => call'[b] = call[b]
  BY DEF ObsInv, ObsTypes
<1>3. /\ DOMAIN call' = Actors /\ call'[Node] \in NodeCalls /\ call'[Reader] \in ReaderCalls
      /\ \A s \in Streams : call'[s] \in StreamCalls
  BY <1>1, <1>2 DEF ObsInv, ObsTypes, ObservationConstants
<1>4. call'[Node].op = "over" <=> call[Node].op = "over"
  BY <1>1, <1>2
<1>5. owner # Free => owner \in Actors /\ call'[owner] = call[owner]
  BY <1>2 DEF ObsInv, ObsTypes
<1>6. OrderInv'
  <2>1. /\ owner = Free => batch = NoBatch
        /\ owner # Free => call'[owner] # Idle /\ call'[owner].op # "over"
    BY <1>5 DEF ObsInv, OrderInv
  <2>2. status = "ended" => call'[Node].op = "over" \/ (owner = Node /\ call'[Node].op = "terminate")
    BY <1>1, <1>2 DEF ObsInv, OrderInv
  <2>3. /\ call'[Node].op = "over" => status = "ended" /\ batch = NoBatch
        /\ call'[Node].op = "terminate" /\ owner = Node => status = "ended"
    BY <1>1, <1>2 DEF ObsInv, OrderInv
  <2>4. call'[Reader] # Idle => follower.pc = "ask"
    BY <1>1, <1>2 DEF ObsInv, OrderInv
  <2> QED BY <2>1, <2>2, <2>3, <2>4 DEF ObsInv, OrderInv, AuthenticatedIsConnected
<1>7. BatchInv' /\ FollowInv'
  BY BatchFrame, FollowFrame DEF ObsInv
<1> QED BY <1>3, <1>4, <1>5, <1>6, <1>7

LEMMA NodeIsRunning ==
    ASSUME ObsInv, call[Node] = Idle
    PROVE  status = "running" /\ owner # Node /\ call[Node].op # "over"
<1>1. Idle.op = "idle"
  BY DEF Idle
<1>2. owner # Node
  BY DEF ObsInv, OrderInv, Free, Node
<1> QED BY <1>1, <1>2 DEF ObsInv, ObsTypes, OrderInv

\* What is left of the types and of the driver, when a call begins
LEMMA CallKeeps ==
    ASSUME ObsInv, UNCHANGED <<now, state, channel, follower>>,
           DOMAIN call' = Actors, call'[Node] \in NodeCalls, call'[Reader] \in ReaderCalls,
           \A s \in Streams : call'[s] \in StreamCalls,
           call'[Node].op = "over" <=> call[Node].op = "over",
           owner # Free => call'[owner] = call[owner],
           OrderInv', BatchInv', FollowInv', UNCHANGED changed,
           driver' \in {driver, DriverReading}
    PROVE  ObsInv'
<1>1. ObsTypes'
  BY DEF ObsInv, ObsTypes, state, channel, DriverReading
<1>2. DriverInv'
  BY DEF ObsInv, DriverInv, DriverReading, Armed, state, Bumps
<1> QED BY <1>1, <1>2 DEF ObsInv

LEMMA NodeCallKeeps ==
    ASSUME ObservationConstants, ObsInv, NEW c \in NodeCalls, call[Node] = Idle, c.op # "over",
           call' = [call EXCEPT ![Node] = c], driver' \in {driver, DriverReading},
           UNCHANGED <<now, state, changed, channel, follower>>
    PROVE  ObsInv'
<1>1. status = "running" /\ owner # Node /\ call[Node].op # "over"
  BY NodeIsRunning
<1>2. Node \in Actors /\ Node # Reader /\ Node \notin Streams
  BY DEF Actors, Node, Reader, ObservationConstants
<1> HIDE DEF Node, Reader
<1>3. /\ DOMAIN call' = Actors /\ call'[Node] \in NodeCalls /\ call'[Reader] \in ReaderCalls
      /\ \A s \in Streams : call'[s] \in StreamCalls
      /\ call'[Node].op = "over" <=> call[Node].op = "over"
      /\ OrderInv' /\ BatchInv' /\ FollowInv'
      /\ owner # Free => call'[owner] = call[owner]
  BY <1>1, <1>2, CallFrame
<1> QED BY <1>3, CallKeeps

LEMMA EstablishedKeeps ==
    ASSUME ObservationConstants, ObsInv, NEW p \in Peers, NEW i \in Ids,
           Established(p, i) \/ Closed(p, i)
    PROVE  ObsInv'
<1>1. PICK o \in {"established", "closed"} :
         /\ call[Node] = Idle
         /\ call' = [call EXCEPT ![Node] = [op |-> o, at |-> now, peer |-> p, id |-> i]]
         /\ UNCHANGED <<now, state, driver, changed, channel, follower>>
  BY DEF Established, Closed
<1>2. [op |-> o, at |-> now, peer |-> p, id |-> i] \in NodeCalls
  BY DEF NodeCalls, ObsInv, ObsTypes
<1> QED BY <1>1, <1>2, NodeCallKeeps

LEMMA EndsKeeps ==
    ASSUME ObservationConstants, ObsInv, Ends
    PROVE  ObsInv'
<1>1. [op |-> "terminate"] \in NodeCalls
  BY DEF NodeCalls
<1> QED BY <1>1, NodeCallKeeps DEF Ends

LEMMA DriverWakesKeeps ==
    ASSUME ObservationConstants, ObsInv, DriverWakes
    PROVE  ObsInv'
<1>1. [op |-> "expire", at |-> now] \in NodeCalls
  BY DEF NodeCalls, ObsInv, ObsTypes
<1> QED BY <1>1, NodeCallKeeps DEF DriverWakes

LEMMA StreamCallKeeps ==
    ASSUME ObservationConstants, ObsInv, NEW s \in Streams, NEW c \in StreamCalls, owner # s,
           call' = [call EXCEPT ![s] = c], UNCHANGED <<now, state, driver, changed, channel, follower>>
    PROVE  ObsInv'
<1>2. s \in Actors /\ s # Reader /\ s # Node
  BY DEF Actors, ObservationConstants
<1>3. /\ DOMAIN call' = Actors /\ call'[Node] \in NodeCalls /\ call'[Reader] \in ReaderCalls
      /\ \A b \in Streams : call'[b] \in StreamCalls
      /\ call'[Node].op = "over" <=> call[Node].op = "over"
      /\ OrderInv' /\ BatchInv' /\ FollowInv'
      /\ owner # Free => call'[owner] = call[owner]
  BY <1>2, CallFrame
<1> QED BY <1>3, CallKeeps

LEMMA AuthenticatedKeeps ==
    ASSUME ObservationConstants, ObsInv, NEW s \in Streams, NEW k \in Pairs, NEW life \in Lives,
           Authenticated(s, k, life)
    PROVE  ObsInv'
<1>1. now + life \in Untils
  BY DEF Untils, ObsInv, ObsTypes
<1>2. [op |-> "authenticated", at |-> now, key |-> k, until |-> now + life] \in StreamCalls
  BY <1>1 DEF StreamCalls, ObsInv, ObsTypes
<1>3. owner # s
  BY DEF Authenticated, ObsInv, OrderInv, ObservationConstants
<1> QED BY <1>2, <1>3, StreamCallKeeps DEF Authenticated

LEMMA TooLateKeeps ==
    ASSUME ObservationConstants, ObsInv, NEW s \in Streams, TooLate(s)
    PROVE  ObsInv'
<1>1. Idle \in StreamCalls /\ owner # s
  BY DEF StreamCalls, TooLate, ObservationConstants
<1> QED BY <1>1, StreamCallKeeps DEF TooLate

LEMMA AskKeeps ==
    ASSUME ObservationConstants, ObsInv, Ask
    PROVE  ObsInv'
<1> DEFINE c == [op |-> "expire", at |-> now]
<1>1. c \in ReaderCalls /\ owner # Reader
  BY DEF ReaderCalls, ObsInv, ObsTypes, OrderInv, Ask, Free, Reader
<1>2. Reader \in Actors /\ Node # Reader /\ Reader \notin Streams
  BY DEF Actors, Node, Reader, ObservationConstants
<1>3. /\ call' = [call EXCEPT ![Reader] = c] /\ follower.pc = "ask"
      /\ UNCHANGED <<now, state, driver, changed, channel, follower>>
  BY DEF Ask
<1> HIDE DEF c, Node, Reader
<1>4. /\ DOMAIN call' = Actors /\ call'[Node] \in NodeCalls /\ call'[Reader] \in ReaderCalls
      /\ \A b \in Streams : call'[b] \in StreamCalls
      /\ call'[Node].op = "over" <=> call[Node].op = "over"
      /\ OrderInv' /\ BatchInv' /\ FollowInv'
      /\ owner # Free => call'[owner] = call[owner]
  BY <1>1, <1>2, <1>3, CallFrame
<1> QED BY <1>3, <1>4, CallKeeps

LEMMA NextExpirationFacts ==
    ASSUME ObservationConstants, ObsTypes
    PROVE  /\ NextExpiration \in Untils \cup {None}
           /\ \A k \in Pairs : verified[k] # None => NextExpiration # None /\ NextExpiration <= verified[k]
<1> DEFINE untils == {verified[k] : k \in Pairs} \ {None}
<1>1. untils \subseteq Untils
  BY DEF ObsTypes
<1>2. untils \subseteq Nat
  BY <1>1, UntilsArePositive
<1>3. \A k \in Pairs : verified[k] # None => verified[k] \in untils
  OBVIOUS
<1>4. NextExpiration = IF untils = {} THEN None ELSE CHOOSE u \in untils : \A v \in untils : u <= v
  BY DEF NextExpiration
<1>5. None \notin untils
  OBVIOUS
<1> HIDE DEF untils
<1>6. CASE untils = {}
  BY <1>3, <1>4, <1>6
<1>7. CASE untils # {}
  <2>1. \E u \in untils : \A v \in untils : u <= v
    BY <1>2, <1>7, LeastOf
  <2>2. NextExpiration \in untils /\ \A v \in untils : NextExpiration <= v
    BY <1>4, <1>7, <2>1
  <2> QED BY <1>1, <1>3, <1>5, <2>2
<1> QED BY <1>6, <1>7

LEMMA DriverReadsKeeps ==
    ASSUME ObservationConstants, ObsInv, DriverReads
    PROVE  ObsInv'
<1>0. /\ driver' = [pc |-> "wait", deadline |-> NextExpiration]
      /\ UNCHANGED <<now, state, call, changed, channel, follower>>
  BY DEF DriverReads
<1>1. NextExpiration \in Untils \cup {None}
      /\ \A k \in Pairs : verified[k] # None => NextExpiration # None /\ NextExpiration <= verified[k]
  BY NextExpirationFacts DEF ObsInv
<1>2. driver' \in [pc : {"read", "wait"}, deadline : Untils \cup {None}] /\ driver'.deadline = NextExpiration
  BY <1>0, <1>1
<1>3. ObsTypes'
  BY <1>0, <1>2 DEF ObsInv, ObsTypes, state, channel
<1>4. OrderInv'
  BY <1>0 DEF ObsInv, OrderInv, AuthenticatedIsConnected, state
<1>5. BatchInv' /\ FollowInv'
  BY <1>0, BatchFrame, FollowFrame DEF ObsInv, state
<1>6. DriverInv'
  BY <1>0, <1>1, <1>2 DEF DriverInv, Armed, state
<1> QED BY <1>3, <1>4, <1>5, <1>6 DEF ObsInv

LEMMA DriverNoticesKeeps ==
    ASSUME ObservationConstants, ObsInv, DriverNotices \/ Tick
    PROVE  ObsInv'
<1>0. /\ UNCHANGED <<state, call, channel, follower>>
      /\ \/ driver' = DriverReading /\ changed' = FALSE /\ UNCHANGED now
         \/ now \in Nat /\ now < MaxTime /\ now' = now + 1 /\ UNCHANGED <<driver, changed>>
  BY DEF DriverNotices, Tick, ObsInv, ObsTypes
<1>1. now' \in 0..MaxTime
  BY <1>0 DEF ObsInv, ObsTypes, ObservationConstants
<1>2. driver' \in [pc : {"read", "wait"}, deadline : Untils \cup {None}]
  BY <1>0 DEF ObsInv, ObsTypes, DriverReading
<1>7. changed' \in BOOLEAN
  BY <1>0 DEF ObsInv, ObsTypes
<1>3. ObsTypes'
  BY <1>0, <1>1, <1>2, <1>7 DEF ObsInv, ObsTypes, state, channel
<1>4. OrderInv'
  BY <1>0 DEF ObsInv, OrderInv, AuthenticatedIsConnected, state
<1>5. BatchInv' /\ FollowInv'
  BY <1>0, BatchFrame, FollowFrame DEF ObsInv, state
<1>6. DriverInv'
  BY <1>0 DEF ObsInv, DriverInv, Armed, state, DriverReading
<1> QED BY <1>3, <1>4, <1>5, <1>6 DEF ObsInv

LEMMA WithoutType ==
    ASSUME NEW pc \in {"ask", "read", "recv", "closed"}
    PROVE  /\ Without(pc) \in [pc : {"ask", "read", "recv", "closed"}, view : [Peers -> Untils \cup {None}]]
           /\ Without(pc).pc = pc
  BY DEF Without

\* The follower moves, and with it the channel
LEMMA FollowerFrame ==
    ASSUME ObsInv, UNCHANGED <<now, state, call, driver, changed>>,
           call[Reader] = Idle \/ follower'.pc = "ask",
           follower' \in [pc : {"ask", "read", "recv", "closed"}, view : [Peers -> Untils \cup {None}]],
           queue' \in Seq(Events), Len(queue') <= Capacity, lagged' \in BOOLEAN, FollowInv'
    PROVE  ObsInv'
<1>1. ObsTypes'
  BY DEF ObsInv, ObsTypes, state
<1>2. OrderInv'
  BY DEF ObsInv, OrderInv, AuthenticatedIsConnected, state
<1>3. BatchInv'
  BY BatchFrame DEF ObsInv, state
<1>4. DriverInv'
  BY DEF ObsInv, DriverInv, Armed, state
<1> QED BY <1>1, <1>2, <1>3, <1>4 DEF ObsInv

LEMMA OwnIsADomain ==
    ASSUME ObservationConstants
    PROVE  Own \in Domains /\ \A p \in Peers : <<p, Own>> \in Pairs
  BY DEF ObservationConstants, Own, Pairs

LEMMA ReadKeeps ==
    ASSUME ObservationConstants, ObsInv, Read
    PROVE  ObsInv'
<1> DEFINE w == [p \in Peers |-> Visible(<<p, Own>>).until]
<1>1. /\ follower.pc = "read" /\ follower' = [pc |-> "recv", view |-> w]
      /\ UNCHANGED <<now, state, call, driver, changed, channel>>
  BY DEF Read
<1>2. w \in [Peers -> Untils \cup {None}]
  <2>1. \A p \in Peers : Visible(<<p, Own>>) \in Sights
    BY OwnIsADomain, VisibleFacts DEF ObsInv
  <2> QED BY <2>1, SightFacts
<1>3. \A k \in Pairs : k[2] = Own => w[k[1]] = Visible(k).until
  <2> SUFFICES ASSUME NEW k \in Pairs, k[2] = Own PROVE w[k[1]] = Visible(k).until
    OBVIOUS
  <2>1. k = <<k[1], Own>> /\ k[1] \in Peers
    BY DEF Pairs
  <2> QED BY <2>1
<1> HIDE DEF w
<1>4. follower'.pc = "recv" /\ follower'.view = w
      /\ follower' \in [pc : {"ask", "read", "recv", "closed"}, view : [Peers -> Untils \cup {None}]]
  BY <1>1, <1>2
<1>5. FollowInv'
  <2> SUFFICES ASSUME NEW k \in Pairs PROVE FollowsK(k)'
    BY DEF FollowInv
  <2>1. ~Pending(k) => told[k] = Visible(k)
    BY DEF ObsInv, BatchInv, AddsUp
  <2>2. Pending(k)' = Pending(k) /\ UNCHANGED <<told, queue, lagged>>
    BY <1>1 DEF Pending, state, channel
  <2>3. follower.pc # "closed" /\ FollowsK(k)
    BY <1>1 DEF ObsInv, FollowInv
  <2>4. k[2] = Own => follower'.view[k[1]] = told[k].until \/ Pending(k)'
    BY <1>3, <1>4, <2>1, <2>2
  <2> QED BY <1>4, <2>2, <2>3, <2>4 DEF FollowsK
<1>6. call[Reader] = Idle
  BY <1>1 DEF ObsInv, OrderInv
<1> QED BY <1>1, <1>4, <1>5, <1>6, FollowerFrame DEF ObsInv, ObsTypes, channel

LEMMA LaggedKeeps ==
    ASSUME ObservationConstants, ObsInv, Lagged
    PROVE  ObsInv'
<1>1. /\ follower.pc = "recv" /\ lagged' = FALSE /\ follower' = Without("ask")
      /\ UNCHANGED <<now, state, call, driver, changed, queue>>
  BY DEF Lagged
<1>2. /\ follower' \in [pc : {"ask", "read", "recv", "closed"}, view : [Peers -> Untils \cup {None}]]
      /\ follower'.pc = "ask"
  BY <1>1, WithoutType
<1>3. FollowInv'
  BY <1>1, <1>2 DEF ObsInv, FollowInv, FollowsK, state
<1>4. lagged' \in BOOLEAN
  BY <1>1
<1> QED BY <1>1, <1>2, <1>3, <1>4, FollowerFrame DEF ObsInv, ObsTypes

LEMMA CancelledKeeps ==
    ASSUME ObservationConstants, ObsInv, Cancelled
    PROVE  ObsInv'
<1>1. /\ call[Reader] = Idle /\ lagged' = FALSE /\ follower' = Without("closed") /\ queue' = <<>>
      /\ UNCHANGED <<now, state, call, driver, changed>>
  BY DEF Cancelled
<1>2. /\ follower' \in [pc : {"ask", "read", "recv", "closed"}, view : [Peers -> Untils \cup {None}]]
      /\ follower'.pc = "closed"
  BY <1>1, WithoutType
<1>3. FollowInv'
  BY <1>1, <1>2 DEF ObsInv, FollowInv, FollowsK, state
<1>4. queue' \in Seq(Events) /\ Len(queue') <= Capacity
  BY <1>1 DEF ObservationConstants
<1>5. lagged' \in BOOLEAN
  BY <1>1
<1> QED BY <1>1, <1>2, <1>3, <1>4, <1>5, FollowerFrame

\* The first event leaves the queue
LEMMA QueueTail ==
    ASSUME queue \in Seq(Events), queue # <<>>, queue' = Tail(queue)
    PROVE  /\ Head(queue) = queue[1] /\ queue[1] \in Events /\ 1 \in DOMAIN queue
           /\ queue' \in Seq(Events) /\ Len(queue') = Len(queue) - 1 /\ Len(queue) \in Nat
           /\ \A i \in DOMAIN queue' : i + 1 \in DOMAIN queue /\ queue'[i] = queue[i + 1] /\ i + 1 > 1
           /\ \A i \in DOMAIN queue : i = 1 \/ (i - 1 \in DOMAIN queue' /\ queue'[i - 1] = queue[i])
<1>1. /\ Head(queue) \in Events /\ Tail(queue) \in Seq(Events) /\ Len(Tail(queue)) = Len(queue) - 1
      /\ \A i \in 1..Len(Tail(queue)) : Tail(queue)[i] = queue[i + 1]
  BY HeadTailProperties
<1>2. Len(queue) \in Nat /\ Len(queue) # 0 /\ DOMAIN queue = 1..Len(queue) /\ DOMAIN queue' = 1..Len(queue')
  BY <1>1, EmptySeq, LenProperties
<1>3. Head(queue) = queue[1]
  BY <1>2
<1>4. \A i \in DOMAIN queue' : i + 1 \in DOMAIN queue /\ queue'[i] = queue[i + 1] /\ i + 1 > 1
  BY <1>1, <1>2
<1>5. \A i \in DOMAIN queue : i = 1 \/ (i - 1 \in DOMAIN queue' /\ i - 1 + 1 = i)
  BY <1>1, <1>2
<1> QED BY <1>1, <1>2, <1>3, <1>4, <1>5

\* A queue without its first event still ends with what was told last
LEMMA TailFollows ==
    ASSUME queue \in Seq(Events), queue # <<>>, queue' = Tail(queue), NEW k, NEW t,
           \A i \in DOMAIN queue : IsAbout(queue[i], k)
              /\ (\A j \in DOMAIN queue : j > i => ~IsAbout(queue[j], k)) => queue[i].seen = t
    PROVE  /\ \A i \in DOMAIN queue' : IsAbout(queue'[i], k)
                 /\ (\A j \in DOMAIN queue' : j > i => ~IsAbout(queue'[j], k)) => queue'[i].seen = t
           /\ IsAbout(Head(queue), k) /\ (\A j \in DOMAIN queue' : ~IsAbout(queue'[j], k)) => Head(queue).seen = t
<1>1. SUFFICES ASSUME NEW i \in DOMAIN queue', IsAbout(queue'[i], k),
                      \A j \in DOMAIN queue' : j > i => ~IsAbout(queue'[j], k)
               PROVE  queue'[i].seen = t
  <2>1. ASSUME IsAbout(Head(queue), k), \A j \in DOMAIN queue' : ~IsAbout(queue'[j], k)
        PROVE  Head(queue).seen = t
    <3>1. \A j \in DOMAIN queue : j > 1 => ~IsAbout(queue[j], k)
      <4> SUFFICES ASSUME NEW j \in DOMAIN queue, j > 1 PROVE ~IsAbout(queue[j], k)
        OBVIOUS
      <4>1. DOMAIN queue = 1..Len(queue) /\ Len(queue) \in Nat
        BY LenProperties
      <4>2. j # 1
        BY <4>1
      <4>3. j - 1 \in DOMAIN queue' /\ queue'[j - 1] = queue[j]
        BY <4>2, QueueTail
      <4> QED BY <2>1, <4>3
    <3> QED BY <2>1, <3>1, QueueTail
  <2> QED BY <2>1
<1>2. i + 1 \in DOMAIN queue /\ queue'[i] = queue[i + 1] /\ DOMAIN queue = 1..Len(queue) /\ Len(queue) \in Nat
      /\ DOMAIN queue' = 1..Len(queue') /\ Len(queue') = Len(queue) - 1
  BY QueueTail, LenProperties
<1>3. \A j \in DOMAIN queue : j > i + 1 => ~IsAbout(queue[j], k)
  <2> SUFFICES ASSUME NEW j \in DOMAIN queue, j > i + 1 PROVE ~IsAbout(queue[j], k)
    OBVIOUS
  <2>1. j # 1 /\ j - 1 > i
    BY <1>2
  <2>2. j - 1 \in DOMAIN queue' /\ queue'[j - 1] = queue[j]
    BY <2>1, QueueTail
  <2> QED BY <1>1, <2>1, <2>2
<1> QED BY <1>1, <1>2, <1>3

LEMMA RecvKeeps ==
    ASSUME ObservationConstants, ObsInv, Recv
    PROVE  ObsInv'
<1> DEFINE e == Head(queue)
<1>1. /\ follower.pc = "recv" /\ ~lagged /\ queue # <<>> /\ queue' = Tail(queue)
      /\ follower' = IF e = StatusChanged THEN Without("closed")
                     ELSE IF e.key[2] = Own THEN [follower EXCEPT !.view[e.key[1]] = e.seen.until]
                     ELSE follower
      /\ UNCHANGED <<now, state, call, driver, changed, lagged>>
  BY DEF Recv
<1>2. queue \in Seq(Events) /\ Len(queue) <= Capacity
  BY DEF ObsInv, ObsTypes
<1>3. e \in Events /\ queue' \in Seq(Events) /\ Len(queue') = Len(queue) - 1 /\ Len(queue) \in Nat
  BY <1>1, <1>2, QueueTail
<1>4. Len(queue') <= Capacity
  BY <1>2, <1>3 DEF ObservationConstants
<1>5. \A k \in Pairs :
         /\ \A i \in DOMAIN queue' : IsAbout(queue'[i], k)
               /\ (\A j \in DOMAIN queue' : j > i => ~IsAbout(queue'[j], k)) => queue'[i].seen = told[k]
         /\ IsAbout(e, k) /\ (\A j \in DOMAIN queue' : ~IsAbout(queue'[j], k)) => e.seen = told[k]
  <2> SUFFICES ASSUME NEW k \in Pairs
               PROVE  /\ \A i \in DOMAIN queue' : IsAbout(queue'[i], k)
                            /\ (\A j \in DOMAIN queue' : j > i => ~IsAbout(queue'[j], k)) => queue'[i].seen = told[k]
                      /\ IsAbout(e, k) /\ (\A j \in DOMAIN queue' : ~IsAbout(queue'[j], k)) => e.seen = told[k]
    OBVIOUS
  <2>1. \A i \in DOMAIN queue : IsAbout(queue[i], k)
              /\ (\A j \in DOMAIN queue : j > i => ~IsAbout(queue[j], k)) => queue[i].seen = told[k]
    BY <1>1 DEF ObsInv, FollowInv, FollowsK
  <2> DEFINE t == told[k]
  <2>2. \A i \in DOMAIN queue : IsAbout(queue[i], k)
              /\ (\A j \in DOMAIN queue : j > i => ~IsAbout(queue[j], k)) => queue[i].seen = t
    BY <2>1
  <2> HIDE DEF t
  <2>3. /\ \A i \in DOMAIN queue' : IsAbout(queue'[i], k)
                 /\ (\A j \in DOMAIN queue' : j > i => ~IsAbout(queue'[j], k)) => queue'[i].seen = t
        /\ IsAbout(e, k) /\ (\A j \in DOMAIN queue' : ~IsAbout(queue'[j], k)) => e.seen = t
    BY <1>1, <1>2, <2>2, TailFollows
  <2> QED BY <2>3 DEF t
<1>6. e = queue[1] /\ \A i \in DOMAIN queue : i = 1 \/ \E j \in DOMAIN queue' : queue'[j] = queue[i]
  BY <1>1, <1>2, QueueTail
<1> HIDE DEF e
<1>7. CASE e = StatusChanged
  <2>1. /\ follower' \in [pc : {"ask", "read", "recv", "closed"}, view : [Peers -> Untils \cup {None}]]
        /\ follower'.pc = "closed"
    BY <1>1, <1>7, WithoutType
  <2>2. FollowInv'
    BY <2>1 DEF FollowInv, FollowsK
  <2>3. call[Reader] = Idle
    BY <1>1 DEF ObsInv, OrderInv
  <2> QED BY <1>1, <1>3, <1>4, <2>1, <2>2, <2>3, FollowerFrame DEF ObsInv, ObsTypes
<1>8. CASE e # StatusChanged
  <2>1. e \in Sightings /\ e.key \in Pairs /\ e.seen \in Sights /\ e.key[1] \in Peers
    BY <1>3, <1>8, EventFacts DEF Pairs
  <2>2. e.seen.until \in Untils \cup {None}
    BY <2>1, SightFacts
  <2>3. /\ follower' \in [pc : {"ask", "read", "recv", "closed"}, view : [Peers -> Untils \cup {None}]]
        /\ follower'.pc = "recv"
        /\ \A p \in Peers : follower'.view[p] = IF e.key[2] = Own /\ p = e.key[1] THEN e.seen.until ELSE follower.view[p]
    <3>1. follower \in [pc : {"ask", "read", "recv", "closed"}, view : [Peers -> Untils \cup {None}]]
      BY DEF ObsInv, ObsTypes
    <3>2. CASE e.key[2] = Own
      <4> DEFINE v == [follower.view EXCEPT ![e.key[1]] = e.seen.until]
      <4>1. follower' = [follower EXCEPT !.view = v]
        BY <1>1, <1>8, <3>1, <3>2
      <4>2. v \in [Peers -> Untils \cup {None}] /\ \A p \in Peers : v[p] = IF p = e.key[1] THEN e.seen.until ELSE follower.view[p]
        BY <2>1, <2>2, <3>1
      <4> HIDE DEF v
      <4>3. follower'.view = v /\ follower'.pc = "recv"
            /\ follower' \in [pc : {"ask", "read", "recv", "closed"}, view : [Peers -> Untils \cup {None}]]
        BY <1>1, <3>1, <4>1, <4>2
      <4> QED BY <3>2, <4>2, <4>3
    <3>3. CASE e.key[2] # Own
      BY <1>1, <1>8, <3>1, <3>3
    <3> QED BY <3>2, <3>3
  <2>4. FollowInv'
    <3> SUFFICES ASSUME NEW k \in Pairs PROVE FollowsK(k)'
      BY DEF FollowInv
    <3>1. Pending(k)' = Pending(k) /\ UNCHANGED <<told, lagged>> /\ k[1] \in Peers
      BY <1>1 DEF Pending, state, Pairs
    <3>2. ASSUME k[2] = Own, \A i \in DOMAIN queue' : ~IsAbout(queue'[i], k)
          PROVE  follower'.view[k[1]] = told[k].until \/ Pending(k)
      <4>1. CASE IsAbout(e, k)
        <5>1. e.seen = told[k] /\ e.key = k
          BY <1>5, <3>2, <4>1 DEF IsAbout
        <5> QED BY <2>3, <3>1, <3>2, <5>1
      <4>2. CASE ~IsAbout(e, k)
        <5>1. \A i \in DOMAIN queue : ~IsAbout(queue[i], k)
          BY <1>6, <3>2, <4>2
        <5>2. follower.view[k[1]] = told[k].until \/ Pending(k)
          BY <1>1, <3>2, <5>1 DEF ObsInv, FollowInv, FollowsK
        <5>3. ~(e.key[2] = Own /\ k[1] = e.key[1])
          <6>1. k = <<k[1], k[2]>> /\ e.key = <<e.key[1], e.key[2]>>
            BY <2>1 DEF Pairs
          <6>2. e.key # k
            BY <1>8, <4>2 DEF IsAbout
          <6> QED BY <3>2, <6>1, <6>2
        <5> QED BY <2>3, <3>1, <5>2, <5>3
      <4> QED BY <4>1, <4>2
    <3>3. \A i \in DOMAIN queue' : IsAbout(queue'[i], k)
               /\ (\A j \in DOMAIN queue' : j > i => ~IsAbout(queue'[j], k)) => queue'[i].seen = told'[k]
      BY <1>5, <3>1
    <3> QED BY <3>1, <3>2, <3>3 DEF FollowsK
  <2>5. call[Reader] = Idle
    BY <1>1 DEF ObsInv, OrderInv
  <2> QED BY <1>1, <1>3, <1>4, <2>3, <2>4, <2>5, FollowerFrame DEF ObsInv, ObsTypes
<1> QED BY <1>7, <1>8

LEMMA LeaveKeeps ==
    ASSUME ObservationConstants, ObsInv, Leave
    PROVE  ObsInv'
<1> DEFINE c == IF call[owner].op = "terminate" THEN [op |-> "over"] ELSE Idle
<1>1. /\ owner # Free /\ batch = NoBatch /\ owner' = Free
      /\ changed' = (changed \/ Bumps(call[owner])) /\ call' = [call EXCEPT ![owner] = c]
      /\ follower' = (IF owner = Reader THEN [follower EXCEPT !.pc = "read"] ELSE follower)
      /\ UNCHANGED <<now, status, connections, verified, batch, driver, queue, lagged, told>>
  BY DEF Leave, channel, ObsInv, ObsTypes
<1>2. owner \in Actors /\ Node \in Actors /\ Reader \in Actors /\ Streams \subseteq Actors /\ Node # Reader
      /\ Node \notin Streams /\ Reader \notin Streams
  BY <1>1 DEF ObsInv, ObsTypes, Actors, Node, Reader, ObservationConstants
<1>3. Idle.op = "idle" /\ c.op \in {"over", "idle"} /\ c \in NodeCalls
  BY DEF Idle, NodeCalls
<1>4. /\ call[owner].op = "terminate" => owner = Node /\ status = "ended"
      /\ c.op = "over" <=> call[owner].op = "terminate"
      /\ owner # Node => c = Idle
  <2>1. \A s \in Streams : call[s].op # "terminate"
    BY DEF ObsInv, ObsTypes, StreamCalls, Idle
  <2>2. call[Reader].op # "terminate"
    BY DEF ObsInv, ObsTypes, ReaderCalls, Idle
  <2>3. call[owner].op = "terminate" => owner = Node
    BY <1>2, <2>1, <2>2 DEF Actors
  <2> QED BY <1>1, <2>3 DEF ObsInv, OrderInv, Idle
<1> HIDE DEF c
<1>5. call'[owner] = c /\ DOMAIN call' = Actors /\ \A b \in Actors : b # owner => call'[b] = call[b]
  BY <1>1, <1>2 DEF ObsInv, ObsTypes
<1>6. /\ follower' \in [pc : {"ask", "read", "recv", "closed"}, view : [Peers -> Untils \cup {None}]]
      /\ follower'.view = follower.view
      /\ owner # Reader => follower' = follower
      /\ owner = Reader => follower'.pc = "read" /\ follower.pc = "ask"
  BY <1>1 DEF ObsInv, ObsTypes, OrderInv
<1>7. ObsTypes'
  <2>1. call'[Node] \in NodeCalls /\ call'[Reader] \in ReaderCalls /\ \A s \in Streams : call'[s] \in StreamCalls
    BY <1>2, <1>3, <1>4, <1>5 DEF ObsInv, ObsTypes, ReaderCalls, StreamCalls
  <2>2. changed' \in BOOLEAN
    BY <1>1
  <2> QED BY <1>1, <1>5, <1>6, <2>1, <2>2 DEF ObsInv, ObsTypes
<1>8. OrderInv'
  <2>1. status = "ended" => call'[Node].op = "over"
    <3>1. CASE owner = Node
      BY <1>1, <1>4, <1>5, <3>1 DEF ObsInv, OrderInv
    <3>2. CASE owner # Node
      BY <1>2, <1>5, <3>2 DEF ObsInv, OrderInv
    <3> QED BY <3>1, <3>2
  <2>2. call'[Node].op = "over" => status = "ended" /\ batch = NoBatch
    BY <1>1, <1>2, <1>4, <1>5 DEF ObsInv, OrderInv
  <2>3. call'[Reader] # Idle => follower'.pc = "ask"
    BY <1>2, <1>4, <1>5, <1>6 DEF ObsInv, OrderInv
  <2>4. owner' # Node
    BY <1>1 DEF Free, Node
  <2> QED BY <1>1, <2>1, <2>2, <2>3, <2>4 DEF ObsInv, OrderInv, AuthenticatedIsConnected
<1>9. BatchInv'
  BY <1>1, BatchFrame DEF ObsInv
<1>10. FollowInv'
  BY <1>1, <1>6 DEF ObsInv, FollowInv, FollowsK, Pending
<1>11. DriverInv'
  <2>1. call'[Node].op # "over" => call[Node].op # "over"
    BY <1>1, <1>2, <1>5 DEF ObsInv, OrderInv
  <2> QED BY <1>1, <2>1 DEF ObsInv, DriverInv, Armed
<1> QED BY <1>7, <1>8, <1>9, <1>10, <1>11 DEF ObsInv

\* broadcast::Sender::send
LEMMA BroadcastFacts ==
    ASSUME ObservationConstants, ObsInv, NEW e \in Events, Broadcast(e), follower.pc # "closed"
    PROVE  /\ queue' \in Seq(Events) /\ Len(queue') <= Capacity /\ lagged' \in BOOLEAN
           /\ lagged => lagged'
           /\ \E n \in Nat : /\ DOMAIN queue' = 1..n /\ n >= 1 /\ queue'[n] = e
                             /\ \/ /\ n = Len(queue) + 1 /\ \A i \in 1..(n - 1) : queue'[i] = queue[i]
                                \/ /\ n = Len(queue) /\ \A i \in 1..(n - 1) : queue'[i] = queue[i + 1]
                                   /\ lagged'
<1>1. queue \in Seq(Events) /\ Len(queue) \in Nat /\ Len(queue) <= Capacity /\ Capacity \in Nat /\ Capacity # 0
  BY LenProperties DEF ObsInv, ObsTypes, ObservationConstants
<1>2. lagged' = (lagged \/ Len(queue) = Capacity)
  BY DEF Broadcast
<1>3. CASE Len(queue) < Capacity
  <2>1. queue' = Append(queue, e)
    BY <1>3 DEF Broadcast
  <2>2. /\ Append(queue, e) \in Seq(Events) /\ Len(Append(queue, e)) = Len(queue) + 1
        /\ \A i \in 1..Len(queue) : Append(queue, e)[i] = queue[i]
        /\ Append(queue, e)[Len(queue) + 1] = e
    BY <1>1, AppendProperties
  <2>3. DOMAIN queue' = 1..(Len(queue) + 1)
    BY <2>1, <2>2, LenProperties
  <2> DEFINE n == Len(queue) + 1
  <2>4. n \in Nat /\ n >= 1 /\ n - 1 = Len(queue)
    BY <1>1
  <2>5. Len(queue') <= Capacity
    BY <1>1, <1>3, <2>1, <2>2
  <2>6. lagged' \in BOOLEAN /\ (lagged => lagged')
    BY <1>2
  <2>7. /\ DOMAIN queue' = 1..n /\ queue'[n] = e /\ n = Len(queue) + 1
        /\ \A i \in 1..(n - 1) : queue'[i] = queue[i]
    BY <2>1, <2>2, <2>3, <2>4
  <2> QED BY <2>1, <2>2, <2>4, <2>5, <2>6, <2>7
<1>4. CASE ~(Len(queue) < Capacity)
  <2>0. Len(queue) = Capacity /\ queue # <<>>
    BY <1>1, <1>4, EmptySeq
  <2>1. queue' = Append(Tail(queue), e)
    BY <1>4 DEF Broadcast
  <2> DEFINE q == Tail(queue)
  <2>2. q \in Seq(Events) /\ Len(q) = Len(queue) - 1 /\ \A i \in 1..Len(q) : q[i] = queue[i + 1]
    BY <1>1, <2>0, HeadTailProperties
  <2> HIDE DEF q
  <2>3. /\ Append(q, e) \in Seq(Events) /\ Len(Append(q, e)) = Len(q) + 1
        /\ \A i \in 1..Len(q) : Append(q, e)[i] = q[i]
        /\ Append(q, e)[Len(q) + 1] = e
    BY <2>2, AppendProperties
  <2> DEFINE n == Len(queue)
  <2>4. n \in Nat /\ n >= 1 /\ Len(q) = n - 1 /\ Len(q) + 1 = n
    BY <1>1, <2>0, <2>2
  <2>5. queue' = Append(q, e)
    BY <2>1 DEF q
  <2>6. DOMAIN queue' = 1..n /\ queue' \in Seq(Events) /\ Len(queue') <= Capacity
    BY <1>1, <2>3, <2>4, <2>5, LenProperties
  <2>7. lagged'
    BY <1>2, <2>0
  <2>8. lagged' \in BOOLEAN
    BY <1>2
  <2>9. queue'[n] = e /\ \A i \in 1..(n - 1) : queue'[i] = queue[i + 1]
    BY <2>2, <2>3, <2>4, <2>5
  <2> QED BY <2>4, <2>6, <2>7, <2>8, <2>9
<1> QED BY <1>3, <1>4

LEMMA SendFollows ==
    ASSUME ObservationConstants, ObsInv, NEW e \in Events, Broadcast(e), NEW k \in Pairs,
           UNCHANGED follower,
           told'[k] = IF IsAbout(e, k) THEN e.seen ELSE told[k],
           ~IsAbout(e, k) => Pending(k)' = Pending(k)
    PROVE  FollowsK(k)'
<1>1. CASE follower.pc = "closed"
  BY <1>1 DEF FollowsK
<1>2. CASE follower.pc # "closed"
  <2>1. PICK n \in Nat : /\ DOMAIN queue' = 1..n /\ n >= 1 /\ queue'[n] = e
                         /\ \/ /\ n = Len(queue) + 1 /\ \A i \in 1..(n - 1) : queue'[i] = queue[i]
                            \/ /\ n = Len(queue) /\ \A i \in 1..(n - 1) : queue'[i] = queue[i + 1]
                               /\ lagged'
    BY <1>2, BroadcastFacts
  <2> DEFINE l == Len(queue)
  <2>2. l \in Nat /\ DOMAIN queue = 1..l /\ (lagged => lagged')
    BY <1>2, BroadcastFacts, LenProperties DEF ObsInv, ObsTypes
  <2>6. \/ n = l + 1 /\ \A i \in 1..(n - 1) : queue'[i] = queue[i]
        \/ n = l /\ lagged' /\ \A i \in 1..(n - 1) : queue'[i] = queue[i + 1]
    BY <2>1
  <2>7. DOMAIN queue' = 1..n
    BY <2>1
  <2> HIDE DEF l
  <2>3. FollowsK(k)
    BY DEF ObsInv, FollowInv
  <2>4. CASE IsAbout(e, k)
    <3>1. \A i \in DOMAIN queue' : (\A j \in DOMAIN queue' : j > i => ~IsAbout(queue'[j], k)) => i = n
      BY <2>1, <2>4
    <3>2. ~ \A i \in DOMAIN queue' : ~IsAbout(queue'[i], k)
      BY <2>1, <2>4
    <3> QED BY <2>1, <2>4, <3>1, <3>2 DEF FollowsK
  <2>5. CASE ~IsAbout(e, k)
    <3>1. ASSUME NEW i \in DOMAIN queue', IsAbout(queue'[i], k),
                 \A j \in DOMAIN queue' : j > i => ~IsAbout(queue'[j], k)
          PROVE  queue'[i].seen = told[k]
      <4>1. i \in 1..(n - 1)
        BY <2>1, <2>5, <3>1
      <4>2. CASE n = l + 1 /\ \A m \in 1..(n - 1) : queue'[m] = queue[m]
        <5>1. i \in DOMAIN queue /\ \A j \in DOMAIN queue : j \in 1..(n - 1) /\ j \in DOMAIN queue'
          BY <2>2, <2>7, <4>1, <4>2
        <5>2. \A j \in DOMAIN queue : j > i => ~IsAbout(queue[j], k)
          BY <3>1, <4>2, <5>1
        <5> QED BY <1>2, <2>3, <3>1, <4>1, <4>2, <5>1, <5>2 DEF FollowsK
      <4>3. CASE n = l /\ \A m \in 1..(n - 1) : queue'[m] = queue[m + 1]
        <5>1. i + 1 \in DOMAIN queue /\ queue'[i] = queue[i + 1]
          BY <2>2, <2>7, <4>1, <4>3
        <5>2. \A j \in DOMAIN queue : j > i + 1 => ~IsAbout(queue[j], k)
          <6> SUFFICES ASSUME NEW j \in DOMAIN queue, j > i + 1 PROVE ~IsAbout(queue[j], k)
            OBVIOUS
          <6>1. j - 1 \in 1..(n - 1) /\ j - 1 > i /\ j - 1 \in DOMAIN queue' /\ (j - 1) + 1 = j
            BY <2>2, <2>7, <4>1, <4>3
          <6>2. queue'[j - 1] = queue[(j - 1) + 1]
            BY <4>3, <6>1
          <6> QED BY <3>1, <6>1, <6>2
        <5> QED BY <1>2, <2>3, <3>1, <5>1, <5>2 DEF FollowsK
      <4> QED BY <2>6, <4>2, <4>3
    <3>2. ASSUME ~lagged', \A i \in DOMAIN queue' : ~IsAbout(queue'[i], k)
          PROVE  ~lagged /\ \A i \in DOMAIN queue : ~IsAbout(queue[i], k)
      <4>1. n = l + 1 /\ \A i \in 1..(n - 1) : queue'[i] = queue[i]
        BY <2>6, <3>2
      <4>2. \A i \in DOMAIN queue : i \in 1..(n - 1) /\ i \in DOMAIN queue'
        BY <2>2, <2>7, <4>1
      <4> QED BY <2>2, <3>2, <4>1, <4>2
    <3> QED BY <2>3, <2>5, <3>1, <3>2 DEF FollowsK
  <2> QED BY <2>4, <2>5
<1> QED BY <1>1, <1>2

LEMMA SendKeeps ==
    ASSUME ObservationConstants, ObsInv, NEW e \in batch[1] \cup batch[2], Send(e)
    PROVE  ObsInv'
<1>0. batch[1] \in SUBSET Events /\ batch[2] \in SUBSET Events /\ e \in Events
  BY DEF ObsInv, ObsTypes
<1>1. /\ owner # Free /\ Broadcast(e)
      /\ told' = (IF e = StatusChanged THEN told ELSE [told EXCEPT ![e.key] = e.seen])
      /\ UNCHANGED <<now, status, connections, verified, owner, call, driver, changed, follower>>
      /\ \/ e \in batch[1] /\ batch'[1] = batch[1] \ {e} /\ batch'[2] = batch[2]
         \/ batch[1] = {} /\ e \in batch[2] /\ batch'[1] = {} /\ batch'[2] = batch[2] \ {e}
      /\ batch' \in (SUBSET Events) \X (SUBSET Events)
  BY <1>0 DEF Send
<1>2. e # StatusChanged => e \in Sightings /\ e.key \in Pairs /\ e.seen \in Sights
  BY <1>0, EventFacts
<1>3. /\ told' \in [Pairs -> Sights]
      /\ \A k \in Pairs : told'[k] = IF IsAbout(e, k) THEN e.seen ELSE told[k]
  BY <1>1, <1>2 DEF ObsInv, ObsTypes, IsAbout
<1>4. queue' \in Seq(Events) /\ Len(queue') <= Capacity /\ lagged' \in BOOLEAN
  <2>1. CASE follower.pc = "closed"
    BY <1>1, <2>1 DEF Broadcast, channel, ObsInv, ObsTypes
  <2>2. CASE follower.pc # "closed"
    BY <1>0, <1>1, <2>2, BroadcastFacts
  <2> QED BY <2>1, <2>2
<1>5. ObsTypes'
  BY <1>1, <1>3, <1>4 DEF ObsInv, ObsTypes
<1>6. OrderInv'
  <2>1. call[Node].op # "over"
    BY DEF ObsInv, OrderInv, NoBatch
  <2> QED BY <1>1, <2>1 DEF ObsInv, OrderInv, AuthenticatedIsConnected
<1>7. \A k \in Pairs : /\ ~IsAbout(e, k) => Pending(k)' = Pending(k) /\ (Gone(k) \in batch'[1] <=> Gone(k) \in batch[1])
                       /\ Visible(k)' = Visible(k)
  <2> SUFFICES ASSUME NEW k \in Pairs
               PROVE  /\ ~IsAbout(e, k) => Pending(k)' = Pending(k) /\ (Gone(k) \in batch'[1] <=> Gone(k) \in batch[1])
                      /\ Visible(k)' = Visible(k)
    OBVIOUS
  <2>1. ~IsAbout(e, k) => Gone(k) # e
    BY EventFacts
  <2>2. Visible(k)' = Visible(k)
    BY <1>1 DEF Visible, Observation
  <2>3. ~IsAbout(e, k) => Pending(k)' = Pending(k)
    BY <1>1 DEF Pending
  <2> QED BY <1>1, <2>1, <2>2, <2>3
<1>8. FollowInv'
  BY <1>0, <1>1, <1>3, <1>7, SendFollows DEF FollowInv
<1>9. BatchInv'
  <2>1. /\ \A f \in batch'[1] : f # StatusChanged /\ f = Gone(f.key)
        /\ \A f, g \in batch'[2] : f # StatusChanged /\ g # StatusChanged /\ f.key = g.key => f = g
        /\ batch'[1] \subseteq batch[1] /\ batch'[2] \subseteq batch[2]
    BY <1>1 DEF ObsInv, BatchInv
  <2>2. ASSUME NEW k \in Pairs PROVE AddsUp(k)'
    <3>0. AddsUp(k)
      BY DEF ObsInv, BatchInv
    <3>1. CASE ~IsAbout(e, k)
      <4>1. told'[k] = told[k] /\ Visible(k)' = Visible(k) /\ Pending(k)' = Pending(k)
            /\ (Gone(k) \in batch'[1] <=> Gone(k) \in batch[1])
        BY <1>3, <1>7, <3>1
      <4>2. \A f : IsAbout(f, k) => (f \in batch'[2] <=> f \in batch[2])
        BY <1>1, <3>1
      <4> QED BY <3>0, <4>1, <4>2 DEF AddsUp
    <3>2. CASE IsAbout(e, k) /\ e \in batch[1]
      <4>1. e = Gone(k)
        BY <3>2 DEF ObsInv, BatchInv, IsAbout
      <4>6. told'[k] = Unseen
        BY <1>3, <3>2, <4>1, EventFacts
      <4>2. Gone(k) \notin batch'[1] /\ batch'[2] = batch[2]
        <5>1. CASE batch'[1] = batch[1] \ {e} /\ batch'[2] = batch[2]
          BY <4>1, <5>1
        <5>2. CASE batch[1] = {}
          BY <3>2, <5>2
        <5> QED BY <1>1, <5>1, <5>2
      <4>3. ASSUME NEW f \in batch'[1], IsAbout(f, k) PROVE FALSE
        <5>1. f = Gone(f.key) /\ f.key = k
          BY <2>1, <4>3 DEF IsAbout
        <5> QED BY <4>2, <4>3, <5>1
      <4>4. Pending(k)' => \E f \in batch[2] : IsAbout(f, k)
        BY <4>2, <4>3 DEF Pending
      <4>5. Gone(k) \in batch[1]
        BY <3>2, <4>1
      <4>7. Visible(k)' = Visible(k) /\ (Gone(k) \in batch[1])
        BY <1>7, <4>5
      <4> HIDE DEF Gone, Unseen, IsAbout
      <4>8. ~Pending(k)' => told'[k] = Visible(k)'
        BY <3>0, <4>2, <4>6, <4>7 DEF AddsUp, Pending
      <4>9. \A f \in batch'[2] : IsAbout(f, k) =>
               f.seen = Visible(k)' /\ (f.kind = "appeared" <=> (told'[k] = Unseen \/ Gone(k) \in batch'[1]))
        BY <3>0, <4>2, <4>6, <4>7 DEF AddsUp
      <4> QED BY <4>2, <4>8, <4>9 DEF AddsUp
    <3>3. CASE IsAbout(e, k) /\ e \notin batch[1]
      <4>1. batch[1] = {} /\ e \in batch[2] /\ batch'[1] = {} /\ batch'[2] = batch[2] \ {e}
        BY <1>1, <3>3
      <4>2. told'[k] = Visible(k)
        BY <1>3, <3>0, <3>3, <4>1 DEF AddsUp
      <4>3. ASSUME NEW f \in batch'[2], IsAbout(f, k) PROVE FALSE
        <5>1. f \in batch[2] /\ f # e /\ f # StatusChanged /\ e # StatusChanged /\ f.key = e.key
          BY <3>3, <4>1, <4>3 DEF IsAbout
        <5> QED BY <4>1, <5>1 DEF ObsInv, BatchInv
      <4> QED BY <1>7, <4>1, <4>2, <4>3 DEF AddsUp, Pending
    <3> QED BY <3>1, <3>2, <3>3
  <2> QED BY <2>1, <2>2 DEF BatchInv
<1>10. DriverInv'
  BY <1>1 DEF ObsInv, DriverInv, Armed
<1> QED BY <1>5, <1>6, <1>8, <1>9, <1>10 DEF ObsInv

\* What a transition does to the events: those of the keys in A that are gone come first, the
\* others say what is seen of their key from now on
Outcome(A) ==
    /\ A \subseteq {k \in Pairs : verified[k] # None}
    /\ batch' \in (SUBSET Events) \X (SUBSET Events)
    /\ \A k \in Pairs : Gone(k) \in batch'[1] <=> k \in A
    /\ \A e \in batch'[1] : \E k \in A : e = Gone(k)
    /\ \A e, f \in batch'[2] : e # StatusChanged /\ f # StatusChanged /\ e.key = f.key => e = f
    /\ \A k \in Pairs : (\A e \in batch'[2] : ~IsAbout(e, k)) =>
          Visible(k)' = IF k \in A THEN Unseen ELSE Visible(k)
    /\ \A k \in Pairs, e \in batch'[2] : IsAbout(e, k) =>
          e.seen = Visible(k)' /\ (e.kind = "appeared" <=> verified[k] = None \/ k \in A)

LEMMA OutcomeKeeps ==
    ASSUME ObservationConstants, ObsInv, owner = Free, UNCHANGED told, NEW A, Outcome(A)
    PROVE  BatchInv'
<1>0. \A k \in Pairs : told[k] = Visible(k) /\ (told[k] = Unseen <=> verified[k] = None)
  <2> SUFFICES ASSUME NEW k \in Pairs PROVE told[k] = Visible(k) /\ (told[k] = Unseen <=> verified[k] = None)
    OBVIOUS
  <2>1. batch[1] = {} /\ batch[2] = {}
    BY DEF ObsInv, OrderInv, NoBatch
  <2>2. told[k] = Visible(k)
    BY <2>1 DEF ObsInv, BatchInv, AddsUp, Pending
  <2>3. verified[k] # None => connections[k[1]] # {}
    BY DEF ObsInv, OrderInv, AuthenticatedIsConnected
  <2> QED BY <2>2, <2>3, VisibleFacts DEF ObsInv
<1>1. \A e \in batch'[1] : e # StatusChanged /\ e = Gone(e.key)
  <2> SUFFICES ASSUME NEW e \in batch'[1] PROVE e # StatusChanged /\ e = Gone(e.key)
    OBVIOUS
  <2>1. PICK k \in Pairs : e = Gone(k)
    BY DEF Outcome
  <2> QED BY <2>1, EventFacts
<1>2. ASSUME NEW k \in Pairs PROVE AddsUp(k)'
  <2>1. told'[k] = Visible(k) /\ (told'[k] = Unseen <=> verified[k] = None)
    BY <1>0
  <2>2. Gone(k) \in batch'[1] <=> k \in A
    BY DEF Outcome
  <2>3. k \in A => verified[k] # None
    BY DEF Outcome
  <2>4. IsAbout(Gone(k), k)
    BY EventFacts
  <2>5. ~Pending(k)' => told'[k] = Visible(k)'
    <3>1. ~Pending(k)' => (\A e \in batch'[2] : ~IsAbout(e, k)) /\ Gone(k) \notin batch'[1]
      BY <2>4 DEF Pending
    <3> QED BY <2>1, <2>2, <3>1 DEF Outcome
  <2>6. Gone(k) \in batch'[1] /\ (\A e \in batch'[2] : ~IsAbout(e, k)) => Visible(k)' = Unseen
    BY <2>2 DEF Outcome
  <2>7. \A e \in batch'[2] : IsAbout(e, k) =>
          e.seen = Visible(k)' /\ (e.kind = "appeared" <=> told'[k] = Unseen \/ Gone(k) \in batch'[1])
    BY <2>1, <2>2 DEF Outcome
  <2> QED BY <2>1, <2>2, <2>3, <2>5, <2>6, <2>7 DEF AddsUp
<1> QED BY <1>1, <1>2 DEF BatchInv, Outcome

\* prune_expired
LEMMA PrunedFacts ==
    ASSUME ObservationConstants, ObsInv, NEW at
    PROVE  /\ Expired(at) \subseteq {k \in Pairs : verified[k] # None}
           /\ Pruned(at) \in [Pairs -> Untils \cup {None}]
           /\ \A k \in Pairs : Pruned(at)[k] = IF k \in Expired(at) THEN None ELSE verified[k]
           /\ PrunedEvents(at) \in SUBSET Events
           /\ \A k \in Pairs : Gone(k) \in PrunedEvents(at) <=> k \in Expired(at)
           /\ \A e \in PrunedEvents(at) : \E k \in Expired(at) : e = Gone(k)
<1>1. Expired(at) \subseteq {k \in Pairs : verified[k] # None}
  BY DEF Expired
<1>2. Pruned(at) \in [Pairs -> Untils \cup {None}]
      /\ \A k \in Pairs : Pruned(at)[k] = IF k \in Expired(at) THEN None ELSE verified[k]
  BY DEF Pruned, ObsInv, ObsTypes
<1>3. PrunedEvents(at) \in SUBSET Events /\ \A e \in PrunedEvents(at) : \E k \in Expired(at) : e = Gone(k)
  BY <1>1, EventFacts DEF PrunedEvents
<1>4. ASSUME NEW k \in Pairs PROVE Gone(k) \in PrunedEvents(at) <=> k \in Expired(at)
  <2>1. k \in Expired(at) => connections[k[1]] # {}
    BY <1>1 DEF ObsInv, OrderInv, AuthenticatedIsConnected
  <2>2. k \in Expired(at) => Gone(k) \in PrunedEvents(at)
    BY <2>1 DEF PrunedEvents
  <2>3. ASSUME Gone(k) \in PrunedEvents(at) PROVE k \in Expired(at)
    <3>1. PICK l \in Expired(at) : Gone(k) = Gone(l)
      BY <1>3, <2>3
    <3>2. k = l
      BY <1>1, <3>1, EventFacts
    <3> QED BY <3>1, <3>2
  <2> QED BY <2>2, <2>3
<1> QED BY <1>1, <1>2, <1>3, <1>4

LEMMA EventFields ==
    ASSUME NEW kind \in {"appeared", "updated"}, NEW k \in Pairs, NEW seen \in Sights
    PROVE  /\ Event(kind, k, seen) \in Sightings /\ Event(kind, k, seen) # StatusChanged
           /\ Event(kind, k, seen).key = k /\ Event(kind, k, seen).seen = seen /\ Event(kind, k, seen).kind = kind
<1>1. Event(kind, k, seen) \in Sightings
  BY DEF Event, Sightings
<1> QED BY <1>1, EventFacts DEF Event

\* observations_for_peer: every authentication of the peer, with all its connections
LEMMA SeenFacts ==
    ASSUME ObservationConstants, NEW kind \in {"appeared", "updated"}, NEW p \in Peers,
           verified' \in [Pairs -> Untils \cup {None}], connections' \in [Peers -> SUBSET Ids],
           connections'[p] # {}
    PROVE  /\ Seen(kind, p) \in SUBSET Events
           /\ \A e \in Seen(kind, p) : e \in Sightings /\ e.key[1] = p /\ verified'[e.key] # None
                 /\ e.seen = Visible(e.key)' /\ e.kind = kind
           /\ \A e, f \in Seen(kind, p) : e.key = f.key => e = f
           /\ \A k \in Pairs : k[1] = p /\ verified'[k] # None => \E e \in Seen(kind, p) : IsAbout(e, k)
<1> DEFINE sight(k) == [until |-> verified'[k], on |-> connections'[p]]
<1>1. ASSUME NEW k \in Pairs, k[1] = p, verified'[k] # None
      PROVE  sight(k) \in Sights /\ sight(k) = Visible(k)'
  <2>1. verified'[k] \in Untils /\ connections'[p] \in SUBSET Ids
    BY <1>1
  <2> QED BY <1>1, <2>1, SightFacts DEF Visible, Observation
<1>2. \A e \in Seen(kind, p) : \E k \in Pairs : k[1] = p /\ verified'[k] # None /\ e = Event(kind, k, sight(k))
  BY DEF Seen
<1>3. \A k \in Pairs : k[1] = p /\ verified'[k] # None => Event(kind, k, sight(k)) \in Seen(kind, p)
  BY DEF Seen
<1> HIDE DEF sight
<1>4. ASSUME NEW e \in Seen(kind, p)
      PROVE  e \in Sightings /\ e.key[1] = p /\ verified'[e.key] # None /\ e.seen = Visible(e.key)'
             /\ e.kind = kind /\ e = Event(kind, e.key, sight(e.key))
  <2>1. PICK k \in Pairs : k[1] = p /\ verified'[k] # None /\ e = Event(kind, k, sight(k))
    BY <1>2
  <2>2. sight(k) \in Sights /\ sight(k) = Visible(k)'
    BY <1>1, <2>1
  <2>3. e \in Sightings /\ e.key = k /\ e.seen = sight(k) /\ e.kind = kind
    BY <2>1, <2>2, EventFields
  <2> QED BY <2>1, <2>2, <2>3
<1>5. \A e, f \in Seen(kind, p) : e.key = f.key => e = f
  <2> SUFFICES ASSUME NEW e \in Seen(kind, p), NEW f \in Seen(kind, p), e.key = f.key PROVE e = f
    OBVIOUS
  <2>1. e = Event(kind, e.key, sight(e.key)) /\ f = Event(kind, f.key, sight(f.key))
    BY <1>4
  <2> QED BY <2>1
<1>6. ASSUME NEW k \in Pairs, k[1] = p, verified'[k] # None
      PROVE  \E e \in Seen(kind, p) : IsAbout(e, k)
  <2>1. Event(kind, k, sight(k)) # StatusChanged /\ Event(kind, k, sight(k)).key = k
    BY <1>1, <1>6, EventFields
  <2> QED BY <1>3, <1>6, <2>1 DEF IsAbout
<1> QED BY <1>4, <1>5, <1>6, EventFacts

\* What every transition gives: the types, the connections behind what is authenticated, and
\* the events
Transitioned ==
    /\ status' \in {"running", "ended"} /\ connections' \in [Peers -> SUBSET Ids]
    /\ verified' \in [Pairs -> Untils \cup {None}] /\ AuthenticatedIsConnected'
    /\ \E A : Outcome(A)

OnlyPrunes == \A k \in Pairs : verified'[k] \in {verified[k], None}

LEMMA EstablishedTransition ==
    ASSUME ObservationConstants, ObsInv, NEW c, c.peer \in Peers, c.id \in Ids, ConnectionEstablished(c)
    PROVE  Transitioned /\ OnlyPrunes /\ UNCHANGED status
<1> DEFINE kind == IF connections[c.peer] # {} THEN "updated" ELSE "appeared"
           p == c.peer
           A == Expired(c.at)
<1>1. /\ verified' = Pruned(c.at) /\ connections' = [connections EXCEPT ![p] = @ \cup {c.id}]
      /\ batch' = <<PrunedEvents(c.at), Seen(kind, p)>> /\ UNCHANGED status
  BY DEF ConnectionEstablished
<1>2. kind \in {"appeared", "updated"} /\ p \in Peers /\ (kind = "appeared" => connections[p] = {})
  OBVIOUS
<1>3. /\ A \subseteq {k \in Pairs : verified[k] # None} /\ verified' \in [Pairs -> Untils \cup {None}]
      /\ \A k \in Pairs : verified'[k] = IF k \in A THEN None ELSE verified[k]
      /\ PrunedEvents(c.at) \in SUBSET Events
      /\ \A k \in Pairs : Gone(k) \in PrunedEvents(c.at) <=> k \in A
      /\ \A e \in PrunedEvents(c.at) : \E k \in A : e = Gone(k)
  BY <1>1, PrunedFacts
<1>4. /\ connections' \in [Peers -> SUBSET Ids] /\ connections'[p] # {}
      /\ \A q \in Peers : connections[q] # {} => connections'[q] # {}
      /\ \A q \in Peers : q # p => connections'[q] = connections[q]
  BY <1>1 DEF ObsInv, ObsTypes
<1> HIDE DEF kind, p, A
<1>5. /\ Seen(kind, p) \in SUBSET Events
      /\ \A e \in Seen(kind, p) : e \in Sightings /\ e.key[1] = p /\ verified'[e.key] # None
            /\ e.seen = Visible(e.key)' /\ e.kind = kind
      /\ \A e, f \in Seen(kind, p) : e.key = f.key => e = f
      /\ \A k \in Pairs : k[1] = p /\ verified'[k] # None => \E e \in Seen(kind, p) : IsAbout(e, k)
  BY <1>2, <1>3, <1>4, SeenFacts
<1>6. \A k \in Pairs : k[1] \in Peers /\ (verified[k] # None => connections[k[1]] # {})
  BY DEF Pairs, ObsInv, OrderInv, AuthenticatedIsConnected
<1>7. batch'[1] = PrunedEvents(c.at) /\ batch'[2] = Seen(kind, p) /\ batch' \in (SUBSET Events) \X (SUBSET Events)
  BY <1>1, <1>3, <1>5
<1>8. ASSUME NEW k \in Pairs, \A e \in batch'[2] : ~IsAbout(e, k)
      PROVE  Visible(k)' = IF k \in A THEN Unseen ELSE Visible(k)
  <2>1. k[1] # p \/ verified'[k] = None
    BY <1>5, <1>7, <1>8
  <2> QED BY <1>3, <1>4, <1>6, <2>1 DEF Visible, Observation
<1>9. ASSUME NEW k \in Pairs, NEW e \in batch'[2], IsAbout(e, k)
      PROVE  e.seen = Visible(k)' /\ (e.kind = "appeared" <=> verified[k] = None \/ k \in A)
  <2>1. e.key = k /\ e.seen = Visible(k)' /\ k[1] = p /\ verified'[k] # None /\ e.kind = kind
    BY <1>5, <1>7, <1>9 DEF IsAbout
  <2> QED BY <1>2, <1>3, <1>6, <2>1
<1>10. Outcome(A)
  BY <1>3, <1>5, <1>7, <1>8, <1>9 DEF Outcome
<1>11. AuthenticatedIsConnected'
  BY <1>3, <1>4, <1>6 DEF AuthenticatedIsConnected
<1> QED BY <1>1, <1>3, <1>4, <1>10, <1>11 DEF Transitioned, OnlyPrunes, ObsInv, ObsTypes

LEMMA GoneSet ==
    ASSUME NEW B \in SUBSET Pairs
    PROVE  /\ {Gone(k) : k \in B} \in SUBSET Events
           /\ \A e \in {Gone(k) : k \in B} : e # StatusChanged /\ e.key \in B /\ e = Gone(e.key)
                 /\ e.seen = Unseen /\ e.kind = "disappeared"
           /\ \A k \in Pairs : (\E e \in {Gone(l) : l \in B} : IsAbout(e, k)) <=> k \in B
<1>1. ASSUME NEW e \in {Gone(k) : k \in B}
      PROVE  e \in Events /\ e # StatusChanged /\ e.key \in B /\ e = Gone(e.key) /\ e.seen = Unseen /\ e.kind = "disappeared"
  <2>1. PICK k \in B : e = Gone(k)
    OBVIOUS
  <2>2. k \in Pairs
    OBVIOUS
  <2> QED BY <2>1, <2>2, EventFacts
<1>2. \A k \in B : Gone(k) \in {Gone(l) : l \in B} /\ IsAbout(Gone(k), k)
  BY EventFacts
<1>3. \A k \in Pairs : (\E e \in {Gone(l) : l \in B} : IsAbout(e, k)) <=> k \in B
  <2> SUFFICES ASSUME NEW k \in Pairs PROVE (\E e \in {Gone(l) : l \in B} : IsAbout(e, k)) <=> k \in B
    OBVIOUS
  <2>1. k \in B => \E e \in {Gone(l) : l \in B} : IsAbout(e, k)
    BY <1>2
  <2>2. ASSUME NEW e \in {Gone(l) : l \in B}, IsAbout(e, k) PROVE k \in B
    BY <1>1, <2>2 DEF IsAbout
  <2> QED BY <2>1, <2>2
<1> QED BY <1>1, <1>3

LEMMA ClosedTransition ==
    ASSUME ObservationConstants, ObsInv, NEW c, c.peer \in Peers, ConnectionClosed(c)
    PROVE  Transitioned /\ UNCHANGED status
<1> DEFINE p == c.peer
           A == Expired(c.at)
           B == {k \in Pairs : k[1] = p /\ Pruned(c.at)[k] # None}
<1>1. /\ connections' = [connections EXCEPT ![p] = @ \ {c.id}] /\ UNCHANGED status
      /\ \/ /\ connections'[p] # {} /\ verified' = Pruned(c.at)
            /\ batch' = <<PrunedEvents(c.at), Seen("updated", p)>>
         \/ /\ connections'[p] = {}
            /\ verified' = [k \in Pairs |-> IF k[1] = p THEN None ELSE Pruned(c.at)[k]]
            /\ batch' = <<PrunedEvents(c.at), {Gone(k) : k \in B}>>
  BY DEF ConnectionClosed
<1>2. /\ A \subseteq {k \in Pairs : verified[k] # None} /\ Pruned(c.at) \in [Pairs -> Untils \cup {None}]
      /\ \A k \in Pairs : Pruned(c.at)[k] = IF k \in A THEN None ELSE verified[k]
      /\ PrunedEvents(c.at) \in SUBSET Events
      /\ \A k \in Pairs : Gone(k) \in PrunedEvents(c.at) <=> k \in A
      /\ \A e \in PrunedEvents(c.at) : \E k \in A : e = Gone(k)
  BY PrunedFacts
<1>3. /\ connections' \in [Peers -> SUBSET Ids] /\ connections'[p] \subseteq connections[p]
      /\ \A q \in Peers : q # p => connections'[q] = connections[q]
  BY <1>1 DEF ObsInv, ObsTypes
<1>4. \A k \in Pairs : k[1] \in Peers /\ (verified[k] # None => connections[k[1]] # {})
  BY DEF Pairs, ObsInv, OrderInv, AuthenticatedIsConnected
<1>b. B \in SUBSET Pairs /\ \A k \in Pairs : k \in B <=> k[1] = p /\ Pruned(c.at)[k] # None
  OBVIOUS
<1>p. p \in Peers
  OBVIOUS
<1> HIDE DEF p, A, B
<1>5. CASE connections'[p] # {} /\ verified' = Pruned(c.at) /\ batch' = <<PrunedEvents(c.at), Seen("updated", p)>>
  <2>1. /\ Seen("updated", p) \in SUBSET Events
        /\ \A e \in Seen("updated", p) : e \in Sightings /\ e.key[1] = p /\ verified'[e.key] # None
              /\ e.seen = Visible(e.key)' /\ e.kind = "updated"
        /\ \A e, f \in Seen("updated", p) : e.key = f.key => e = f
        /\ \A k \in Pairs : k[1] = p /\ verified'[k] # None => \E e \in Seen("updated", p) : IsAbout(e, k)
    BY <1>2, <1>3, <1>5, <1>p, SeenFacts
  <2>2. batch'[1] = PrunedEvents(c.at) /\ batch'[2] = Seen("updated", p) /\ batch' \in (SUBSET Events) \X (SUBSET Events)
    BY <1>2, <1>5, <2>1
  <2>3. ASSUME NEW k \in Pairs, \A e \in batch'[2] : ~IsAbout(e, k)
        PROVE  Visible(k)' = IF k \in A THEN Unseen ELSE Visible(k)
    <3>1. k[1] # p \/ verified'[k] = None
      BY <2>1, <2>2, <2>3
    <3> QED BY <1>2, <1>3, <1>4, <1>5, <3>1 DEF Visible, Observation
  <2>4. ASSUME NEW k \in Pairs, NEW e \in batch'[2], IsAbout(e, k)
        PROVE  e.seen = Visible(k)' /\ (e.kind = "appeared" <=> verified[k] = None \/ k \in A)
    <3>1. e.key = k /\ e.seen = Visible(k)' /\ k[1] = p /\ verified'[k] # None /\ e.kind = "updated"
      BY <2>1, <2>2, <2>4 DEF IsAbout
    <3> QED BY <1>2, <1>5, <3>1
  <2>5. Outcome(A)
    BY <1>2, <2>1, <2>2, <2>3, <2>4 DEF Outcome
  <2>6. AuthenticatedIsConnected'
    <3> SUFFICES ASSUME NEW k \in Pairs, verified'[k] # None PROVE connections'[k[1]] # {}
      BY DEF AuthenticatedIsConnected
    <3>1. connections[k[1]] # {}
      BY <1>2, <1>4, <1>5
    <3> QED BY <1>3, <1>4, <1>5, <3>1
  <2> QED BY <1>1, <1>2, <1>3, <1>5, <2>5, <2>6 DEF Transitioned, ObsInv, ObsTypes
<1>6. CASE /\ connections'[p] = {}
           /\ verified' = [k \in Pairs |-> IF k[1] = p THEN None ELSE Pruned(c.at)[k]]
           /\ batch' = <<PrunedEvents(c.at), {Gone(k) : k \in B}>>
  <2> DEFINE G == {Gone(k) : k \in B}
  <2>1. /\ G \in SUBSET Events
        /\ \A e \in G : e # StatusChanged /\ e.key \in B /\ e = Gone(e.key) /\ e.seen = Unseen /\ e.kind = "disappeared"
        /\ \A k \in Pairs : (\E e \in G : IsAbout(e, k)) <=> k \in B
    BY <1>b, GoneSet
  <2>2. batch' = <<PrunedEvents(c.at), G>>
    BY <1>6
  <2> HIDE DEF G
  <2>3. batch'[1] = PrunedEvents(c.at) /\ batch'[2] = G /\ batch' \in (SUBSET Events) \X (SUBSET Events)
    BY <1>2, <2>1, <2>2
  <2>4. /\ verified' \in [Pairs -> Untils \cup {None}]
        /\ \A k \in Pairs : verified'[k] = IF k[1] = p THEN None ELSE Pruned(c.at)[k]
    BY <1>2, <1>6
  <2>5. ASSUME NEW k \in Pairs, \A e \in batch'[2] : ~IsAbout(e, k)
        PROVE  Visible(k)' = IF k \in A THEN Unseen ELSE Visible(k)
    <3>1. k[1] # p \/ Pruned(c.at)[k] = None
      BY <1>b, <2>1, <2>3, <2>5
    <3> QED BY <1>2, <1>3, <1>4, <1>6, <2>4, <3>1 DEF Visible, Observation
  <2>6. ASSUME NEW k \in Pairs, NEW e \in batch'[2], IsAbout(e, k)
        PROVE  e.seen = Visible(k)' /\ (e.kind = "appeared" <=> verified[k] = None \/ k \in A)
    <3>1. e.key = k /\ e.seen = Unseen /\ e.kind = "disappeared" /\ k[1] = p /\ Pruned(c.at)[k] # None
      BY <1>b, <2>1, <2>3, <2>6 DEF IsAbout
    <3>2. Visible(k)' = Unseen
      BY <2>4, <3>1 DEF Visible
    <3> QED BY <1>2, <3>1, <3>2
  <2>7. \A e, f \in batch'[2] : e # StatusChanged /\ f # StatusChanged /\ e.key = f.key => e = f
    BY <2>1, <2>3
  <2>8. Outcome(A)
    BY <1>2, <2>3, <2>5, <2>6, <2>7 DEF Outcome
  <2>9. AuthenticatedIsConnected'
    <3> SUFFICES ASSUME NEW k \in Pairs, verified'[k] # None PROVE connections'[k[1]] # {}
      BY DEF AuthenticatedIsConnected
    <3>1. k[1] # p /\ connections[k[1]] # {}
      BY <1>2, <1>4, <2>4
    <3> QED BY <1>3, <1>4, <3>1
  <2> QED BY <1>1, <1>3, <2>4, <2>8, <2>9 DEF Transitioned, ObsInv, ObsTypes
<1> QED BY <1>1, <1>5, <1>6

\* A transition that only prunes
LEMMA PruneTransition ==
    ASSUME ObservationConstants, ObsInv, NEW at, UNCHANGED <<status, connections>>,
           verified' = Pruned(at), batch' = <<PrunedEvents(at), {}>>
    PROVE  Transitioned /\ OnlyPrunes
<1> DEFINE A == Expired(at)
<1>1. /\ A \subseteq {k \in Pairs : verified[k] # None} /\ verified' \in [Pairs -> Untils \cup {None}]
      /\ \A k \in Pairs : verified'[k] = IF k \in A THEN None ELSE verified[k]
      /\ PrunedEvents(at) \in SUBSET Events
      /\ \A k \in Pairs : Gone(k) \in PrunedEvents(at) <=> k \in A
      /\ \A e \in PrunedEvents(at) : \E k \in A : e = Gone(k)
  BY PrunedFacts
<1> HIDE DEF A
<1>2. batch'[1] = PrunedEvents(at) /\ batch'[2] = {} /\ batch' \in (SUBSET Events) \X (SUBSET Events)
  BY <1>1
<1>3. \A k \in Pairs : Visible(k)' = IF k \in A THEN Unseen ELSE Visible(k)
  BY <1>1 DEF Visible, Observation
<1>4. Outcome(A)
  BY <1>1, <1>2, <1>3 DEF Outcome
<1>5. AuthenticatedIsConnected'
  BY <1>1 DEF AuthenticatedIsConnected, ObsInv, OrderInv
<1> QED BY <1>1, <1>4, <1>5 DEF Transitioned, OnlyPrunes, ObsInv, ObsTypes

LEMMA RecordTransition ==
    ASSUME ObservationConstants, ObsInv, NEW c, c.key \in Pairs, c.until \in Untils, Record(c)
    PROVE  Transitioned /\ UNCHANGED status
<1>0. UNCHANGED <<status, connections>>
  BY DEF Record
<1>1. CASE verified' = Pruned(c.at) /\ batch' = <<PrunedEvents(c.at), {}>>
  BY <1>0, <1>1, PruneTransition
<1> DEFINE A == Expired(c.at)
           l == c.key
           kind == IF Pruned(c.at)[l] # None THEN "updated" ELSE "appeared"
           sight == [until |-> c.until, on |-> connections[l[1]]]
           e0 == Event(kind, l, sight)
<1>2. CASE /\ connections[l[1]] # {} /\ verified' = [Pruned(c.at) EXCEPT ![l] = c.until]
           /\ batch' = <<PrunedEvents(c.at), {e0}>>
  <2>1. /\ A \subseteq {k \in Pairs : verified[k] # None} /\ Pruned(c.at) \in [Pairs -> Untils \cup {None}]
        /\ \A k \in Pairs : Pruned(c.at)[k] = IF k \in A THEN None ELSE verified[k]
        /\ PrunedEvents(c.at) \in SUBSET Events
        /\ \A k \in Pairs : Gone(k) \in PrunedEvents(c.at) <=> k \in A
        /\ \A e \in PrunedEvents(c.at) : \E k \in A : e = Gone(k)
    BY PrunedFacts
  <2>2. l \in Pairs /\ l[1] \in Peers /\ c.until # None /\ connections[l[1]] \in SUBSET Ids
    BY UntilsArePositive DEF Pairs, None, ObsInv, ObsTypes
  <2>3. sight \in Sights
    BY <2>2, SightFacts
  <2>4. /\ verified' \in [Pairs -> Untils \cup {None}]
        /\ \A k \in Pairs : verified'[k] = IF k = l THEN c.until ELSE Pruned(c.at)[k]
    BY <1>2, <2>1, <2>2
  <2>5. Visible(l)' = sight
    BY <1>0, <1>2, <2>2, <2>4 DEF Visible, Observation
  <2>6. kind \in {"appeared", "updated"} /\ (kind = "appeared" <=> verified[l] = None \/ l \in A)
    BY <2>1, <2>2
  <2> HIDE DEF A, l, kind, sight
  <2>7. e0 \in Sightings /\ e0 # StatusChanged /\ e0.key = l /\ e0.seen = sight /\ e0.kind = kind
    BY <2>2, <2>3, <2>6, EventFields
  <2> HIDE DEF e0
  <2>8. batch'[1] = PrunedEvents(c.at) /\ batch'[2] = {e0} /\ batch' \in (SUBSET Events) \X (SUBSET Events)
    BY <1>2, <2>1, <2>7, EventFacts
  <2>9. ASSUME NEW k \in Pairs, \A e \in batch'[2] : ~IsAbout(e, k)
        PROVE  Visible(k)' = IF k \in A THEN Unseen ELSE Visible(k)
    <3>1. k # l
      BY <2>7, <2>8, <2>9 DEF IsAbout
    <3> QED BY <1>0, <2>1, <2>4, <3>1 DEF Visible, Observation
  <2>10. ASSUME NEW k \in Pairs, NEW e \in batch'[2], IsAbout(e, k)
         PROVE  e.seen = Visible(k)' /\ (e.kind = "appeared" <=> verified[k] = None \/ k \in A)
    <3>1. e = e0 /\ k = l
      BY <2>7, <2>8, <2>10 DEF IsAbout
    <3> QED BY <2>5, <2>6, <2>7, <3>1
  <2>11. Outcome(A)
    BY <2>1, <2>8, <2>9, <2>10 DEF Outcome
  <2>12. AuthenticatedIsConnected'
    <3> SUFFICES ASSUME NEW k \in Pairs, verified'[k] # None PROVE connections'[k[1]] # {}
      BY DEF AuthenticatedIsConnected
    <3>1. CASE k = l
      BY <1>0, <1>2, <3>1
    <3>2. CASE k # l
      BY <1>0, <2>1, <2>4, <3>2 DEF ObsInv, OrderInv, AuthenticatedIsConnected
    <3> QED BY <3>1, <3>2
  <2> QED BY <1>0, <2>4, <2>11, <2>12 DEF Transitioned, ObsInv, ObsTypes
<1> QED BY <1>1, <1>2 DEF Record

LEMMA TerminateTransition ==
    ASSUME ObservationConstants, ObsInv, Terminate
    PROVE  /\ Transitioned /\ status' = "ended" /\ \A k \in Pairs : verified'[k] = None
           /\ \A p \in Peers : connections'[p] = {}
<1> DEFINE A == {k \in Pairs : Visible(k) # Unseen}
           G == {Gone(k) : k \in A}
<1>1. /\ batch' = <<G, {StatusChanged}>> /\ status' = "ended"
      /\ connections' = [p \in Peers |-> {}] /\ verified' = [k \in Pairs |-> None]
  BY DEF Terminate
<1>2. A \in SUBSET Pairs /\ A \subseteq {k \in Pairs : verified[k] # None}
      /\ \A k \in Pairs : k \notin A => Visible(k) = Unseen
  BY VisibleFacts DEF ObsInv
<1> HIDE DEF A
<1>3. /\ G \in SUBSET Events
      /\ \A e \in G : e # StatusChanged /\ e.key \in A /\ e = Gone(e.key)
      /\ \A k \in Pairs : (\E e \in G : IsAbout(e, k)) <=> k \in A
  BY <1>2, GoneSet
<1>4. \A k \in A : Gone(k) \in G
  OBVIOUS
<1> HIDE DEF G
<1>5. batch'[1] = G /\ batch'[2] = {StatusChanged} /\ batch' \in (SUBSET Events) \X (SUBSET Events)
  BY <1>1, <1>3, EventFacts
<1>6. \A k \in Pairs : Gone(k) \in G <=> k \in A
  BY <1>3, <1>4, EventFacts
<1>7. /\ \A k \in Pairs : verified'[k] = None /\ \A p \in Peers : connections'[p] = {}
      /\ verified' \in [Pairs -> Untils \cup {None}] /\ connections' \in [Peers -> SUBSET Ids]
  BY <1>1
<1>8. \A k \in Pairs : Visible(k)' = Unseen
  BY <1>7 DEF Visible
<1>9. Outcome(A)
  BY <1>2, <1>3, <1>5, <1>6, <1>8 DEF Outcome, IsAbout
<1>10. AuthenticatedIsConnected'
  BY <1>7 DEF AuthenticatedIsConnected
<1> QED BY <1>1, <1>7, <1>9, <1>10 DEF Transitioned

\* Which operation an actor may be in, with what it was given
LEMMA CallFields ==
    ASSUME ObsInv, NEW a \in Actors
    PROVE  /\ call[a].op = "established" => call[a].peer \in Peers /\ call[a].id \in Ids
           /\ call[a].op = "closed" => call[a].peer \in Peers
           /\ call[a].op = "authenticated" => call[a].key \in Pairs /\ call[a].until \in Untils
           /\ call[a].op = "terminate" => a = Node
<1>1. CASE a = Node
  BY <1>1 DEF ObsInv, ObsTypes, NodeCalls, Idle
<1>2. CASE a = Reader
  BY <1>2 DEF ObsInv, ObsTypes, ReaderCalls, Idle
<1>3. CASE a \in Streams
  BY <1>3 DEF ObsInv, ObsTypes, StreamCalls, Idle
<1> QED BY <1>1, <1>2, <1>3 DEF Actors

LEMMA EnterKeeps ==
    ASSUME ObservationConstants, ObsInv, NEW a \in Actors, Enter(a)
    PROVE  ObsInv'
<1> DEFINE c == call[a]
<1>1. /\ owner = Free /\ (status = "running" \/ c.op = "expire") /\ Transition(c) /\ owner' = a
      /\ UNCHANGED <<now, call, driver, changed, queue, lagged, follower, told>>
  BY DEF Enter, channel
<1>2. batch = NoBatch /\ a # Free /\ Node \in Actors
  BY <1>1 DEF ObsInv, OrderInv, ObservationConstants, Actors, Node, Reader, Free
<1>3. /\ c.op = "established" => c.peer \in Peers /\ c.id \in Ids
      /\ c.op = "closed" => c.peer \in Peers
      /\ c.op = "authenticated" => c.key \in Pairs /\ c.until \in Untils
      /\ c.op = "terminate" => a = Node
  BY CallFields
<1> HIDE DEF c
<1>4. /\ Transitioned
      /\ c.op = "terminate" => /\ status' = "ended" /\ \A k \in Pairs : verified'[k] = None
                               /\ \A p \in Peers : connections'[p] = {}
      /\ c.op # "terminate" => UNCHANGED status
      /\ c.op \in {"established", "expire"} => OnlyPrunes
      /\ c.op = "expire" => batch' = <<PrunedEvents(c.at), {}>> /\ UNCHANGED connections
      /\ c.op \in {"established", "closed", "authenticated", "terminate", "expire"}
  <2>1. CASE c.op = "established" /\ ConnectionEstablished(c)
    BY <1>3, <2>1, EstablishedTransition
  <2>2. CASE c.op = "closed" /\ ConnectionClosed(c)
    BY <1>3, <2>2, ClosedTransition
  <2>3. CASE c.op = "authenticated" /\ Record(c)
    BY <1>3, <2>3, RecordTransition
  <2>4. CASE c.op = "terminate" /\ Terminate
    BY <2>4, TerminateTransition
  <2>5. CASE c.op = "expire" /\ Expire(c)
    BY <2>5, PruneTransition DEF Expire
  <2> QED BY <1>1, <2>1, <2>2, <2>3, <2>4, <2>5 DEF Transition
<1>5. PICK A : Outcome(A)
  BY <1>4 DEF Transitioned
<1>6. ObsTypes'
  BY <1>1, <1>4, <1>5 DEF Transitioned, Outcome, ObsInv, ObsTypes
<1>7. BatchInv'
  BY <1>1, <1>5, OutcomeKeeps
<1>8. FollowInv'
  <2> SUFFICES ASSUME NEW k \in Pairs PROVE FollowsK(k)'
    BY DEF FollowInv
  <2>1. ~Pending(k)
    BY <1>2 DEF Pending, NoBatch
  <2> QED BY <1>1, <2>1 DEF ObsInv, FollowInv, FollowsK
<1>9. DriverInv'
  <2>1. CASE c.op \in {"established", "expire"}
    BY <1>1, <1>4, <2>1 DEF ObsInv, DriverInv, Armed, OnlyPrunes
  <2>2. CASE c.op \in {"closed", "authenticated", "terminate"}
    BY <1>1, <1>2, <2>2 DEF DriverInv, Bumps, c
  <2> QED BY <1>4, <2>1, <2>2
<1>10. OrderInv'
  <2>1. AuthenticatedIsConnected'
    BY <1>4 DEF Transitioned
  <2>2. owner' # Free /\ call'[owner'] # Idle /\ call'[owner'].op # "over"
    <3>1. Idle.op = "idle"
      BY DEF Idle
    <3> QED BY <1>1, <1>2, <1>4, <3>1 DEF c
  <2>3. ASSUME status' = "ended"
        PROVE  /\ \A k \in Pairs : verified'[k] = None
               /\ \A p \in Peers : connections'[p] = {}
               /\ call'[Node].op = "over" \/ (owner' = Node /\ call'[Node].op = "terminate")
    <3>1. CASE c.op = "terminate"
      BY <1>1, <1>3, <1>4, <3>1 DEF c
    <3>2. CASE c.op # "terminate"
      <4>1. status = "ended" /\ c.op = "expire"
        BY <1>1, <1>4, <2>3, <3>2
      <4>2. call[Node].op = "over" /\ owner # Node
        BY <1>1, <4>1 DEF ObsInv, OrderInv, Free, Node
      <4> QED BY <1>1, <1>4, <4>1, <4>2 DEF ObsInv, OrderInv, OnlyPrunes
    <3> QED BY <3>1, <3>2
  <2>4. ASSUME call'[Node].op = "over" PROVE status' = "ended" /\ batch' = NoBatch
    <3>1. status = "ended" /\ c.op = "expire"
      BY <1>1, <2>4 DEF ObsInv, OrderInv
    <3>2. \A k \in Pairs : verified[k] = None
      BY <3>1 DEF ObsInv, OrderInv
    <3>3. PrunedEvents(c.at) = {}
      BY <3>2 DEF PrunedEvents, Expired
    <3> QED BY <1>4, <3>1, <3>3 DEF NoBatch
  <2>5. call'[Node].op = "terminate" /\ owner' = Node => status' = "ended"
    BY <1>1, <1>4 DEF c
  <2>6. call'[Reader] # Idle => follower'.pc = "ask"
    BY <1>1 DEF ObsInv, OrderInv
  <2> QED BY <2>1, <2>2, <2>3, <2>4, <2>5, <2>6 DEF OrderInv
<1> QED BY <1>6, <1>7, <1>8, <1>9, <1>10 DEF ObsInv

LEMMA ObsStep ==
    ASSUME ObservationConstants, ObsInv, [Next]_vars
    PROVE  ObsInv'
<1>1. CASE UNCHANGED vars
  <2>1. ObsTypes'
    BY <1>1 DEF vars, ObsInv, ObsTypes
  <2>2. OrderInv'
    BY <1>1 DEF vars, ObsInv, OrderInv, AuthenticatedIsConnected
  <2>3. BatchInv' /\ FollowInv'
    BY <1>1, BatchFrame, FollowFrame DEF vars, channel, ObsInv
  <2>4. DriverInv'
    BY <1>1 DEF vars, ObsInv, DriverInv, Armed
  <2> QED BY <2>1, <2>2, <2>3, <2>4 DEF ObsInv
<1>2. CASE Next
  BY <1>2, EstablishedKeeps, EndsKeeps, AuthenticatedKeeps, TooLateKeeps, DriverReadsKeeps, DriverWakesKeeps,
     DriverNoticesKeeps, EnterKeeps, SendKeeps, LeaveKeeps, AskKeeps, ReadKeeps, RecvKeeps, LaggedKeeps,
     CancelledKeeps DEF Next
<1> QED BY <1>1, <1>2

LEMMA ObsInvariant ==
    ASSUME ObservationConstants
    PROVE  Spec => []ObsInv
<1>1. Init => ObsInv
  BY InitObs
<1>2. ObsInv /\ [Next]_vars => ObsInv'
  BY ObsStep
<1> QED BY <1>1, <1>2, PTL DEF Spec

LEMMA ObsFacts ==
    ASSUME ObservationConstants, ObsInv
    PROVE  TypeOK /\ AuthenticatedIsConnected /\ EventsAddUp /\ FollowerAgrees /\ DriverIsArmed
<1>1. TypeOK
  <2>1. \A a \in Actors : call[a].op \in {"idle", "established", "closed", "terminate", "over",
                                          "authenticated", "expire"}
    <3>1. \A c \in NodeCalls \cup ReaderCalls \cup StreamCalls :
             c.op \in {"idle", "established", "closed", "terminate", "over", "authenticated", "expire"}
      BY DEF NodeCalls, ReaderCalls, StreamCalls, Idle
    <3> QED BY <3>1 DEF ObsInv, ObsTypes, Actors
  <2>2. \A i \in 1..2 : batch[i] \subseteq Events
    BY DEF ObsInv, ObsTypes
  <2>3. \A i \in DOMAIN queue : queue[i] \in Events
    BY ElementOfSeq, LenProperties DEF ObsInv, ObsTypes
  <2> QED BY <2>1, <2>2, <2>3 DEF ObsInv, ObsTypes, TypeOK
<1>2. owner = Free => \A k \in Pairs : told[k] = Visible(k) /\ ~Pending(k)
  BY DEF ObsInv, OrderInv, BatchInv, AddsUp, Pending, NoBatch
<1>3. AuthenticatedIsConnected /\ EventsAddUp
  BY <1>2 DEF ObsInv, OrderInv, EventsAddUp
<1>4. FollowerAgrees
  <2> SUFFICES ASSUME owner = Free, follower.pc = "recv", queue = <<>>, ~lagged, NEW p \in Peers
               PROVE  follower.view[p] = Visible(<<p, Own>>).until
    BY DEF FollowerAgrees
  <2> DEFINE k == <<p, Own>>
  <2>1. k \in Pairs /\ k[2] = Own /\ k[1] = p
    BY OwnIsADomain
  <2> HIDE DEF k
  <2>2. FollowsK(k) /\ told[k] = Visible(k) /\ ~Pending(k)
    BY <1>2, <2>1 DEF ObsInv, FollowInv
  <2>3. follower.view[p] = told[k].until
    BY <2>1, <2>2 DEF FollowsK
  <2> QED BY <2>2, <2>3 DEF k
<1>5. DriverIsArmed
  BY DEF ObsInv, DriverInv, Armed, DriverIsArmed
<1> QED BY <1>1, <1>3, <1>4, <1>5

\* Of a node's observations: an authentication is shown while its peer is connected, events
\* and snapshots add up for a follower, and no expiry goes unnoticed
LEMMA ObservationsCorrect ==
    ASSUME ObservationConstants
    PROVE  Spec => [](TypeOK /\ AuthenticatedIsConnected /\ EventsAddUp /\ FollowerAgrees /\ DriverIsArmed)
<1>1. ObsInv => TypeOK /\ AuthenticatedIsConnected /\ EventsAddUp /\ FollowerAgrees /\ DriverIsArmed
  BY ObsFacts
<1> QED BY <1>1, ObsInvariant, PTL

LEMMA SendAlternates ==
    ASSUME ObsInv, NEW e \in batch[1] \cup batch[2], Send(e), e # StatusChanged
    PROVE  (e.kind = "appeared") = (told[e.key] = Unseen) /\ call[Node].op # "over"
<1>0. e \in Sightings /\ e.key \in Pairs
  BY EventFacts DEF ObsInv, ObsTypes
<1>1. call[Node].op # "over"
  BY DEF ObsInv, OrderInv, NoBatch
<1>2. AddsUp(e.key) /\ IsAbout(e, e.key)
  BY <1>0 DEF ObsInv, BatchInv, IsAbout
<1>3. CASE e \in batch[1]
  <2>1. e = Gone(e.key)
    BY <1>3 DEF ObsInv, BatchInv
  <2>2. e.kind = "disappeared"
    BY <1>0, <2>1, EventFacts
  <2>3. told[e.key] # Unseen
    BY <1>2, <1>3, <2>1 DEF AddsUp
  <2> QED BY <1>1, <2>2, <2>3
<1>4. CASE e \notin batch[1]
  <2>1. batch[1] = {} /\ e \in batch[2]
    BY <1>4 DEF Send
  <2> QED BY <1>1, <1>2, <2>1 DEF AddsUp
<1> QED BY <1>3, <1>4

\* A peer is reported to appear only while it is gone, and nothing follows the node's end
LEMMA EventsCorrectlyAlternate ==
    ASSUME ObservationConstants
    PROVE  Spec => EventsAlternate
<1>1. ObsInv /\ [Next]_vars =>
        [\A e \in batch[1] \cup batch[2] :
          Send(e) /\ e # StatusChanged
              => /\ (e.kind = "appeared") = (told[e.key] = Unseen)
                 /\ call[Node].op # "over"]_vars
  BY SendAlternates
<1> QED BY <1>1, ObsInvariant, PTL DEF Spec, EventsAlternate
=============================================================================
