--------------------------- MODULE RelayReservations ---------------------------
(***************************************************************************)
(* Reservations at one relay, as the swarm task keeps them: the            *)
(* correlation of listener, connection and acceptance with a generation    *)
(* (core/auki-p2p/src/relay.rs), the runtime around it with its            *)
(* cancellation barrier, dials and waiting callers (transport.rs), and the *)
(* wrapper that stamps the opaque actions of libp2p's relay client         *)
(* (relay_client.rs).  Relays are independent of each other.               *)
(*                                                                         *)
(* Events of the swarm and commands of callers are handled one at a time   *)
(* by one task: each is an action.  What only libp2p decides (when a       *)
(* connection closes, what the relay answers) is nondeterministic.         *)
(***************************************************************************)
EXTENDS Naturals, Sequences, FiniteSets, SequencesExt

CONSTANTS
    Callers,    \* tasks that reserve
    MaxGen,     \* bound on generations
    MaxConn,    \* bound on connections to the relay
    MaxQueued   \* bound on handler events queued in the relay client

Gens == 1..MaxGen
ConnIds == 1..MaxConn

\* What the theorems ask of the constants
ReservationConstants == MaxGen \in Nat /\ MaxConn \in Nat /\ MaxQueued \in Nat

VARIABLES
    node,       \* ReservationRuntime, and what it drives: the swarm and the wrapper
    call,       \* per caller: start, wait or cancel of a reservation
    upq,        \* requests queued for the relay client: its listeners', circuits'
    wire,       \* per connection: the generation that asked there, and was accepted
    contexts,   \* handler_contexts, with the acceptance each belongs to
    circuit,    \* a circuit dial through the relay
    nextConn    \* fresh connection ids

vars == <<node, call, upq, wire, contexts, circuit, nextConn>>

NoEntry == [gen |-> 0, state |-> "none", conn |-> 0, terminal |-> FALSE,
            heard |-> FALSE, shut |-> FALSE, accepted |-> FALSE]
NoBarrier == [gen |-> 0, pending |-> {}, canceled |-> FALSE, dispatched |-> FALSE]
NoDispatch == [gen |-> 0, conn |-> 0, canceled |-> FALSE]
NoCall == [pc |-> "idle", conn |-> 0, gen |-> 0]
NoRequest == [gen |-> 0, accepted |-> FALSE]

Init ==
    /\ node = [conns |-> <<>>, closing |-> {}, dials |-> {}, entry |-> NoEntry,
               latest |-> 0, barrier |-> NoBarrier, dispatch |-> NoDispatch,
               listener |-> [g \in Gens |-> "none"],
               by |-> [c \in ConnIds |-> 0], queued |-> <<>>,
               rejected |-> {}, closures |-> {}, start |-> 0]
    /\ call = [k \in Callers |-> NoCall]
    /\ upq = <<>> /\ contexts = <<>> /\ circuit = "idle" /\ nextConn = 1
    /\ wire = [c \in ConnIds |-> NoRequest]

Open(n) == {n.conns[i].id : i \in DOMAIN n.conns}

\* connections.remove(position)
Without(conns, c) == RemoveAt(conns, CHOOSE i \in DOMAIN conns : conns[i].id = c)

-----------------------------------------------------------------------------
(* Answers to callers *)

\* Every caller in pc for generation g gets an answer and is in pc "to" with it
Answer(calls, pc, g, to) ==
    [k \in Callers |-> IF calls[k].pc # pc \/ calls[k].gen # g THEN calls[k]
                       ELSE IF to = "idle" THEN NoCall ELSE [calls[k] EXCEPT !.pc = to]]

FailStart(calls, g) == Answer(calls, "starting", g, "idle")
FailWait(calls, g) == Answer(calls, "waiting", g, "held")

-----------------------------------------------------------------------------
(* The cancellation of a generation *)

\* Mutant: the barrier does not wait for connections
BarrierDoneEarly(n) == n.barrier.gen # 0 /\ n.barrier.canceled /\ n.barrier.dispatched

BarrierDone(n) ==
    n.barrier.gen # 0 /\ n.barrier.canceled /\ n.barrier.dispatched /\ n.barrier.pending = {}

\* maybe_finish_cancellation
Settle(n, calls) ==
    IF BarrierDone(n)
      THEN /\ node' = [n EXCEPT !.barrier = NoBarrier]
           /\ call' = FailWait(Answer(calls, "canceling", n.barrier.gen, "idle"), n.barrier.gen)
      ELSE node' = n /\ call' = calls

\* cancellation_complete and RelayReservationEvent::Canceled
Completed(n) ==
    IF n.entry.gen # 0 /\ n.entry.state = "canceling" /\ n.entry.shut /\ n.entry.terminal
      THEN [n EXCEPT !.entry = NoEntry,
                     !.barrier = IF @.gen = 0
                                   THEN [NoBarrier EXCEPT !.gen = n.entry.gen, !.canceled = TRUE,
                                                          !.dispatched = TRUE]
                                   ELSE [@ EXCEPT !.canceled = TRUE]]
      ELSE n

\* queued_actions.retain: poll asks for more only when the queue is empty, so that it
\* holds one action at most
Retained(queue, g) == IF queue # <<>> /\ Head(queue).gen = g THEN Tail(queue) ELSE queue

\* fence_dispatch
Fenced(n, g) ==
    [n EXCEPT !.dispatch = IF @.gen = g THEN [@ EXCEPT !.canceled = TRUE] ELSE @,
              !.by = [c \in ConnIds |-> IF n.by[c] = g THEN 0 ELSE n.by[c]],
              !.queued = Retained(@, g)]

ToClose(n) == Open(n)

\* start_teardown of a canceling entry: the dispatch is fenced, the listener
\* removed, every direct connection closed, and what is gone already is noted
Teardown(n) ==
    LET g == n.entry.gen
        f == Fenced(n, g)
        listener == [n.listener EXCEPT ![g] = IF @ = "open" THEN "removing" ELSE @]
        entry == [n.entry EXCEPT !.shut = @ \/ n.listener[g] \notin {"open", "removing"},
                                 !.terminal = @ \/ n.entry.conn \notin Open(n)]
        barrier == [gen |-> g, pending |-> n.barrier.pending \cup Open(n) \cup n.dials,
                    canceled |-> n.barrier.canceled,
                    dispatched |-> n.barrier.dispatched \/ n.dispatch.gen # g]
    IN  Completed([f EXCEPT !.start = IF @ = g THEN 0 ELSE @, !.barrier = barrier,
                            !.listener = listener, !.closing = @ \cup ToClose(n),
                            !.entry = entry])

\* Mutant: a published generation outlives its connection and its listener
CancelingAwaiting(n) ==
    IF n.entry.state # "awaiting" THEN Completed(n)
    ELSE Teardown([n EXCEPT !.entry.state = "canceling"])

\* A live generation starts canceling; one that already is only progresses
Canceling(n) ==
    IF n.entry.state = "canceling" THEN Completed(n)
    ELSE Teardown([n EXCEPT !.entry.state = "canceling"])

\* cancel(handle) and the event it returns; a stale handle is refused
Cancel(n, g) ==
    IF n.entry.gen = g /\ g # 0 THEN Teardown([n EXCEPT !.entry.state = "canceling"]) ELSE n

\* Starts fail as soon as their generation is torn down
Settled(n, calls) == Settle(n, IF node.start # 0 /\ n.start = 0 THEN FailStart(calls, node.start) ELSE calls)

-----------------------------------------------------------------------------
(* Dials and connections *)

\* selected_direct_connection: the first connection counts, if it was dialled here
Selected(n) ==
    IF n.conns = <<>> THEN "none" ELSE IF n.conns[1].ours THEN "first" ELSE "mismatch"

\* SelectRelayConnection of start_relay_reservation
Select(k) ==
    /\ call[k].pc = "idle" /\ node.latest < MaxGen
    /\ \/ /\ node.barrier.gen = 0 /\ Selected(node) = "first"
          /\ call' = [call EXCEPT ![k] = [pc |-> "selected", conn |-> node.conns[1].id, gen |-> 0]]
          /\ UNCHANGED <<node, nextConn>>
       \/ /\ node.barrier.gen = 0 /\ Selected(node) = "none" /\ nextConn <= MaxConn
          /\ call' = [call EXCEPT ![k] = [pc |-> "dialing", conn |-> nextConn, gen |-> 0]]
          /\ node' = [node EXCEPT !.dials = @ \cup {nextConn}]
          /\ nextConn' = nextConn + 1
    /\ UNCHANGED <<upq, wire, contexts, circuit>>

\* A direct connection is recorded; the barrier closes the ones that come late
Arrived(n, c, ours) ==
    LET m == [n EXCEPT !.conns = Append(@, [id |-> c, ours |-> ours])]
    IN  IF n.barrier.gen # 0
          THEN [m EXCEPT !.barrier.pending = @ \cup {c}, !.closing = @ \cup {c}]
          ELSE m

\* ConnectionEstablished of a dial: whoever asked gets the first connection
Established(c) ==
    /\ c \in node.dials
    /\ LET m == Arrived([node EXCEPT !.dials = @ \ {c}], c, TRUE)
           asked == \E k \in Callers : call[k].pc = "dialing" /\ call[k].conn = c
           first == m.conns[1].id
           keep == Selected(m) = "first" /\ first = c /\ asked
       IN  /\ node' = IF keep THEN m ELSE [m EXCEPT !.closing = @ \cup {c}]
           /\ call' = [k \in Callers |->
                         IF call[k].pc = "dialing" /\ call[k].conn = c
                           THEN IF Selected(m) = "first"
                                  THEN [call[k] EXCEPT !.pc = "selected", !.conn = first]
                                  ELSE NoCall
                           ELSE call[k]]
    /\ UNCHANGED <<upq, wire, contexts, circuit, nextConn>>

\* A connection nobody here dialled
ConnectionArrives ==
    /\ nextConn <= MaxConn
    /\ node' = Arrived(node, nextConn, FALSE)
    /\ nextConn' = nextConn + 1
    /\ UNCHANGED <<call, upq, wire, contexts, circuit>>

\* OutgoingConnectionError
DialFails(c) ==
    /\ c \in node.dials
    /\ Settle([node EXCEPT !.dials = @ \ {c}, !.barrier.pending = @ \ {c}],
              [k \in Callers |-> IF call[k].pc = "dialing" /\ call[k].conn = c THEN NoCall ELSE call[k]])
    /\ UNCHANGED <<upq, wire, contexts, circuit, nextConn>>

\* ConnectionClosed: the wrapper forgets the connection, then record_connection_closed
ConnectionClosed(c) ==
    /\ c \in Open(node)
    /\ LET m == [node EXCEPT !.conns = Without(@, c),
                             !.closing = @ \ {c}, !.barrier.pending = @ \ {c}, !.by[c] = 0]
           g == node.entry.gen
       IN  IF g # 0 /\ node.entry.conn = c
             THEN Settled(Canceling([m EXCEPT !.entry.terminal = TRUE, !.closures = @ \cup {g}]),
                          FailWait(call, g))
             ELSE Settled(m, call)
    /\ wire' = [wire EXCEPT ![c] = NoRequest]
    /\ UNCHANGED <<upq, contexts, circuit, nextConn>>

-----------------------------------------------------------------------------
(* Reservations: the commands *)

MayBegin(k) ==
    /\ call[k].conn \in Open(node) /\ circuit # "pending"
    /\ node.entry.gen = 0 /\ node.barrier.gen = 0 /\ node.latest < MaxGen

\* BeginReservation on the connection selected before
Begin(k) ==
    /\ call[k].pc = "selected"
    /\ IF ~MayBegin(k)
         THEN call' = [call EXCEPT ![k] = NoCall] /\ UNCHANGED <<node, upq>>
         ELSE LET g == node.latest + 1 IN
              /\ node' = [node EXCEPT
                     !.entry = [NoEntry EXCEPT !.gen = g, !.state = "awaiting", !.conn = call[k].conn],
                     !.latest = g, !.listener[g] = "open", !.start = g,
                     !.rejected = {}, !.closures = {},
                     !.dispatch = [gen |-> g, conn |-> call[k].conn, canceled |-> FALSE]]
              /\ upq' = Append(upq, [kind |-> "listen", gen |-> g])
              /\ call' = [call EXCEPT ![k].pc = "starting", ![k].gen = g]
    /\ UNCHANGED <<wire, contexts, circuit, nextConn>>

\* WaitReservation
Wait(k) ==
    /\ call[k].pc = "held"
    /\ call' = IF \/ call[k].gen \in node.rejected \cup node.closures
                  \/ node.entry.gen # call[k].gen
                  \/ node.entry.state \notin {"publishable", "awaiting"}
                 THEN call
                 ELSE [call EXCEPT ![k].pc =
                         IF node.entry.state = "publishable" THEN "confirmed" ELSE "waiting"]
    /\ UNCHANGED <<node, upq, wire, contexts, circuit, nextConn>>

\* CancelReservation: joins a cancellation that runs, starts one, or is refused
CancelReservation(k) ==
    /\ call[k].pc \in {"held", "waiting", "confirmed"}
    /\ LET g == call[k].gen
           calls == [call EXCEPT ![k].pc = "canceling"]
       IN  IF node.barrier.gen = g THEN Settled(node, calls)
           ELSE IF node.entry.gen = g THEN Settled(Cancel(node, g), calls)
           ELSE call' = [call EXCEPT ![k] = NoCall] /\ UNCHANGED node
    /\ UNCHANGED <<upq, wire, contexts, circuit, nextConn>>

\* The caller's future is dropped; who waits for a confirmation keeps the handle
Abandon(k) ==
    /\ call[k].pc \in {"dialing", "selected", "starting", "waiting"}
    /\ call' = [call EXCEPT ![k] = IF @.pc = "waiting" THEN [@ EXCEPT !.pc = "held"] ELSE NoCall]
    /\ UNCHANGED <<node, upq, wire, contexts, circuit, nextConn>>

-----------------------------------------------------------------------------
(* Reservations: the events *)

\* maybe_publish
Published(n) ==
    IF n.entry.state = "awaiting" /\ n.entry.accepted /\ n.entry.heard
      THEN [n EXCEPT !.entry.state = "publishable"] ELSE n

Publish(n) ==
    /\ node' = Published(n)
    /\ call' = IF Published(n) # n THEN Answer(call, "waiting", n.entry.gen, "confirmed") ELSE call

\* NewListenAddr, once the relay has accepted
ListenerAddress(g) ==
    /\ node.listener[g] = "open"
    /\ \E c \in ConnIds : wire[c] = [gen |-> g, accepted |-> TRUE]
    /\ node.entry.gen = g /\ node.entry.state # "canceling" /\ ~node.entry.heard
    /\ Publish([node EXCEPT !.entry.heard = TRUE])
    /\ UNCHANGED <<upq, wire, contexts, circuit, nextConn>>

\* ListenerClosed: after remove_listener, or with an error of its own
ListenerClosed(g) ==
    /\ node.listener[g] \in {"open", "removing"}
    /\ LET failed == node.listener[g] = "open"
           m == [node EXCEPT !.listener[g] = "closed"]
       IN  IF node.entry.gen = g
             THEN Settled(Canceling([m EXCEPT !.entry.shut = TRUE,
                                              !.closures = IF failed THEN @ \cup {g} ELSE @]),
                          IF failed THEN FailWait(call, g) ELSE call)
             ELSE Settled(m, call)
    /\ UNCHANGED <<upq, wire, contexts, circuit, nextConn>>

-----------------------------------------------------------------------------
(* The wrapper of the relay client *)

\* ReservationDispatchFailed
DispatchFailed(n, g) ==
    Cancel([n EXCEPT !.barrier.dispatched = @ \/ n.barrier.gen = g,
                     !.start = IF @ = g THEN 0 ELSE @], g)

\* The action that reaches the handler of a connection: a reservation is stamped
\* and answered first, and goes out with the next poll
Dispatched(n, item, c, calls) ==
    LET g == n.dispatch.gen
        alive == \E k \in Callers : calls[k].pc = "starting" /\ calls[k].gen = g
        m == [n EXCEPT !.dispatch = NoDispatch, !.start = IF @ = g THEN 0 ELSE @,
                       !.by[c] = g, !.queued = Append(@, [gen |-> g, conn |-> c, item |-> item])]
    IN  /\ node' = IF n.start = g /\ ~alive THEN Cancel(m, g) ELSE m
        /\ call' = Answer(calls, "starting", g, "held")

Handled(w, item, c) == IF item.kind = "listen" THEN [w EXCEPT ![c] = [gen |-> item.gen, accepted |-> FALSE]] ELSE w

\* intercept: the relay client turns its next request into NotifyHandler for the
\* first direct connection, or into a hidden dial.  A pending dispatch takes either.
Intercept ==
    /\ node.queued = <<>> /\ upq # <<>>
    /\ upq' = Tail(upq)
    /\ LET item == Head(upq)
           d == node.dispatch
           open == node.conns # <<>>
           c == node.conns[1].id
           m == [node EXCEPT !.dispatch = NoDispatch]
       IN  CASE d.gen # 0 /\ (~open \/ d.canceled \/ c # d.conn) ->
                  Settled(DispatchFailed(m, d.gen), call) /\ UNCHANGED <<wire, circuit>>
             [] d.gen # 0 /\ open /\ ~d.canceled /\ c = d.conn ->
                  Dispatched(node, item, c, call) /\ UNCHANGED <<wire, circuit>>
             [] OTHER ->
                  /\ wire' = IF open THEN Handled(wire, item, c) ELSE wire
                  /\ circuit' = IF item.kind = "circuit" THEN "idle" ELSE circuit
                  /\ UNCHANGED <<node, call>>
    /\ UNCHANGED <<contexts, nextConn>>

\* poll: queued actions go first
Deliver ==
    /\ node.queued # <<>>
    /\ LET q == Head(node.queued) IN
       /\ wire' = IF q.conn \in Open(node) THEN Handled(wire, q.item, q.conn) ELSE wire
       /\ circuit' = IF q.item.kind = "circuit" THEN "idle" ELSE circuit
    /\ node' = [node EXCEPT !.queued = Tail(@)]
    /\ UNCHANGED <<call, upq, contexts, nextConn>>

\* on_connection_handler_event: the generation dispatched on this connection
Stamp(c) == node.by[c]

\* The relay accepts, or renews, with the booked limits or others
RelayAccepts(c) ==
    /\ c \in Open(node) /\ wire[c].gen # 0 /\ Len(contexts) < MaxQueued
    /\ \E good \in BOOLEAN :
          contexts' = Append(contexts, [handle |-> Stamp(c), from |-> wire[c].gen,
                                        renewal |-> wire[c].accepted, good |-> good])
    /\ wire' = [wire EXCEPT ![c].accepted = TRUE]
    /\ UNCHANGED <<node, call, upq, circuit, nextConn>>

\* Mutant: the acceptance goes to whatever generation is current when it is read
HandleOfCurrent(e) == node.entry.gen

HandleOf(e) == e.handle

\* ReservationReqAccepted with its stamp: observe_acceptance
Accepted ==
    /\ node.queued = <<>> /\ contexts # <<>>
    /\ contexts' = Tail(contexts)
    /\ LET e == Head(contexts)
           g == HandleOf(e)
           live == g # 0 /\ node.entry.gen = g /\ node.entry.state # "canceling"
           valid == e.good /\ (e.renewal <=> node.entry.accepted)
       IN  CASE ~live -> UNCHANGED <<node, call>>
             [] live /\ ~valid ->
                  Settled(Canceling([node EXCEPT !.rejected = @ \cup {g}]), FailWait(call, g))
             [] live /\ valid /\ e.renewal -> UNCHANGED <<node, call>>
             [] OTHER -> Publish([node EXCEPT !.entry.accepted = TRUE])
    /\ UNCHANGED <<upq, wire, circuit, nextConn>>

-----------------------------------------------------------------------------
(* Circuits through the same relay *)

\* source_circuit_allowed
CircuitAllowed == node.latest = 0 \/ node.entry.state = "publishable"

NoDispatchPending == node.dispatch.gen = 0 /\ node.start = 0

\* connect_relayed: the relay connection, admission, then Command::Connect
CircuitSelect ==
    /\ circuit = "idle" /\ CircuitAllowed /\ node.barrier.gen = 0 /\ Selected(node) = "first"
    /\ circuit' = "selected"
    /\ UNCHANGED <<node, call, upq, wire, contexts, nextConn>>

CircuitConnect ==
    /\ circuit = "selected"
    /\ IF CircuitAllowed /\ NoDispatchPending
         THEN circuit' = "pending" /\ upq' = Append(upq, [kind |-> "circuit", gen |-> 0])
         ELSE circuit' = "idle" /\ UNCHANGED upq
    /\ UNCHANGED <<node, call, wire, contexts, nextConn>>

-----------------------------------------------------------------------------

Next ==
    \/ \E k \in Callers : Select(k) \/ Begin(k) \/ Wait(k) \/ CancelReservation(k) \/ Abandon(k)
    \/ \E c \in ConnIds : \/ Established(c) \/ DialFails(c) \/ ConnectionClosed(c) \/ RelayAccepts(c)
    \/ \E g \in Gens : ListenerAddress(g) \/ ListenerClosed(g)
    \/ ConnectionArrives \/ Intercept \/ Deliver \/ Accepted \/ CircuitSelect \/ CircuitConnect

Spec == Init /\ [][Next]_vars

\* The swarm task is polled: dials end, what was told to close closes, and the
\* relay client works off its queues.
Fairness ==
    /\ \A c \in ConnIds : WF_vars(Established(c) \/ DialFails(c))
    /\ \A c \in ConnIds : WF_vars(c \in node.closing /\ ConnectionClosed(c))
    /\ \A g \in Gens : WF_vars(node.listener[g] = "removing" /\ ListenerClosed(g))
    /\ WF_vars(Intercept \/ Deliver) /\ WF_vars(Accepted)

FairSpec == Spec /\ Fairness

-----------------------------------------------------------------------------
(* Properties *)

TypeOK ==
    /\ node.entry.gen \in 0..MaxGen /\ node.entry.conn \in 0..MaxConn
    /\ node.entry.state \in {"none", "awaiting", "publishable", "canceling"}
    /\ node.closing \subseteq Open(node) /\ node.dials \subseteq ConnIds
    /\ node.barrier.pending \subseteq ConnIds /\ Len(node.queued) <= 1
    /\ \A g \in Gens : node.listener[g] \in {"none", "open", "removing", "closed"}
    /\ \A k \in Callers :
          call[k].pc \in {"idle", "dialing", "selected", "starting", "held", "waiting",
                          "confirmed", "canceling"}
    /\ circuit \in {"idle", "selected", "pending"} /\ Len(contexts) <= MaxQueued

\* relay_client: a generation counts as accepted only when the relay has accepted
\* its own request, however late an acceptance was queued and whatever it replaced.
AcceptanceIsOwn ==
    node.entry.accepted /\ node.entry.conn \in Open(node) =>
        wire[node.entry.conn] = [gen |-> node.entry.gen, accepted |-> TRUE]

\* relay.rs, transport.rs: a generation that is published stands on a connection
\* to the relay and a listener that are both still there.
PublishedIsBacked ==
    node.entry.state = "publishable" =>
        node.entry.conn \in Open(node) /\ node.listener[node.entry.gen] = "open"

\* CancellationBarrier: it is lifted only when no direct connection to the relay and
\* no dial is left, the ones that arrived while it stood included.
CancelClosesEverything ==
    [][node.barrier.gen # 0 /\ node'.barrier.gen = 0 =>
          node'.conns = <<>> /\ node'.dials = {}]_vars

\* cancel_relay_reservation returns: everything it waits to see closed closes,
\* whatever was dialled, upgraded or selected meanwhile.
CancelReturns == \A k \in Callers : (call[k].pc = "canceling") ~> (call[k].pc # "canceling")

\* start_relay_reservation returns: the outcome of the attempt reaches the
\* caller that made it, whichever event ended the attempt.
StartReturns == \A k \in Callers : (call[k].pc = "starting") ~> (call[k].pc # "starting")
=============================================================================
