----------------------- MODULE RelayReservationsProofs -----------------------
(***************************************************************************)
(* Relay reservations (transport.rs, relay_client.rs), for any callers and *)
(* any number of generations, connections and queued actions.  The         *)
(* invariant ties the generation that lives to its connection, listener    *)
(* and dispatch, one that is being cancelled to a barrier that covers      *)
(* every connection and dial, and each answer still on the wire to the     *)
(* generation that asked for it.                                           *)
(***************************************************************************)
EXTENDS RelayReservations, SequenceTheorems, TLAPS

EntryType == [gen : 0..MaxGen, state : {"none", "awaiting", "publishable", "canceling"},
              conn : 0..MaxConn, terminal : BOOLEAN, heard : BOOLEAN, shut : BOOLEAN,
              accepted : BOOLEAN]
BarrierType == [gen : 0..MaxGen, pending : SUBSET ConnIds, canceled : BOOLEAN, dispatched : BOOLEAN]
DispatchType == [gen : 0..MaxGen, conn : 0..MaxConn, canceled : BOOLEAN]
RequestType == [kind : {"listen", "circuit"}, gen : 0..MaxGen]
ActionType == [gen : 0..MaxGen, conn : 0..MaxConn, item : RequestType]
ConnType == [id : ConnIds, ours : BOOLEAN]
NodeType == [conns : Seq(ConnType), closing : SUBSET ConnIds, dials : SUBSET ConnIds,
             entry : EntryType, latest : 0..MaxGen, barrier : BarrierType, dispatch : DispatchType,
             listener : [Gens -> {"none", "open", "removing", "closed"}],
             by : [ConnIds -> 0..MaxGen], queued : Seq(ActionType),
             rejected : SUBSET (0..MaxGen), closures : SUBSET (0..MaxGen), start : 0..MaxGen]
CallType == [pc : {"idle", "dialing", "selected", "starting", "held", "waiting",
                   "confirmed", "canceling"}, conn : 0..MaxConn, gen : 0..MaxGen]

\* A generation that is neither absent nor on its way out
Live(n) == n.entry.state \in {"awaiting", "publishable"}
ListenFor(g) == [kind |-> "listen", gen |-> g]

\* Connections, dials and the barrier
ConnsInv(n) ==
    /\ \A i, j \in DOMAIN n.conns : n.conns[i].id = n.conns[j].id => i = j
    /\ n.closing \subseteq Open(n) /\ n.dials \cap Open(n) = {}
    /\ n.barrier.gen = 0 => n.barrier = NoBarrier
    /\ n.barrier.gen # 0 => Open(n) \cup n.dials \subseteq n.barrier.pending

\* The generation and the barrier that ends it
EntryInv(n) ==
    /\ n.entry.state = "none" => n.entry = NoEntry
    /\ n.entry.state # "none" =>
          n.entry.gen = n.latest /\ n.entry.gen \in Gens /\ n.entry.conn \in ConnIds \ n.dials
    /\ Live(n) =>
          n.entry.conn \in Open(n) /\ n.listener[n.entry.gen] = "open" /\ n.barrier.gen = 0
    /\ n.entry.state = "canceling" => n.barrier.gen = n.entry.gen /\ ~n.barrier.canceled
    /\ n.barrier.gen # 0 /\ ~n.barrier.canceled => n.entry.state = "canceling"

\* What the wrapper knows of a dispatch is of the generation that lives
WrapperInv(n) ==
    /\ \A c \in ConnIds : n.by[c] # 0 => Live(n) /\ n.by[c] = n.entry.gen /\ n.entry.conn = c
    /\ n.queued # <<>> =>
          /\ Live(n)
          /\ n.queued = <<[gen |-> n.entry.gen, conn |-> n.entry.conn, item |-> ListenFor(n.entry.gen)]>>
    /\ n.dispatch.gen # 0 => n.queued = <<>>
    /\ n.dispatch.gen # 0 /\ ~n.dispatch.canceled =>
          Live(n) /\ n.dispatch.gen = n.entry.gen /\ n.dispatch.conn = n.entry.conn
    /\ n.dispatch.gen # 0 /\ n.dispatch.canceled =>
          n.barrier.gen = n.dispatch.gen /\ ~n.barrier.dispatched
    /\ n.dispatch.gen = 0 => n.dispatch = NoDispatch

NodeInv(n) == n \in NodeType /\ ConnsInv(n) /\ EntryInv(n) /\ WrapperInv(n)

-----------------------------------------------------------------------------
(* Cancellation *)

\* What Teardown is given: a generation that is canceling, whatever of its connection,
\* listener, dispatch and actions is left
TornInv(n) ==
    /\ n \in NodeType /\ ConnsInv(n) /\ n.entry.state = "canceling"
    /\ n.entry.gen = n.latest /\ n.entry.gen \in Gens /\ n.entry.conn \in ConnIds \ n.dials
    /\ n.barrier.gen # 0 => n.barrier.gen = n.entry.gen /\ ~n.barrier.canceled
    /\ \A c \in ConnIds : n.by[c] # 0 => n.by[c] = n.entry.gen
    /\ n.queued # <<>> => Len(n.queued) = 1 /\ n.queued[1].gen = n.entry.gen
    /\ n.dispatch.gen # 0 =>
          /\ n.dispatch.gen = n.entry.gen /\ n.queued = <<>>
          /\ n.dispatch.canceled => n.barrier.gen = n.dispatch.gen /\ ~n.barrier.dispatched
          /\ ~n.dispatch.canceled => n.barrier.gen = 0
    /\ n.dispatch.gen = 0 => n.dispatch = NoDispatch

\* What a torn-down node keeps and what it has lost
TornDown(n, r) ==
    /\ r.conns = n.conns /\ r.dials = n.dials /\ r.latest = n.latest
    /\ r.dispatch.gen = n.dispatch.gen /\ r.queued = <<>> /\ ~Live(r)
    /\ r.barrier.gen = n.entry.gen /\ n.entry.gen # 0
    /\ r.entry.conn \in {0, n.entry.conn}
    /\ r.entry.accepted => n.entry.accepted /\ r.entry.conn = n.entry.conn /\ r.entry.gen = n.entry.gen

LEMMA CompletedIs ==
    ASSUME ReservationConstants, NEW n, n \in NodeType, EntryInv(n) \/ n.barrier.gen = n.entry.gen
    PROVE  \/ Completed(n) = n
           \/ /\ n.entry.state = "canceling" /\ n.entry.gen # 0
              /\ Completed(n) = [n EXCEPT !.entry = NoEntry, !.barrier = [n.barrier EXCEPT !.canceled = TRUE]]
<1>1. CASE ~(n.entry.gen # 0 /\ n.entry.state = "canceling" /\ n.entry.shut /\ n.entry.terminal)
  BY <1>1 DEF Completed
<1>2. CASE n.entry.gen # 0 /\ n.entry.state = "canceling" /\ n.entry.shut /\ n.entry.terminal
  <2>1. n.barrier.gen # 0
    BY <1>2 DEF EntryInv
  <2> QED BY <1>2, <2>1 DEF Completed
<1> QED BY <1>1, <1>2

LEMMA CompletedTorn ==
    ASSUME ReservationConstants, NEW n, NodeInv(n), ~Live(n)
    PROVE  /\ NodeInv(Completed(n)) /\ ~Live(Completed(n))
           /\ Completed(n).conns = n.conns /\ Completed(n).dials = n.dials /\ Completed(n).latest = n.latest
           /\ Completed(n).dispatch = n.dispatch /\ Completed(n).queued = n.queued
           /\ Completed(n).barrier.gen = n.barrier.gen
           /\ Completed(n).listener = n.listener /\ Completed(n).start = n.start
           /\ Completed(n).entry = n.entry \/ Completed(n).entry = NoEntry
<1> DEFINE r == Completed(n)
<1>0. n \in NodeType /\ n.entry \in EntryType /\ n.barrier \in BarrierType
  BY DEF NodeInv, NodeType
<1>1. CASE r = n
  BY <1>1
<1>2. CASE /\ n.entry.state = "canceling" /\ n.entry.gen # 0
           /\ r = [n EXCEPT !.entry = NoEntry, !.barrier = [n.barrier EXCEPT !.canceled = TRUE]]
  <2> DEFINE b == [n.barrier EXCEPT !.canceled = TRUE]
  <2>1. /\ NoEntry \in EntryType /\ b \in BarrierType
        /\ b.gen = n.barrier.gen /\ b.pending = n.barrier.pending /\ b.canceled /\ b.dispatched = n.barrier.dispatched
    <3>1. NoEntry \in EntryType
      BY DEF NoEntry, EntryType, ReservationConstants
    <3>2. b \in BarrierType
      BY <1>0 DEF BarrierType
    <3>3. b.gen = n.barrier.gen /\ b.pending = n.barrier.pending /\ b.canceled /\ b.dispatched = n.barrier.dispatched
      BY <1>0 DEF BarrierType
    <3> QED BY <3>1, <3>2, <3>3
  <2>a. r = [n EXCEPT !.entry = NoEntry, !.barrier = b]
    BY <1>2, Zenon
  <2> HIDE DEF r, b
  <2>2. /\ r \in NodeType
        /\ r.entry = NoEntry /\ r.barrier.gen = n.barrier.gen /\ r.barrier.pending = n.barrier.pending
        /\ r.barrier.canceled /\ r.barrier.dispatched = n.barrier.dispatched
        /\ r.conns = n.conns /\ r.dials = n.dials /\ r.latest = n.latest /\ r.dispatch = n.dispatch
        /\ r.queued = n.queued /\ r.by = n.by /\ r.closing = n.closing /\ r.listener = n.listener /\ r.start = n.start
    BY <1>0, <2>1, <2>a DEF NodeType
  <2>3. NoEntry.state = "none"
    BY DEF NoEntry
  <2>4. n.barrier.gen # 0
    BY <1>2 DEF NodeInv, EntryInv
  <2>5. ConnsInv(r)
    BY <2>2, <2>4 DEF NodeInv, ConnsInv, Open
  <2>6. EntryInv(r)
    BY <2>2, <2>3 DEF EntryInv, Live
  <2>7. WrapperInv(r)
    BY <2>2, <2>3 DEF NodeInv, WrapperInv, Live
  <2> QED BY <2>2, <2>3, <2>5, <2>6, <2>7 DEF NodeInv, Live, r
<1> QED BY <1>0, <1>1, <1>2, CompletedIs DEF NodeInv

LEMMA FencedIs ==
    ASSUME ReservationConstants, NEW n, TornInv(n)
    PROVE  LET f == Fenced(n, n.entry.gen) IN
           /\ f \in NodeType
           /\ f.conns = n.conns /\ f.closing = n.closing /\ f.dials = n.dials /\ f.entry = n.entry
           /\ f.latest = n.latest /\ f.barrier = n.barrier /\ f.listener = n.listener
           /\ f.rejected = n.rejected /\ f.closures = n.closures /\ f.start = n.start
           /\ \A c \in ConnIds : f.by[c] = 0
           /\ f.queued = <<>>
           /\ f.dispatch = IF n.dispatch.gen = 0 THEN NoDispatch ELSE [n.dispatch EXCEPT !.canceled = TRUE]
<1> DEFINE g == n.entry.gen
           b == [c \in ConnIds |-> IF n.by[c] = g THEN 0 ELSE n.by[c]]
           d == IF n.dispatch.gen = g THEN [n.dispatch EXCEPT !.canceled = TRUE] ELSE n.dispatch
           q == Retained(n.queued, g)
<1>0. n \in NodeType /\ n.dispatch \in DispatchType /\ n.by \in [ConnIds -> 0..MaxGen] /\ n.queued \in Seq(ActionType)
      /\ g \in Gens
  BY DEF TornInv, NodeType
<1>1. b \in [ConnIds -> 0..MaxGen] /\ \A c \in ConnIds : b[c] = 0
  BY <1>0 DEF TornInv, ReservationConstants
<1>2. d \in DispatchType /\ d = IF n.dispatch.gen = 0 THEN NoDispatch ELSE [n.dispatch EXCEPT !.canceled = TRUE]
  <2>1. g # 0
    BY <1>0 DEF Gens
  <2> QED BY <1>0, <2>1 DEF TornInv, DispatchType
<1>3. q = <<>>
  <2>1. CASE n.queued = <<>>
    BY <2>1 DEF Retained
  <2>2. CASE n.queued # <<>>
    <3>1. Len(n.queued) = 1 /\ n.queued[1].gen = g
      BY <2>2 DEF TornInv
    <3>2. Head(n.queued) = n.queued[1]
      BY <1>0, <3>1
    <3>3. Tail(n.queued) \in Seq(ActionType) /\ Len(Tail(n.queued)) = 0
      <4>1. Len(Tail(n.queued)) = Len(n.queued) - 1 /\ Tail(n.queued) \in Seq(ActionType)
        BY <1>0, <2>2, HeadTailProperties
      <4> QED BY <3>1, <4>1
    <3>4. Tail(n.queued) = <<>>
      BY <3>3, EmptySeq
    <3> QED BY <2>2, <3>1, <3>2, <3>4 DEF Retained
  <2> QED BY <2>1, <2>2
<1>4. Fenced(n, g) = [n EXCEPT !.dispatch = d, !.by = b, !.queued = q]
  BY <1>0 DEF Fenced, NodeType
<1> HIDE DEF b, d, q
<1>5. <<>> \in Seq(ActionType)
  OBVIOUS
<1> QED BY <1>0, <1>1, <1>2, <1>3, <1>4, <1>5 DEF NodeType

LEMMA TeardownKeeps ==
    ASSUME ReservationConstants, NEW n, TornInv(n)
    PROVE  /\ NodeInv(Teardown(n)) /\ TornDown(n, Teardown(n))
           /\ Teardown(n).start # n.start => Teardown(n).start = 0
<1> DEFINE g == n.entry.gen
           f == Fenced(n, g)
           br == [gen |-> g, pending |-> n.barrier.pending \cup Open(n) \cup n.dials,
                  canceled |-> n.barrier.canceled,
                  dispatched |-> n.barrier.dispatched \/ n.dispatch.gen # g]
           ls == [n.listener EXCEPT ![g] = IF @ = "open" THEN "removing" ELSE @]
           cl == f.closing \cup ToClose(n)
           en == [n.entry EXCEPT !.shut = @ \/ n.listener[g] \notin {"open", "removing"},
                                 !.terminal = @ \/ n.entry.conn \notin Open(n)]
           st == IF f.start = g THEN 0 ELSE f.start
           t == [f EXCEPT !.start = st, !.barrier = br, !.listener = ls, !.closing = cl, !.entry = en]
<1>0. /\ n \in NodeType /\ n.entry \in EntryType /\ n.barrier \in BarrierType /\ g \in Gens
      /\ n.conns \in Seq(ConnType) /\ n.dials \subseteq ConnIds /\ n.dispatch \in DispatchType
      /\ n.listener \in [Gens -> {"none", "open", "removing", "closed"}]
      /\ n.closing \subseteq ConnIds /\ g # 0 /\ n.start \in 0..MaxGen /\ g \in 0..MaxGen
  BY DEF TornInv, NodeType, Gens
<1>1. /\ f \in NodeType
      /\ f.conns = n.conns /\ f.closing = n.closing /\ f.dials = n.dials /\ f.entry = n.entry
      /\ f.latest = n.latest /\ f.barrier = n.barrier /\ f.listener = n.listener
      /\ f.rejected = n.rejected /\ f.closures = n.closures /\ f.start = n.start
      /\ \A c \in ConnIds : f.by[c] = 0
      /\ f.queued = <<>>
      /\ f.dispatch = IF n.dispatch.gen = 0 THEN NoDispatch ELSE [n.dispatch EXCEPT !.canceled = TRUE]
  BY FencedIs
<1>2. Open(n) \subseteq ConnIds
  <2> SUFFICES ASSUME NEW i \in DOMAIN n.conns PROVE n.conns[i].id \in ConnIds
    BY DEF Open
  <2>1. n.conns[i] \in ConnType
    BY <1>0, ElementOfSeq
  <2> QED BY <2>1 DEF ConnType
<1>3. Teardown(n) = Completed(t)
  BY DEF Teardown
<1>4. /\ br \in BarrierType /\ br.gen = g /\ n.barrier.pending \cup Open(n) \cup n.dials = br.pending
      /\ br.canceled = n.barrier.canceled
      /\ n.dispatch.gen # 0 /\ ~n.barrier.dispatched => ~br.dispatched
  <2>1. br.gen = g /\ br.pending = n.barrier.pending \cup Open(n) \cup n.dials /\ br.canceled = n.barrier.canceled
        /\ br.dispatched = (n.barrier.dispatched \/ n.dispatch.gen # g)
    BY <1>1
  <2>2. br \in BarrierType
    BY <1>0, <1>1, <1>2 DEF BarrierType
  <2>3. n.dispatch.gen # 0 => n.dispatch.gen = g
    BY DEF TornInv
  <2> QED BY <2>1, <2>2, <2>3
<1>5. ls \in [Gens -> {"none", "open", "removing", "closed"}]
  BY <1>0, <1>1
<1>6. cl \subseteq ConnIds /\ cl = n.closing \cup Open(n)
  BY <1>0, <1>1, <1>2 DEF ToClose
<1>7. /\ en \in EntryType /\ en.state = n.entry.state /\ en.gen = g /\ en.conn = n.entry.conn
      /\ en.accepted = n.entry.accepted
  BY <1>0, <1>1 DEF EntryType
<1>8. st \in 0..MaxGen /\ (st # n.start => st = 0)
  BY <1>0, <1>1 DEF ReservationConstants
<1> HIDE DEF br, ls, cl, en, st
<1>9. /\ t \in NodeType /\ t.start = st /\ t.barrier = br /\ t.listener = ls /\ t.closing = cl /\ t.entry = en
      /\ t.conns = n.conns /\ t.dials = n.dials /\ t.latest = n.latest /\ t.dispatch = f.dispatch
      /\ t.queued = <<>> /\ t.by = f.by
  <2> HIDE DEF f
  <2> QED BY <1>1, <1>4, <1>5, <1>6, <1>7, <1>8 DEF NodeType
<1> HIDE DEF t
<1>10. Open(t) = Open(n)
  BY <1>9 DEF Open
<1>11. ConnsInv(t)
  BY <1>0, <1>4, <1>6, <1>9, <1>10 DEF TornInv, ConnsInv
<1>12. ~Live(t) /\ t.entry.state = "canceling"
  BY <1>7, <1>9 DEF TornInv, Live
<1>13. ~t.barrier.canceled
  <2>1. ~n.barrier.canceled
    BY DEF TornInv, ConnsInv, NoBarrier
  <2> QED BY <1>4, <1>9, <2>1
<1>14. EntryInv(t)
  BY <1>0, <1>4, <1>7, <1>9, <1>12, <1>13 DEF TornInv, EntryInv
<1>15. t.dispatch.gen = n.dispatch.gen /\ (n.dispatch.gen = 0 => t.dispatch = NoDispatch)
       /\ (n.dispatch.gen # 0 => t.dispatch.canceled)
  <2>1. CASE n.dispatch.gen = 0
    BY <1>1, <1>9, <2>1 DEF NoDispatch
  <2>2. CASE n.dispatch.gen # 0
    BY <1>0, <1>1, <1>9, <2>2 DEF DispatchType
  <2> QED BY <2>1, <2>2
<1>16. n.dispatch.gen # 0 => n.dispatch.gen = g /\ ~t.barrier.dispatched
  <2> SUFFICES ASSUME n.dispatch.gen # 0 PROVE n.dispatch.gen = g /\ ~t.barrier.dispatched
    OBVIOUS
  <2>1. n.dispatch.gen = g
    BY DEF TornInv
  <2>2. ~n.barrier.dispatched
    <3>1. CASE n.barrier.gen = 0
      BY <3>1 DEF TornInv, ConnsInv, NoBarrier
    <3>2. CASE n.barrier.gen # 0 /\ n.dispatch.canceled
      BY <3>2 DEF TornInv
    <3>3. CASE n.barrier.gen # 0 /\ ~n.dispatch.canceled
      BY <3>3 DEF TornInv
    <3> QED BY <3>1, <3>2, <3>3
  <2> QED BY <1>4, <1>9, <2>1, <2>2
<1>17. WrapperInv(t)
  BY <1>1, <1>4, <1>9, <1>15, <1>16 DEF WrapperInv
<1>18. NodeInv(t)
  BY <1>9, <1>11, <1>14, <1>17 DEF NodeInv
<1>19. /\ NodeInv(Completed(t)) /\ ~Live(Completed(t))
       /\ Completed(t).conns = t.conns /\ Completed(t).dials = t.dials /\ Completed(t).latest = t.latest
       /\ Completed(t).dispatch = t.dispatch /\ Completed(t).queued = t.queued
       /\ Completed(t).barrier.gen = t.barrier.gen
       /\ Completed(t).start = t.start
       /\ Completed(t).entry = t.entry \/ Completed(t).entry = NoEntry
  BY <1>12, <1>18, CompletedTorn
<1>20. NoEntry.conn = 0 /\ ~NoEntry.accepted
  BY DEF NoEntry
<1> QED BY <1>0, <1>3, <1>4, <1>7, <1>8, <1>9, <1>15, <1>19, <1>20 DEF TornDown

-----------------------------------------------------------------------------
(* What the node, the relay and the queues know of each other *)

ContextType == [handle : 0..MaxGen, from : 0..MaxGen, renewal : BOOLEAN, good : BOOLEAN]
WireType == [gen : 0..MaxGen, accepted : BOOLEAN]
CircuitDial == [kind |-> "circuit", gen |-> 0]

\* One request waits in the relay client, that of the pending dispatch or a circuit's; a
\* request is at the relay over an open connection; numbers are fresh
LinkBase(n, u, w, x, z, k) ==
    /\ w \in [ConnIds -> WireType] /\ x \in Seq(ContextType) /\ z \in {"idle", "selected", "pending"}
    /\ u = IF n.dispatch.gen # 0 THEN <<ListenFor(n.dispatch.gen)>>
           ELSE IF z = "pending" THEN <<CircuitDial>> ELSE <<>>
    /\ n.dispatch.gen # 0 => z # "pending"
    /\ \A c \in ConnIds : w[c].gen # 0 => c \in Open(n)
    /\ \A i \in DOMAIN x : x[i].handle <= n.latest
    /\ k \in Nat \ {0} /\ n.entry.conn < k /\ \A c \in Open(n) \cup n.dials : c < k
    /\ n.entry.accepted /\ n.entry.conn \in Open(n) =>
          w[n.entry.conn] = [gen |-> n.entry.gen, accepted |-> TRUE]

\* Over the connections only the generation that lives has asked, after its dispatch; an
\* acceptance stamped with it was the answer to its own request
LinkLive(n, w, x) ==
    /\ \A c \in ConnIds : w[c].gen # 0 =>
          /\ n.entry.state # "none" \/ n.barrier.gen # 0
          /\ Live(n) => w[c].gen = n.entry.gen /\ c = n.entry.conn
    /\ Live(n) /\ (n.dispatch.gen # 0 \/ n.queued # <<>>) =>
          /\ \A c \in ConnIds : w[c].gen = 0
          /\ ~n.entry.accepted
          /\ \A i \in DOMAIN x : x[i].handle # n.entry.gen
    /\ Live(n) => \A i \in DOMAIN x : x[i].handle = n.entry.gen =>
          w[n.entry.conn] = [gen |-> n.entry.gen, accepted |-> TRUE]

LinkInv(n, u, w, x, z, k) == LinkBase(n, u, w, x, z, k) /\ LinkLive(n, w, x)

ReservationInv ==
    /\ NodeInv(node) /\ LinkInv(node, upq, wire, contexts, circuit, nextConn)
    /\ call \in [Callers -> CallType] /\ Len(contexts) <= MaxQueued

\* The barrier is lifted from a node without connections and dials
Lifted == node.barrier.gen # 0 /\ node'.barrier.gen = 0 => node'.conns = <<>> /\ node'.dials = {}

\* What every step keeps
Kept ==
    /\ NodeInv(node') /\ LinkInv(node', upq', wire', contexts', circuit', nextConn')
    /\ call' \in [Callers -> CallType] /\ Lifted

LEMMA OpenType ==
    ASSUME NEW n, n \in NodeType
    PROVE  /\ Open(n) \subseteq ConnIds
           /\ Open(n) = {} => n.conns = <<>>
<1>0. n.conns \in Seq(ConnType)
  BY DEF NodeType
<1>1. ASSUME NEW i \in DOMAIN n.conns PROVE n.conns[i].id \in ConnIds
  <2>1. n.conns[i] \in ConnType
    BY <1>0, ElementOfSeq
  <2> QED BY <2>1 DEF ConnType
<1>2. n.conns # <<>> => 1 \in DOMAIN n.conns
  <2>1. n.conns # <<>> => Len(n.conns) \in Nat \ {0}
    BY <1>0, EmptySeq
  <2> QED BY <1>0, <2>1
<1> QED BY <1>1, <1>2 DEF Open

LEMMA AnswerType ==
    ASSUME NEW calls \in [Callers -> CallType], NEW pc, NEW g,
           NEW to \in {"idle", "held", "confirmed"}, ReservationConstants
    PROVE  Answer(calls, pc, g, to) \in [Callers -> CallType]
<1>1. NoCall \in CallType
  BY DEF NoCall, CallType, ReservationConstants
<1>2. ASSUME NEW k \in Callers PROVE [calls[k] EXCEPT !.pc = to] \in CallType
  <2>1. calls[k] \in CallType
    OBVIOUS
  <2> QED BY <2>1 DEF CallType
<1> QED BY <1>1, <1>2 DEF Answer

\* maybe_finish_cancellation lifts a barrier behind which nothing is left
LEMMA SettleKeeps ==
    ASSUME ReservationConstants, NEW n, NodeInv(n),
           LinkInv(n, upq', wire', contexts', circuit', nextConn'),
           node.barrier.gen # 0 => n.barrier.gen # 0,
           NEW calls \in [Callers -> CallType], Settle(n, calls)
    PROVE  Kept
<1>1. CASE ~BarrierDone(n)
  BY <1>1 DEF Settle, Kept, Lifted
<1>2. CASE BarrierDone(n)
  <2>0. n \in NodeType /\ node' = [n EXCEPT !.barrier = NoBarrier]
    BY <1>2 DEF Settle, NodeInv
  <2>1. /\ n.barrier.gen # 0 /\ n.barrier.canceled /\ n.barrier.dispatched /\ n.barrier.pending = {}
    BY <1>2 DEF BarrierDone
  <2>2. Open(n) = {} /\ n.dials = {} /\ n.conns = <<>>
    BY <2>0, <2>1, OpenType DEF NodeInv, ConnsInv
  <2>3. n.entry.state = "none" /\ n.entry = NoEntry
    <3>1. n.entry \in EntryType
      BY <2>0 DEF NodeType
    <3>2. n.entry.state \in {"none", "awaiting", "publishable", "canceling"}
      BY <3>1 DEF EntryType
    <3> QED BY <2>1, <3>2 DEF NodeInv, EntryInv, Live
  <2>4. n.dispatch.gen = 0 /\ n.queued = <<>> /\ ~Live(n) /\ \A c \in ConnIds : n.by[c] = 0
    BY <2>1, <2>3 DEF NodeInv, WrapperInv, Live
  <2>5. NoBarrier \in BarrierType
    BY DEF NoBarrier, BarrierType, ReservationConstants
  <2>6. /\ node' \in NodeType /\ node'.barrier = NoBarrier
        /\ node'.conns = n.conns /\ node'.closing = n.closing /\ node'.dials = n.dials /\ node'.entry = n.entry
        /\ node'.latest = n.latest /\ node'.dispatch = n.dispatch /\ node'.queued = n.queued /\ node'.by = n.by
    BY <2>0, <2>5 DEF NodeType
  <2>7. Open(node') = {}
    BY <2>2, <2>6 DEF Open
  <2>8. NoBarrier.gen = 0 /\ NoEntry.state = "none"
    BY DEF NoBarrier, NoEntry
  <2>9. ConnsInv(node')
    BY <2>2, <2>6, <2>7, <2>8 DEF NodeInv, ConnsInv, Open
  <2>10. EntryInv(node')
    BY <2>3, <2>6, <2>8 DEF EntryInv, Live
  <2>11. WrapperInv(node')
    BY <2>4, <2>6 DEF NodeInv, WrapperInv
  <2>12. LinkInv(node', upq', wire', contexts', circuit', nextConn')
    <3>1. LinkBase(node', upq', wire', contexts', circuit', nextConn')
      BY <2>2, <2>6, <2>7 DEF LinkInv, LinkBase
    <3>2. \A c \in ConnIds : wire'[c].gen = 0
      BY <2>2 DEF LinkInv, LinkBase
    <3> QED BY <2>3, <2>6, <3>1, <3>2 DEF LinkInv, LinkLive, Live
  <2>13. call' \in [Callers -> CallType]
    <3>1. Answer(calls, "canceling", n.barrier.gen, "idle") \in [Callers -> CallType]
      BY AnswerType
    <3>2. FailWait(Answer(calls, "canceling", n.barrier.gen, "idle"), n.barrier.gen) \in [Callers -> CallType]
      BY <3>1, AnswerType DEF FailWait
    <3> QED BY <1>2, <3>2 DEF Settle
  <2> QED BY <2>2, <2>6, <2>9, <2>10, <2>11, <2>12, <2>13 DEF Kept, NodeInv, Lifted
<1> QED BY <1>1, <1>2

LEMMA SettledKeeps ==
    ASSUME ReservationConstants, NEW n, NodeInv(n),
           LinkInv(n, upq', wire', contexts', circuit', nextConn'),
           node.barrier.gen # 0 => n.barrier.gen # 0,
           NEW calls \in [Callers -> CallType], Settled(n, calls)
    PROVE  Kept
<1> DEFINE answered == IF node.start # 0 /\ n.start = 0 THEN FailStart(calls, node.start) ELSE calls
<1>1. answered \in [Callers -> CallType]
  BY AnswerType DEF FailStart
<1>2. Settle(n, answered)
  BY DEF Settled
<1> HIDE DEF answered
<1> QED BY <1>1, <1>2, SettleKeeps

LEMMA TornLink ==
    ASSUME NEW n, NEW r, TornDown(n, r), r \in NodeType, NEW u, NEW w, NEW x, NEW z, NEW k,
           LinkBase(n, u, w, x, z, k)
    PROVE  LinkInv(r, u, w, x, z, k)
<1>1. Open(r) = Open(n)
  BY DEF TornDown, Open
<1>2. LinkBase(r, u, w, x, z, k)
  <2>1. r.entry.conn < k
    <3>1. n.entry.conn < k /\ k \in Nat \ {0}
      BY DEF LinkBase
    <3>2. r.entry.conn = 0 \/ r.entry.conn = n.entry.conn
      BY DEF TornDown
    <3> HIDE DEF LinkBase
    <3> QED BY <3>1, <3>2
  <2>2. r.entry.accepted /\ r.entry.conn \in Open(r) =>
          w[r.entry.conn] = [gen |-> r.entry.gen, accepted |-> TRUE]
    BY <1>1 DEF TornDown, LinkBase
  <2>3. /\ r.dispatch.gen = n.dispatch.gen /\ r.latest = n.latest /\ r.dials = n.dials
    BY DEF TornDown
  <2> QED BY <1>1, <2>1, <2>2, <2>3 DEF LinkBase
<1>3. LinkLive(r, w, x)
  BY DEF TornDown, LinkLive
<1> QED BY <1>2, <1>3 DEF LinkInv

\* A generation that is torn down, and the callers that are told
LEMMA TearKeeps ==
    ASSUME ReservationConstants, NEW n, TornInv(n),
           LinkBase(n, upq', wire', contexts', circuit', nextConn'),
           NEW calls \in [Callers -> CallType], Settled(Teardown(n), calls)
    PROVE  Kept
<1> DEFINE r == Teardown(n)
<1>1. NodeInv(r) /\ TornDown(n, r)
  BY TeardownKeeps
<1>2. Settled(r, calls)
  OBVIOUS
<1> HIDE DEF r
<1>3. r.barrier.gen # 0
  BY <1>1 DEF TornDown
<1>4. LinkInv(r, upq', wire', contexts', circuit', nextConn')
  BY <1>1, TornLink DEF NodeInv
<1> QED BY <1>1, <1>2, <1>3, <1>4, SettledKeeps

\* One whose cancellation runs only progresses
LEMMA ProgressKeeps ==
    ASSUME ReservationConstants, NEW n, NodeInv(n), n.entry.state = "canceling",
           LinkInv(n, upq', wire', contexts', circuit', nextConn'),
           NEW calls \in [Callers -> CallType], Settled(Completed(n), calls)
    PROVE  Kept
<1> DEFINE r == Completed(n)
<1>0. ~Live(n) /\ n.barrier.gen = n.entry.gen /\ n.entry.gen # 0
  BY DEF Live, NodeInv, EntryInv, Gens
<1>1. /\ NodeInv(r) /\ ~Live(r)
      /\ r.conns = n.conns /\ r.dials = n.dials /\ r.latest = n.latest
      /\ r.dispatch = n.dispatch /\ r.queued = n.queued
      /\ r.barrier.gen = n.barrier.gen
      /\ r.entry = n.entry \/ r.entry = NoEntry
  BY <1>0, CompletedTorn
<1>2. Settled(r, calls)
  OBVIOUS
<1> HIDE DEF r
<1>3. r.barrier.gen # 0
  BY <1>0, <1>1
<1>4. TornDown(n, r)
  BY <1>0, <1>1, <1>3 DEF TornDown, NoEntry, NodeInv, WrapperInv
<1>5. LinkInv(r, upq', wire', contexts', circuit', nextConn')
  BY <1>1, <1>4, TornLink DEF LinkInv, NodeInv
<1> QED BY <1>1, <1>2, <1>3, <1>5, SettledKeeps

-----------------------------------------------------------------------------
(* The actions *)

LEMMA FirstConn ==
    ASSUME NEW n, n \in NodeType, n.conns # <<>>
    PROVE  n.conns[1] \in ConnType /\ n.conns[1].id \in Open(n) /\ n.conns[1].id \in ConnIds
<1>0. n.conns \in Seq(ConnType)
  BY DEF NodeType
<1>1. 1 \in DOMAIN n.conns
  <2>1. Len(n.conns) \in Nat \ {0}
    BY <1>0, EmptySeq
  <2> QED BY <1>0, <2>1
<1>2. n.conns[1] \in ConnType
  BY <1>0, <1>1, ElementOfSeq
<1> QED BY <1>1, <1>2 DEF ConnType, Open

LEMMA CallKeeps ==
    ASSUME ReservationInv, UNCHANGED <<node, upq, wire, contexts, circuit, nextConn>>,
           call' \in [Callers -> CallType]
    PROVE  Kept
<1>1. NodeInv(node') /\ LinkInv(node', upq', wire', contexts', circuit', nextConn')
  BY DEF ReservationInv
<1> QED BY <1>1 DEF Kept, Lifted

LEMMA NumbersAreNat ==
    ASSUME ReservationConstants, NEW n, n \in NodeType
    PROVE  n.entry.conn \in Nat /\ Open(n) \subseteq Nat /\ n.dials \subseteq Nat /\ ConnIds \subseteq Nat
<1>1. ConnIds \subseteq Nat
  BY DEF ConnIds, ReservationConstants
<1>2. n.entry.conn \in 0..MaxConn /\ n.dials \subseteq ConnIds
  BY DEF NodeType, EntryType
<1>3. n.entry.conn \in Nat
  BY <1>2 DEF ReservationConstants
<1> QED BY <1>1, <1>2, <1>3, OpenType

LEMMA SelectKeeps ==
    ASSUME ReservationConstants, ReservationInv, NEW k \in Callers, Select(k)
    PROVE  Kept
<1>0. /\ NodeInv(node) /\ node \in NodeType /\ call \in [Callers -> CallType]
      /\ LinkBase(node, upq, wire, contexts, circuit, nextConn) /\ LinkLive(node, wire, contexts)
  BY DEF ReservationInv, NodeInv, LinkInv
<1>1. CASE /\ Selected(node) = "first"
           /\ call' = [call EXCEPT ![k] = [pc |-> "selected", conn |-> node.conns[1].id, gen |-> 0]]
           /\ UNCHANGED <<node, nextConn>>
  <2>1. node.conns[1].id \in ConnIds
    BY <1>0, <1>1, FirstConn DEF Selected
  <2>2. [pc |-> "selected", conn |-> node.conns[1].id, gen |-> 0] \in CallType
    BY <2>1 DEF CallType, ConnIds, ReservationConstants
  <2>3. call' \in [Callers -> CallType]
    BY <1>0, <1>1, <2>2
  <2> QED BY <1>1, <2>3, CallKeeps DEF Select
<1>2. CASE /\ node.barrier.gen = 0 /\ nextConn <= MaxConn
           /\ call' = [call EXCEPT ![k] = [pc |-> "dialing", conn |-> nextConn, gen |-> 0]]
           /\ node' = [node EXCEPT !.dials = @ \cup {nextConn}]
           /\ nextConn' = nextConn + 1
  <2> DEFINE d == node.dials \cup {nextConn}
  <2>1. nextConn \in ConnIds /\ nextConn \in Nat \ {0}
    BY <1>0, <1>2 DEF LinkBase, ConnIds, ReservationConstants
  <2>2. nextConn \notin Open(node) /\ node.entry.conn # nextConn
    BY <1>0, <2>1 DEF LinkBase
  <2>3. d \subseteq ConnIds
    BY <1>0, <2>1 DEF NodeType
  <2>a. node' = [node EXCEPT !.dials = d]
    BY <1>0, <1>2 DEF NodeType
  <2> HIDE DEF d
  <2>4. /\ node' \in NodeType /\ node'.dials = d
        /\ node'.conns = node.conns /\ node'.closing = node.closing /\ node'.entry = node.entry
        /\ node'.latest = node.latest /\ node'.barrier = node.barrier /\ node'.dispatch = node.dispatch
        /\ node'.listener = node.listener /\ node'.by = node.by /\ node'.queued = node.queued
    BY <1>0, <2>3, <2>a DEF NodeType
  <2>5. Open(node') = Open(node)
    BY <2>4 DEF Open
  <2>6. ConnsInv(node')
    BY <1>0, <1>2, <2>2, <2>4, <2>5 DEF NodeInv, ConnsInv, d
  <2>7. EntryInv(node')
    BY <1>0, <2>2, <2>4, <2>5 DEF NodeInv, EntryInv, Live, d
  <2>8. WrapperInv(node')
    BY <1>0, <2>4 DEF NodeInv, WrapperInv, Live
  <2>9. LinkBase(node', upq', wire', contexts', circuit', nextConn')
    <3>1. nextConn' \in Nat \ {0} /\ node.entry.conn < nextConn' /\ \A c \in Open(node) \cup d : c < nextConn'
      <4>1. nextConn \in Nat \ {0} /\ node.entry.conn < nextConn /\ \A c \in Open(node) \cup node.dials : c < nextConn
        BY <1>0 DEF LinkBase
      <4>2. node.entry.conn \in Nat /\ Open(node) \cup node.dials \subseteq Nat
        BY <1>0, NumbersAreNat
      <4> QED BY <1>2, <4>1, <4>2 DEF d
    <3> QED BY <1>0, <2>4, <2>5, <3>1 DEF LinkBase, Select
  <2>10. LinkLive(node', wire', contexts')
    BY <1>0, <2>4 DEF LinkLive, Live, Select
  <2>11. call' \in [Callers -> CallType]
    <3>1. [pc |-> "dialing", conn |-> nextConn, gen |-> 0] \in CallType
      BY <2>1 DEF CallType, ConnIds, ReservationConstants
    <3> QED BY <1>0, <1>2, <3>1
  <2> QED BY <1>2, <2>4, <2>6, <2>7, <2>8, <2>9, <2>10, <2>11 DEF Kept, NodeInv, LinkInv, Lifted
<1> QED BY <1>1, <1>2 DEF Select

LEMMA WaitKeeps ==
    ASSUME ReservationConstants, ReservationInv, NEW k \in Callers, Wait(k)
    PROVE  Kept
<1>0. call \in [Callers -> CallType] /\ call[k] \in CallType
  BY DEF ReservationInv
<1>1. ASSUME NEW p \in {"confirmed", "waiting"} PROVE [call EXCEPT ![k].pc = p] \in [Callers -> CallType]
  BY <1>0 DEF CallType
<1>2. call' \in [Callers -> CallType]
  BY <1>0, <1>1 DEF Wait
<1> QED BY <1>2, CallKeeps DEF Wait

LEMMA AbandonKeeps ==
    ASSUME ReservationConstants, ReservationInv, NEW k \in Callers, Abandon(k)
    PROVE  Kept
<1>0. call \in [Callers -> CallType] /\ call[k] \in CallType
  BY DEF ReservationInv
<1>1. NoCall \in CallType /\ [call[k] EXCEPT !.pc = "held"] \in CallType
  <2>1. NoCall \in CallType
    BY DEF NoCall, CallType, ReservationConstants
  <2> QED BY <1>0, <2>1 DEF CallType
<1>2. call' \in [Callers -> CallType]
  BY <1>0, <1>1 DEF Abandon
<1> QED BY <1>2, CallKeeps DEF Abandon

LEMMA CircuitKeeps ==
    ASSUME ReservationConstants, ReservationInv, CircuitSelect \/ CircuitConnect
    PROVE  Kept
<1>0. /\ NodeInv(node) /\ call \in [Callers -> CallType] /\ UNCHANGED <<node, call, wire, contexts, nextConn>>
      /\ LinkBase(node, upq, wire, contexts, circuit, nextConn) /\ LinkLive(node, wire, contexts)
  BY DEF ReservationInv, LinkInv, CircuitSelect, CircuitConnect
<1>1. /\ circuit' \in {"idle", "selected", "pending"} /\ circuit # "pending"
      /\ upq' = IF node.dispatch.gen # 0 THEN <<ListenFor(node.dispatch.gen)>>
                ELSE IF circuit' = "pending" THEN <<CircuitDial>> ELSE <<>>
      /\ node.dispatch.gen # 0 => circuit' # "pending"
  <2>1. CASE circuit' = "pending" /\ NoDispatchPending /\ circuit = "selected"
             /\ upq' = Append(upq, [kind |-> "circuit", gen |-> 0])
    <3>1. upq = <<>> /\ node.dispatch.gen = 0
      BY <1>0, <2>1 DEF LinkBase, NoDispatchPending
    <3> QED BY <2>1, <3>1 DEF CircuitDial
  <2>2. CASE circuit' \in {"idle", "selected"} /\ circuit \in {"idle", "selected"} /\ UNCHANGED upq
    BY <1>0, <2>2 DEF LinkBase
  <2> QED BY <2>1, <2>2 DEF CircuitSelect, CircuitConnect
<1>2. LinkBase(node', upq', wire', contexts', circuit', nextConn')
  BY <1>0, <1>1 DEF LinkBase
<1>3. LinkLive(node', wire', contexts') /\ NodeInv(node')
  BY <1>0
<1> QED BY <1>0, <1>2, <1>3 DEF Kept, LinkInv, Lifted

-----------------------------------------------------------------------------
(* Dials and connections *)

\* Connections and dials come and go; the generation and its dispatch are as before
SameGeneration(n, r) ==
    /\ r.entry = n.entry /\ r.latest = n.latest /\ r.dispatch = n.dispatch /\ r.listener = n.listener
    /\ r.by = n.by /\ r.queued = n.queued
    /\ r.barrier.gen = n.barrier.gen /\ r.barrier.canceled = n.barrier.canceled
    /\ r.barrier.dispatched = n.barrier.dispatched

LEMMA ConnsChange ==
    ASSUME NEW n, NodeInv(n), NEW r, r \in NodeType, ConnsInv(r), SameGeneration(n, r),
           n.entry.conn \notin r.dials, Live(n) => n.entry.conn \in Open(r)
    PROVE  NodeInv(r)
<1>1. EntryInv(r)
  BY DEF NodeInv, EntryInv, SameGeneration, Live
<1>2. WrapperInv(r)
  BY DEF NodeInv, WrapperInv, SameGeneration, Live
<1> QED BY <1>1, <1>2 DEF NodeInv

LEMMA LinkChange ==
    ASSUME NEW n, NEW r, SameGeneration(n, r), NEW u, NEW w, NEW x, NEW z, NEW k,
           LinkInv(n, u, w, x, z, k), n.entry.conn \in Nat,
           NEW j \in Nat, j >= k, \A c \in Open(r) \cup r.dials : c < j,
           \A c \in ConnIds : w[c].gen # 0 => c \in Open(r),
           n.entry.conn \in Open(r) => n.entry.conn \in Open(n)
    PROVE  LinkInv(r, u, w, x, z, j)
<1>1. k \in Nat \ {0} /\ n.entry.conn < k
  BY DEF LinkInv, LinkBase
<1>2. j \in Nat \ {0} /\ n.entry.conn < j
  BY <1>1
<1>3. LinkBase(r, u, w, x, z, j)
  BY <1>2 DEF LinkInv, LinkBase, SameGeneration
<1>4. LinkLive(r, w, x)
  BY DEF LinkInv, LinkLive, SameGeneration, Live
<1> QED BY <1>3, <1>4 DEF LinkInv

LEMMA ArrivedIs ==
    ASSUME ReservationConstants, NEW n, n \in NodeType, ConnsInv(n), NEW c \in ConnIds,
           c \notin Open(n) \cup n.dials, NEW ours \in BOOLEAN
    PROVE  LET r == Arrived(n, c, ours) IN
           /\ r \in NodeType /\ ConnsInv(r) /\ SameGeneration(n, r)
           /\ r.dials = n.dials /\ Open(r) = Open(n) \cup {c}
<1> DEFINE item == [id |-> c, ours |-> ours]
           cs == Append(n.conns, item)
           m == [n EXCEPT !.conns = cs]
           b == [n.barrier EXCEPT !.pending = @ \cup {c}]
           l == n.closing \cup {c}
           r == Arrived(n, c, ours)
<1>0. n.conns \in Seq(ConnType) /\ n.barrier \in BarrierType /\ n.closing \subseteq ConnIds
  BY DEF NodeType
<1>1. item \in ConnType /\ item.id = c
  BY DEF ConnType
<1>2. /\ cs \in Seq(ConnType) /\ Len(cs) = Len(n.conns) + 1
      /\ \A i \in 1..Len(n.conns) : cs[i] = n.conns[i]
      /\ cs[Len(n.conns) + 1] = item
  <2> HIDE DEF item
  <2> QED BY <1>0, <1>1, AppendProperties
<1>3. DOMAIN cs = 1..(Len(n.conns) + 1) /\ DOMAIN n.conns = 1..Len(n.conns) /\ Len(n.conns) \in Nat
  BY <1>0, <1>2
<1>4. {cs[i].id : i \in DOMAIN cs} = Open(n) \cup {c}
  BY <1>1, <1>2, <1>3 DEF Open
<1>5. \A i, j \in DOMAIN cs : cs[i].id = cs[j].id => i = j
  <2> SUFFICES ASSUME NEW i \in DOMAIN cs, NEW j \in DOMAIN cs, cs[i].id = cs[j].id PROVE i = j
    OBVIOUS
  <2>1. \A h \in DOMAIN n.conns : n.conns[h].id # c
    BY DEF Open
  <2>2. \A h \in DOMAIN cs : h \in DOMAIN n.conns \/ h = Len(n.conns) + 1
    BY <1>3
  <2> QED BY <1>1, <1>2, <1>3, <2>1, <2>2 DEF ConnsInv
<1>6. /\ b \in BarrierType /\ b.pending = n.barrier.pending \cup {c} /\ b.gen = n.barrier.gen
      /\ b.canceled = n.barrier.canceled /\ b.dispatched = n.barrier.dispatched
  BY <1>0 DEF BarrierType
<1>7. r = IF n.barrier.gen # 0 THEN [m EXCEPT !.barrier = b, !.closing = l] ELSE m
  BY DEF Arrived, NodeType
<1>8. l \subseteq ConnIds
  BY <1>0
<1> HIDE DEF item, cs, b, l, r
<1>9. /\ m \in NodeType /\ m.conns = cs /\ m.dials = n.dials /\ m.closing = n.closing /\ m.barrier = n.barrier
      /\ SameGeneration(n, m)
  BY <1>2 DEF NodeType, SameGeneration
<1>10. CASE n.barrier.gen = 0
  <2>1. Open(m) = Open(n) \cup {c}
    BY <1>4, <1>9 DEF Open
  <2>2. ConnsInv(m)
    BY <1>5, <1>9, <1>10, <2>1 DEF ConnsInv
  <2> QED BY <1>7, <1>9, <1>10, <2>1, <2>2 DEF r
<1>11. CASE n.barrier.gen # 0
  <2> HIDE DEF m
  <2>0. r = [m EXCEPT !.barrier = b, !.closing = l]
    BY <1>7, <1>11
  <2>1. /\ r \in NodeType /\ r.conns = cs /\ r.dials = n.dials /\ r.barrier = b /\ r.closing = l
    BY <1>6, <1>8, <1>9, <2>0 DEF NodeType
  <2>2. SameGeneration(n, r)
    BY <1>6, <1>9, <2>0 DEF NodeType, SameGeneration
  <2>3. Open(r) = Open(n) \cup {c}
    BY <1>4, <2>1 DEF Open
  <2>4. ConnsInv(r)
    BY <1>5, <1>6, <1>11, <2>1, <2>3 DEF ConnsInv, l
  <2> QED BY <2>1, <2>2, <2>3, <2>4 DEF r
<1> QED BY <1>10, <1>11

LEMMA ClosingMore ==
    ASSUME NEW n, n \in NodeType, ConnsInv(n), NEW c \in Open(n)
    PROVE  LET r == [n EXCEPT !.closing = @ \cup {c}] IN
           /\ r \in NodeType /\ ConnsInv(r) /\ SameGeneration(n, r)
           /\ r.dials = n.dials /\ Open(r) = Open(n)
<1> DEFINE l == n.closing \cup {c}
           r == [n EXCEPT !.closing = l]
<1>1. l \subseteq ConnIds /\ l \subseteq Open(n)
  BY OpenType DEF NodeType, ConnsInv
<1> HIDE DEF l
<1>2. /\ r \in NodeType /\ r.conns = n.conns /\ r.dials = n.dials /\ r.barrier = n.barrier /\ r.closing = l
      /\ SameGeneration(n, r)
  BY <1>1 DEF NodeType, SameGeneration
<1>3. Open(r) = Open(n)
  BY <1>2 DEF Open
<1>4. ConnsInv(r)
  BY <1>1, <1>2, <1>3 DEF ConnsInv
<1>5. r = [n EXCEPT !.closing = @ \cup {c}]
  BY DEF l, NodeType
<1> QED BY <1>2, <1>3, <1>4, <1>5

LEMMA ConnectionArrivesKeeps ==
    ASSUME ReservationConstants, ReservationInv, ConnectionArrives
    PROVE  Kept
<1> DEFINE r == Arrived(node, nextConn, FALSE)
<1>0. /\ NodeInv(node) /\ node \in NodeType /\ call \in [Callers -> CallType] /\ ConnsInv(node)
      /\ LinkInv(node, upq, wire, contexts, circuit, nextConn)
      /\ LinkBase(node, upq, wire, contexts, circuit, nextConn)
  BY DEF ReservationInv, NodeInv, LinkInv
<1>1. nextConn \in Nat \ {0} /\ nextConn \in ConnIds /\ nextConn \notin Open(node) \cup node.dials
      /\ node.entry.conn # nextConn
  <2>1. nextConn \in Nat \ {0} /\ nextConn \in ConnIds
    BY <1>0 DEF LinkBase, ConnectionArrives, ConnIds, ReservationConstants
  <2> QED BY <1>0, <2>1 DEF LinkBase
<1>2. /\ r \in NodeType /\ ConnsInv(r) /\ SameGeneration(node, r)
      /\ r.dials = node.dials /\ Open(r) = Open(node) \cup {nextConn}
  BY <1>0, <1>1, ArrivedIs
<1>3. node' = r /\ nextConn' = nextConn + 1 /\ UNCHANGED <<call, upq, wire, contexts, circuit>>
  BY DEF ConnectionArrives
<1> HIDE DEF r
<1>4. node.entry.conn \notin node.dials
  BY <1>0 DEF LinkBase, NodeInv, EntryInv, NoEntry, NodeType, ConnIds
<1>5. NodeInv(r)
  BY <1>0, <1>2, <1>4, ConnsChange DEF NodeInv, EntryInv
<1>6. LinkInv(r, upq, wire, contexts, circuit, nextConn + 1)
  <2>1. nextConn + 1 \in Nat /\ nextConn + 1 >= nextConn
    BY <1>1
  <2>2. \A c \in Open(r) \cup r.dials : c < nextConn + 1
    <3>1. \A c \in Open(node) \cup node.dials : c < nextConn
      BY <1>0 DEF LinkBase
    <3>2. Open(node) \cup node.dials \subseteq Nat
      BY <1>0, NumbersAreNat
    <3> QED BY <1>1, <1>2, <3>1, <3>2
  <2>3. node.entry.conn \in Nat
    BY <1>0, NumbersAreNat
  <2>4. \A c \in ConnIds : wire[c].gen # 0 => c \in Open(r)
    BY <1>0, <1>2 DEF LinkBase
  <2> HIDE DEF LinkInv
  <2> QED BY <1>0, <1>1, <1>2, <2>1, <2>2, <2>3, <2>4, LinkChange
<1> QED BY <1>0, <1>2, <1>3, <1>5, <1>6 DEF Kept, Lifted, SameGeneration

\* A dial is over
LEMMA DialGone ==
    ASSUME NEW n, NodeInv(n), NEW c \in n.dials, NEW b \in BarrierType,
           b.gen = n.barrier.gen, b.canceled = n.barrier.canceled, b.dispatched = n.barrier.dispatched,
           b.pending \in {n.barrier.pending, n.barrier.pending \ {c}}
    PROVE  LET r == [n EXCEPT !.dials = @ \ {c}, !.barrier = b] IN
           /\ NodeInv(r) /\ SameGeneration(n, r) /\ r.dials = n.dials \ {c} /\ Open(r) = Open(n)
<1> DEFINE d == n.dials \ {c}
           r == [n EXCEPT !.dials = d, !.barrier = b]
<1>0. n \in NodeType /\ n.barrier \in BarrierType /\ d \subseteq ConnIds /\ ConnsInv(n) /\ c \notin Open(n)
  BY DEF NodeInv, NodeType, ConnsInv
<1> HIDE DEF d
<1>1. /\ r \in NodeType /\ r.conns = n.conns /\ r.dials = d /\ r.barrier = b /\ r.closing = n.closing
  BY <1>0 DEF NodeType
<1>2. SameGeneration(n, r)
  BY <1>0 DEF NodeType, SameGeneration
<1>3. Open(r) = Open(n)
  BY <1>1 DEF Open
<1>4. n.barrier.gen = 0 => b = NoBarrier
  <2> SUFFICES ASSUME n.barrier.gen = 0 PROVE b = NoBarrier
    OBVIOUS
  <2>1. n.barrier = NoBarrier
    BY <1>0 DEF ConnsInv
  <2>2. b.gen = 0 /\ b.pending = {} /\ b.canceled = FALSE /\ b.dispatched = FALSE
    BY <2>1 DEF NoBarrier
  <2> QED BY <2>2 DEF BarrierType, NoBarrier
<1>5. ConnsInv(r)
  BY <1>0, <1>1, <1>3, <1>4 DEF ConnsInv, d
<1>6. n.entry.conn \notin d /\ (Live(n) => n.entry.conn \in Open(n))
  <2>1. CASE n.entry.state = "none"
    BY <1>0, <2>1 DEF NodeInv, EntryInv, NoEntry, ConnIds, Live, d
  <2>2. CASE n.entry.state # "none"
    BY <2>2 DEF NodeInv, EntryInv, d
  <2> QED BY <2>1, <2>2
<1> HIDE DEF r
<1>7. NodeInv(r)
  BY <1>1, <1>2, <1>3, <1>5, <1>6, ConnsChange
<1>8. [n EXCEPT !.dials = @ \ {c}, !.barrier = b] = r
  BY <1>0 DEF r, d, NodeType
<1> QED BY <1>1, <1>2, <1>3, <1>7, <1>8 DEF d

LEMMA DialFailsKeeps ==
    ASSUME ReservationConstants, ReservationInv, NEW c \in ConnIds, DialFails(c)
    PROVE  Kept
<1> DEFINE b == [node.barrier EXCEPT !.pending = @ \ {c}]
           r == [node EXCEPT !.dials = @ \ {c}, !.barrier = b]
           calls == [k \in Callers |-> IF call[k].pc = "dialing" /\ call[k].conn = c THEN NoCall ELSE call[k]]
<1>0. /\ NodeInv(node) /\ node \in NodeType /\ call \in [Callers -> CallType] /\ c \in node.dials
      /\ LinkInv(node, upq, wire, contexts, circuit, nextConn)
      /\ LinkBase(node, upq, wire, contexts, circuit, nextConn)
      /\ UNCHANGED <<upq, wire, contexts, circuit, nextConn>>
  BY DEF ReservationInv, NodeInv, LinkInv, DialFails
<1>1. b \in BarrierType /\ b.pending = node.barrier.pending \ {c} /\ b.gen = node.barrier.gen
      /\ b.canceled = node.barrier.canceled /\ b.dispatched = node.barrier.dispatched
  <2>1. node.barrier \in BarrierType
    BY <1>0 DEF NodeType
  <2> QED BY <2>1 DEF BarrierType
<1>2. Settle(r, calls)
  <2>1. r = [node EXCEPT !.dials = @ \ {c}, !.barrier.pending = @ \ {c}]
    BY <1>0 DEF NodeType
  <2> QED BY <2>1 DEF DialFails
<1> HIDE DEF b
<1>3. NodeInv(r) /\ SameGeneration(node, r) /\ r.dials = node.dials \ {c} /\ Open(r) = Open(node)
  BY <1>0, <1>1, DialGone
<1> HIDE DEF r
<1>4. calls \in [Callers -> CallType]
  <2>1. NoCall \in CallType
    BY DEF NoCall, CallType, ReservationConstants
  <2> QED BY <1>0, <2>1
<1> HIDE DEF calls
<1>5. LinkInv(r, upq, wire, contexts, circuit, nextConn)
  <2>1. nextConn \in Nat /\ nextConn >= nextConn
    BY <1>0 DEF LinkBase
  <2>2. \A d \in Open(r) \cup r.dials : d < nextConn
    BY <1>0, <1>3 DEF LinkBase
  <2>3. node.entry.conn \in Nat
    BY <1>0, NumbersAreNat
  <2>4. \A d \in ConnIds : wire[d].gen # 0 => d \in Open(r)
    BY <1>0, <1>3 DEF LinkBase
  <2> HIDE DEF LinkInv
  <2> QED BY <1>0, <1>3, <2>1, <2>2, <2>3, <2>4, LinkChange
<1>6. LinkInv(r, upq', wire', contexts', circuit', nextConn')
  BY <1>0, <1>5
<1> QED BY <1>2, <1>3, <1>4, <1>6, SettleKeeps DEF SameGeneration

LEMMA EstablishedKeeps ==
    ASSUME ReservationConstants, ReservationInv, NEW c \in ConnIds, Established(c)
    PROVE  Kept
<1> DEFINE b == node.barrier
           p == [node EXCEPT !.dials = @ \ {c}, !.barrier = b]
           m == Arrived(p, c, TRUE)
           s == [m EXCEPT !.closing = @ \cup {c}]
<1>0. /\ NodeInv(node) /\ node \in NodeType /\ call \in [Callers -> CallType] /\ c \in node.dials
      /\ LinkInv(node, upq, wire, contexts, circuit, nextConn)
      /\ LinkBase(node, upq, wire, contexts, circuit, nextConn)
      /\ UNCHANGED <<upq, wire, contexts, circuit, nextConn>>
  BY DEF ReservationInv, NodeInv, LinkInv, Established
<1>1. b \in BarrierType
  BY <1>0 DEF NodeType
<1>2. m = Arrived([node EXCEPT !.dials = @ \ {c}], c, TRUE)
  <2>1. p = [node EXCEPT !.dials = @ \ {c}]
    BY <1>0 DEF NodeType
  <2> QED BY <2>1
<1>3. NodeInv(p) /\ SameGeneration(node, p) /\ p.dials = node.dials \ {c} /\ Open(p) = Open(node)
  BY <1>0, <1>1, DialGone
<1>4. c \notin Open(p) \cup p.dials
  BY <1>0, <1>3 DEF NodeInv, ConnsInv
<1> HIDE DEF p
<1>5. /\ m \in NodeType /\ ConnsInv(m) /\ SameGeneration(p, m)
      /\ m.dials = p.dials /\ Open(m) = Open(p) \cup {c}
  BY <1>3, <1>4, ArrivedIs DEF NodeInv
<1>6. node' \in {m, s}
  BY <1>2 DEF Established
<1>7. call' \in [Callers -> CallType]
  <2> HIDE DEF m
  <2>1. NoCall \in CallType
    BY DEF NoCall, CallType, ReservationConstants
  <2>2. m.conns # <<>>
    <3>1. \E i \in DOMAIN m.conns : TRUE
      BY <1>5 DEF Open
    <3> QED BY <3>1
  <2>3. m.conns[1].id \in ConnIds
    BY <1>5, <2>2, FirstConn
  <2>4. ASSUME NEW k \in Callers PROVE [call[k] EXCEPT !.pc = "selected", !.conn = m.conns[1].id] \in CallType
    <3>1. call[k] \in CallType
      BY <1>0
    <3>2. m.conns[1].id \in 0..MaxConn
      BY <2>3 DEF ConnIds, ReservationConstants
    <3> QED BY <3>1, <3>2 DEF CallType
  <2>5. call' = [k \in Callers |->
                         IF call[k].pc = "dialing" /\ call[k].conn = c
                           THEN IF Selected(m) = "first"
                                  THEN [call[k] EXCEPT !.pc = "selected", !.conn = m.conns[1].id]
                                  ELSE NoCall
                           ELSE call[k]]
    BY <1>2 DEF Established
  <2> QED BY <1>0, <2>1, <2>4, <2>5
<1> HIDE DEF m
<1>8. /\ s \in NodeType /\ ConnsInv(s) /\ SameGeneration(m, s)
      /\ s.dials = m.dials /\ Open(s) = Open(m)
  BY <1>5, ClosingMore
<1> HIDE DEF s
<1> DEFINE r == node'
<1>9. /\ r \in NodeType /\ ConnsInv(r) /\ SameGeneration(node, r)
      /\ r.dials = node.dials \ {c} /\ Open(r) = Open(node) \cup {c}
  BY <1>3, <1>5, <1>6, <1>8 DEF SameGeneration
<1>10. node.entry.conn \notin node.dials /\ (Live(node) => node.entry.conn \in Open(node))
  <2>1. CASE node.entry.state = "none"
    BY <1>0, <2>1 DEF NodeInv, EntryInv, NoEntry, ConnIds, Live, NodeType
  <2>2. CASE node.entry.state # "none"
    BY <1>0, <2>2 DEF NodeInv, EntryInv
  <2> QED BY <2>1, <2>2
<1> HIDE DEF r
<1>11. NodeInv(r)
  BY <1>0, <1>9, <1>10, ConnsChange
<1>12. LinkInv(r, upq, wire, contexts, circuit, nextConn)
  <2>1. nextConn \in Nat /\ nextConn >= nextConn
    BY <1>0 DEF LinkBase
  <2>2. \A d \in Open(r) \cup r.dials : d < nextConn
    BY <1>0, <1>9 DEF LinkBase
  <2>3. node.entry.conn \in Nat
    BY <1>0, NumbersAreNat
  <2>4. \A d \in ConnIds : wire[d].gen # 0 => d \in Open(r)
    BY <1>0, <1>9 DEF LinkBase
  <2> HIDE DEF LinkInv
  <2> QED BY <1>0, <1>9, <1>10, <2>1, <2>2, <2>3, <2>4, LinkChange
<1>13. r = node'
  BY DEF r
<1>14. LinkInv(node', upq', wire', contexts', circuit', nextConn')
  BY <1>0, <1>12, <1>13
<1> QED BY <1>7, <1>9, <1>11, <1>13, <1>14 DEF Kept, Lifted, SameGeneration

\* connections.remove: one connection less, and the others as they were
OneLess(cs, c, r) ==
    /\ r \in Seq(ConnType) /\ \A i, j \in DOMAIN r : r[i].id = r[j].id => i = j
    /\ {r[i].id : i \in DOMAIN r} = {cs[i].id : i \in DOMAIN cs} \ {c}

LEMMA WithoutIs ==
    ASSUME NEW cs \in Seq(ConnType), \A i, j \in DOMAIN cs : cs[i].id = cs[j].id => i = j,
           NEW c, \E i \in DOMAIN cs : cs[i].id = c
    PROVE  OneLess(cs, c, Without(cs, c))
<1> DEFINE p == CHOOSE i \in DOMAIN cs : cs[i].id = c
           a == SubSeq(cs, 1, p - 1)
           b == SubSeq(cs, p + 1, Len(cs))
           l == Len(cs)
           r == a \o b
<1>0. DOMAIN cs = 1..l /\ l \in Nat
  OBVIOUS
<1>1. p \in 1..l /\ cs[p].id = c
  BY <1>0
<1>2. Without(cs, c) = r
  BY DEF Without, RemoveAt
<1> HIDE DEF p, l
<1>3. a \in Seq(ConnType) /\ Len(a) = p - 1 /\ \A i \in 1..(p - 1) : a[i] = cs[i]
  <2>1. \A i \in 1..(p - 1) : i \in 1..l
    BY <1>0, <1>1
  <2>2. \A i \in 1..(p - 1) : cs[i] \in ConnType
    BY <1>0, <2>1, ElementOfSeq
  <2>3. Len(a) = IF 1 <= p - 1 THEN p - 1 - 1 + 1 ELSE 0
    BY <1>1, SubSeqProperties DEF l
  <2>4. Len(a) = p - 1
    BY <1>0, <1>1, <2>3
  <2>5. a \in Seq(ConnType) /\ \A i \in 1..(p - 1) : a[i] = cs[1 + i - 1]
    BY <1>0, <1>1, SubSeqProperties DEF l
  <2>6. \A i \in 1..(p - 1) : 1 + i - 1 = i
    BY <1>0, <1>1
  <2> QED BY <2>4, <2>5, <2>6
<1>4. b \in Seq(ConnType) /\ Len(b) = l - p /\ \A i \in 1..(l - p) : b[i] = cs[p + i]
  <2>3. Len(b) = IF p + 1 <= l THEN l - (p + 1) + 1 ELSE 0
    BY <1>0, <1>1, SubSeqProperties DEF l
  <2>4. Len(b) = l - p
    BY <1>0, <1>1, <2>3
  <2>5. b \in Seq(ConnType) /\ \A i \in 1..(l - (p + 1) + 1) : b[i] = cs[p + 1 + i - 1]
    BY <1>0, <1>1, SubSeqProperties DEF l
  <2>6. l - (p + 1) + 1 = l - p /\ \A i \in 1..(l - p) : p + 1 + i - 1 = p + i
    BY <1>0, <1>1
  <2> QED BY <2>4, <2>5, <2>6
<1> HIDE DEF a, b
<1>5. /\ r \in Seq(ConnType) /\ Len(r) = l - 1
      /\ \A i \in 1..(p - 1) : r[i] = cs[i]
      /\ \A i \in p..(l - 1) : r[i] = cs[i + 1]
  <2>1. /\ r \in Seq(ConnType) /\ Len(r) = Len(a) + Len(b)
        /\ \A i \in 1..Len(a) : r[i] = a[i]
        /\ \A i \in Len(a) + 1..Len(a) + Len(b) : r[i] = b[i - Len(a)]
    <3>1. /\ r \in Seq(ConnType) /\ Len(r) = Len(a) + Len(b)
          /\ \A i \in 1..Len(a) + Len(b) : r[i] = IF i <= Len(a) THEN a[i] ELSE b[i - Len(a)]
      <4>1. a \in Seq(ConnType) /\ b \in Seq(ConnType)
        BY <1>3, <1>4
      <4> QED BY <4>1, ConcatProperties
    <3> DEFINE la == Len(a)
               lb == Len(b)
    <3>2. la \in Nat /\ lb \in Nat
      BY <1>3, <1>4
    <3> HIDE DEF la, lb, r
    <3>3. \A i \in 1..la : i \in 1..(la + lb) /\ i <= la
      BY <3>2
    <3>4. \A i \in la + 1..la + lb : i \in 1..(la + lb) /\ ~(i <= la)
      BY <3>2
    <3> QED BY <3>1, <3>3, <3>4 DEF la, lb
  <2>2. ASSUME NEW i \in p..(l - 1) PROVE i \in Len(a) + 1..Len(a) + Len(b) /\ i - Len(a) \in 1..(l - p)
                                          /\ p + (i - Len(a)) = i + 1
    BY <1>0, <1>1, <1>3, <1>4
  <2>3. \A i \in p..(l - 1) : r[i] = cs[i + 1]
    <3> HIDE DEF r
    <3> SUFFICES ASSUME NEW i \in p..(l - 1) PROVE r[i] = cs[i + 1]
      OBVIOUS
    <3>1. r[i] = b[i - Len(a)]
      BY <2>1, <2>2
    <3>2. b[i - Len(a)] = cs[p + (i - Len(a))]
      BY <1>4, <2>2
    <3> QED BY <2>2, <3>1, <3>2
  <2>4. Len(a) + Len(b) = l - 1
    BY <1>0, <1>1, <1>3, <1>4
  <2> QED BY <1>3, <2>1, <2>3, <2>4
<1>6. DOMAIN r = 1..(l - 1)
  <2> HIDE DEF r
  <2> QED BY <1>5
<1> HIDE DEF r
<1> DEFINE at == [i \in 1..(l - 1) |-> IF i < p THEN i ELSE i + 1]
<1>7. /\ \A i \in 1..(l - 1) : r[i] = cs[at[i]] /\ at[i] \in 1..l /\ at[i] # p
      /\ \A i, j \in 1..(l - 1) : at[i] = at[j] => i = j
      /\ \A h \in 1..l : h # p => \E i \in 1..(l - 1) : at[i] = h
  <2>1. \A i \in 1..(l - 1) : at[i] \in 1..l /\ at[i] # p
    BY <1>0, <1>1
  <2>2. \A i, j \in 1..(l - 1) : at[i] = at[j] => i = j
    BY <1>0, <1>1
  <2>3. ASSUME NEW h \in 1..l, h # p PROVE \E i \in 1..(l - 1) : at[i] = h
    <3>1. CASE h < p
      <4>1. h \in 1..(l - 1) /\ at[h] = h
        BY <1>0, <1>1, <3>1
      <4> QED BY <4>1
    <3>2. CASE h > p
      <4>1. h - 1 \in 1..(l - 1) /\ at[h - 1] = h
        BY <1>0, <1>1, <3>2
      <4> QED BY <4>1
    <3> QED BY <1>0, <1>1, <2>3, <3>1, <3>2
  <2>4. ASSUME NEW i \in 1..(l - 1) PROVE r[i] = cs[at[i]]
    <3>1. CASE i < p
      <4>1. i \in 1..(p - 1) /\ at[i] = i
        BY <1>0, <1>1, <3>1
      <4> QED BY <1>5, <4>1
    <3>2. CASE ~(i < p)
      <4>1. i \in p..(l - 1) /\ at[i] = i + 1
        BY <1>0, <1>1, <3>2
      <4> QED BY <1>5, <4>1
    <3> QED BY <3>1, <3>2
  <2> QED BY <2>1, <2>2, <2>3, <2>4
<1> HIDE DEF at
<1>8. \A i, j \in DOMAIN r : r[i].id = r[j].id => i = j
  BY <1>0, <1>6, <1>7
<1>9. {r[i].id : i \in DOMAIN r} = {cs[i].id : i \in DOMAIN cs} \ {c}
  <2>1. ASSUME NEW i \in DOMAIN r PROVE r[i].id \in {cs[h].id : h \in DOMAIN cs} \ {c}
    <3>1. r[i] = cs[at[i]] /\ at[i] \in DOMAIN cs /\ at[i] # p
      BY <1>0, <1>6, <1>7
    <3>2. cs[at[i]].id # c
      BY <1>0, <1>1, <3>1
    <3> QED BY <3>1, <3>2
  <2>2. ASSUME NEW h \in DOMAIN cs, cs[h].id # c PROVE cs[h].id \in {r[i].id : i \in DOMAIN r}
    <3>1. h \in 1..l /\ h # p
      BY <1>0, <1>1, <2>2
    <3>2. PICK i \in 1..(l - 1) : at[i] = h
      BY <1>7, <3>1
    <3> QED BY <1>6, <1>7, <3>2
  <2> QED BY <2>1, <2>2
<1>10. OneLess(cs, c, r)
  BY <1>5, <1>8, <1>9 DEF OneLess
<1> QED BY <1>2, <1>10

\* A generation that lived may be torn down
LEMMA LiveTorn ==
    ASSUME NEW n, NodeInv(n), Live(n), NEW r, r \in NodeType, ConnsInv(r),
           r.entry.state = "canceling", r.entry.gen = n.entry.gen, r.entry.conn = n.entry.conn,
           r.latest = n.latest, r.dials = n.dials, r.barrier.gen = 0,
           \A c \in ConnIds : r.by[c] \in {0, n.by[c]}, r.queued = n.queued,
           r.dispatch \in {n.dispatch, NoDispatch}
    PROVE  TornInv(r)
<1>1. n.entry.gen = n.latest /\ n.entry.gen \in Gens /\ n.entry.conn \in ConnIds \ n.dials /\ n.barrier.gen = 0
  BY DEF NodeInv, EntryInv, Live
<1>2. \A c \in ConnIds : r.by[c] # 0 => r.by[c] = r.entry.gen
  BY DEF NodeInv, WrapperInv
<1>3. r.queued # <<>> => Len(r.queued) = 1 /\ r.queued[1].gen = r.entry.gen
  <2> SUFFICES ASSUME r.queued # <<>> PROVE Len(r.queued) = 1 /\ r.queued[1].gen = r.entry.gen
    OBVIOUS
  <2>1. n.queued = <<[gen |-> n.entry.gen, conn |-> n.entry.conn, item |-> ListenFor(n.entry.gen)]>>
    BY DEF NodeInv, WrapperInv
  <2> QED BY <2>1
<1>4. NoDispatch.gen = 0
  BY DEF NoDispatch
<1>5. r.dispatch.gen # 0 => r.dispatch = n.dispatch /\ ~n.dispatch.canceled /\ n.dispatch.gen = n.entry.gen /\ n.queued = <<>>
  BY <1>1, <1>4 DEF NodeInv, WrapperInv
<1>6. r.dispatch.gen = 0 => r.dispatch = NoDispatch
  BY DEF NodeInv, WrapperInv
<1> QED BY <1>1, <1>2, <1>3, <1>5, <1>6 DEF TornInv

LEMMA ConnectionClosedKeeps ==
    ASSUME ReservationConstants, ReservationInv, NEW c \in ConnIds, ConnectionClosed(c)
    PROVE  Kept
<1> DEFINE cs == Without(node.conns, c)
           l == node.closing \ {c}
           b == [node.barrier EXCEPT !.pending = @ \ {c}]
           y == [node.by EXCEPT ![c] = 0]
           m == [node EXCEPT !.conns = cs, !.closing = l, !.barrier = b, !.by = y]
           g == node.entry.gen
<1>0. /\ NodeInv(node) /\ node \in NodeType /\ call \in [Callers -> CallType] /\ c \in Open(node)
      /\ LinkInv(node, upq, wire, contexts, circuit, nextConn)
      /\ LinkBase(node, upq, wire, contexts, circuit, nextConn)
      /\ LinkLive(node, wire, contexts)
      /\ wire' = [wire EXCEPT ![c] = NoRequest]
      /\ UNCHANGED <<upq, contexts, circuit, nextConn>>
  BY DEF ReservationInv, NodeInv, LinkInv, ConnectionClosed
<1>1. IF g # 0 /\ node.entry.conn = c
        THEN Settled(Canceling([m EXCEPT !.entry.terminal = TRUE, !.closures = @ \cup {g}]), FailWait(call, g))
        ELSE Settled(m, call)
  <2>1. m = [node EXCEPT !.conns = Without(@, c), !.closing = @ \ {c}, !.barrier.pending = @ \ {c}, !.by[c] = 0]
    BY <1>0 DEF NodeType
  <2> QED BY <2>1 DEF ConnectionClosed
<1>2. OneLess(node.conns, c, cs)
  BY <1>0, WithoutIs DEF NodeInv, NodeType, ConnsInv, Open
<1>3. /\ b \in BarrierType /\ b.pending = node.barrier.pending \ {c} /\ b.gen = node.barrier.gen
      /\ b.canceled = node.barrier.canceled /\ b.dispatched = node.barrier.dispatched
      /\ b.gen = 0 => b = NoBarrier
  <2>1. node.barrier \in BarrierType /\ (node.barrier.gen = 0 => node.barrier = NoBarrier)
    BY <1>0 DEF NodeType, NodeInv, ConnsInv
  <2>2. node.barrier = NoBarrier => b = NoBarrier
    BY DEF NoBarrier
  <2>3. /\ b \in BarrierType /\ b.pending = node.barrier.pending \ {c} /\ b.gen = node.barrier.gen
        /\ b.canceled = node.barrier.canceled /\ b.dispatched = node.barrier.dispatched
    BY <2>1 DEF BarrierType
  <2> QED BY <2>1, <2>2, <2>3
<1>4. /\ y \in [ConnIds -> 0..MaxGen] /\ \A d \in ConnIds : y[d] \in {0, node.by[d]}
      /\ node.by[c] = 0 => y = node.by
  BY <1>0 DEF NodeType, ReservationConstants
<1>5. l \subseteq ConnIds /\ cs \in Seq(ConnType)
  BY <1>0, <1>2 DEF NodeType, OneLess
<1> HIDE DEF cs, b, y
<1>6. /\ m \in NodeType /\ m.conns = cs /\ m.closing = l /\ m.barrier = b /\ m.by = y
      /\ m.dials = node.dials /\ m.entry = node.entry /\ m.latest = node.latest /\ m.dispatch = node.dispatch
      /\ m.listener = node.listener /\ m.queued = node.queued /\ m.start = node.start
  <2> HIDE DEF l
  <2> QED BY <1>0, <1>3, <1>4, <1>5 DEF NodeType
<1> HIDE DEF m
<1>7. Open(m) = Open(node) \ {c}
  BY <1>2, <1>6 DEF OneLess, Open
<1>8. ConnsInv(m)
  BY <1>0, <1>2, <1>3, <1>6, <1>7 DEF NodeInv, ConnsInv, OneLess, l
<1>9. LinkBase(m, upq', wire', contexts', circuit', nextConn')
  <2>1. wire' \in [ConnIds -> WireType] /\ wire'[c].gen = 0 /\ \A d \in ConnIds : d # c => wire'[d] = wire[d]
    <3>1. NoRequest \in WireType /\ NoRequest.gen = 0
      BY DEF NoRequest, WireType, ReservationConstants
    <3> QED BY <1>0, <3>1 DEF LinkBase
  <2>2. \A d \in ConnIds : wire'[d].gen # 0 => d \in Open(m)
    BY <1>0, <1>7, <2>1 DEF LinkBase
  <2>3. Open(m) \subseteq ConnIds
    BY <1>6, OpenType
  <2>4. m.entry.accepted /\ m.entry.conn \in Open(m) =>
          wire'[m.entry.conn] = [gen |-> m.entry.gen, accepted |-> TRUE]
    BY <1>0, <1>6, <1>7, <2>1, <2>3 DEF LinkBase
  <2>5. \A d \in Open(m) \cup m.dials : d < nextConn
    BY <1>0, <1>6, <1>7 DEF LinkBase
  <2> QED BY <1>0, <1>6, <2>1, <2>2, <2>4, <2>5 DEF LinkBase
<1>10. node.by[c] = 0 => SameGeneration(node, m)
  BY <1>3, <1>4, <1>6 DEF SameGeneration
<1>11. node.by[c] = 0 /\ ~(Live(node) /\ node.entry.conn = c) =>
          NodeInv(m) /\ LinkInv(m, upq', wire', contexts', circuit', nextConn')
  <2> SUFFICES ASSUME node.by[c] = 0, ~(Live(node) /\ node.entry.conn = c)
               PROVE  NodeInv(m) /\ LinkInv(m, upq', wire', contexts', circuit', nextConn')
    OBVIOUS
  <2>1. node.entry.conn \notin m.dials /\ (Live(node) => node.entry.conn \in Open(m))
    <3>1. CASE node.entry.state = "none"
      BY <1>0, <1>6, <3>1 DEF NodeInv, EntryInv, NoEntry, ConnIds, Live, NodeType
    <3>2. CASE node.entry.state # "none"
      BY <1>0, <1>6, <1>7, <3>2 DEF NodeInv, EntryInv
    <3> QED BY <3>1, <3>2
  <2>2. NodeInv(m)
    BY <1>0, <1>6, <1>8, <1>10, <2>1, ConnsChange
  <2>3. \A d \in ConnIds : wire'[d].gen # 0 => wire'[d] = wire[d]
    <3>1. wire \in [ConnIds -> WireType] /\ NoRequest.gen = 0
      BY <1>0 DEF LinkBase, NoRequest
    <3> QED BY <1>0, <3>1
  <2>4. LinkLive(m, wire', contexts')
    <3>0. m.entry = node.entry /\ m.barrier.gen = node.barrier.gen /\ m.dispatch = node.dispatch /\ m.queued = node.queued
          /\ contexts' = contexts /\ (Live(m) <=> Live(node))
      BY <1>0, <1>3, <1>6 DEF Live
    <3>1. \A d \in ConnIds : wire'[d].gen # 0 =>
            /\ node.entry.state # "none" \/ node.barrier.gen # 0
            /\ Live(node) => wire'[d].gen = node.entry.gen /\ d = node.entry.conn
      BY <1>0, <2>3 DEF LinkLive
    <3>2. Live(node) /\ (node.dispatch.gen # 0 \/ node.queued # <<>>) =>
            /\ \A d \in ConnIds : wire'[d].gen = 0
            /\ ~node.entry.accepted
            /\ \A i \in DOMAIN contexts : contexts[i].handle # node.entry.gen
      BY <1>0, <2>3 DEF LinkLive
    <3>3. Live(node) => \A i \in DOMAIN contexts : contexts[i].handle = node.entry.gen =>
              wire'[node.entry.conn] = [gen |-> node.entry.gen, accepted |-> TRUE]
      <4>1. Live(node) => node.entry.conn # c /\ node.entry.conn \in ConnIds
        BY <1>0 DEF NodeInv, EntryInv, Live
      <4>2. Live(node) => wire'[node.entry.conn] = wire[node.entry.conn]
        BY <1>0, <4>1 DEF LinkBase
      <4> QED BY <1>0, <4>2 DEF LinkLive
    <3> QED BY <3>0, <3>1, <3>2, <3>3 DEF LinkLive
  <2> QED BY <1>9, <2>2, <2>4 DEF LinkInv
<1>12. CASE ~(g # 0 /\ node.entry.conn = c)
  <2>1. node.by[c] = 0 /\ ~(Live(node) /\ node.entry.conn = c)
    BY <1>0, <1>12 DEF NodeInv, WrapperInv, EntryInv, Gens, Live
  <2>2. Settled(m, call)
    BY <1>1, <1>12
  <2> QED BY <1>0, <1>3, <1>6, <1>11, <2>1, <2>2, SettledKeeps
<1>13. CASE g # 0 /\ node.entry.conn = c
  <2> DEFINE en == [m.entry EXCEPT !.terminal = TRUE]
             ec == [en EXCEPT !.state = "canceling"]
             cl == m.closures \cup {g}
             e == [m EXCEPT !.entry = en, !.closures = cl]
             t == [m EXCEPT !.entry = ec, !.closures = cl]
             calls == FailWait(call, g)
  <2>0. calls \in [Callers -> CallType]
    BY <1>0, AnswerType DEF FailWait
  <2>1. Settled(Canceling(e), calls)
    <3>1. e = [m EXCEPT !.entry.terminal = TRUE, !.closures = @ \cup {g}]
      BY <1>6 DEF NodeType
    <3> QED BY <1>1, <1>13, <3>1
  <2>2. g \in 0..MaxGen /\ cl \subseteq 0..MaxGen /\ node.entry \in EntryType /\ m.entry = node.entry
    BY <1>0, <1>6 DEF NodeType, EntryType
  <2>3. /\ en \in EntryType /\ en.state = node.entry.state /\ en.gen = g /\ en.conn = c /\ en.accepted = node.entry.accepted
        /\ ec \in EntryType /\ ec.state = "canceling" /\ ec.gen = g /\ ec.conn = c /\ ec.accepted = node.entry.accepted
    BY <1>13, <2>2 DEF EntryType
  <2>4. [e EXCEPT !.entry.state = "canceling"] = t
    BY <1>6 DEF NodeType
  <2> HIDE DEF en, ec, cl
  <2>5. /\ e \in NodeType /\ e.entry = en /\ e.conns = m.conns /\ e.closing = m.closing /\ e.dials = m.dials /\ e.latest = m.latest
        /\ e.barrier = m.barrier /\ e.dispatch = m.dispatch /\ e.listener = m.listener /\ e.by = m.by /\ e.queued = m.queued
    BY <1>6, <2>2, <2>3 DEF NodeType
  <2>6. /\ t \in NodeType /\ t.entry = ec /\ t.conns = m.conns /\ t.closing = m.closing /\ t.dials = m.dials /\ t.latest = m.latest
        /\ t.barrier = m.barrier /\ t.dispatch = m.dispatch /\ t.listener = m.listener /\ t.by = m.by /\ t.queued = m.queued
    BY <1>6, <2>2, <2>3 DEF NodeType
  <2> HIDE DEF e, t, calls
  <2>7. CASE node.entry.state = "canceling"
    <3>0. ~Live(node) /\ node.by[c] = 0
      BY <1>0, <2>7 DEF Live, NodeInv, WrapperInv
    <3>1. NodeInv(m) /\ LinkInv(m, upq', wire', contexts', circuit', nextConn')
      BY <1>11, <3>0
    <3>2. Open(e) = Open(m) /\ ~Live(e) /\ ~Live(m)
      BY <1>6, <2>3, <2>5, <2>7 DEF Open, Live
    <3>3. ConnsInv(e)
      BY <2>5, <3>1, <3>2 DEF NodeInv, ConnsInv
    <3>4. EntryInv(e)
      BY <1>6, <2>3, <2>5, <2>7, <3>1, <3>2, <1>13 DEF NodeInv, EntryInv
    <3>5. WrapperInv(e)
      BY <2>5, <3>1, <3>2 DEF NodeInv, WrapperInv
    <3>6. LinkInv(e, upq', wire', contexts', circuit', nextConn')
      <4>1. LinkBase(e, upq', wire', contexts', circuit', nextConn')
        BY <1>6, <1>9, <1>13, <2>3, <2>5, <3>2 DEF LinkBase
      <4>2. LinkLive(e, wire', contexts')
        BY <1>6, <2>3, <2>5, <2>7, <3>2 DEF LinkLive
      <4> QED BY <4>1, <4>2 DEF LinkInv
    <3>7. Settled(Completed(e), calls) /\ e.entry.state = "canceling"
      BY <2>1, <2>3, <2>5, <2>7 DEF Canceling
    <3>8. NodeInv(e)
      BY <2>5, <3>3, <3>4, <3>5 DEF NodeInv
    <3> QED BY <2>0, <3>6, <3>7, <3>8, ProgressKeeps
  <2>8. CASE node.entry.state # "canceling"
    <3>0. Live(node) /\ node.barrier.gen = 0
      <4>1. node.entry.state \in {"none", "awaiting", "publishable", "canceling"}
        BY <2>2 DEF EntryType
      <4>2. node.entry.state # "none"
        BY <1>0, <1>13 DEF NodeInv, EntryInv, NoEntry
      <4> QED BY <1>0, <2>8, <4>1, <4>2 DEF Live, NodeInv, EntryInv
    <3>1. Open(t) = Open(m)
      BY <2>6 DEF Open
    <3>2. ConnsInv(t)
      BY <1>8, <2>6, <3>1 DEF ConnsInv
    <3>3. TornInv(t)
      BY <1>0, <1>3, <1>4, <1>6, <1>13, <2>3, <2>6, <3>0, <3>2, LiveTorn
    <3>4. LinkBase(t, upq', wire', contexts', circuit', nextConn')
      BY <1>6, <1>9, <1>13, <2>3, <2>6, <3>1 DEF LinkBase
    <3>5. Settled(Teardown(t), calls)
      BY <2>1, <2>3, <2>4, <2>5, <2>8 DEF Canceling
    <3> QED BY <2>0, <3>3, <3>4, <3>5, TearKeeps
  <2> QED BY <2>7, <2>8
<1> QED BY <1>12, <1>13

-----------------------------------------------------------------------------
(* Commands and events of a reservation *)

\* r is n with its generation turned to canceling
Turned(n, r) ==
    /\ r \in NodeType /\ r.entry.state = "canceling" /\ r.entry.gen = n.entry.gen
    /\ r.entry.conn = n.entry.conn /\ r.entry.accepted = n.entry.accepted
    /\ r.conns = n.conns /\ r.closing = n.closing /\ r.dials = n.dials /\ r.latest = n.latest
    /\ r.barrier = n.barrier /\ r.dispatch = n.dispatch /\ r.by = n.by /\ r.queued = n.queued

LEMMA TurnedTorn ==
    ASSUME NEW n, NodeInv(n), n.entry.gen # 0, NEW r, Turned(n, r)
    PROVE  TornInv(r)
<1>0. n.entry \in EntryType /\ n.entry.state \in {"none", "awaiting", "publishable", "canceling"}
      /\ n.entry.state # "none"
  BY DEF NodeInv, NodeType, EntryType, EntryInv, NoEntry
<1>1. ConnsInv(r)
  BY DEF NodeInv, Turned, ConnsInv, Open
<1>2. CASE Live(n)
  <2>1. n.barrier.gen = 0
    BY <1>2 DEF NodeInv, EntryInv
  <2>2. \A c \in ConnIds : r.by[c] \in {0, n.by[c]}
    BY DEF Turned
  <2> QED BY <1>1, <1>2, <2>1, <2>2, LiveTorn DEF Turned
<1>3. CASE n.entry.state = "canceling"
  <2>0. ~Live(n)
    BY <1>3 DEF Live
  <2>1. n.entry.gen = n.latest /\ n.entry.gen \in Gens /\ n.entry.conn \in ConnIds \ n.dials
        /\ n.barrier.gen = n.entry.gen /\ ~n.barrier.canceled
    BY <1>3 DEF NodeInv, EntryInv
  <2>2. (\A c \in ConnIds : n.by[c] = 0) /\ n.queued = <<>>
    BY <2>0 DEF NodeInv, WrapperInv
  <2>3. /\ n.dispatch.gen # 0 => n.dispatch.gen = n.entry.gen /\ n.dispatch.canceled /\ ~n.barrier.dispatched
        /\ n.dispatch.gen = 0 => n.dispatch = NoDispatch
    BY <2>0, <2>1 DEF NodeInv, WrapperInv
  <2> QED BY <1>1, <2>1, <2>2, <2>3 DEF Turned, TornInv
<1> QED BY <1>0, <1>2, <1>3 DEF Live

LEMMA TurnedLink ==
    ASSUME NEW n, NEW r, Turned(n, r), NEW u, NEW w, NEW x, NEW z, NEW k, LinkBase(n, u, w, x, z, k)
    PROVE  LinkBase(r, u, w, x, z, k)
<1>1. Open(r) = Open(n)
  BY DEF Turned, Open
<1> QED BY <1>1 DEF Turned, LinkBase

LEMMA CancelKeeps ==
    ASSUME ReservationConstants, NEW n, NodeInv(n), NEW g,
           NEW u, NEW w, NEW x, NEW z, NEW k, LinkInv(n, u, w, x, z, k)
    PROVE  /\ NodeInv(Cancel(n, g)) /\ LinkInv(Cancel(n, g), u, w, x, z, k)
           /\ n.barrier.gen # 0 => Cancel(n, g).barrier.gen # 0
<1>1. CASE ~(n.entry.gen = g /\ g # 0)
  BY <1>1 DEF Cancel
<1>2. CASE n.entry.gen = g /\ g # 0
  <2> DEFINE ec == [n.entry EXCEPT !.state = "canceling"]
             t == [n EXCEPT !.entry = ec]
             r == Teardown(t)
  <2>1. n \in NodeType /\ n.entry \in EntryType
    BY DEF NodeInv, NodeType
  <2>2. ec \in EntryType /\ ec.state = "canceling" /\ ec.gen = n.entry.gen /\ ec.conn = n.entry.conn
        /\ ec.accepted = n.entry.accepted
    BY <2>1 DEF EntryType
  <2>3. Cancel(n, g) = r
    <3>1. t = [n EXCEPT !.entry.state = "canceling"]
      BY <2>1 DEF NodeType
    <3> QED BY <1>2, <3>1 DEF Cancel
  <2> HIDE DEF ec
  <2>4. Turned(n, t)
    BY <2>1, <2>2 DEF NodeType, Turned
  <2> HIDE DEF t
  <2>5. TornInv(t) /\ LinkBase(t, u, w, x, z, k)
    BY <1>2, <2>4, TurnedTorn, TurnedLink DEF LinkInv
  <2>6. NodeInv(r) /\ TornDown(t, r)
    BY <2>5, TeardownKeeps
  <2> HIDE DEF r
  <2>7. LinkInv(r, u, w, x, z, k)
    BY <2>5, <2>6, TornLink DEF NodeInv
  <2> QED BY <2>3, <2>6, <2>7 DEF TornDown
<1> QED BY <1>1, <1>2

LEMMA CancelReservationKeeps ==
    ASSUME ReservationConstants, ReservationInv, NEW k \in Callers, CancelReservation(k)
    PROVE  Kept
<1> DEFINE g == call[k].gen
           calls == [call EXCEPT ![k].pc = "canceling"]
           r == Cancel(node, g)
<1>0. /\ NodeInv(node) /\ call \in [Callers -> CallType] /\ call[k] \in CallType
      /\ LinkInv(node, upq, wire, contexts, circuit, nextConn)
      /\ UNCHANGED <<upq, wire, contexts, circuit, nextConn>>
  BY DEF ReservationInv, CancelReservation
<1>1. calls \in [Callers -> CallType]
  BY <1>0 DEF CallType
<1>2. LinkInv(node, upq', wire', contexts', circuit', nextConn')
  BY <1>0
<1>3. /\ NodeInv(r) /\ LinkInv(r, upq', wire', contexts', circuit', nextConn')
      /\ node.barrier.gen # 0 => r.barrier.gen # 0
  BY <1>0, <1>2, CancelKeeps
<1>4. \/ Settled(node, calls) \/ Settled(r, calls)
      \/ call' = [call EXCEPT ![k] = NoCall] /\ UNCHANGED node
  BY DEF CancelReservation
<1> HIDE DEF calls, r
<1>5. CASE Settled(node, calls)
  BY <1>0, <1>1, <1>2, <1>5, SettledKeeps
<1>6. CASE Settled(r, calls)
  BY <1>1, <1>3, <1>6, SettledKeeps
<1>7. CASE call' = [call EXCEPT ![k] = NoCall] /\ UNCHANGED node
  <2>1. NoCall \in CallType
    BY DEF NoCall, CallType, ReservationConstants
  <2>2. call' \in [Callers -> CallType]
    BY <1>0, <1>7, <2>1
  <2> QED BY <1>0, <1>7, <2>2, CallKeeps
<1> QED BY <1>4, <1>5, <1>6, <1>7

LEMMA BeginKeeps ==
    ASSUME ReservationConstants, ReservationInv, NEW k \in Callers, Begin(k)
    PROVE  Kept
<1>0. /\ NodeInv(node) /\ node \in NodeType /\ call \in [Callers -> CallType] /\ call[k] \in CallType
      /\ LinkInv(node, upq, wire, contexts, circuit, nextConn)
      /\ LinkBase(node, upq, wire, contexts, circuit, nextConn)
      /\ LinkLive(node, wire, contexts)
      /\ UNCHANGED <<wire, contexts, circuit, nextConn>>
  BY DEF ReservationInv, NodeInv, LinkInv, Begin
<1>1. CASE ~MayBegin(k)
  <2>1. NoCall \in CallType
    BY DEF NoCall, CallType, ReservationConstants
  <2>2. call' \in [Callers -> CallType]
    BY <1>0, <1>1, <2>1 DEF Begin
  <2> QED BY <1>0, <1>1, <2>2, CallKeeps DEF Begin
<1>2. CASE MayBegin(k)
  <2> DEFINE g == node.latest + 1
             o == call[k].conn
             en == [NoEntry EXCEPT !.gen = g, !.state = "awaiting", !.conn = o]
             ls == [node.listener EXCEPT ![g] = "open"]
             d == [gen |-> g, conn |-> o, canceled |-> FALSE]
  <2>1. /\ o \in Open(node) /\ circuit # "pending" /\ node.entry.gen = 0 /\ node.barrier.gen = 0
        /\ node.latest < MaxGen
    BY <1>2 DEF MayBegin
  <2>2. /\ node' = [node EXCEPT !.entry = en, !.latest = g, !.listener = ls, !.start = g,
                                !.rejected = {}, !.closures = {}, !.dispatch = d]
        /\ upq' = Append(upq, ListenFor(g))
        /\ call' = [call EXCEPT ![k].pc = "starting", ![k].gen = g]
    BY <1>0, <1>2 DEF Begin, ListenFor, NodeType
  <2>3. node.latest \in Nat /\ g \in Gens /\ g \in 0..MaxGen /\ g # 0 /\ g > node.latest
    BY <1>0, <2>1 DEF NodeType, Gens, ReservationConstants
  <2>4. o \in ConnIds /\ o \in 0..MaxConn /\ o \notin node.dials
    <3>1. o \in ConnIds /\ o \notin node.dials
      BY <1>0, <2>1, OpenType DEF NodeInv, ConnsInv
    <3> QED BY <3>1 DEF ConnIds, ReservationConstants
  <2> HIDE DEF g, o
  <2>5. /\ en \in EntryType /\ en.gen = g /\ en.state = "awaiting" /\ en.conn = o /\ ~en.accepted
    BY <2>3, <2>4 DEF EntryType, NoEntry
  <2>6. ls \in [Gens -> {"none", "open", "removing", "closed"}] /\ ls[g] = "open"
    BY <1>0, <2>3 DEF NodeType
  <2>7. d \in DispatchType /\ d.gen = g /\ d.conn = o /\ ~d.canceled
    BY <2>3, <2>4 DEF DispatchType
  <2> HIDE DEF en, ls, d
  <2>8. /\ node' \in NodeType /\ node'.entry = en /\ node'.latest = g /\ node'.listener = ls /\ node'.dispatch = d
        /\ node'.conns = node.conns /\ node'.closing = node.closing /\ node'.dials = node.dials
        /\ node'.barrier = node.barrier /\ node'.by = node.by /\ node'.queued = node.queued
    BY <1>0, <2>2, <2>3, <2>5, <2>6, <2>7 DEF NodeType
  <2>9. node.entry.state = "none" /\ ~Live(node)
    BY <1>0, <2>1 DEF NodeInv, EntryInv, Gens, Live
  <2>10. (\A c \in ConnIds : node.by[c] = 0) /\ node.queued = <<>> /\ node.dispatch.gen = 0
    BY <1>0, <2>1, <2>9 DEF NodeInv, WrapperInv
  <2>11. upq = <<>> /\ upq' = <<ListenFor(g)>>
    <3>1. upq = <<>>
      BY <1>0, <2>1, <2>10 DEF LinkBase
    <3> QED BY <2>2, <3>1
  <2>12. \A c \in ConnIds : wire[c].gen = 0
    BY <1>0, <2>1, <2>9 DEF LinkLive
  <2>13. \A i \in DOMAIN contexts : contexts[i].handle \in Nat /\ contexts[i].handle <= node.latest
    <3>1. contexts \in Seq(ContextType)
      BY <1>0 DEF LinkBase
    <3>2. ASSUME NEW i \in DOMAIN contexts PROVE contexts[i].handle \in 0..MaxGen
      <4>1. contexts[i] \in ContextType
        BY <3>1, ElementOfSeq
      <4> QED BY <4>1 DEF ContextType
    <3>3. 0..MaxGen \subseteq Nat
      BY DEF ReservationConstants
    <3>4. \A i \in DOMAIN contexts : contexts[i].handle <= node.latest
      BY <1>0 DEF LinkBase
    <3> QED BY <3>2, <3>3, <3>4
  <2>14. \A i \in DOMAIN contexts : contexts[i].handle <= g /\ contexts[i].handle # g
    <3> SUFFICES ASSUME NEW i \in DOMAIN contexts PROVE contexts[i].handle <= g /\ contexts[i].handle # g
      OBVIOUS
    <3> DEFINE h == contexts[i].handle
               j == node.latest
    <3>1. h \in Nat /\ j \in Nat /\ g \in Nat /\ h <= j /\ g > j
      BY <2>3, <2>13 DEF Gens, ReservationConstants
    <3> HIDE DEF h, j
    <3>2. h <= g /\ h # g
      BY <3>1
    <3> QED BY <3>2 DEF h
  <2>15. Open(node') = Open(node)
    BY <2>8 DEF Open
  <2>16. ConnsInv(node')
    BY <1>0, <2>8, <2>15 DEF NodeInv, ConnsInv
  <2>17. Live(node')
    BY <2>5, <2>8 DEF Live
  <2>18. ~node'.barrier.canceled
    BY <1>0, <2>1, <2>8 DEF NodeInv, ConnsInv, NoBarrier
  <2>19. EntryInv(node')
    BY <2>1, <2>3, <2>4, <2>5, <2>6, <2>8, <2>15, <2>17 DEF EntryInv
  <2>20. WrapperInv(node')
    BY <2>3, <2>5, <2>7, <2>8, <2>10, <2>17 DEF WrapperInv
  <2>21. LinkBase(node', upq', wire', contexts', circuit', nextConn')
    <3>1. o < nextConn
      BY <1>0, <2>1 DEF LinkBase
    <3> QED BY <1>0, <2>1, <2>3, <2>5, <2>7, <2>8, <2>11, <2>14, <2>15, <3>1 DEF LinkBase
  <2>22. LinkLive(node', wire', contexts')
    BY <1>0, <2>5, <2>8, <2>12, <2>14 DEF LinkLive
  <2>23. call' \in [Callers -> CallType]
    <3>1. call' = [call EXCEPT ![k] = [call[k] EXCEPT !.pc = "starting", !.gen = g]]
      BY <1>0, <2>2 DEF CallType
    <3>2. [call[k] EXCEPT !.pc = "starting", !.gen = g] \in CallType
      BY <1>0, <2>3 DEF CallType
    <3> QED BY <1>0, <3>1, <3>2
  <2> QED BY <2>1, <2>8, <2>16, <2>19, <2>20, <2>21, <2>22, <2>23 DEF Kept, Lifted, NodeInv, LinkInv
<1> QED BY <1>1, <1>2

\* maybe_publish
LEMMA PublishKeeps ==
    ASSUME ReservationConstants, NEW n, NodeInv(n), LinkInv(n, upq', wire', contexts', circuit', nextConn'),
           n.barrier.gen = node.barrier.gen, call \in [Callers -> CallType], Publish(n)
    PROVE  Kept
<1> DEFINE en == [n.entry EXCEPT !.state = "publishable"]
           r == [n EXCEPT !.entry = en]
<1>0. n \in NodeType /\ n.entry \in EntryType
  BY DEF NodeInv, NodeType
<1>1. call' \in [Callers -> CallType]
  BY AnswerType DEF Publish
<1>2. node' = n \/ (n.entry.state = "awaiting" /\ node' = r)
  <2>1. r = [n EXCEPT !.entry.state = "publishable"]
    BY <1>0 DEF NodeType
  <2> QED BY <2>1 DEF Publish, Published
<1>3. CASE node' = n
  BY <1>1, <1>3 DEF Kept, Lifted
<1>4. CASE n.entry.state = "awaiting" /\ node' = r
  <2>1. en \in EntryType /\ en.state = "publishable" /\ en.gen = n.entry.gen /\ en.conn = n.entry.conn
        /\ en.accepted = n.entry.accepted
    BY <1>0 DEF EntryType
  <2> HIDE DEF en
  <2>2. /\ r \in NodeType /\ r.entry = en /\ r.conns = n.conns /\ r.closing = n.closing /\ r.dials = n.dials /\ r.latest = n.latest
        /\ r.barrier = n.barrier /\ r.dispatch = n.dispatch /\ r.listener = n.listener /\ r.by = n.by /\ r.queued = n.queued
    BY <1>0, <2>1 DEF NodeType
  <2> HIDE DEF r
  <2>3. Open(r) = Open(n) /\ Live(r) /\ Live(n)
    BY <1>4, <2>1, <2>2 DEF Open, Live
  <2>4. ConnsInv(r)
    BY <2>2, <2>3 DEF NodeInv, ConnsInv
  <2>5. EntryInv(r)
    BY <1>4, <2>1, <2>2, <2>3 DEF NodeInv, EntryInv
  <2>6. WrapperInv(r)
    BY <2>1, <2>2, <2>3 DEF NodeInv, WrapperInv
  <2>7. LinkBase(r, upq', wire', contexts', circuit', nextConn')
    BY <2>1, <2>2, <2>3 DEF LinkInv, LinkBase
  <2>8. LinkLive(r, wire', contexts')
    BY <1>4, <2>1, <2>2, <2>3 DEF LinkInv, LinkLive
  <2> QED BY <1>1, <1>4, <2>2, <2>4, <2>5, <2>6, <2>7, <2>8 DEF Kept, Lifted, NodeInv, LinkInv
<1> QED BY <1>2, <1>3, <1>4

\* The entry learns something, its state apart
LEMMA EntryLearns ==
    ASSUME NEW n, NodeInv(n), NEW en \in EntryType, n.entry.state # "none",
           en.state = n.entry.state, en.gen = n.entry.gen, en.conn = n.entry.conn
    PROVE  LET r == [n EXCEPT !.entry = en] IN
           /\ NodeInv(r) /\ r.entry = en /\ (Live(r) <=> Live(n)) /\ Open(r) = Open(n)
           /\ r.dials = n.dials /\ r.latest = n.latest
           /\ r.barrier = n.barrier /\ r.dispatch = n.dispatch /\ r.queued = n.queued
<1> DEFINE r == [n EXCEPT !.entry = en]
<1>0. n \in NodeType
  BY DEF NodeInv
<1>1. /\ r \in NodeType /\ r.entry = en /\ r.conns = n.conns /\ r.closing = n.closing /\ r.dials = n.dials /\ r.latest = n.latest
      /\ r.barrier = n.barrier /\ r.dispatch = n.dispatch /\ r.listener = n.listener /\ r.by = n.by /\ r.queued = n.queued
  BY <1>0 DEF NodeType
<1> HIDE DEF r
<1>2. Open(r) = Open(n) /\ (Live(r) <=> Live(n))
  BY <1>1 DEF Open, Live
<1>3. ConnsInv(r)
  BY <1>1, <1>2 DEF NodeInv, ConnsInv
<1>4. EntryInv(r)
  BY <1>1, <1>2 DEF NodeInv, EntryInv
<1>5. WrapperInv(r)
  BY <1>1, <1>2 DEF NodeInv, WrapperInv
<1> QED BY <1>1, <1>2, <1>3, <1>4, <1>5 DEF NodeInv, r

LEMMA LearnedLink ==
    ASSUME NEW n, NEW r, NEW u, NEW w, NEW x, NEW z, NEW k, LinkInv(n, u, w, x, z, k),
           r.entry.state = n.entry.state, r.entry.gen = n.entry.gen, r.entry.conn = n.entry.conn,
           r.entry.accepted = n.entry.accepted, Open(r) = Open(n), r.dials = n.dials, r.latest = n.latest,
           r.barrier.gen = n.barrier.gen, r.dispatch = n.dispatch, r.queued = n.queued
    PROVE  LinkInv(r, u, w, x, z, k)
<1>1. LinkBase(r, u, w, x, z, k)
  BY DEF LinkInv, LinkBase
<1>2. LinkLive(r, w, x)
  BY DEF LinkInv, LinkLive, Live
<1> QED BY <1>1, <1>2 DEF LinkInv

LEMMA ListenerAddressKeeps ==
    ASSUME ReservationConstants, ReservationInv, NEW g \in Gens, ListenerAddress(g)
    PROVE  Kept
<1> DEFINE en == [node.entry EXCEPT !.heard = TRUE]
           r == [node EXCEPT !.entry = en]
<1>0. /\ NodeInv(node) /\ node \in NodeType /\ node.entry \in EntryType /\ call \in [Callers -> CallType]
      /\ LinkInv(node, upq, wire, contexts, circuit, nextConn)
      /\ UNCHANGED <<upq, wire, contexts, circuit, nextConn>>
      /\ node.entry.gen = g
  BY DEF ReservationInv, NodeInv, NodeType, ListenerAddress
<1>1. Publish(r)
  <2>1. r = [node EXCEPT !.entry.heard = TRUE]
    BY <1>0 DEF NodeType
  <2> QED BY <2>1 DEF ListenerAddress
<1>2. en \in EntryType /\ en.state = node.entry.state /\ en.gen = node.entry.gen /\ en.conn = node.entry.conn
      /\ en.accepted = node.entry.accepted
  BY <1>0 DEF EntryType
<1>3. node.entry.state # "none"
  <2>1. g # 0
    BY DEF Gens
  <2> QED BY <1>0, <2>1 DEF NodeInv, EntryInv, NoEntry
<1> HIDE DEF en
<1>4. /\ NodeInv(r) /\ r.entry = en /\ Open(r) = Open(node) /\ r.dials = node.dials /\ r.latest = node.latest
      /\ r.barrier = node.barrier /\ r.dispatch = node.dispatch /\ r.queued = node.queued
  BY <1>0, <1>2, <1>3, EntryLearns
<1> HIDE DEF r
<1>5. LinkInv(r, upq', wire', contexts', circuit', nextConn')
  <2>1. LinkInv(node, upq', wire', contexts', circuit', nextConn')
    BY <1>0
  <2> QED BY <1>2, <1>4, <2>1, LearnedLink
<1> QED BY <1>0, <1>1, <1>4, <1>5, PublishKeeps

LEMMA ListenerClosedKeeps ==
    ASSUME ReservationConstants, ReservationInv, NEW g \in Gens, ListenerClosed(g)
    PROVE  Kept
<1> DEFINE ls == [node.listener EXCEPT ![g] = "closed"]
           m == [node EXCEPT !.listener = ls]
           failed == node.listener[g] = "open"
           calls == IF failed THEN FailWait(call, g) ELSE call
           cl == IF failed THEN node.closures \cup {g} ELSE node.closures
           en == [node.entry EXCEPT !.shut = TRUE]
           e == [m EXCEPT !.entry = en, !.closures = cl]
<1>0. /\ NodeInv(node) /\ node \in NodeType /\ node.entry \in EntryType /\ call \in [Callers -> CallType]
      /\ LinkInv(node, upq, wire, contexts, circuit, nextConn)
      /\ UNCHANGED <<upq, wire, contexts, circuit, nextConn>>
      /\ g # 0 /\ g \in 0..MaxGen
  BY DEF ReservationInv, NodeInv, NodeType, ListenerClosed, Gens
<1>1. /\ ls \in [Gens -> {"none", "open", "removing", "closed"}]
      /\ \A h \in Gens : h # g => ls[h] = node.listener[h]
  BY <1>0 DEF NodeType
<1>2. calls \in [Callers -> CallType]
  BY <1>0, AnswerType DEF FailWait
<1>3. IF node.entry.gen = g THEN Settled(Canceling(e), calls) ELSE Settled(m, call)
  <2>1. m = [node EXCEPT !.listener[g] = "closed"]
    BY <1>0 DEF NodeType
  <2>2. e = [m EXCEPT !.entry.shut = TRUE, !.closures = IF failed THEN @ \cup {g} ELSE @]
    BY <1>0 DEF NodeType
  <2> HIDE DEF m, e, calls
  <2> QED BY <2>1, <2>2 DEF ListenerClosed, calls
<1> HIDE DEF ls
<1>4. /\ m \in NodeType /\ m.listener = ls /\ m.conns = node.conns /\ m.closing = node.closing /\ m.dials = node.dials
      /\ m.entry = node.entry /\ m.latest = node.latest /\ m.barrier = node.barrier /\ m.dispatch = node.dispatch
      /\ m.by = node.by /\ m.queued = node.queued /\ m.closures = node.closures
  BY <1>0, <1>1 DEF NodeType
<1>5. LinkInv(node, upq', wire', contexts', circuit', nextConn')
  BY <1>0
<1>6. CASE node.entry.gen # g
  <2> HIDE DEF m
  <2>1. Open(m) = Open(node) /\ (Live(m) <=> Live(node))
    BY <1>4 DEF Open, Live
  <2>2. ConnsInv(m)
    BY <1>0, <1>4, <2>1 DEF NodeInv, ConnsInv
  <2>3. EntryInv(m)
    <3>1. Live(node) => node.entry.gen \in Gens /\ node.listener[node.entry.gen] = "open"
      BY <1>0 DEF NodeInv, EntryInv, Live
    <3>2. Live(node) => m.listener[node.entry.gen] = "open"
      BY <1>1, <1>4, <1>6, <3>1
    <3> QED BY <1>0, <1>4, <2>1, <3>2 DEF NodeInv, EntryInv
  <2>4. WrapperInv(m)
    BY <1>0, <1>4, <2>1 DEF NodeInv, WrapperInv
  <2>5. LinkInv(m, upq', wire', contexts', circuit', nextConn')
    BY <1>4, <1>5, <2>1, LearnedLink
  <2>6. NodeInv(m)
    BY <1>4, <2>2, <2>3, <2>4 DEF NodeInv
  <2>7. Settled(m, call)
    BY <1>3, <1>6
  <2> QED BY <1>0, <1>4, <2>5, <2>6, <2>7, SettledKeeps
<1>7. CASE node.entry.gen = g
  <2> DEFINE ec == [en EXCEPT !.state = "canceling"]
             t == [m EXCEPT !.entry = ec, !.closures = cl]
  <2>0. Settled(Canceling(e), calls)
    BY <1>3, <1>7
  <2>1. cl \subseteq 0..MaxGen
    BY <1>0 DEF NodeType
  <2>2. /\ en \in EntryType /\ en.state = node.entry.state /\ en.gen = g /\ en.conn = node.entry.conn
        /\ en.accepted = node.entry.accepted
        /\ ec \in EntryType /\ ec.state = "canceling" /\ ec.gen = g /\ ec.conn = node.entry.conn
        /\ ec.accepted = node.entry.accepted
    <3>1. /\ en \in EntryType /\ en.state = node.entry.state /\ en.gen = g /\ en.conn = node.entry.conn
          /\ en.accepted = node.entry.accepted
      BY <1>0, <1>7 DEF EntryType
    <3> HIDE DEF en
    <3>2. /\ ec \in EntryType /\ ec.state = "canceling" /\ ec.gen = g /\ ec.conn = node.entry.conn
          /\ ec.accepted = node.entry.accepted
      BY <3>1 DEF EntryType
    <3> QED BY <3>1, <3>2
  <2>3. [e EXCEPT !.entry.state = "canceling"] = t
    BY <1>4 DEF NodeType
  <2> HIDE DEF m, en, ec, cl
  <2>4. /\ e \in NodeType /\ e.entry = en /\ e.conns = node.conns /\ e.closing = node.closing /\ e.dials = node.dials
        /\ e.latest = node.latest /\ e.barrier = node.barrier /\ e.dispatch = node.dispatch /\ e.by = node.by
        /\ e.queued = node.queued /\ e.listener = ls
    BY <1>4, <2>1, <2>2 DEF NodeType
  <2>5. Turned(node, t)
    BY <1>4, <1>7, <2>1, <2>2 DEF NodeType, Turned
  <2> HIDE DEF e, t, calls
  <2>6. CASE node.entry.state = "canceling"
    <3>1. Open(e) = Open(node) /\ ~Live(e) /\ ~Live(node)
      BY <2>2, <2>4, <2>6 DEF Open, Live
    <3>2. ConnsInv(e)
      BY <1>0, <2>4, <3>1 DEF NodeInv, ConnsInv
    <3>3. EntryInv(e)
      BY <1>0, <1>7, <2>2, <2>4, <2>6, <3>1 DEF NodeInv, EntryInv
    <3>4. WrapperInv(e)
      BY <1>0, <2>4, <3>1 DEF NodeInv, WrapperInv
    <3>5. NodeInv(e)
      BY <2>4, <3>2, <3>3, <3>4 DEF NodeInv
    <3>6. LinkInv(e, upq', wire', contexts', circuit', nextConn')
      BY <1>5, <1>7, <2>2, <2>4, <3>1, LearnedLink
    <3>7. Settled(Completed(e), calls) /\ e.entry.state = "canceling"
      BY <2>0, <2>2, <2>4, <2>6 DEF Canceling
    <3> QED BY <1>2, <3>5, <3>6, <3>7, ProgressKeeps
  <2>7. CASE node.entry.state # "canceling"
    <3>1. TornInv(t) /\ LinkBase(t, upq', wire', contexts', circuit', nextConn')
      BY <1>0, <1>5, <1>7, <2>5, TurnedTorn, TurnedLink DEF LinkInv
    <3>2. Settled(Teardown(t), calls)
      BY <2>0, <2>2, <2>3, <2>4, <2>7 DEF Canceling
    <3> QED BY <1>2, <3>1, <3>2, TearKeeps
  <2> QED BY <2>6, <2>7
<1> QED BY <1>6, <1>7

-----------------------------------------------------------------------------
(* The wrapper of the relay client *)

LEMMA DeliverKeeps ==
    ASSUME ReservationConstants, ReservationInv, Deliver
    PROVE  Kept
<1> DEFINE q == [gen |-> node.entry.gen, conn |-> node.entry.conn, item |-> ListenFor(node.entry.gen)]
           g == node.entry.gen
           o == node.entry.conn
<1>0. /\ NodeInv(node) /\ node \in NodeType /\ call \in [Callers -> CallType]
      /\ LinkBase(node, upq, wire, contexts, circuit, nextConn)
      /\ LinkLive(node, wire, contexts)
      /\ UNCHANGED <<call, upq, contexts, nextConn>>
      /\ node.queued # <<>>
  BY DEF ReservationInv, NodeInv, LinkInv, Deliver
<1>1. Live(node) /\ node.queued = <<q>> /\ node.dispatch.gen = 0
  BY <1>0 DEF NodeInv, WrapperInv
<1>2. o \in Open(node) /\ o \in ConnIds /\ g \in Gens /\ g \in 0..MaxGen
  BY <1>0, <1>1 DEF NodeInv, EntryInv, Live, Gens
<1>3. Head(node.queued) = q /\ Tail(node.queued) = <<>> /\ q.conn = o /\ q.item.kind = "listen" /\ q.item.gen = g
  <2>1. q.conn = o /\ q.item.kind = "listen" /\ q.item.gen = g
    BY DEF ListenFor
  <2> HIDE DEF q
  <2> QED BY <1>1, <2>1
<1>4. wire' = [wire EXCEPT ![o] = [gen |-> g, accepted |-> FALSE]] /\ circuit' = circuit
  <2> HIDE DEF q
  <2> QED BY <1>2, <1>3 DEF Deliver, Handled
<1>5. node' = [node EXCEPT !.queued = <<>>]
  <2> HIDE DEF q
  <2>1. node' = [node EXCEPT !.queued = Tail(node.queued)]
    BY <1>0 DEF Deliver, NodeType
  <2> QED BY <1>3, <2>1
<1>6. <<>> \in Seq(ActionType)
  OBVIOUS
<1>7. /\ node' \in NodeType /\ node'.queued = <<>>
      /\ node'.conns = node.conns /\ node'.closing = node.closing /\ node'.dials = node.dials /\ node'.entry = node.entry
      /\ node'.latest = node.latest /\ node'.barrier = node.barrier /\ node'.dispatch = node.dispatch
      /\ node'.listener = node.listener /\ node'.by = node.by
  BY <1>0, <1>5, <1>6 DEF NodeType
<1>8. Open(node') = Open(node) /\ Live(node')
  BY <1>1, <1>7 DEF Open, Live
<1>9. ConnsInv(node')
  BY <1>0, <1>7, <1>8 DEF NodeInv, ConnsInv
<1>10. EntryInv(node')
  BY <1>0, <1>7, <1>8 DEF NodeInv, EntryInv, Live
<1>11. WrapperInv(node')
  BY <1>0, <1>1, <1>7, <1>8 DEF NodeInv, WrapperInv
<1>12. /\ wire' \in [ConnIds -> WireType] /\ wire'[o].gen = g /\ \A c \in ConnIds : c # o => wire'[c] = wire[c]
  <2>1. [gen |-> g, accepted |-> FALSE] \in WireType
    BY <1>2 DEF WireType
  <2> QED BY <1>0, <1>2, <1>4, <2>1 DEF LinkBase
<1>13. (\A c \in ConnIds : wire[c].gen = 0) /\ ~node.entry.accepted /\ \A i \in DOMAIN contexts : contexts[i].handle # g
  BY <1>0, <1>1 DEF LinkLive
<1>14. LinkBase(node', upq', wire', contexts', circuit', nextConn')
  <2>1. \A c \in ConnIds : wire'[c].gen # 0 => c \in Open(node')
    BY <1>2, <1>8, <1>12, <1>13
  <2> QED BY <1>0, <1>4, <1>7, <1>8, <1>12, <1>13, <2>1 DEF LinkBase
<1>15. LinkLive(node', wire', contexts')
  <2>1. \A c \in ConnIds : wire'[c].gen # 0 => wire'[c].gen = g /\ c = o
    BY <1>12, <1>13
  <2>2. node.entry.state # "none"
    BY <1>1 DEF Live
  <2> QED BY <1>0, <1>1, <1>7, <1>8, <1>13, <2>1, <2>2 DEF LinkLive
<1> QED BY <1>0, <1>7, <1>9, <1>10, <1>11, <1>14, <1>15 DEF Kept, Lifted, NodeInv, LinkInv

LEMMA RelayAcceptsKeeps ==
    ASSUME ReservationConstants, ReservationInv, NEW c \in ConnIds, RelayAccepts(c)
    PROVE  Kept
<1>0. /\ NodeInv(node) /\ node \in NodeType /\ call \in [Callers -> CallType]
      /\ LinkBase(node, upq, wire, contexts, circuit, nextConn)
      /\ LinkLive(node, wire, contexts)
      /\ UNCHANGED <<node, call, upq, circuit, nextConn>>
      /\ wire[c].gen # 0 /\ wire' = [wire EXCEPT ![c].accepted = TRUE]
  BY DEF ReservationInv, NodeInv, LinkInv, RelayAccepts
<1>1. PICK good \in BOOLEAN : contexts' = Append(contexts, [handle |-> node.by[c], from |-> wire[c].gen,
                                                           renewal |-> wire[c].accepted, good |-> good])
  BY DEF RelayAccepts, Stamp
<1> DEFINE e == [handle |-> node.by[c], from |-> wire[c].gen, renewal |-> wire[c].accepted, good |-> good]
           l == Len(contexts)
<1>2. wire \in [ConnIds -> WireType] /\ wire[c] \in WireType /\ contexts \in Seq(ContextType)
  BY <1>0 DEF LinkBase
<1>3. e \in ContextType /\ e.handle = node.by[c]
  <2>1. node.by[c] \in 0..MaxGen
    BY <1>0 DEF NodeType
  <2> QED BY <1>2, <2>1 DEF ContextType, WireType
<1>4. contexts' = Append(contexts, e)
  BY <1>1
<1> HIDE DEF e
<1>5. /\ contexts' \in Seq(ContextType) /\ Len(contexts') = l + 1
      /\ \A i \in 1..l : contexts'[i] = contexts[i]
      /\ contexts'[l + 1] = e
  BY <1>2, <1>3, <1>4, AppendProperties
<1>6. \A i \in DOMAIN contexts' : contexts'[i] = e \/ (i \in DOMAIN contexts /\ contexts'[i] = contexts[i])
  <2>1. l \in Nat /\ DOMAIN contexts' = 1..(l + 1) /\ DOMAIN contexts = 1..l
    BY <1>2, <1>5
  <2> HIDE DEF l
  <2>2. \A i \in 1..(l + 1) : i \in 1..l \/ i = l + 1
    BY <2>1
  <2> QED BY <1>5, <2>1, <2>2
<1>7. /\ wire' \in [ConnIds -> WireType] /\ wire'[c] = [gen |-> wire[c].gen, accepted |-> TRUE]
      /\ \A d \in ConnIds : wire'[d].gen = wire[d].gen
      /\ \A d \in ConnIds : wire[d].accepted => wire'[d] = wire[d]
  <2>1. [wire[c] EXCEPT !.accepted = TRUE] \in WireType
        /\ [wire[c] EXCEPT !.accepted = TRUE] = [gen |-> wire[c].gen, accepted |-> TRUE]
        /\ (wire[c].accepted => [wire[c] EXCEPT !.accepted = TRUE] = wire[c])
    <3> DEFINE b == [wire[c] EXCEPT !.accepted = TRUE]
    <3>a. b \in WireType
      BY <1>2 DEF WireType
    <3>b. b.gen = wire[c].gen /\ b.accepted = TRUE
      BY <1>2 DEF WireType
    <3> HIDE DEF b
    <3>c. b = [gen |-> b.gen, accepted |-> b.accepted]
      BY <3>a DEF WireType
    <3>1. b \in WireType /\ b = [gen |-> wire[c].gen, accepted |-> TRUE]
      BY <3>a, <3>b, <3>c
    <3>2. ASSUME wire[c].accepted PROVE [gen |-> wire[c].gen, accepted |-> TRUE] = wire[c]
      <4>1. wire[c].accepted = TRUE
        BY <1>2, <3>2 DEF WireType
      <4>2. wire[c] = [gen |-> wire[c].gen, accepted |-> wire[c].accepted]
        BY <1>2 DEF WireType
      <4> QED BY <4>1, <4>2
    <3> QED BY <3>1, <3>2 DEF b
  <2>2. wire' = [wire EXCEPT ![c] = [wire[c] EXCEPT !.accepted = TRUE]]
    BY <1>0, <1>2
  <2> DEFINE v == [wire[c] EXCEPT !.accepted = TRUE]
  <2>3. v.gen = wire[c].gen
    BY <1>2 DEF WireType
  <2> HIDE DEF v
  <2>4. wire' = [wire EXCEPT ![c] = v] /\ v \in WireType /\ v = [gen |-> wire[c].gen, accepted |-> TRUE]
        /\ (wire[c].accepted => v = wire[c])
    BY <2>1, <2>2 DEF v
  <2>5. wire' \in [ConnIds -> WireType] /\ wire'[c] = v
    BY <1>2, <2>4
  <2>6. \A d \in ConnIds : d # c => wire'[d] = wire[d]
    BY <1>2, <2>4
  <2> QED BY <2>3, <2>4, <2>5, <2>6
<1>8. node.by[c] # 0 => Live(node) /\ node.by[c] = node.entry.gen /\ node.entry.conn = c
  BY <1>0 DEF NodeInv, WrapperInv
<1>9. node.entry.conn \in Open(node) => node.entry.conn \in ConnIds
  BY <1>0, OpenType
<1>10. e.handle <= node.latest
  <2>1. node.latest \in Nat
    BY <1>0 DEF NodeType, ReservationConstants
  <2>2. node.by[c] = 0 \/ node.by[c] = node.latest
    BY <1>0, <1>8 DEF NodeInv, EntryInv, Live
  <2> QED BY <1>3, <2>1, <2>2
<1>11. LinkBase(node', upq', wire', contexts', circuit', nextConn')
  <2>1. \A d \in ConnIds : wire'[d].gen # 0 => d \in Open(node)
    BY <1>0, <1>7 DEF LinkBase
  <2>2. \A i \in DOMAIN contexts' : contexts'[i].handle <= node.latest
    BY <1>0, <1>6, <1>10 DEF LinkBase
  <2>3. node.entry.accepted /\ node.entry.conn \in Open(node) =>
          wire'[node.entry.conn] = [gen |-> node.entry.gen, accepted |-> TRUE]
    <3> SUFFICES ASSUME node.entry.accepted, node.entry.conn \in Open(node)
                 PROVE  wire'[node.entry.conn] = [gen |-> node.entry.gen, accepted |-> TRUE]
      OBVIOUS
    <3>1. wire[node.entry.conn] = [gen |-> node.entry.gen, accepted |-> TRUE] /\ node.entry.conn \in ConnIds
      BY <1>0, <1>9 DEF LinkBase
    <3>2. wire[node.entry.conn].accepted
      BY <3>1
    <3> QED BY <1>7, <3>1, <3>2
  <2> QED BY <1>0, <1>5, <1>7, <2>1, <2>2, <2>3 DEF LinkBase
<1>12. LinkLive(node', wire', contexts')
  <2>1. \A d \in ConnIds : wire'[d].gen # 0 =>
          /\ node.entry.state # "none" \/ node.barrier.gen # 0
          /\ Live(node) => wire'[d].gen = node.entry.gen /\ d = node.entry.conn
    BY <1>0, <1>7 DEF LinkLive
  <2>2. ~(Live(node) /\ (node.dispatch.gen # 0 \/ node.queued # <<>>))
    BY <1>0 DEF LinkLive
  <2>3. Live(node) => \A i \in DOMAIN contexts' : contexts'[i].handle = node.entry.gen =>
            wire'[node.entry.conn] = [gen |-> node.entry.gen, accepted |-> TRUE]
    <3> SUFFICES ASSUME Live(node), NEW i \in DOMAIN contexts', contexts'[i].handle = node.entry.gen
                 PROVE  wire'[node.entry.conn] = [gen |-> node.entry.gen, accepted |-> TRUE]
      OBVIOUS
    <3>0. node.entry.gen # 0 /\ node.entry.conn \in ConnIds
      BY <1>0 DEF NodeInv, EntryInv, Gens, Live
    <3>1. CASE contexts'[i] = e
      <4>1. node.by[c] # 0
        BY <1>3, <3>0, <3>1
      <4>2. node.entry.conn = c /\ wire[c].gen = node.entry.gen
        BY <1>0, <1>8, <4>1 DEF LinkLive
      <4> QED BY <1>7, <4>2
    <3>2. CASE i \in DOMAIN contexts /\ contexts'[i] = contexts[i]
      <4>1. wire[node.entry.conn] = [gen |-> node.entry.gen, accepted |-> TRUE]
        BY <1>0, <3>2 DEF LinkLive
      <4>2. wire[node.entry.conn].accepted
        BY <4>1
      <4> QED BY <1>7, <3>0, <4>1, <4>2
    <3> QED BY <1>6, <3>1, <3>2
  <2> QED BY <1>0, <2>1, <2>2, <2>3 DEF LinkLive
<1>13. NodeInv(node')
  BY <1>0
<1> QED BY <1>0, <1>11, <1>12, <1>13 DEF Kept, Lifted, LinkInv

LEMMA AcceptedKeeps ==
    ASSUME ReservationConstants, ReservationInv, Accepted
    PROVE  Kept
<1> DEFINE e == Head(contexts)
           g == e.handle
           live == g # 0 /\ node.entry.gen = g /\ node.entry.state # "canceling"
           valid == e.good /\ (e.renewal <=> node.entry.accepted)
<1>0. /\ NodeInv(node) /\ node \in NodeType /\ node.entry \in EntryType /\ call \in [Callers -> CallType]
      /\ LinkInv(node, upq, wire, contexts, circuit, nextConn)
      /\ LinkBase(node, upq, wire, contexts, circuit, nextConn)
      /\ LinkLive(node, wire, contexts)
      /\ UNCHANGED <<upq, wire, circuit, nextConn>>
      /\ node.queued = <<>> /\ contexts # <<>> /\ contexts' = Tail(contexts)
      /\ contexts \in Seq(ContextType)
  BY DEF ReservationInv, NodeInv, NodeType, LinkInv, LinkBase, Accepted
<1>1. \/ UNCHANGED <<node, call>>
      \/ live /\ Settled(Canceling([node EXCEPT !.rejected = @ \cup {g}]), FailWait(call, g))
      \/ live /\ Publish([node EXCEPT !.entry.accepted = TRUE])
  BY DEF Accepted, HandleOf
<1>2. /\ contexts' \in Seq(ContextType) /\ 1 \in DOMAIN contexts /\ e = contexts[1] /\ e \in ContextType
      /\ \A i \in DOMAIN contexts' : i + 1 \in DOMAIN contexts /\ contexts'[i] = contexts[i + 1]
  <2> DEFINE l == Len(contexts)
             t == Tail(contexts)
  <2>1. l \in Nat \ {0} /\ DOMAIN contexts = 1..l
    BY <1>0, EmptySeq
  <2>2. t \in Seq(ContextType) /\ Len(t) = l - 1 /\ e \in ContextType
    BY <1>0, HeadTailProperties
  <2>3. \A i \in 1..Len(t) : t[i] = contexts[i + 1]
    BY <1>0, HeadTailProperties
  <2>4. DOMAIN t = 1..(l - 1)
    BY <2>2
  <2>5. e = contexts[1]
    BY <1>0, <2>1
  <2>6. 1 \in 1..l /\ \A i \in 1..(l - 1) : i + 1 \in 1..l
    <3> HIDE DEF l
    <3> QED BY <2>1
  <2> HIDE DEF l, t
  <2> QED BY <1>0, <2>1, <2>2, <2>3, <2>4, <2>5, <2>6 DEF t
<1>3. LinkBase(node, upq', wire', contexts', circuit', nextConn')
  BY <1>0, <1>2 DEF LinkBase
<1>4. LinkLive(node, wire', contexts')
  BY <1>0, <1>2 DEF LinkLive
<1>5. LinkInv(node, upq', wire', contexts', circuit', nextConn')
  BY <1>3, <1>4 DEF LinkInv
<1>6. CASE UNCHANGED <<node, call>>
  <2>1. NodeInv(node') /\ LinkInv(node', upq', wire', contexts', circuit', nextConn')
    BY <1>0, <1>5, <1>6
  <2> QED BY <1>0, <1>6, <2>1 DEF Kept, Lifted
<1>7. CASE live
  <2>0. Live(node) /\ node.entry.state # "none" /\ node.entry.gen = g /\ g # 0 /\ node.entry.state # "canceling"
    <3>1. node.entry.state # "none"
      BY <1>0, <1>7 DEF NodeInv, EntryInv, NoEntry
    <3>2. node.entry.state \in {"none", "awaiting", "publishable", "canceling"}
      BY <1>0 DEF EntryType
    <3> QED BY <1>7, <3>1, <3>2 DEF Live
  <2>1. CASE Settled(Canceling([node EXCEPT !.rejected = @ \cup {g}]), FailWait(call, g))
    <3> DEFINE rj == node.rejected \cup {g}
               m == [node EXCEPT !.rejected = rj]
               ec == [node.entry EXCEPT !.state = "canceling"]
               t == [m EXCEPT !.entry = ec]
               calls == FailWait(call, g)
    <3>1. calls \in [Callers -> CallType]
      BY <1>0, AnswerType DEF FailWait
    <3>2. rj \subseteq 0..MaxGen
      BY <1>0, <2>0 DEF NodeType, EntryType
    <3>3. /\ ec \in EntryType /\ ec.state = "canceling" /\ ec.gen = node.entry.gen /\ ec.conn = node.entry.conn
          /\ ec.accepted = node.entry.accepted
      BY <1>0 DEF EntryType
    <3>4. Settled(Teardown(t), calls)
      <4>1. m = [node EXCEPT !.rejected = @ \cup {g}]
        BY <1>0 DEF NodeType
      <4>2. m.entry = node.entry
        BY <1>0 DEF NodeType
      <4>3. t = [m EXCEPT !.entry.state = "canceling"]
        BY <1>0 DEF NodeType
      <4> HIDE DEF m, t, calls
      <4> QED BY <2>0, <2>1, <4>1, <4>2, <4>3 DEF Canceling, calls
    <3> HIDE DEF rj, ec
    <3>5. Turned(node, t)
      BY <1>0, <3>2, <3>3 DEF NodeType, Turned
    <3> HIDE DEF t, calls
    <3>6. TornInv(t) /\ LinkBase(t, upq', wire', contexts', circuit', nextConn')
      BY <1>0, <1>3, <2>0, <3>5, TurnedTorn, TurnedLink
    <3> QED BY <3>1, <3>4, <3>6, TearKeeps
  <2>2. CASE Publish([node EXCEPT !.entry.accepted = TRUE])
    <3> DEFINE en == [node.entry EXCEPT !.accepted = TRUE]
               r == [node EXCEPT !.entry = en]
    <3>1. Publish(r)
      <4>1. r = [node EXCEPT !.entry.accepted = TRUE]
        BY <1>0 DEF NodeType
      <4> QED BY <2>2, <4>1
    <3>2. en \in EntryType /\ en.state = node.entry.state /\ en.gen = node.entry.gen /\ en.conn = node.entry.conn
      BY <1>0 DEF EntryType
    <3> HIDE DEF en
    <3>3. /\ NodeInv(r) /\ r.entry = en /\ (Live(r) <=> Live(node)) /\ Open(r) = Open(node)
          /\ r.dials = node.dials /\ r.latest = node.latest
          /\ r.barrier = node.barrier /\ r.dispatch = node.dispatch /\ r.queued = node.queued
      BY <1>0, <2>0, <3>2, EntryLearns
    <3> HIDE DEF r
    <3>4. wire[node.entry.conn] = [gen |-> node.entry.gen, accepted |-> TRUE]
      BY <1>0, <1>2, <2>0 DEF LinkLive
    <3>5. node.dispatch.gen = 0
      BY <1>0, <1>2, <2>0 DEF LinkLive
    <3>6. LinkBase(r, upq', wire', contexts', circuit', nextConn')
      BY <1>0, <1>3, <3>2, <3>3, <3>4 DEF LinkBase
    <3>7. LinkLive(r, wire', contexts')
      BY <1>0, <1>4, <3>2, <3>3, <3>5 DEF LinkLive
    <3>8. LinkInv(r, upq', wire', contexts', circuit', nextConn')
      BY <3>6, <3>7 DEF LinkInv
    <3> QED BY <1>0, <3>1, <3>3, <3>8, PublishKeeps
  <2> QED BY <1>1, <1>6, <2>1, <2>2
<1> QED BY <1>1, <1>6, <1>7

LEMMA InterceptKeeps ==
    ASSUME ReservationConstants, ReservationInv, Intercept
    PROVE  Kept
<1> DEFINE d == node.dispatch
           g == d.gen
           c == node.conns[1].id
           m == [node EXCEPT !.dispatch = NoDispatch]
           item == Head(upq)
<1>0. /\ NodeInv(node) /\ node \in NodeType /\ d \in DispatchType /\ call \in [Callers -> CallType]
      /\ LinkBase(node, upq, wire, contexts, circuit, nextConn)
      /\ LinkLive(node, wire, contexts)
      /\ UNCHANGED <<contexts, nextConn>>
      /\ node.queued = <<>> /\ upq # <<>> /\ upq' = Tail(upq)
  BY DEF ReservationInv, NodeInv, NodeType, LinkInv, Intercept
<1>1. \/ /\ g # 0 /\ Settled(DispatchFailed(m, g), call) /\ UNCHANGED <<wire, circuit>>
      \/ /\ g # 0 /\ ~d.canceled /\ c = d.conn
         /\ Dispatched(node, item, c, call) /\ UNCHANGED <<wire, circuit>>
      \/ /\ g = 0
         /\ wire' = IF node.conns # <<>> THEN Handled(wire, item, c) ELSE wire
         /\ circuit' = IF item.kind = "circuit" THEN "idle" ELSE circuit
         /\ UNCHANGED <<node, call>>
  BY DEF Intercept
<1>2. ASSUME g # 0 PROVE upq = <<ListenFor(g)>> /\ circuit # "pending" /\ item = ListenFor(g) /\ upq' = <<>>
  <2>1. upq = <<ListenFor(g)>> /\ circuit # "pending"
    BY <1>0, <1>2 DEF LinkBase
  <2> HIDE DEF g
  <2> QED BY <1>0, <2>1
<1>3. NoDispatch \in DispatchType /\ NoDispatch.gen = 0
  BY DEF NoDispatch, DispatchType, ReservationConstants
<1>4. CASE g = 0
  <2>1. circuit = "pending" /\ upq = <<CircuitDial>>
    BY <1>0, <1>4 DEF LinkBase
  <2>2. item = CircuitDial /\ upq' = <<>> /\ item.kind = "circuit"
    BY <1>0, <2>1 DEF CircuitDial
  <2>3. wire' = wire /\ circuit' = "idle" /\ UNCHANGED <<node, call>>
    <3> HIDE DEF item, c
    <3> QED BY <1>1, <1>4, <2>2 DEF Handled
  <2>4. LinkBase(node', upq', wire', contexts', circuit', nextConn')
    BY <1>0, <1>4, <2>2, <2>3 DEF LinkBase
  <2>5. LinkLive(node', wire', contexts') /\ NodeInv(node')
    BY <1>0, <2>3
  <2> QED BY <1>0, <2>3, <2>4, <2>5 DEF Kept, Lifted, LinkInv
<1>5. CASE g # 0 /\ Settled(DispatchFailed(m, g), call) /\ UNCHANGED <<wire, circuit>>
  <2> DEFINE br == [node.barrier EXCEPT !.dispatched = @ \/ node.barrier.gen = g]
             st == IF node.start = g THEN 0 ELSE node.start
             p == [node EXCEPT !.dispatch = NoDispatch, !.barrier = br, !.start = st]
             r == Cancel(p, g)
  <2>1. DispatchFailed(m, g) = r
    <3>1. [m EXCEPT !.barrier.dispatched = @ \/ m.barrier.gen = g, !.start = IF @ = g THEN 0 ELSE @] = p
      BY <1>0 DEF NodeType
    <3> HIDE DEF m, p
    <3> QED BY <3>1 DEF DispatchFailed
  <2>2. /\ br \in BarrierType /\ br.gen = node.barrier.gen /\ br.pending = node.barrier.pending
        /\ br.canceled = node.barrier.canceled
        /\ node.barrier.gen = 0 => br = NoBarrier
    <3>1. node.barrier \in BarrierType /\ (node.barrier.gen = 0 => node.barrier = NoBarrier)
      BY <1>0 DEF NodeType, NodeInv, ConnsInv
    <3>2. br \in BarrierType /\ br.gen = node.barrier.gen /\ br.pending = node.barrier.pending
          /\ br.canceled = node.barrier.canceled
      BY <3>1 DEF BarrierType
    <3>3. ASSUME node.barrier = NoBarrier PROVE br = NoBarrier
      <4>1. NoBarrier.gen = 0 /\ NoBarrier.dispatched = FALSE
        BY DEF NoBarrier
      <4>2. (node.barrier.dispatched \/ node.barrier.gen = g) = FALSE
        BY <1>5, <3>3, <4>1
      <4>3. br = [node.barrier EXCEPT !.dispatched = FALSE]
        BY <4>2
      <4> HIDE DEF br
      <4>4. br = [NoBarrier EXCEPT !.dispatched = FALSE]
        BY <3>3, <4>3
      <4> QED BY <4>4 DEF NoBarrier
    <3> QED BY <3>1, <3>2, <3>3
  <2>3. st \in 0..MaxGen
    BY <1>0 DEF NodeType, ReservationConstants
  <2> HIDE DEF br, st
  <2>4. /\ p \in NodeType /\ p.dispatch = NoDispatch /\ p.barrier = br /\ p.conns = node.conns /\ p.closing = node.closing
        /\ p.dials = node.dials /\ p.entry = node.entry /\ p.latest = node.latest /\ p.listener = node.listener
        /\ p.by = node.by /\ p.queued = <<>>
    BY <1>0, <1>3, <2>2, <2>3 DEF NodeType
  <2> HIDE DEF p
  <2>5. Open(p) = Open(node) /\ (Live(p) <=> Live(node))
    BY <2>4 DEF Open, Live
  <2>6. ConnsInv(p)
    BY <1>0, <2>2, <2>4, <2>5 DEF NodeInv, ConnsInv
  <2>7. EntryInv(p)
    BY <1>0, <2>2, <2>4, <2>5 DEF NodeInv, EntryInv
  <2>8. WrapperInv(p)
    BY <1>0, <1>3, <2>4, <2>5 DEF NodeInv, WrapperInv
  <2>9. NodeInv(p)
    BY <2>4, <2>6, <2>7, <2>8 DEF NodeInv
  <2>10. LinkBase(p, upq', wire', contexts', circuit', nextConn')
    BY <1>0, <1>2, <1>3, <1>5, <2>4, <2>5 DEF LinkBase
  <2>11. LinkLive(p, wire', contexts')
    BY <1>0, <1>3, <1>5, <2>2, <2>4, <2>5 DEF LinkLive
  <2>12. LinkInv(p, upq', wire', contexts', circuit', nextConn')
    BY <2>10, <2>11 DEF LinkInv
  <2>13. /\ NodeInv(r) /\ LinkInv(r, upq', wire', contexts', circuit', nextConn')
         /\ node.barrier.gen # 0 => r.barrier.gen # 0
    BY <2>2, <2>4, <2>9, <2>12, CancelKeeps
  <2>14. Settled(r, call)
    BY <1>5, <2>1
  <2> HIDE DEF r
  <2> QED BY <1>0, <2>13, <2>14, SettledKeeps
<1>6. CASE /\ g # 0 /\ ~d.canceled /\ c = d.conn
           /\ Dispatched(node, item, c, call) /\ UNCHANGED <<wire, circuit>>
  <2> DEFINE a == [gen |-> g, conn |-> c, item |-> item]
             st == IF node.start = g THEN 0 ELSE node.start
             y == [node.by EXCEPT ![c] = g]
             qs == <<a>>
             p == [node EXCEPT !.dispatch = NoDispatch, !.start = st, !.by = y, !.queued = qs]
             r == Cancel(p, g)
  <2>1. Live(node) /\ g = node.entry.gen /\ c = node.entry.conn /\ item = ListenFor(g)
        /\ node.barrier.gen = 0 /\ g \in Gens /\ c \in ConnIds /\ g \in 0..MaxGen /\ c \in 0..MaxConn
    <3>1. Live(node) /\ g = node.entry.gen /\ c = node.entry.conn
      BY <1>0, <1>6 DEF NodeInv, WrapperInv
    <3>2. node.barrier.gen = 0 /\ g \in Gens /\ c \in ConnIds
      BY <1>0, <3>1 DEF NodeInv, EntryInv, Live
    <3>3. g \in 0..MaxGen /\ c \in 0..MaxConn
      <4> HIDE DEF g, c
      <4> QED BY <3>2 DEF Gens, ConnIds, ReservationConstants
    <3>4. item = ListenFor(g)
      BY <1>2, <1>6
    <3> QED BY <3>1, <3>2, <3>3, <3>4
  <2>2. node' \in {p, r} /\ call' = Answer(call, "starting", g, "held")
    <3>1. [node EXCEPT !.dispatch = NoDispatch, !.start = IF @ = g THEN 0 ELSE @,
                       !.by[c] = g, !.queued = Append(@, [gen |-> g, conn |-> c, item |-> item])] = p
      <4>1. Append(node.queued, a) = qs
        BY <1>0
      <4> HIDE DEF a, qs
      <4>2. p = [node EXCEPT !.dispatch = NoDispatch, !.start = st, !.by = y, !.queued = Append(node.queued, a)]
        BY <4>1
      <4> QED BY <1>0, <4>2 DEF NodeType, a
    <3> HIDE DEF p
    <3> QED BY <1>6, <3>1 DEF Dispatched
  <2>3. call' \in [Callers -> CallType]
    BY <1>0, <2>2, AnswerType
  <2>4. st \in 0..MaxGen
    BY <1>0 DEF NodeType, ReservationConstants
  <2>5. y \in [ConnIds -> 0..MaxGen] /\ y[c] = g /\ \A h \in ConnIds : h # c => y[h] = node.by[h]
    BY <1>0, <2>1 DEF NodeType
  <2>6. a \in ActionType /\ qs \in Seq(ActionType)
    <3>1. ListenFor(g) \in RequestType
      BY <2>1 DEF ListenFor, RequestType
    <3>2. a \in ActionType
      BY <2>1, <3>1 DEF ActionType
    <3> HIDE DEF a
    <3> QED BY <3>2
  <2>7. qs = <<[gen |-> node.entry.gen, conn |-> node.entry.conn, item |-> ListenFor(node.entry.gen)]>>
    BY <2>1
  <2> HIDE DEF a, st, y, qs
  <2>8. /\ p \in NodeType /\ p.dispatch = NoDispatch /\ p.by = y /\ p.queued = qs /\ p.barrier = node.barrier
        /\ p.conns = node.conns /\ p.closing = node.closing
        /\ p.dials = node.dials /\ p.entry = node.entry /\ p.latest = node.latest /\ p.listener = node.listener
    BY <1>0, <1>3, <2>4, <2>5, <2>6 DEF NodeType
  <2> HIDE DEF p
  <2>9. Open(p) = Open(node) /\ (Live(p) <=> Live(node))
    BY <2>8 DEF Open, Live
  <2>10. ConnsInv(p)
    BY <1>0, <2>8, <2>9 DEF NodeInv, ConnsInv
  <2>11. EntryInv(p)
    BY <1>0, <2>8, <2>9 DEF NodeInv, EntryInv
  <2>12. WrapperInv(p)
    <3>1. \A h \in ConnIds : y[h] # 0 => y[h] = node.entry.gen /\ node.entry.conn = h
      BY <1>0, <2>1, <2>5 DEF NodeInv, WrapperInv
    <3> QED BY <1>3, <2>1, <2>7, <2>8, <2>9, <3>1 DEF WrapperInv
  <2>13. NodeInv(p)
    BY <2>8, <2>10, <2>11, <2>12 DEF NodeInv
  <2>14. LinkBase(p, upq', wire', contexts', circuit', nextConn')
    BY <1>0, <1>2, <1>3, <1>6, <2>8, <2>9 DEF LinkBase
  <2>15. LinkLive(p, wire', contexts')
    BY <1>0, <1>3, <1>6, <2>1, <2>8, <2>9 DEF LinkLive
  <2>16. LinkInv(p, upq', wire', contexts', circuit', nextConn')
    BY <2>14, <2>15 DEF LinkInv
  <2>17. /\ NodeInv(r) /\ LinkInv(r, upq', wire', contexts', circuit', nextConn')
    BY <2>13, <2>16, CancelKeeps
  <2> HIDE DEF r
  <2>18. NodeInv(node') /\ LinkInv(node', upq', wire', contexts', circuit', nextConn')
    BY <2>2, <2>13, <2>16, <2>17
  <2> QED BY <2>1, <2>3, <2>18 DEF Kept, Lifted
<1> QED BY <1>1, <1>4, <1>5, <1>6

-----------------------------------------------------------------------------
(* The specification *)

\* The queue of handler events stays within its bound
LEMMA QueueBounded ==
    ASSUME ReservationConstants, ReservationInv, [Next]_vars
    PROVE  Len(contexts') <= MaxQueued
<1>0. contexts \in Seq(ContextType) /\ Len(contexts) <= MaxQueued
  BY DEF ReservationInv, LinkInv, LinkBase
<1> DEFINE l == Len(contexts)
<1>1. l \in Nat
  BY <1>0
<1>2. CASE UNCHANGED contexts
  BY <1>0, <1>2
<1>3. ASSUME NEW c \in ConnIds, RelayAccepts(c) PROVE Len(contexts') <= MaxQueued
  <2>1. PICK e : contexts' = Append(contexts, e)
    BY <1>3 DEF RelayAccepts
  <2>2. Len(contexts') = l + 1 /\ l < MaxQueued
    BY <1>0, <1>3, <2>1 DEF RelayAccepts
  <2> HIDE DEF l
  <2> QED BY <1>1, <2>2 DEF ReservationConstants
<1>4. CASE Accepted
  <2>1. contexts' = Tail(contexts) /\ contexts # <<>>
    BY <1>4 DEF Accepted
  <2>2. Len(contexts') = l - 1
    BY <1>0, <2>1, HeadTailProperties
  <2>3. l <= MaxQueued
    BY <1>0
  <2> HIDE DEF l
  <2> QED BY <1>1, <2>2, <2>3 DEF ReservationConstants
<1>5. [Next]_vars => UNCHANGED contexts \/ Accepted \/ \E c \in ConnIds : RelayAccepts(c)
  BY DEF Next, vars, Select, Begin, Wait, CancelReservation, Abandon, Established, DialFails, ConnectionClosed,
         ListenerAddress, ListenerClosed, ConnectionArrives, Intercept, Deliver, CircuitSelect, CircuitConnect
<1> QED BY <1>2, <1>3, <1>4, <1>5

LEMMA InitReservation ==
    ASSUME ReservationConstants, Init
    PROVE  ReservationInv
<1>1. NoEntry \in EntryType /\ NoBarrier \in BarrierType /\ NoDispatch \in DispatchType /\ NoCall \in CallType
      /\ NoRequest \in WireType
  <2>1. NoEntry \in EntryType
    BY DEF NoEntry, EntryType, ReservationConstants
  <2>2. NoBarrier \in BarrierType
    BY DEF NoBarrier, BarrierType, ReservationConstants
  <2>3. NoDispatch \in DispatchType
    BY DEF NoDispatch, DispatchType, ReservationConstants
  <2>4. NoCall \in CallType
    BY DEF NoCall, CallType, ReservationConstants
  <2>5. NoRequest \in WireType
    BY DEF NoRequest, WireType, ReservationConstants
  <2> QED BY <2>1, <2>2, <2>3, <2>4, <2>5
<1>2. /\ node = [conns |-> <<>>, closing |-> {}, dials |-> {}, entry |-> NoEntry,
               latest |-> 0, barrier |-> NoBarrier, dispatch |-> NoDispatch,
               listener |-> [g \in Gens |-> "none"],
               by |-> [c \in ConnIds |-> 0], queued |-> <<>>,
               rejected |-> {}, closures |-> {}, start |-> 0]
      /\ call = [k \in Callers |-> NoCall] /\ upq = <<>> /\ contexts = <<>> /\ circuit = "idle" /\ nextConn = 1
      /\ wire = [c \in ConnIds |-> NoRequest]
  BY DEF Init
<1>3. <<>> \in Seq(ConnType) /\ <<>> \in Seq(ActionType) /\ <<>> \in Seq(ContextType) /\ Len(<<>>) = 0
      /\ DOMAIN <<>> = {}
  OBVIOUS
<1>4. /\ node.conns = <<>> /\ node.closing = {} /\ node.dials = {} /\ node.entry = NoEntry /\ node.latest = 0
      /\ node.barrier = NoBarrier /\ node.dispatch = NoDispatch /\ node.by = [c \in ConnIds |-> 0] /\ node.queued = <<>>
  BY <1>2
<1>5. node \in NodeType
  <2>1. 0 \in 0..MaxGen
    BY DEF ReservationConstants
  <2>2. [g \in Gens |-> "none"] \in [Gens -> {"none", "open", "removing", "closed"}]
        /\ [c \in ConnIds |-> 0] \in [ConnIds -> 0..MaxGen]
    BY <2>1
  <2> QED BY <1>1, <1>2, <1>3, <2>1, <2>2 DEF NodeType
<1>6. Open(node) = {}
  BY <1>3, <1>4 DEF Open
<1>7. NoEntry.state = "none" /\ NoEntry.conn = 0 /\ ~NoEntry.accepted /\ NoBarrier.gen = 0 /\ ~NoBarrier.canceled /\ NoDispatch.gen = 0
      /\ NoRequest.gen = 0
  BY DEF NoEntry, NoBarrier, NoDispatch, NoRequest
<1>8. ConnsInv(node)
  BY <1>3, <1>4, <1>6, <1>7 DEF ConnsInv
<1>9. EntryInv(node)
  BY <1>4, <1>7 DEF EntryInv, Live
<1>10. WrapperInv(node)
  BY <1>4, <1>7 DEF WrapperInv
<1>11. LinkBase(node, upq, wire, contexts, circuit, nextConn)
  <2>1. wire \in [ConnIds -> WireType] /\ \A c \in ConnIds : wire[c].gen = 0
    BY <1>1, <1>2, <1>7
  <2>2. contexts \in Seq(ContextType) /\ DOMAIN contexts = {}
    BY <1>2, <1>3
  <2>3. nextConn \in Nat \ {0} /\ node.entry.conn < nextConn /\ circuit = "idle" /\ upq = <<>>
        /\ node.dispatch.gen = 0 /\ ~node.entry.accepted /\ Open(node) \cup node.dials = {}
    <3>1. nextConn \in Nat \ {0} /\ 0 < nextConn /\ circuit = "idle" /\ upq = <<>>
      BY <1>2
    <3>2. node.entry.conn = 0 /\ node.dispatch.gen = 0 /\ ~node.entry.accepted
      BY <1>4, <1>7
    <3>3. Open(node) \cup node.dials = {}
      BY <1>4, <1>6
    <3> QED BY <3>1, <3>2, <3>3
  <2> QED BY <2>1, <2>2, <2>3 DEF LinkBase
<1>12. LinkLive(node, wire, contexts)
  <2>1. \A c \in ConnIds : wire[c].gen = 0
    BY <1>2, <1>7
  <2>2. ~Live(node)
    BY <1>4, <1>7 DEF Live
  <2> QED BY <2>1, <2>2 DEF LinkLive
<1>13. call \in [Callers -> CallType] /\ Len(contexts) <= MaxQueued
  BY <1>1, <1>2, <1>3 DEF ReservationConstants
<1> QED BY <1>5, <1>8, <1>9, <1>10, <1>11, <1>12, <1>13 DEF ReservationInv, NodeInv, LinkInv

LEMMA StepKept ==
    ASSUME ReservationConstants, ReservationInv, [Next]_vars
    PROVE  Kept
<1>1. CASE UNCHANGED vars
  BY <1>1, CallKeeps DEF vars, ReservationInv
<1>2. ASSUME NEW k \in Callers, Select(k) \/ Begin(k) \/ Wait(k) \/ CancelReservation(k) \/ Abandon(k)
      PROVE  Kept
  BY <1>2, SelectKeeps, BeginKeeps, WaitKeeps, CancelReservationKeeps, AbandonKeeps
<1>3. ASSUME NEW c \in ConnIds, Established(c) \/ DialFails(c) \/ ConnectionClosed(c) \/ RelayAccepts(c)
      PROVE  Kept
  BY <1>3, EstablishedKeeps, DialFailsKeeps, ConnectionClosedKeeps, RelayAcceptsKeeps
<1>4. ASSUME NEW g \in Gens, ListenerAddress(g) \/ ListenerClosed(g)
      PROVE  Kept
  BY <1>4, ListenerAddressKeeps, ListenerClosedKeeps
<1>5. CASE ConnectionArrives \/ Intercept \/ Deliver \/ Accepted \/ CircuitSelect \/ CircuitConnect
  BY <1>5, ConnectionArrivesKeeps, InterceptKeeps, DeliverKeeps, AcceptedKeeps, CircuitKeeps
<1> QED BY <1>1, <1>2, <1>3, <1>4, <1>5 DEF Next

LEMMA ReservationInvariant ==
    ASSUME ReservationConstants
    PROVE  Spec => []ReservationInv
<1>1. Init => ReservationInv
  BY InitReservation
<1>2. ReservationInv /\ [Next]_vars => ReservationInv'
  <2> SUFFICES ASSUME ReservationInv, [Next]_vars PROVE ReservationInv'
    OBVIOUS
  <2>1. Kept /\ Len(contexts') <= MaxQueued
    BY StepKept, QueueBounded
  <2> QED BY <2>1 DEF ReservationInv, Kept
<1> QED BY <1>1, <1>2, PTL DEF Spec

\* AcceptanceIsOwn, PublishedIsBacked and the types follow from the invariant
LEMMA ReservationFacts ==
    ASSUME ReservationConstants, ReservationInv
    PROVE  TypeOK /\ AcceptanceIsOwn /\ PublishedIsBacked
<1>0. /\ node \in NodeType /\ ConnsInv(node) /\ EntryInv(node) /\ WrapperInv(node)
      /\ LinkBase(node, upq, wire, contexts, circuit, nextConn) /\ call \in [Callers -> CallType]
      /\ node.entry \in EntryType /\ node.barrier \in BarrierType
  BY DEF ReservationInv, NodeInv, LinkInv, NodeType
<1>1. /\ node.entry.gen \in 0..MaxGen /\ node.entry.conn \in 0..MaxConn
      /\ node.entry.state \in {"none", "awaiting", "publishable", "canceling"}
      /\ node.closing \subseteq Open(node) /\ node.dials \subseteq ConnIds
      /\ node.barrier.pending \subseteq ConnIds
      /\ \A g \in Gens : node.listener[g] \in {"none", "open", "removing", "closed"}
  BY <1>0 DEF EntryType, BarrierType, NodeType, ConnsInv
<1>2. Len(node.queued) <= 1
  <2>1. CASE node.queued = <<>>
    BY <2>1
  <2>2. CASE node.queued # <<>>
    <3> DEFINE q == [gen |-> node.entry.gen, conn |-> node.entry.conn, item |-> ListenFor(node.entry.gen)]
    <3>1. node.queued = <<q>>
      BY <1>0, <2>2 DEF WrapperInv
    <3> HIDE DEF q
    <3>2. Len(<<q>>) = 1
      OBVIOUS
    <3> QED BY <3>1, <3>2
  <2> QED BY <2>1, <2>2
<1>3. \A k \in Callers :
          call[k].pc \in {"idle", "dialing", "selected", "starting", "held", "waiting",
                          "confirmed", "canceling"}
  BY <1>0 DEF CallType
<1>4. circuit \in {"idle", "selected", "pending"} /\ Len(contexts) <= MaxQueued
  BY <1>0 DEF LinkBase, ReservationInv
<1>5. TypeOK
  BY <1>1, <1>2, <1>3, <1>4 DEF TypeOK
<1>6. AcceptanceIsOwn
  BY <1>0 DEF LinkBase, AcceptanceIsOwn
<1>7. PublishedIsBacked
  BY <1>0 DEF EntryInv, Live, PublishedIsBacked
<1> QED BY <1>5, <1>6, <1>7

\* Of relay reservations: one is accepted by its own answer only, and a published one has
\* its connection and its listener
LEMMA ReservationsCorrect ==
    ASSUME ReservationConstants
    PROVE  Spec => [](TypeOK /\ AcceptanceIsOwn /\ PublishedIsBacked)
<1>1. ReservationInv => TypeOK /\ AcceptanceIsOwn /\ PublishedIsBacked
  BY ReservationFacts
<1> QED BY <1>1, ReservationInvariant, PTL

\* A cancelled reservation is reported gone with its last connection and dial only
LEMMA CancelCorrect ==
    ASSUME ReservationConstants
    PROVE  Spec => CancelClosesEverything
<1>1. ReservationInv /\ [Next]_vars =>
        [node.barrier.gen # 0 /\ node'.barrier.gen = 0 => node'.conns = <<>> /\ node'.dials = {}]_vars
  BY StepKept DEF Kept, Lifted
<1> QED BY <1>1, ReservationInvariant, PTL DEF Spec, CancelClosesEverything
=============================================================================
