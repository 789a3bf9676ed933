----------------------------- MODULE CircuitHops ------------------------------
(***************************************************************************)
(* Relay circuits shared by the streams of a node: open_exact_route and    *)
(* prepare_route_replacement (core/auki-p2p/src/runtime.rs), the hop table *)
(* (circuit_hop.rs), the gate on concurrent circuit dials                  *)
(* (relay_dial_gate.rs) and the Connect and CloseConnection commands of    *)
(* the swarm task (transport.rs).                                          *)
(*                                                                         *)
(* One hop key is modelled: the table keeps the keys apart.  An opener     *)
(* runs once, so that the owner minted for it is the opener itself.        *)
(***************************************************************************)
EXTENDS Naturals, FiniteSets

CONSTANTS
    Openers,    \* callers of open_exact_route or prepare_route_replacement
    Permits,    \* MAX_CONCURRENT_RELAY_CIRCUIT_DIALS: 10
    MaxConn     \* bound on circuit dials

Conns == 1..MaxConn
NoConn == 0

\* What the theorems ask of the constants
HopConstants == Permits \in Nat /\ MaxConn \in Nat

VARIABLES
    op,         \* per opener: pc, connection id, and the generation it replaces
    cmds,       \* commands on their way to the swarm task
    table,      \* CircuitHopTable: by_key, owners of by_connection, pending
    waiters,    \* the responses of the pending dial
    net,        \* the circuit connections of the swarm
    free,       \* permits of the dial gate
    unread      \* openers dropped with an answer in their oneshot

vars == <<op, cmds, table, waiters, net, free, unread>>

At(o, pc) == op[o].pc = pc
Goes(o, pc) == op' = [op EXCEPT ![o].pc = pc]
ConnectCmd(o) == [kind |-> "connect", who |-> o, conn |-> NoConn]
CloseCmd(o, kind) == [kind |-> kind, who |-> o, conn |-> op[o].conn]

Init ==
    /\ op = [o \in Openers |-> [pc |-> "idle", conn |-> NoConn, old |-> NoConn]]
    /\ cmds = {}
    /\ table = [key |-> NoConn, owners |-> [c \in Conns |-> {}], pending |-> FALSE]
    /\ waiters = {} /\ net = [c \in Conns |-> "none"]
    /\ free = Permits /\ unread = {}

-----------------------------------------------------------------------------
(* CircuitHopTable: an entry of by_connection has owners; restore_previous takes *)
(* any entry of the key, in the order of a hash map.                             *)

Entries(t) == {c \in Conns : t.owners[c] # {}}

Restored(t) ==
    IF t.key = NoConn /\ ~t.pending /\ Entries(t) # {}
      THEN {[t EXCEPT !.key = c] : c \in Entries(t)}
      ELSE {t}

FailPending(t) == Restored([t EXCEPT !.pending = FALSE])

Established(t, c, os) ==
    IF os = {} THEN FailPending(t)
    ELSE {[t EXCEPT !.pending = FALSE, !.key = c, !.owners[c] = os]}

Without(t, c) ==
    Restored([t EXCEPT !.owners[c] = {}, !.key = IF t.key = c THEN NoConn ELSE t.key])

Invalidate(t, c) == IF t.owners[c] = {} THEN {t} ELSE Without(t, c)

\* Mutant: releases are counted, not tied to their owner
ReleaseClosesCounted(t, c, o) == Cardinality(t.owners[c]) <= 1

\* An unknown connection closes; a repeated release does not
ReleaseCloses(t, c, o) == t.owners[c] \subseteq {o}

Release(t, c, o) ==
    IF t.owners[c] = {} THEN {t}
    ELSE IF ReleaseCloses(t, c, o) THEN Without(t, c)
    ELSE {[t EXCEPT !.owners[c] = @ \ {o}]}

MayReplace(t, old) == t.key = old /\ old # NoConn => Cardinality(Entries(t)) < 2

PrepareReplacement(t, old) ==
    IF t.key = old /\ old # NoConn THEN [t EXCEPT !.key = NoConn] ELSE t

-----------------------------------------------------------------------------
(* Openers *)

\* open_exact_route, or prepare_route_replacement of a stream that is open, up to
\* the dial gate: the relay connection and the source admission come first
Open(o) ==
    /\ At(o, "idle")
    /\ \E old \in {NoConn} \cup {op[p].conn : p \in {q \in Openers : At(q, "open")}} :
          op' = [op EXCEPT ![o] = [@ EXCEPT !.pc = "permit", !.old = old]]
    /\ UNCHANGED <<cmds, table, waiters, net, free, unread>>

\* connect_exact: the permit travels with the command
AcquirePermit(o) ==
    /\ At(o, "permit") /\ free > 0
    /\ free' = free - 1
    /\ Goes(o, "sent")
    /\ cmds' = cmds \cup {ConnectCmd(o)}
    /\ UNCHANGED <<table, waiters, net, unread>>

\* The answer is read, and its guard owns the hop from here on
Receive(o) ==
    /\ At(o, "answered")
    /\ Goes(o, "opening")
    /\ UNCHANGED <<cmds, table, waiters, net, free, unread>>

\* open_relayed: the stream is opened on exactly this connection, or the guard closes
OpenRelayed(o) ==
    /\ At(o, "opening")
    /\ \/ net[op[o].conn] = "up" /\ Goes(o, "open") /\ UNCHANGED cmds
       \/ Goes(o, "closing") /\ cmds' = cmds \cup {CloseCmd(o, "close")}
    /\ UNCHANGED <<table, waiters, net, free, unread>>

\* AuthenticatedRouteStream::close
Close(o) ==
    /\ At(o, "open")
    /\ Goes(o, "closing") /\ cmds' = cmds \cup {CloseCmd(o, "close")}
    /\ UNCHANGED <<table, waiters, net, free, unread>>

\* Mutant: a guard dropped while its close waits does not close again
DropGuardOnce(o) == IF At(o, "closing") THEN {} ELSE {CloseCmd(o, "drop")}

\* RelayRouteGuard::drop: a spawned close, though one may be under way
DropGuard(o) == {CloseCmd(o, "drop")}

\* The future, or the stream, is dropped: a command still being sent is lost
Drop(o) ==
    /\ op[o].pc \in {"permit", "sent", "answered", "opening", "open", "closing"}
    /\ Goes(o, "done")
    /\ \/ /\ op[o].pc \in {"permit", "sent", "answered"}
          /\ UNCHANGED <<cmds, free>>
       \/ /\ ConnectCmd(o) \in cmds
          /\ cmds' = cmds \ {ConnectCmd(o)} /\ free' = free + 1
       \/ /\ op[o].pc \in {"opening", "open", "closing"}
          /\ cmds' \in {k \cup DropGuard(o) : k \in {cmds, cmds \ {CloseCmd(o, "close")}}}
          /\ UNCHANGED free
    /\ unread' = IF At(o, "answered") THEN unread \cup {o} ELSE unread
    /\ UNCHANGED <<table, waiters, net>>

-----------------------------------------------------------------------------
(* The swarm task *)

\* Mutant: a command that does not dial keeps its permit
PermitBackNever == 0

\* A command that does not dial drops its permit
PermitBack == 1

\* Command::Connect of a caller that is gone, or refused: the relay's reservation
\* is not confirmed, its dispatch is pending, or two generations are alive
RefuseConnect(o) ==
    /\ ConnectCmd(o) \in cmds
    /\ cmds' = cmds \ {ConnectCmd(o)} /\ free' = free + PermitBack
    /\ IF At(o, "sent") THEN Goes(o, "done") ELSE UNCHANGED op
    /\ UNCHANGED <<table, waiters, net, unread>>

\* A live hop is shared
ConnectLive(o) ==
    LET t == PrepareReplacement(table, op[o].old) IN
    /\ ConnectCmd(o) \in cmds /\ At(o, "sent")
    /\ MayReplace(table, op[o].old) /\ t.key # NoConn
    /\ table' = [t EXCEPT !.owners[t.key] = @ \cup {o}]
    /\ op' = [op EXCEPT ![o] = [@ EXCEPT !.pc = "answered", !.conn = t.key]]
    /\ cmds' = cmds \ {ConnectCmd(o)} /\ free' = free + PermitBack
    /\ UNCHANGED <<waiters, net, unread>>

\* A dial under way is joined
ConnectPending(o) ==
    LET t == PrepareReplacement(table, op[o].old) IN
    /\ ConnectCmd(o) \in cmds /\ At(o, "sent")
    /\ MayReplace(table, op[o].old) /\ t.key = NoConn /\ t.pending
    /\ table' = t /\ waiters' = waiters \cup {o}
    /\ cmds' = cmds \ {ConnectCmd(o)} /\ free' = free + PermitBack
    /\ UNCHANGED <<op, net, unread>>

\* A new circuit is dialed; the dial can fail at once
ConnectVacant(o) ==
    LET t == PrepareReplacement(table, op[o].old) IN
    /\ ConnectCmd(o) \in cmds /\ At(o, "sent")
    /\ MayReplace(table, op[o].old) /\ t.key = NoConn /\ ~t.pending
    /\ cmds' = cmds \ {ConnectCmd(o)}
    /\ \/ \E c \in Conns :
            /\ net[c] = "none" /\ \A d \in Conns : d < c => net[d] # "none"
            /\ net' = [net EXCEPT ![c] = "dialing"]
            /\ table' = [t EXCEPT !.pending = TRUE]
            /\ waiters' = {o}
            /\ UNCHANGED <<op, free>>
       \/ /\ table' \in FailPending(t)
          /\ Goes(o, "done") /\ free' = free + PermitBack
          /\ UNCHANGED <<waiters, net>>
    /\ UNCHANGED unread

\* The pending dial ends: its permit is dropped with it
DialEnds(c) ==
    /\ net[c] = "dialing"
    /\ waiters' = {} /\ free' = free + 1
    /\ UNCHANGED <<cmds, unread>>

Waiting == {o \in waiters : At(o, "sent")}

\* deliver_exact_connection: every waiter still there becomes an owner; without
\* one the circuit is closed
DialEstablished(c) ==
    /\ DialEnds(c)
    /\ table' \in Established(table, c, Waiting)
    /\ net' = [net EXCEPT ![c] = IF Waiting = {} THEN "closing" ELSE "up"]
    /\ op' = [o \in Openers |-> IF o \in Waiting
                THEN [op[o] EXCEPT !.pc = "answered", !.conn = c] ELSE op[o]]

\* OutgoingConnectionError, or another peer answered
DialFails(c) ==
    /\ DialEnds(c)
    /\ table' \in FailPending(table)
    /\ net' \in {[net EXCEPT ![c] = s] : s \in {"gone", "closing"}}
    /\ op' = [o \in Openers |-> IF o \in Waiting
                THEN [op[o] EXCEPT !.pc = "done"] ELSE op[o]]

\* Command::CloseConnection
HandleClose(cmd) ==
    /\ cmd \in cmds /\ cmd.kind \in {"close", "drop"}
    /\ cmds' = cmds \ {cmd}
    /\ table' \in Release(table, cmd.conn, cmd.who)
    /\ net' = IF net[cmd.conn] = "up" /\ ReleaseCloses(table, cmd.conn, cmd.who)
                THEN [net EXCEPT ![cmd.conn] = "closing"] ELSE net
    /\ IF cmd.kind = "close" /\ At(cmd.who, "closing") THEN Goes(cmd.who, "done") ELSE UNCHANGED op
    /\ UNCHANGED <<waiters, free, unread>>

\* SwarmEvent::ConnectionClosed, by this node, by the relay or by the other peer
ConnectionClosed(c) ==
    /\ net[c] \in {"up", "closing"}
    /\ net' = [net EXCEPT ![c] = "gone"]
    /\ table' \in Invalidate(table, c)
    /\ UNCHANGED <<op, cmds, waiters, free, unread>>

-----------------------------------------------------------------------------

SwarmStep ==
    \/ \E o \in Openers : RefuseConnect(o) \/ ConnectLive(o) \/ ConnectPending(o) \/ ConnectVacant(o)
    \/ \E c \in Conns : DialEstablished(c) \/ DialFails(c)
    \/ \E cmd \in cmds : HandleClose(cmd)

OpenerStep(o) == AcquirePermit(o) \/ Receive(o) \/ OpenRelayed(o)

Next ==
    \/ SwarmStep
    \/ \E o \in Openers : Open(o) \/ OpenerStep(o) \/ Close(o) \/ Drop(o)
    \/ \E c \in Conns : ConnectionClosed(c)

Spec == Init /\ [][Next]_vars

\* The swarm task takes every command and every dial ends; openers are polled, and
\* the gate is a fair channel; a connection that is being closed closes.
Fairness ==
    /\ \A o \in Openers :
         /\ SF_vars(AcquirePermit(o)) /\ WF_vars(Receive(o) \/ OpenRelayed(o))
         /\ WF_vars(RefuseConnect(o) \/ ConnectLive(o) \/ ConnectPending(o) \/ ConnectVacant(o))
         /\ WF_vars(\E cmd \in cmds : cmd.who = o /\ HandleClose(cmd))
    /\ \A c \in Conns :
         /\ WF_vars(DialEstablished(c) \/ DialFails(c))
         /\ WF_vars(net[c] = "closing" /\ ConnectionClosed(c))

FairSpec == Spec /\ Fairness

-----------------------------------------------------------------------------
(* Properties *)

TypeOK ==
    /\ \A o \in Openers :
         /\ op[o].pc \in {"idle", "permit", "sent", "answered", "opening", "open", "closing", "done"}
         /\ op[o].conn \in {NoConn} \cup Conns /\ op[o].old \in {NoConn} \cup Conns
    /\ table.key \in {NoConn} \cup Conns /\ table.owners \in [Conns -> SUBSET Openers]
    /\ waiters \subseteq Openers /\ unread \subseteq Openers
    /\ \A c \in Conns : net[c] \in {"none", "dialing", "up", "closing", "gone"}
    /\ free \in 0..Permits

Holds(o, c) == op[o].conn = c /\ op[o].pc \in {"answered", "opening", "open"}

\* CircuitHopTable::release: the node never closes a circuit that an opener or a
\* stream still holds, whatever closes are repeated, dropped or late.
HeldCircuitStaysUp == \A o \in Openers, c \in Conns : Holds(o, c) => net[c] \in {"up", "gone"}

\* restore_previous: unless a dial is pending, the newest opener finds a circuit
\* exactly when one is up; a selected circuit is up and nobody dials.
SelectionFollowsCircuits ==
    /\ ~table.pending => (table.key # NoConn <=> \E c \in Conns : net[c] = "up")
    /\ table.key # NoConn => net[table.key] = "up" /\ ~table.pending

\* "the last owner release tears the hop down": a circuit nobody holds goes, unless
\* an opener was dropped with its answer unread, whose owner nothing releases.
UnheldCircuitGoes ==
    \A c \in Conns :
        []<>(net[c] = "up" => \E o \in Openers : Holds(o, c) \/ (o \in unread /\ op[o].conn = c))

\* connect_exact and close: a caller that waits is answered, and the gate never
\* loses a permit for good.
OpenReturns ==
    \A o \in Openers : op[o].pc \in {"permit", "sent", "closing"} ~>
                       op[o].pc \notin {"permit", "sent", "closing"}
=============================================================================
