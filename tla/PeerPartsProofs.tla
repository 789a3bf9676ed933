---------------------------- MODULE PeerPartsProofs ----------------------------
(***************************************************************************)
(* What holds of the components of a peer that have no module of proofs of *)
(* their own, for every value of their constants: the circuits of a hop,   *)
(* the source admissions, the servers of application protocols, the        *)
(* advertisement and the runtime that starts and stops them.  Each section *)
(* types one component, states the invariant that its steps keep, and      *)
(* draws the component's properties from it.                               *)
(***************************************************************************)
EXTENDS PeerParts, Sequences, FiniteSetTheorems, TLAPS

-----------------------------------------------------------------------------
(* The circuits of one hop and who owns them (transport.rs), for any       *)
(* openers, connections and permits.                                       *)

Pcs == {"idle", "permit", "sent", "answered", "opening", "open", "closing", "done"}
Opener == [pc : Pcs, conn : 0..hop_MaxConn, old : 0..hop_MaxConn]
Table == [key : 0..hop_MaxConn, owners : [CircuitHops!Conns -> SUBSET hop_Openers], pending : BOOLEAN]
Closes == [kind : {"close", "drop"}, who : hop_Openers, conn : CircuitHops!Conns]
Links == {"none", "dialing", "up", "closing", "gone"}

HopType ==
    /\ hop_op \in [hop_Openers -> Opener]
    /\ hop_cmds \subseteq {CircuitHops!ConnectCmd(o) : o \in hop_Openers} \cup Closes
    /\ hop_table \in Table
    /\ hop_waiters \subseteq hop_Openers /\ hop_unread \subseteq hop_Openers
    /\ hop_net \in [CircuitHops!Conns -> Links]
    /\ hop_free \in Nat

\* Where an opener has a connection, and where it has let go of it
Connected == {"answered", "opening", "open", "closing"}
Letting == {"closing", "done"}

\* A command belongs to the place its opener is at, whoever drops it
CommandInv ==
    /\ \A o \in hop_Openers : CircuitHops!ConnectCmd(o) \in hop_cmds
        => hop_op[o].pc \in {"sent", "done"}
    /\ \A o \in hop_Openers : hop_op[o].pc \in Connected => hop_op[o].conn \in CircuitHops!Conns
    /\ \A k \in hop_cmds : k.kind \in {"close", "drop"} => hop_op[k.who].pc \in Letting

\* Exactly the circuits that are up have owners, who holds one is among them, and
\* nobody holds one that was closed
HopOwnerInv ==
    /\ \A c \in CircuitHops!Conns : hop_table.owners[c] # {} <=> hop_net[c] = "up"
    /\ \A o \in hop_Openers, c \in CircuitHops!Conns : CircuitHops!Holds(o, c) /\ hop_net[c] = "up"
        => o \in hop_table.owners[c]
    /\ \A o \in hop_Openers, c \in CircuitHops!Conns : CircuitHops!Holds(o, c)
        => hop_net[c] \in {"up", "gone"}

\* A selected entry is one of the table's, and selected unless a dial is pending
SelectionOK(t) ==
    /\ t.key # CircuitHops!NoConn => (t.key \in CircuitHops!Entries(t) /\ ~t.pending)
    /\ (~t.pending /\ t.key = CircuitHops!NoConn) => CircuitHops!Entries(t) = {}

\* One dial at a time, which is pending in the table; a selected circuit is up
SelectionInv ==
    /\ \A c \in CircuitHops!Conns : hop_net[c] = "dialing" => hop_table.pending
    /\ \A c, d \in CircuitHops!Conns : hop_net[c] = "dialing" /\ hop_net[d] = "dialing" => c = d
    /\ SelectionOK(hop_table)

\* A permit is free, or travels with a command, or with the dial
Sent == {o \in hop_Openers : CircuitHops!ConnectCmd(o) \in hop_cmds}
Dialing == {c \in CircuitHops!Conns : hop_net[c] = "dialing"}
PermitInv ==
    /\ IsFiniteSet(Sent)
    /\ hop_free + Cardinality(Sent) + (IF Dialing = {} THEN 0 ELSE 1) = hop_Permits

\* Who waits for the dial has no command left, and cannot be answered otherwise
WaiterInv == \A o \in hop_waiters : CircuitHops!ConnectCmd(o) \notin hop_cmds
     /\ hop_op[o].pc \in {"sent", "done"}

HopInv == HopType /\ CommandInv /\ WaiterInv /\ HopOwnerInv /\ SelectionInv /\ PermitInv

-----------------------------------------------------------------------------
(* The hop table *)

\* restore_previous changes only an empty selection, to any entry there is
LEMMA RestoredIs ==
    ASSUME CircuitHops!HopConstants, NEW t \in Table, t.key # CircuitHops!NoConn => t.key \in CircuitHops!Entries(t),
           t.key # CircuitHops!NoConn => ~t.pending, NEW u \in CircuitHops!Restored(t)
    PROVE  u \in Table /\ u.owners = t.owners /\ u.pending = t.pending /\ SelectionOK(u)
<1>1. CASE t.key = CircuitHops!NoConn /\ ~t.pending /\ CircuitHops!Entries(t) # {}
  <2>1. PICK c \in CircuitHops!Entries(t) : u = [t EXCEPT !.key = c]
    BY <1>1 DEF CircuitHops!Restored
  <2>2. c \in CircuitHops!Conns /\ c \in 0..hop_MaxConn /\ c # CircuitHops!NoConn
    BY <2>1 DEF CircuitHops!Entries, CircuitHops!Conns, CircuitHops!NoConn, CircuitHops!HopConstants
  <2>3. u \in Table /\ u.owners = t.owners /\ u.pending = t.pending /\ u.key = c
    BY <2>1, <2>2 DEF Table
  <2> QED BY <1>1, <2>1, <2>2, <2>3 DEF SelectionOK, CircuitHops!Entries
<1>2. CASE ~(t.key = CircuitHops!NoConn /\ ~t.pending /\ CircuitHops!Entries(t) # {})
  <2>1. u = t
    BY <1>2 DEF CircuitHops!Restored
  <2> QED BY <1>2, <2>1 DEF SelectionOK
<1> QED BY <1>1, <1>2

LEMMA FailPendingIs ==
    ASSUME CircuitHops!HopConstants, NEW t \in Table, t.key # CircuitHops!NoConn => t.key \in CircuitHops!Entries(t),
           NEW u \in CircuitHops!FailPending(t)
    PROVE  u \in Table /\ u.owners = t.owners /\ ~u.pending /\ SelectionOK(u)
<1> DEFINE s == [t EXCEPT !.pending = FALSE]
<1>1. s \in Table /\ s.owners = t.owners /\ s.key = t.key /\ s.pending = FALSE
  BY DEF Table
<1>2. s.key # CircuitHops!NoConn => s.key \in CircuitHops!Entries(s)
  BY <1>1 DEF CircuitHops!Entries
<1>3. u \in CircuitHops!Restored(s)
  BY DEF CircuitHops!FailPending
<1> HIDE DEF s
<1> QED BY <1>1, <1>2, <1>3, RestoredIs

LEMMA WithoutIs ==
    ASSUME CircuitHops!HopConstants, NEW t \in Table, SelectionOK(t), NEW c \in CircuitHops!Conns,
         NEW u \in CircuitHops!Without(t, c)
    PROVE  /\ u \in Table /\ u.owners = [t.owners EXCEPT ![c] = {}]
           /\ u.pending = t.pending /\ SelectionOK(u)
<1> DEFINE k == IF t.key = c THEN CircuitHops!NoConn ELSE t.key
           s == [t EXCEPT !.owners[c] = {}, !.key = k]
<1>0. 0 \in 0..hop_MaxConn
  BY DEF CircuitHops!HopConstants
<1>1. k \in 0..hop_MaxConn
  BY <1>0 DEF Table, CircuitHops!NoConn
<1>2. [t.owners EXCEPT ![c] = {}] \in [CircuitHops!Conns -> SUBSET hop_Openers]
  BY DEF Table
<1>3. s \in Table /\ s.owners = [t.owners EXCEPT ![c] = {}] /\ s.key = k /\ s.pending = t.pending
  BY <1>1, <1>2 DEF Table
<1>4. s.key # CircuitHops!NoConn => s.key \in CircuitHops!Entries(s)
  BY <1>3 DEF CircuitHops!Entries, SelectionOK, Table
<1>5. s.key # CircuitHops!NoConn => ~s.pending
  BY <1>3 DEF SelectionOK
<1>6. u \in CircuitHops!Restored(s)
  BY DEF CircuitHops!Without
<1> HIDE DEF s, k
<1> QED BY <1>3, <1>4, <1>5, <1>6, RestoredIs

\* Whatever branch it takes, a release removes its owner and no other
LEMMA ReleaseIs ==
    ASSUME CircuitHops!HopConstants, NEW t \in Table, SelectionOK(t), NEW c \in CircuitHops!Conns, NEW o \in hop_Openers,
           NEW u \in CircuitHops!Release(t, c, o)
    PROVE  /\ u \in Table /\ u.owners = [t.owners EXCEPT ![c] = t.owners[c] \ {o}]
           /\ u.pending = t.pending /\ SelectionOK(u)
<1>1. t.owners \in [CircuitHops!Conns -> SUBSET hop_Openers]
  BY DEF Table
<1>2. CASE t.owners[c] = {}
  <2>1. u = t
    BY <1>2 DEF CircuitHops!Release
  <2> QED BY <1>1, <1>2, <2>1
<1>3. CASE t.owners[c] # {} /\ t.owners[c] \subseteq {o}
  <2>1. u \in CircuitHops!Without(t, c)
    BY <1>3 DEF CircuitHops!Release, CircuitHops!ReleaseCloses
  <2>2. t.owners[c] \ {o} = {}
    BY <1>3
  <2> QED BY <1>1, <2>1, <2>2, WithoutIs
<1>4. CASE t.owners[c] # {} /\ ~(t.owners[c] \subseteq {o})
  <2>1. u = [t EXCEPT !.owners[c] = t.owners[c] \ {o}]
    BY <1>4 DEF CircuitHops!Release, CircuitHops!ReleaseCloses, Table
  <2>2. [t.owners EXCEPT ![c] = t.owners[c] \ {o}] \in [CircuitHops!Conns -> SUBSET hop_Openers]
    BY <1>1
  <2>3. /\ u \in Table /\ u.owners = [t.owners EXCEPT ![c] = t.owners[c] \ {o}]
        /\ u.pending = t.pending /\ u.key = t.key
    BY <2>1, <2>2 DEF Table
  <2>4. CircuitHops!Entries(u) = CircuitHops!Entries(t)
    BY <1>1, <1>4, <2>3 DEF CircuitHops!Entries
  <2> QED BY <2>3, <2>4 DEF SelectionOK
<1> QED BY <1>2, <1>3, <1>4

LEMMA InvalidateIs ==
    ASSUME CircuitHops!HopConstants, NEW t \in Table, SelectionOK(t), NEW c \in CircuitHops!Conns,
         NEW u \in CircuitHops!Invalidate(t, c)
    PROVE  /\ u \in Table /\ u.owners = [t.owners EXCEPT ![c] = {}]
           /\ u.pending = t.pending /\ SelectionOK(u)
<1>1. CASE t.owners[c] = {}
  <2>1. u = t
    BY <1>1 DEF CircuitHops!Invalidate
  <2> QED BY <1>1, <2>1 DEF Table
<1>2. CASE t.owners[c] # {}
  BY <1>2, WithoutIs DEF CircuitHops!Invalidate
<1> QED BY <1>1, <1>2

LEMMA EstablishedIs ==
    ASSUME CircuitHops!HopConstants, NEW t \in Table, t.key = CircuitHops!NoConn, NEW c \in CircuitHops!Conns, t.owners[c] = {},
           NEW os \in SUBSET hop_Openers, NEW u \in CircuitHops!Established(t, c, os)
    PROVE  /\ u \in Table /\ u.owners = [t.owners EXCEPT ![c] = os]
           /\ ~u.pending /\ SelectionOK(u)
<1>1. CASE os = {}
  <2>1. u \in CircuitHops!FailPending(t)
    BY <1>1 DEF CircuitHops!Established
  <2>2. u \in Table /\ u.owners = t.owners /\ ~u.pending /\ SelectionOK(u)
    BY <2>1, FailPendingIs
  <2>3. t.owners = [t.owners EXCEPT ![c] = os]
    BY <1>1 DEF Table
  <2> QED BY <2>2, <2>3
<1>2. CASE os # {}
  <2>1. u = [t EXCEPT !.pending = FALSE, !.key = c, !.owners[c] = os]
    BY <1>2 DEF CircuitHops!Established
  <2>2. [t.owners EXCEPT ![c] = os] \in [CircuitHops!Conns -> SUBSET hop_Openers]
    BY DEF Table
  <2>3. c \in 0..hop_MaxConn
    BY DEF CircuitHops!Conns, CircuitHops!HopConstants
  <2>4. /\ u \in Table /\ u.owners = [t.owners EXCEPT ![c] = os]
        /\ u.pending = FALSE /\ u.key = c
    BY <2>1, <2>2, <2>3 DEF Table
  <2>5. c \in CircuitHops!Entries(u)
    BY <1>2, <2>4 DEF CircuitHops!Entries, Table
  <2>6. c # CircuitHops!NoConn
    BY DEF CircuitHops!Conns, CircuitHops!NoConn, CircuitHops!HopConstants
  <2> QED BY <2>4, <2>5, <2>6 DEF SelectionOK
<1> QED BY <1>1, <1>2

\* Selecting another generation leaves the owners and the dial alone
LEMMA ReplacementIs ==
    ASSUME CircuitHops!HopConstants, NEW t \in Table, SelectionOK(t), NEW old \in 0..hop_MaxConn
    PROVE  LET u == CircuitHops!PrepareReplacement(t, old) IN
           /\ u \in Table /\ u.owners = t.owners /\ u.pending = t.pending
           /\ u.key # CircuitHops!NoConn => (u = t /\ u.key \in CircuitHops!Entries(t) /\ ~t.pending)
           /\ t.pending => u = t
<1>0. 0 \in 0..hop_MaxConn
  BY DEF CircuitHops!HopConstants
<1>1. CASE t.key = old /\ old # CircuitHops!NoConn
  <2>1. CircuitHops!PrepareReplacement(t, old) = [t EXCEPT !.key = CircuitHops!NoConn]
    BY <1>1 DEF CircuitHops!PrepareReplacement
  <2> QED BY <1>0, <1>1, <2>1 DEF Table, CircuitHops!NoConn, SelectionOK
<1>2. CASE ~(t.key = old /\ old # CircuitHops!NoConn)
  <2>1. CircuitHops!PrepareReplacement(t, old) = t
    BY <1>2 DEF CircuitHops!PrepareReplacement
  <2> QED BY <2>1 DEF SelectionOK
<1> QED BY <1>1, <1>2

-----------------------------------------------------------------------------
(* Commands and permits *)

LEMMA CommandsDiffer ==
    ASSUME NEW o, NEW p
    PROVE  /\ CircuitHops!ConnectCmd(o) = CircuitHops!ConnectCmd(p) => o = p
           /\ CircuitHops!ConnectCmd(o).kind = "connect" /\ CircuitHops!ConnectCmd(o).who = o
BY DEF CircuitHops!ConnectCmd

LEMMA CloseIsNoConnect ==
    ASSUME NEW k, k.kind \in {"close", "drop"}, NEW o
    PROVE  k # CircuitHops!ConnectCmd(o)
BY DEF CircuitHops!ConnectCmd

LEMMA CloseCmdIs ==
    ASSUME HopType, NEW o \in hop_Openers, hop_op[o].conn \in CircuitHops!Conns,
         NEW kind \in {"close", "drop"}
    PROVE  /\ CircuitHops!CloseCmd(o, kind) \in Closes
           /\ CircuitHops!CloseCmd(o, kind).who = o
           /\ CircuitHops!CloseCmd(o, kind).kind \in {"close", "drop"}
BY DEF CircuitHops!CloseCmd, Closes

\* A command that leaves takes one permit along
LEMMA SentLeaves ==
    ASSUME NEW o \in hop_Openers, CircuitHops!ConnectCmd(o) \in hop_cmds,
         hop_cmds' = hop_cmds \ {CircuitHops!ConnectCmd(o)}
    PROVE  o \in Sent /\ Sent' = Sent \ {o}
<1>1. \A p \in hop_Openers : CircuitHops!ConnectCmd(p) \in hop_cmds' <=> (CircuitHops!ConnectCmd(p) \in hop_cmds /\ p # o)
  BY CommandsDiffer
<1>2. \A p \in hop_Openers : CircuitHops!ConnectCmd(p)' = CircuitHops!ConnectCmd(p)
  BY DEF CircuitHops!ConnectCmd
<1> QED BY <1>1, <1>2 DEF Sent

LEMMA SentJoins ==
    ASSUME NEW o \in hop_Openers, hop_cmds' = hop_cmds \cup {CircuitHops!ConnectCmd(o)}
    PROVE  Sent' = Sent \cup {o}
<1>1. \A p \in hop_Openers : CircuitHops!ConnectCmd(p) \in hop_cmds' <=> (CircuitHops!ConnectCmd(p) \in hop_cmds \/ p = o)
  BY CommandsDiffer
<1>2. \A p \in hop_Openers : CircuitHops!ConnectCmd(p)' = CircuitHops!ConnectCmd(p)
  BY DEF CircuitHops!ConnectCmd
<1> QED BY <1>1, <1>2 DEF Sent

LEMMA SentStays ==
    ASSUME \A k : (k \in hop_cmds' /\ k \notin hop_cmds) => k.kind \in {"close", "drop"},
           \A k : (k \in hop_cmds /\ k \notin hop_cmds') => k.kind \in {"close", "drop"}
    PROVE  Sent' = Sent
<1>1. \A p \in hop_Openers : CircuitHops!ConnectCmd(p) \in hop_cmds' <=> CircuitHops!ConnectCmd(p) \in hop_cmds
  BY CloseIsNoConnect
<1>2. \A p \in hop_Openers : CircuitHops!ConnectCmd(p)' = CircuitHops!ConnectCmd(p)
  BY DEF CircuitHops!ConnectCmd
<1> QED BY <1>1, <1>2 DEF Sent

LEMMA PermitReturns ==
    ASSUME HopType, PermitInv, NEW o \in Sent, Sent' = Sent \ {o},
           hop_free' = hop_free + 1, Dialing' = Dialing
    PROVE  PermitInv' /\ hop_free' \in Nat
<1>1. IsFiniteSet(Sent \ {o}) /\ Cardinality(Sent \ {o}) = Cardinality(Sent) - 1
  BY FS_RemoveElement DEF PermitInv
<1>2. Cardinality(Sent) \in Nat
  BY FS_CardinalityType DEF PermitInv
<1> QED BY <1>1, <1>2 DEF PermitInv, HopType

LEMMA PermitTravels ==
    ASSUME HopType, PermitInv, NEW o \in Sent, Sent' = Sent \ {o},
           hop_free' = hop_free, Dialing = {}, Dialing' # {}
    PROVE  PermitInv'
<1>1. IsFiniteSet(Sent \ {o}) /\ Cardinality(Sent \ {o}) = Cardinality(Sent) - 1
  BY FS_RemoveElement DEF PermitInv
<1>2. Cardinality(Sent) \in Nat
  BY FS_CardinalityType DEF PermitInv
<1> QED BY <1>1, <1>2 DEF PermitInv, HopType

LEMMA PermitTaken ==
    ASSUME HopType, PermitInv, NEW o, o \notin Sent, Sent' = Sent \cup {o},
           hop_free > 0, hop_free' = hop_free - 1, Dialing' = Dialing
    PROVE  PermitInv' /\ hop_free' \in Nat
<1>1. IsFiniteSet(Sent \cup {o}) /\ Cardinality(Sent \cup {o}) = Cardinality(Sent) + 1
  BY FS_AddElement DEF PermitInv
<1>2. Cardinality(Sent) \in Nat
  BY FS_CardinalityType DEF PermitInv
<1> QED BY <1>1, <1>2 DEF PermitInv, HopType

-----------------------------------------------------------------------------
(* Openers.  They leave the table and the network alone. *)

\* Moving on without a connection of its own
LEMMA OpenKeeps ==
    ASSUME CircuitHops!HopConstants, HopInv, NEW o \in hop_Openers, CircuitHops!Open(o)
    PROVE  HopInv'
<1> USE DEF HopInv
<1>1. PICK old \in 0..hop_MaxConn : hop_op' = [hop_op EXCEPT ![o] = [hop_op[o] EXCEPT !.pc = "permit",
         !.old = old]]
  <2>1. \A p \in hop_Openers : hop_op[p].conn \in 0..hop_MaxConn
    BY DEF HopType, Opener
  <2>2. 0 \in 0..hop_MaxConn
    BY DEF CircuitHops!HopConstants
  <2> QED BY <2>1, <2>2 DEF CircuitHops!Open, CircuitHops!NoConn, HopType
<1>2. UNCHANGED <<hop_cmds, hop_table, hop_waiters, hop_net, hop_free, hop_unread>>
         /\ hop_op[o].pc = "idle"
  BY DEF CircuitHops!Open, CircuitHops!At
<1> DEFINE r == [hop_op[o] EXCEPT !.pc = "permit", !.old = old]
<1>3. r \in Opener /\ r.pc = "permit" /\ r.conn = hop_op[o].conn
  BY <1>1 DEF HopType, Opener, Pcs
<1>4. hop_op' = [hop_op EXCEPT ![o] = r]
  BY <1>1
<1> HIDE DEF r
<1>5. HopType'
  BY <1>2, <1>3, <1>4 DEF HopType, CircuitHops!ConnectCmd
<1>6. \A p \in hop_Openers : p # o => hop_op'[p] = hop_op[p]
  BY <1>4 DEF HopType
<1>7. hop_op'[o].pc = "permit"
  BY <1>3, <1>4 DEF HopType
<1>8. CommandInv'
  <2>1. CircuitHops!ConnectCmd(o) \notin hop_cmds
           /\ \A k \in hop_cmds : k.kind \in {"close", "drop"} => (k.who # o /\ k.who \in hop_Openers)
    BY <1>2 DEF CommandInv, HopType, Letting, Closes, CircuitHops!ConnectCmd
  <2> QED BY <1>2, <1>6, <1>7, <2>1 DEF CommandInv, Connected, Letting, CircuitHops!ConnectCmd
<1>9. HopOwnerInv'
  BY <1>2, <1>6, <1>7 DEF HopOwnerInv, CircuitHops!Holds
<1>10. SelectionInv' /\ PermitInv'
  BY <1>2
     DEF SelectionInv, PermitInv, SelectionOK, CircuitHops!Entries, Sent, Dialing,
         CircuitHops!ConnectCmd
<1>11. WaiterInv'
  BY <1>2, <1>6 DEF WaiterInv, HopType, CircuitHops!ConnectCmd
<1> QED BY <1>11, <1>5, <1>8, <1>9, <1>10

\* Changing the place alone: the type and the other openers
LEMMA GoesIs ==
    ASSUME HopType, NEW o \in hop_Openers, NEW pc \in Pcs, CircuitHops!Goes(o, pc)
    PROVE  /\ hop_op' \in [hop_Openers -> Opener]
           /\ hop_op'[o].pc = pc /\ hop_op'[o].conn = hop_op[o].conn
           /\ \A p \in hop_Openers : p # o => hop_op'[p] = hop_op[p]
BY DEF HopType, Opener, CircuitHops!Goes

\* The commands other than an opener's own are not touched by its place
LEMMA OwnCommands ==
    ASSUME HopType
    PROVE  \A k \in hop_cmds : \/ k \in Closes /\ k.kind \in {"close", "drop"} /\ k.who \in hop_Openers /\ k.conn \in CircuitHops!Conns
                               \/ \E o \in hop_Openers : k = CircuitHops!ConnectCmd(o)
                                   /\ k.kind = "connect"
BY DEF HopType, Closes, CircuitHops!ConnectCmd

LEMMA AcquirePermitKeeps ==
    ASSUME CircuitHops!HopConstants, HopInv, NEW o \in hop_Openers, CircuitHops!AcquirePermit(o)
    PROVE  HopInv'
<1> USE DEF HopInv
<1>1. /\ hop_op[o].pc = "permit" /\ CircuitHops!Goes(o, "sent")
      /\ hop_cmds' = hop_cmds \cup {CircuitHops!ConnectCmd(o)}
      /\ hop_free > 0 /\ hop_free' = hop_free - 1
      /\ UNCHANGED <<hop_table, hop_waiters, hop_net, hop_unread>>
  BY DEF CircuitHops!AcquirePermit, CircuitHops!At
<1>2. /\ hop_op' \in [hop_Openers -> Opener] /\ hop_op'[o].pc = "sent"
      /\ \A p \in hop_Openers : p # o => hop_op'[p] = hop_op[p]
  BY <1>1, GoesIs DEF Pcs
<1>3. o \notin Sent
  BY <1>1 DEF CommandInv, Sent
<1>4. PermitInv' /\ hop_free' \in Nat
  <2>1. Sent' = Sent \cup {o} /\ Dialing' = Dialing
    BY <1>1, SentJoins DEF Dialing
  <2> QED BY <1>1, <1>3, <2>1, PermitTaken
<1>5. HopType'
  BY <1>1, <1>2, <1>4 DEF HopType, CircuitHops!ConnectCmd
<1>6. CommandInv'
  <2>1. \A p \in hop_Openers : CircuitHops!ConnectCmd(p) \in hop_cmds'
           => hop_op'[p].pc \in {"sent", "done"}
    BY <1>1, <1>2, CommandsDiffer DEF CommandInv
  <2>2. \A p \in hop_Openers : hop_op'[p].pc \in Connected => hop_op'[p].conn \in CircuitHops!Conns
    BY <1>2 DEF CommandInv, Connected
  <2>3. ASSUME NEW k \in hop_cmds', k.kind \in {"close", "drop"} PROVE hop_op'[k.who].pc \in Letting
    <3>1. k \in hop_cmds /\ k.who \in hop_Openers /\ k.who # o
      BY <1>1, <2>3, CommandsDiffer, OwnCommands DEF CommandInv, Letting
    <3> QED BY <1>2, <2>3, <3>1 DEF CommandInv
  <2> QED BY <2>1, <2>2, <2>3 DEF CommandInv, CircuitHops!ConnectCmd
<1>7. HopOwnerInv'
  BY <1>1, <1>2 DEF HopOwnerInv, CircuitHops!Holds
<1>8. SelectionInv'
  BY <1>1 DEF SelectionInv, SelectionOK, CircuitHops!Entries
<1>9. WaiterInv'
  <2>1. o \notin hop_waiters
    BY <1>1 DEF WaiterInv
  <2> QED BY <1>1, <1>2, <2>1, CommandsDiffer DEF WaiterInv, HopType, CircuitHops!ConnectCmd
<1> QED BY <1>9, <1>4, <1>5, <1>6, <1>7, <1>8

\* An opener that goes on with its connection, or lets go of it: what it may send is
\* a close of its own
LEMMA OpenerMoves ==
    ASSUME CircuitHops!HopConstants, HopInv, NEW o \in hop_Openers, NEW pc \in {"opening", "open", "closing", "done"},
           CircuitHops!Goes(o, pc), UNCHANGED <<hop_table, hop_waiters, hop_net>>,
                hop_unread' \subseteq hop_Openers,
           pc \in {"opening", "open"} => hop_op[o].pc \in {"answered", "opening"},
           pc = "closing" => hop_op[o].pc \in Connected,
           \A k \in hop_cmds' : k \in hop_cmds \/ (k \in Closes /\ k.who = o /\ pc \in Letting),
           PermitInv', hop_free' \in Nat
    PROVE  HopInv'
<1> USE DEF HopInv
<1>1. /\ hop_op' \in [hop_Openers -> Opener] /\ hop_op'[o].pc = pc /\ hop_op'[o].conn = hop_op[o].conn
      /\ \A p \in hop_Openers : p # o => hop_op'[p] = hop_op[p]
  BY GoesIs DEF Pcs
<1>2. HopType'
  BY <1>1 DEF HopType, CircuitHops!ConnectCmd
<1>3. CommandInv'
  <2>1. ASSUME NEW p \in hop_Openers, CircuitHops!ConnectCmd(p) \in hop_cmds'
           PROVE hop_op'[p].pc \in {"sent", "done"}
    <3>1. CircuitHops!ConnectCmd(p) \in hop_cmds
      BY <2>1 DEF Closes, CircuitHops!ConnectCmd
    <3>2. hop_op[p].pc \in {"sent", "done"}
      BY <3>1 DEF CommandInv
    <3> QED BY <1>1, <3>2 DEF Connected
  <2>2. \A p \in hop_Openers : hop_op'[p].pc \in Connected => hop_op'[p].conn \in CircuitHops!Conns
    BY <1>1 DEF CommandInv, Connected
  <2>3. ASSUME NEW k \in hop_cmds', k.kind \in {"close", "drop"} PROVE hop_op'[k.who].pc \in Letting
    <3>1. CASE k \in hop_cmds
      <4>1. k.who \in hop_Openers /\ hop_op[k.who].pc \in Letting
        BY <2>3, <3>1, OwnCommands DEF CommandInv
      <4>2. k.who = o => pc \in Letting
        BY <4>1 DEF Letting
      <4> QED BY <1>1, <4>1, <4>2
    <3>2. CASE k \notin hop_cmds
      BY <1>1, <3>2
    <3> QED BY <3>1, <3>2
  <2> QED BY <2>1, <2>2, <2>3 DEF CommandInv, CircuitHops!ConnectCmd
<1>4. HopOwnerInv'
  <2>1. \A p \in hop_Openers, c \in CircuitHops!Conns : CircuitHops!Holds(p, c)'
           => CircuitHops!Holds(p, c)
    BY <1>1 DEF CircuitHops!Holds
  <2> QED BY <2>1 DEF HopOwnerInv
<1>5. SelectionInv'
  BY DEF SelectionInv, SelectionOK, CircuitHops!Entries
<1>6. WaiterInv'
  <2>1. \A p \in hop_waiters : CircuitHops!ConnectCmd(p) \notin hop_cmds'
    BY CommandsDiffer DEF WaiterInv, Closes
  <2>2. \A p \in hop_waiters : hop_op'[p].pc \in {"sent", "done"}
    BY <1>1 DEF WaiterInv, Connected, HopType
  <2> QED BY <2>1, <2>2 DEF WaiterInv, CircuitHops!ConnectCmd
<1> QED BY <1>6, <1>2, <1>3, <1>4, <1>5

\* Sending or losing closes leaves the permits where they are
LEMMA ClosesKeepPermits ==
    ASSUME HopType, PermitInv, UNCHANGED <<hop_net, hop_free>>,
           \A k : (k \in hop_cmds' /\ k \notin hop_cmds) => k.kind \in {"close", "drop"},
           \A k : (k \in hop_cmds /\ k \notin hop_cmds') => k.kind \in {"close", "drop"}
    PROVE  PermitInv' /\ hop_free' \in Nat
<1>1. Sent' = Sent
  BY SentStays
<1>2. Dialing' = Dialing
  BY DEF Dialing
<1> QED BY <1>1, <1>2 DEF PermitInv, HopType

LEMMA ReceiveKeeps ==
    ASSUME CircuitHops!HopConstants, HopInv, NEW o \in hop_Openers, CircuitHops!Receive(o)
    PROVE  HopInv'
<1>1. /\ hop_op[o].pc = "answered" /\ CircuitHops!Goes(o, "opening")
      /\ UNCHANGED <<hop_table, hop_waiters, hop_net>>
      /\ UNCHANGED <<hop_cmds, hop_free, hop_unread>>
  BY DEF CircuitHops!Receive, CircuitHops!At
<1>2. PermitInv' /\ hop_free' \in Nat
  BY <1>1, ClosesKeepPermits DEF HopInv
<1>3. hop_unread' \subseteq hop_Openers
  BY <1>1 DEF HopInv, HopType
<1> QED BY <1>1, <1>2, <1>3, OpenerMoves

\* The close of a connected opener is its own, and no connect
LEMMA SendsItsClose ==
    ASSUME HopInv, NEW o \in hop_Openers, hop_op[o].pc \in Connected, NEW kind \in {"close", "drop"},
           hop_cmds' = hop_cmds \cup {CircuitHops!CloseCmd(o, kind)}, UNCHANGED <<hop_net, hop_free>>
    PROVE  /\ PermitInv' /\ hop_free' \in Nat
           /\ \A k \in hop_cmds' : k \in hop_cmds \/ (k \in Closes /\ k.who = o)
<1>1. hop_op[o].conn \in CircuitHops!Conns
  BY DEF HopInv, CommandInv
<1>2. /\ CircuitHops!CloseCmd(o, kind) \in Closes /\ CircuitHops!CloseCmd(o, kind).who = o
      /\ CircuitHops!CloseCmd(o, kind).kind \in {"close", "drop"}
  BY <1>1, CloseCmdIs DEF HopInv
<1> QED BY <1>2, ClosesKeepPermits DEF HopInv

LEMMA OpenRelayedKeeps ==
    ASSUME CircuitHops!HopConstants, HopInv, NEW o \in hop_Openers, CircuitHops!OpenRelayed(o)
    PROVE  HopInv'
<1>1. hop_op[o].pc = "opening" /\ UNCHANGED <<hop_table, hop_waiters, hop_net>>
         /\ UNCHANGED <<hop_free, hop_unread>>
  BY DEF CircuitHops!OpenRelayed, CircuitHops!At
<1>2. hop_unread' \subseteq hop_Openers
  BY <1>1 DEF HopInv, HopType
<1>3. CASE CircuitHops!Goes(o, "open") /\ UNCHANGED hop_cmds
  <2>1. PermitInv' /\ hop_free' \in Nat
    BY <1>1, <1>3, ClosesKeepPermits DEF HopInv
  <2> QED BY <1>1, <1>2, <1>3, <2>1, OpenerMoves
<1>4. CASE CircuitHops!Goes(o, "closing")
         /\ hop_cmds' = hop_cmds \cup {CircuitHops!CloseCmd(o, "close")}
  <2>0. hop_op[o].pc \in Connected /\ "closing" \in Letting
    BY <1>1 DEF Connected, Letting
  <2>1. PermitInv' /\ hop_free' \in Nat /\ \A k \in hop_cmds' : k \in hop_cmds \/ (k \in Closes
           /\ k.who = o)
    BY <1>1, <1>4, <2>0, SendsItsClose
  <2> QED BY <1>1, <1>2, <1>4, <2>0, <2>1, OpenerMoves
<1> QED BY <1>3, <1>4 DEF CircuitHops!OpenRelayed

LEMMA CloseKeeps ==
    ASSUME CircuitHops!HopConstants, HopInv, NEW o \in hop_Openers, CircuitHops!Close(o)
    PROVE  HopInv'
<1>1. /\ hop_op[o].pc = "open" /\ UNCHANGED <<hop_table, hop_waiters, hop_net>>
      /\ UNCHANGED <<hop_free, hop_unread>>
      /\ CircuitHops!Goes(o, "closing") /\ hop_cmds' = hop_cmds \cup {CircuitHops!CloseCmd(o, "close")}
  BY DEF CircuitHops!Close, CircuitHops!At
<1>2. hop_unread' \subseteq hop_Openers
  BY <1>1 DEF HopInv, HopType
<1>3. hop_op[o].pc \in Connected /\ "closing" \in Letting
  BY <1>1 DEF Connected, Letting
<1>4. PermitInv' /\ hop_free' \in Nat /\ \A k \in hop_cmds' : k \in hop_cmds \/ (k \in Closes
         /\ k.who = o)
  BY <1>1, <1>3, SendsItsClose
<1> QED BY <1>1, <1>2, <1>3, <1>4, OpenerMoves

\* A dropped opener leaves its command behind, or takes it back, or closes
LEMMA HopDropKeeps ==
    ASSUME CircuitHops!HopConstants, HopInv, NEW o \in hop_Openers, CircuitHops!Drop(o)
    PROVE  HopInv'
<1>1. /\ hop_op[o].pc \in {"permit", "sent", "answered", "opening", "open", "closing"}
      /\ CircuitHops!Goes(o, "done") /\ UNCHANGED <<hop_table, hop_waiters, hop_net>>
      /\ "done" \in Letting
  BY DEF CircuitHops!Drop, Letting
<1>2. hop_unread' \subseteq hop_Openers
  BY DEF CircuitHops!Drop, HopInv, HopType
<1>3. CASE UNCHANGED <<hop_cmds, hop_free>>
  <2>1. PermitInv' /\ hop_free' \in Nat
    BY <1>1, <1>3, ClosesKeepPermits DEF HopInv
  <2> QED BY <1>1, <1>2, <1>3, <2>1, OpenerMoves
<1>4. CASE CircuitHops!ConnectCmd(o) \in hop_cmds
         /\ hop_cmds' = hop_cmds \ {CircuitHops!ConnectCmd(o)} /\ hop_free' = hop_free + 1
  <2>1. o \in Sent /\ Sent' = Sent \ {o} /\ Dialing' = Dialing
    BY <1>1, <1>4, SentLeaves DEF Dialing
  <2>2. PermitInv' /\ hop_free' \in Nat
    BY <1>4, <2>1, PermitReturns DEF HopInv
  <2> QED BY <1>1, <1>2, <1>4, <2>2, OpenerMoves
<1>5. CASE /\ hop_op[o].pc \in {"opening", "open", "closing"}
           /\ hop_cmds' \in {k \cup CircuitHops!DropGuard(o) : k \in {hop_cmds,
               hop_cmds \ {CircuitHops!CloseCmd(o, "close")}}}
           /\ UNCHANGED hop_free
  <2>1. hop_op[o].conn \in CircuitHops!Conns
    BY <1>5 DEF HopInv, CommandInv, Connected
  <2>2. /\ CircuitHops!CloseCmd(o, "drop") \in Closes /\ CircuitHops!CloseCmd(o, "drop").who = o
        /\ CircuitHops!CloseCmd(o, "drop").kind \in {"close", "drop"}
        /\ CircuitHops!CloseCmd(o, "close").kind \in {"close", "drop"}
    BY <2>1, CloseCmdIs DEF HopInv
  <2>3. \/ hop_cmds' = hop_cmds \cup {CircuitHops!CloseCmd(o, "drop")}
        \/ hop_cmds' = (hop_cmds \ {CircuitHops!CloseCmd(o, "close")}) \cup {CircuitHops!CloseCmd(o,
            "drop")}
    BY <1>5 DEF CircuitHops!DropGuard
  <2>4. PermitInv' /\ hop_free' \in Nat
    BY <1>1, <1>5, <2>2, <2>3, ClosesKeepPermits DEF HopInv
  <2>5. \A k \in hop_cmds' : k \in hop_cmds \/ (k \in Closes /\ k.who = o)
    BY <2>2, <2>3
  <2> QED BY <1>1, <1>2, <2>4, <2>5, OpenerMoves
<1> QED BY <1>3, <1>4, <1>5 DEF CircuitHops!Drop

-----------------------------------------------------------------------------
(* The swarm task *)

\* A connect that leaves the channel while its opener stays, is answered or is done
LEMMA CommandTaken ==
    ASSUME HopInv, NEW o \in hop_Openers, hop_cmds' = hop_cmds \ {CircuitHops!ConnectCmd(o)},
           hop_op' \in [hop_Openers -> Opener],
           \A p \in hop_Openers : p # o => hop_op'[p] = hop_op[p],
           hop_op'[o] = hop_op[o] \/ (hop_op[o].pc = "sent" /\ hop_op'[o].pc \in {"answered", "done"}),
           hop_op'[o].pc = "answered" => hop_op'[o].conn \in CircuitHops!Conns
    PROVE  CommandInv' /\ hop_cmds' \subseteq {CircuitHops!ConnectCmd(p) : p \in hop_Openers} \cup Closes
<1> USE DEF HopInv
<1>1. \A p \in hop_Openers : CircuitHops!ConnectCmd(p) \in hop_cmds'
         => hop_op'[p].pc \in {"sent", "done"}
  BY CommandsDiffer DEF CommandInv
<1>2. \A p \in hop_Openers : hop_op'[p].pc \in Connected => hop_op'[p].conn \in CircuitHops!Conns
  BY DEF CommandInv, Connected
<1>3. ASSUME NEW k \in hop_cmds', k.kind \in {"close", "drop"} PROVE hop_op'[k.who].pc \in Letting
  <2>1. k.who \in hop_Openers /\ hop_op[k.who].pc \in Letting
    BY <1>3, OwnCommands DEF CommandInv
  <2> QED BY <2>1 DEF Letting
<1> QED BY <1>1, <1>2, <1>3 DEF CommandInv, CircuitHops!ConnectCmd, HopType

LEMMA RefuseConnectKeeps ==
    ASSUME CircuitHops!HopConstants, HopInv, NEW o \in hop_Openers, CircuitHops!RefuseConnect(o)
    PROVE  HopInv'
<1> USE DEF HopInv
<1>1. /\ CircuitHops!ConnectCmd(o) \in hop_cmds
      /\ hop_cmds' = hop_cmds \ {CircuitHops!ConnectCmd(o)} /\ hop_free' = hop_free + 1
      /\ UNCHANGED <<hop_table, hop_waiters, hop_net, hop_unread>>
  BY DEF CircuitHops!RefuseConnect, CircuitHops!PermitBack
<1>2. PermitInv' /\ hop_free' \in Nat
  <2>1. o \in Sent /\ Sent' = Sent \ {o} /\ Dialing' = Dialing
    BY <1>1, SentLeaves DEF Dialing
  <2> QED BY <1>1, <2>1, PermitReturns
<1>3. /\ hop_op' \in [hop_Openers -> Opener]
      /\ \A p \in hop_Openers : p # o => hop_op'[p] = hop_op[p]
      /\ hop_op'[o] = hop_op[o] \/ (hop_op[o].pc = "sent" /\ hop_op'[o].pc = "done")
  <2>1. CASE hop_op[o].pc = "sent"
    BY <2>1, GoesIs DEF CircuitHops!RefuseConnect, CircuitHops!At, Pcs
  <2>2. CASE hop_op[o].pc # "sent"
    BY <2>2 DEF CircuitHops!RefuseConnect, CircuitHops!At, HopType
  <2> QED BY <2>1, <2>2
<1>4. CommandInv' /\ HopType'
  <2>1. hop_op'[o].pc = "answered" => hop_op'[o].conn \in CircuitHops!Conns
    BY <1>3 DEF CommandInv, Connected
  <2>2. CommandInv' /\ hop_cmds' \subseteq {CircuitHops!ConnectCmd(p) : p \in hop_Openers} \cup Closes
    BY <1>1, <1>3, <2>1, CommandTaken
  <2> QED BY <1>1, <1>2, <1>3, <2>2 DEF HopType, CircuitHops!ConnectCmd
<1>5. HopOwnerInv'
  BY <1>1, <1>3 DEF HopOwnerInv, CircuitHops!Holds
<1>6. SelectionInv'
  BY <1>1 DEF SelectionInv, SelectionOK, CircuitHops!Entries
<1>7. WaiterInv'
  BY <1>1, <1>3 DEF WaiterInv, HopType, CircuitHops!ConnectCmd
<1> QED BY <1>7, <1>2, <1>4, <1>5, <1>6

LEMMA ConnectLiveKeeps ==
    ASSUME CircuitHops!HopConstants, HopInv, NEW o \in hop_Openers, CircuitHops!ConnectLive(o)
    PROVE  HopInv'
<1> USE DEF HopInv
<1> DEFINE t == CircuitHops!PrepareReplacement(hop_table, hop_op[o].old)
           k == t.key
<1>0. hop_op[o] \in Opener /\ hop_op[o].old \in 0..hop_MaxConn /\ SelectionOK(hop_table)
         /\ hop_table \in Table
  BY DEF HopType, Opener, SelectionInv
<1>1. /\ CircuitHops!ConnectCmd(o) \in hop_cmds
      /\ hop_cmds' = hop_cmds \ {CircuitHops!ConnectCmd(o)} /\ hop_free' = hop_free + 1
      /\ hop_op[o].pc = "sent" /\ k # CircuitHops!NoConn
      /\ hop_table' = [t EXCEPT !.owners[k] = @ \cup {o}]
      /\ hop_op' = [hop_op EXCEPT ![o] = [hop_op[o] EXCEPT !.pc = "answered", !.conn = k]]
      /\ UNCHANGED <<hop_waiters, hop_net, hop_unread>>
  BY DEF CircuitHops!ConnectLive, CircuitHops!PermitBack, CircuitHops!At, HopType
<1>2. t = hop_table /\ k = hop_table.key /\ k \in CircuitHops!Entries(hop_table) /\ ~hop_table.pending
  BY <1>0, <1>1, ReplacementIs
<1> HIDE DEF t, k
<1>3. k \in CircuitHops!Conns /\ k \in 0..hop_MaxConn /\ hop_net[k] = "up"
  BY <1>2 DEF CircuitHops!Entries, CircuitHops!Conns, CircuitHops!HopConstants, HopOwnerInv
<1>4. /\ hop_table' \in Table /\ hop_table'.owners = [hop_table.owners EXCEPT ![k] = hop_table.owners[k] \cup {o}]
      /\ hop_table'.pending = hop_table.pending /\ hop_table'.key = k
  <2>1. hop_table' = [hop_table EXCEPT !.owners[k] = hop_table.owners[k] \cup {o}]
    BY <1>1, <1>2, <1>3 DEF HopType, Table
  <2>2. [hop_table.owners EXCEPT ![k] = hop_table.owners[k] \cup {o}] \in [CircuitHops!Conns -> SUBSET hop_Openers]
    BY <1>0, <1>3 DEF Table
  <2> QED BY <1>0, <1>2, <2>1, <2>2 DEF Table
<1> DEFINE r == [hop_op[o] EXCEPT !.pc = "answered", !.conn = k]
<1>5. r \in Opener /\ r.pc = "answered" /\ r.conn = k /\ hop_op' = [hop_op EXCEPT ![o] = r]
  BY <1>0, <1>1, <1>3 DEF Opener, Pcs
<1> HIDE DEF r
<1>6. /\ hop_op' \in [hop_Openers -> Opener] /\ hop_op'[o].pc = "answered" /\ hop_op'[o].conn = k
      /\ \A p \in hop_Openers : p # o => hop_op'[p] = hop_op[p]
  BY <1>5 DEF HopType
<1>7. PermitInv' /\ hop_free' \in Nat
  <2>1. o \in Sent /\ Sent' = Sent \ {o} /\ Dialing' = Dialing
    BY <1>1, SentLeaves DEF Dialing
  <2> QED BY <1>1, <2>1, PermitReturns
<1>8. CommandInv' /\ HopType'
  BY <1>1, <1>3, <1>4, <1>6, <1>7, CommandTaken DEF HopType, CircuitHops!ConnectCmd
<1>9. HopOwnerInv'
  <2>1. \A c \in CircuitHops!Conns : hop_table'.owners[c] = IF c = k THEN hop_table.owners[c] \cup {o} ELSE hop_table.owners[c]
    BY <1>0, <1>4 DEF Table
  <2>2. hop_net' = hop_net /\ hop_net[k] = "up" /\ o \in hop_table'.owners[k]
    <3>1. hop_net' = hop_net
      BY <1>1
    <3> QED BY <1>3, <2>1, <3>1
  <2>3. \A c \in CircuitHops!Conns : hop_table'.owners[c] # {} <=> hop_net'[c] = "up"
    <3>1. ASSUME NEW c \in CircuitHops!Conns, c # k
             PROVE hop_table'.owners[c] # {} <=> hop_net'[c] = "up"
      BY <2>1, <2>2, <3>1 DEF HopOwnerInv
    <3> QED BY <2>2, <3>1
  <2>4. \A p \in hop_Openers, c \in CircuitHops!Conns : CircuitHops!Holds(p, c)'
           => (CircuitHops!Holds(p, c) \/ (p = o /\ c = k))
    BY <1>6 DEF CircuitHops!Holds
  <2>5. \A c \in CircuitHops!Conns : hop_table.owners[c] \subseteq hop_table'.owners[c]
    BY <2>1
  <2> QED BY <2>2, <2>3, <2>4, <2>5 DEF HopOwnerInv
<1>10. SelectionInv'
  <2>1. SelectionOK(hop_table')
    BY <1>0, <1>2, <1>3, <1>4 DEF SelectionOK, CircuitHops!Entries, Table
  <2> QED BY <1>1, <1>4, <2>1 DEF SelectionInv, SelectionOK, CircuitHops!Entries
<1>11. WaiterInv'
  <2>1. o \notin hop_waiters
    BY <1>1 DEF WaiterInv
  <2> QED BY <1>1, <1>6, <2>1 DEF WaiterInv, HopType, CircuitHops!ConnectCmd
<1> QED BY <1>11, <1>7, <1>8, <1>9, <1>10

LEMMA ConnectPendingKeeps ==
    ASSUME CircuitHops!HopConstants, HopInv, NEW o \in hop_Openers, CircuitHops!ConnectPending(o)
    PROVE  HopInv'
<1> USE DEF HopInv
<1>0. hop_op[o].old \in 0..hop_MaxConn /\ SelectionOK(hop_table) /\ hop_table \in Table
  BY DEF HopType, Opener, SelectionInv
<1>1. /\ CircuitHops!ConnectCmd(o) \in hop_cmds
      /\ hop_cmds' = hop_cmds \ {CircuitHops!ConnectCmd(o)} /\ hop_free' = hop_free + 1
      /\ CircuitHops!PrepareReplacement(hop_table, hop_op[o].old).pending
      /\ hop_table' = CircuitHops!PrepareReplacement(hop_table, hop_op[o].old)
      /\ hop_waiters' = hop_waiters \cup {o}
      /\ UNCHANGED <<hop_op, hop_net, hop_unread>>
  BY DEF CircuitHops!ConnectPending, CircuitHops!PermitBack
<1>2. hop_table' = hop_table
  BY <1>0, <1>1, ReplacementIs
<1>3. PermitInv' /\ hop_free' \in Nat
  <2>1. o \in Sent /\ Sent' = Sent \ {o} /\ Dialing' = Dialing
    BY <1>1, SentLeaves DEF Dialing
  <2> QED BY <1>1, <2>1, PermitReturns
<1>4. hop_op' \in [hop_Openers -> Opener]
  BY <1>1 DEF HopType
<1>5. CommandInv' /\ hop_cmds' \subseteq {CircuitHops!ConnectCmd(p) : p \in hop_Openers} \cup Closes
  <2>1. hop_op'[o] = hop_op[o] /\ \A p \in hop_Openers : hop_op'[p] = hop_op[p]
    BY <1>1
  <2>2. hop_op'[o].pc = "answered" => hop_op'[o].conn \in CircuitHops!Conns
    BY <1>1 DEF CommandInv, Connected
  <2> QED BY <1>1, <1>4, <2>1, <2>2, CommandTaken
<1>6. HopType'
  BY <1>1, <1>2, <1>3, <1>4, <1>5 DEF HopType, CircuitHops!ConnectCmd
<1>7. HopOwnerInv' /\ SelectionInv'
  BY <1>1, <1>2 DEF HopOwnerInv, CircuitHops!Holds, SelectionInv, SelectionOK, CircuitHops!Entries
<1>8. WaiterInv'
  <2>1. hop_op[o].pc = "sent"
    BY DEF CircuitHops!ConnectPending, CircuitHops!At
  <2> QED BY <1>1, <2>1 DEF WaiterInv, CircuitHops!ConnectCmd
<1> QED BY <1>8, <1>3, <1>5, <1>6, <1>7

LEMMA ConnectVacantKeeps ==
    ASSUME CircuitHops!HopConstants, HopInv, NEW o \in hop_Openers, CircuitHops!ConnectVacant(o)
    PROVE  HopInv'
<1> USE DEF HopInv
<1> DEFINE t == CircuitHops!PrepareReplacement(hop_table, hop_op[o].old)
<1>0. hop_op[o].old \in 0..hop_MaxConn /\ SelectionOK(hop_table) /\ hop_table \in Table
  BY DEF HopType, Opener, SelectionInv
<1>1. /\ CircuitHops!ConnectCmd(o) \in hop_cmds
      /\ hop_cmds' = hop_cmds \ {CircuitHops!ConnectCmd(o)} /\ hop_op[o].pc = "sent"
      /\ t.key = CircuitHops!NoConn /\ ~t.pending /\ hop_unread' = hop_unread
  BY DEF CircuitHops!ConnectVacant, CircuitHops!At
<1>2. t \in Table /\ t.owners = hop_table.owners /\ t.pending = hop_table.pending
  BY <1>0, ReplacementIs
<1>3. o \in Sent /\ Sent' = Sent \ {o}
  BY <1>1, SentLeaves
<1>4. ASSUME NEW c \in CircuitHops!Conns, hop_net[c] = "none", hop_net' = [hop_net EXCEPT ![c] = "dialing"],
             hop_table' = [t EXCEPT !.pending = TRUE], hop_waiters' = {o}, UNCHANGED <<hop_op,
                  hop_free>>
      PROVE  HopInv'
  <2> HIDE DEF t
  <2>1. hop_net' \in [CircuitHops!Conns -> Links]
           /\ \A d \in CircuitHops!Conns : hop_net'[d] = IF d = c THEN "dialing" ELSE hop_net[d]
    BY <1>4 DEF HopType, Links
  <2>2. \A d \in CircuitHops!Conns : hop_net[d] # "dialing"
    BY <1>1, <1>2 DEF SelectionInv
  <2>3. PermitInv'
    <3>1. Dialing = {} /\ Dialing' # {}
      BY <2>1, <2>2 DEF Dialing
    <3> QED BY <1>3, <1>4, <3>1, PermitTravels
  <2>4. hop_table' \in Table /\ hop_table'.owners = hop_table.owners /\ hop_table'.pending = TRUE
           /\ hop_table'.key = CircuitHops!NoConn
    BY <1>1, <1>2, <1>4 DEF Table
  <2>5. hop_op' \in [hop_Openers -> Opener] /\ \A p \in hop_Openers : hop_op'[p] = hop_op[p]
    BY <1>4 DEF HopType
  <2>6. CommandInv' /\ hop_cmds' \subseteq {CircuitHops!ConnectCmd(p) : p \in hop_Openers} \cup Closes
    BY <1>1, <2>5, CommandTaken
  <2>7. HopType'
    <3>1. hop_free' \in Nat /\ hop_waiters' \subseteq hop_Openers /\ hop_unread' \subseteq hop_Openers
      BY <1>1, <1>4 DEF HopType
    <3> QED BY <2>1, <2>4, <2>5, <2>6, <3>1 DEF HopType, CircuitHops!ConnectCmd
  <2>8. HopOwnerInv'
    <3>1. \A d \in CircuitHops!Conns : (hop_net'[d] = "up" <=> hop_net[d] = "up")
             /\ (hop_net[d] = "gone" => hop_net'[d] = "gone")
      BY <1>4, <2>1
    <3>2. \A p \in hop_Openers, d \in CircuitHops!Conns : CircuitHops!Holds(p,
             d)' <=> CircuitHops!Holds(p, d)
      BY <2>5 DEF CircuitHops!Holds
    <3> QED BY <2>4, <3>1, <3>2 DEF HopOwnerInv
  <2>9. SelectionInv'
    BY <2>1, <2>2, <2>4 DEF SelectionInv, SelectionOK
  <2>10. WaiterInv'
    BY <1>1, <1>4, <2>5 DEF WaiterInv, CircuitHops!ConnectCmd
  <2> QED BY <2>3, <2>6, <2>7, <2>8, <2>9, <2>10
<1>5. ASSUME hop_table' \in CircuitHops!FailPending(t), CircuitHops!Goes(o, "done"), hop_free' = hop_free + 1, UNCHANGED <<hop_waiters, hop_net>>
      PROVE  HopInv'
  <2> HIDE DEF t
  <2>1. hop_table' \in Table /\ hop_table'.owners = hop_table.owners /\ ~hop_table'.pending
           /\ SelectionOK(hop_table')
    BY <1>1, <1>2, <1>5, FailPendingIs
  <2>2. PermitInv' /\ hop_free' \in Nat
    <3>1. Dialing' = Dialing
      BY <1>5 DEF Dialing
    <3> QED BY <1>3, <1>5, <3>1, PermitReturns
  <2>3. /\ hop_op' \in [hop_Openers -> Opener] /\ hop_op'[o].pc = "done"
        /\ \A p \in hop_Openers : p # o => hop_op'[p] = hop_op[p]
    BY <1>5, GoesIs DEF Pcs
  <2>4. CommandInv' /\ hop_cmds' \subseteq {CircuitHops!ConnectCmd(p) : p \in hop_Openers} \cup Closes
    BY <1>1, <2>3, CommandTaken
  <2>5. HopType'
    <3>1. hop_waiters' \subseteq hop_Openers /\ hop_unread' \subseteq hop_Openers
             /\ hop_net' \in [CircuitHops!Conns -> Links]
      BY <1>1, <1>5 DEF HopType
    <3> QED BY <2>1, <2>2, <2>3, <2>4, <3>1 DEF HopType, CircuitHops!ConnectCmd
  <2>6. HopOwnerInv'
    <3>1. \A p \in hop_Openers, c \in CircuitHops!Conns : CircuitHops!Holds(p, c)'
             => CircuitHops!Holds(p, c)
      BY <2>3 DEF CircuitHops!Holds
    <3> QED BY <1>5, <2>1, <3>1 DEF HopOwnerInv
  <2>7. SelectionInv'
    <3>1. \A d \in CircuitHops!Conns : hop_net'[d] # "dialing"
      BY <1>1, <1>2, <1>5 DEF SelectionInv
    <3> QED BY <2>1, <3>1 DEF SelectionInv, SelectionOK, CircuitHops!Entries
  <2>8. WaiterInv'
    BY <1>1, <1>5, <2>3 DEF WaiterInv, HopType, CircuitHops!ConnectCmd
  <2> QED BY <2>2, <2>4, <2>5, <2>6, <2>7, <2>8
<1> QED BY <1>4, <1>5 DEF CircuitHops!ConnectVacant, CircuitHops!PermitBack

\* The end of the one dial there is: its permit comes back, and nothing is pending
LEMMA DialEndIs ==
    ASSUME CircuitHops!HopConstants, HopInv, NEW c \in CircuitHops!Conns, CircuitHops!DialEnds(c),
           NEW s \in {"up", "closing", "gone"}, hop_net' = [hop_net EXCEPT ![c] = s],
           hop_op' \in [hop_Openers -> Opener],
           \A p \in hop_Openers : \/ hop_op'[p] = hop_op[p]
                             \/ /\ p \in hop_waiters /\ hop_op[p].pc = "sent"
                                /\ hop_op'[p].pc \in {"answered", "done"},
           \A p \in hop_Openers : hop_op'[p].pc = "answered" => hop_op'[p].conn \in CircuitHops!Conns,
           hop_table' \in Table
    PROVE  /\ HopType' /\ CommandInv' /\ WaiterInv' /\ PermitInv'
           /\ \A d \in CircuitHops!Conns : hop_net'[d] = (IF d = c THEN s ELSE hop_net[d])
               /\ hop_net'[d] # "dialing"
           /\ hop_table.key = CircuitHops!NoConn /\ hop_table.owners[c] = {}
<1> USE DEF HopInv
<1>1. /\ hop_net[c] = "dialing" /\ hop_waiters' = {} /\ hop_free' = hop_free + 1
      /\ hop_cmds' = hop_cmds /\ hop_unread' = hop_unread
  BY DEF CircuitHops!DialEnds
<1>2. \A d \in CircuitHops!Conns : hop_net'[d] = (IF d = c THEN s ELSE hop_net[d])
         /\ hop_net'[d] # "dialing"
  BY <1>1 DEF HopType, SelectionInv
<1>3. hop_net' \in [CircuitHops!Conns -> Links]
  BY DEF HopType, Links
<1>4. hop_table.key = CircuitHops!NoConn /\ hop_table.owners[c] = {}
  BY <1>1 DEF SelectionInv, SelectionOK, HopOwnerInv
<1>5. CommandInv'
  <2>1. \A p \in hop_Openers : CircuitHops!ConnectCmd(p) \in hop_cmds'
           => hop_op'[p].pc \in {"sent", "done"}
    BY <1>1 DEF CommandInv, WaiterInv
  <2>2. \A p \in hop_Openers : hop_op'[p].pc \in Connected => hop_op'[p].conn \in CircuitHops!Conns
    BY DEF CommandInv, Connected
  <2>3. ASSUME NEW k \in hop_cmds', k.kind \in {"close", "drop"} PROVE hop_op'[k.who].pc \in Letting
    <3>1. k.who \in hop_Openers /\ hop_op[k.who].pc \in Letting
      BY <1>1, <2>3, OwnCommands DEF CommandInv
    <3> QED BY <3>1 DEF Letting
  <2> QED BY <1>1, <2>1, <2>2, <2>3 DEF CommandInv, CircuitHops!ConnectCmd
<1>6. HopType'
  BY <1>1, <1>3 DEF HopType, CircuitHops!ConnectCmd
<1>7. PermitInv'
  <2>1. Dialing # {} /\ Dialing' = {} /\ Sent' = Sent
    BY <1>1, <1>2 DEF Dialing, Sent, CircuitHops!ConnectCmd
  <2>2. Cardinality(Sent) \in Nat
    BY FS_CardinalityType DEF PermitInv
  <2> QED BY <1>1, <2>1, <2>2 DEF PermitInv, HopType
<1>8. WaiterInv'
  BY <1>1 DEF WaiterInv
<1> QED BY <1>8, <1>2, <1>4, <1>5, <1>6, <1>7

LEMMA DialEstablishedKeeps ==
    ASSUME CircuitHops!HopConstants, HopInv, NEW c \in CircuitHops!Conns, CircuitHops!DialEstablished(c)
    PROVE  HopInv'
<1> USE DEF HopInv
<1> DEFINE s == IF CircuitHops!Waiting = {} THEN "closing" ELSE "up"
<1>1. /\ CircuitHops!DialEnds(c)
          /\ hop_table' \in CircuitHops!Established(hop_table, c, CircuitHops!Waiting)
          /\ hop_net' = [hop_net EXCEPT ![c] = s]
      /\ hop_op' = [o \in hop_Openers |-> IF o \in CircuitHops!Waiting
                   THEN [hop_op[o] EXCEPT !.pc = "answered", !.conn = c] ELSE hop_op[o]]
  BY DEF CircuitHops!DialEstablished
<1>2. CircuitHops!Waiting \subseteq hop_Openers /\ CircuitHops!Waiting \subseteq hop_waiters
         /\ \A o \in CircuitHops!Waiting : hop_op[o].pc = "sent"
  BY DEF CircuitHops!Waiting, HopType, CircuitHops!At
<1>3. c \in 0..hop_MaxConn
  BY DEF CircuitHops!Conns, CircuitHops!HopConstants
<1>4. /\ hop_op' \in [hop_Openers -> Opener]
      /\ \A p \in hop_Openers : p \in CircuitHops!Waiting => hop_op'[p].pc = "answered"
          /\ hop_op'[p].conn = c
      /\ \A p \in hop_Openers : p \notin CircuitHops!Waiting => hop_op'[p] = hop_op[p]
  <2>1. \A p \in hop_Openers : hop_op[p] \in Opener
    BY DEF HopType
  <2>2. \A p \in hop_Openers : LET r == [hop_op[p] EXCEPT !.pc = "answered", !.conn = c] IN
                           r \in Opener /\ r.pc = "answered" /\ r.conn = c
    BY <1>3, <2>1 DEF Opener, Pcs
  <2> QED BY <1>1, <2>1, <2>2
<1>5. hop_table.key = CircuitHops!NoConn /\ hop_table.owners[c] = {} /\ hop_net[c] = "dialing"
         /\ hop_table \in Table
  BY <1>1 DEF CircuitHops!DialEnds, SelectionInv, SelectionOK, HopOwnerInv, HopType
<1>6. /\ hop_table' \in Table /\ hop_table'.owners = [hop_table.owners EXCEPT ![c] = CircuitHops!Waiting]
      /\ ~hop_table'.pending /\ SelectionOK(hop_table')
  BY <1>1, <1>2, <1>5, EstablishedIs
<1>7. s \in {"up", "closing", "gone"} /\ (s = "up" <=> CircuitHops!Waiting # {})
  OBVIOUS
<1> HIDE DEF s
<1>8. /\ HopType' /\ CommandInv' /\ WaiterInv' /\ PermitInv'
      /\ \A d \in CircuitHops!Conns : hop_net'[d] = (IF d = c THEN s ELSE hop_net[d])
          /\ hop_net'[d] # "dialing"
  <2>1. \A p \in hop_Openers : \/ hop_op'[p] = hop_op[p]
                               \/ /\ p \in hop_waiters /\ hop_op[p].pc = "sent"
                                  /\ hop_op'[p].pc \in {"answered", "done"}
    BY <1>2, <1>4
  <2>2. \A p \in hop_Openers : hop_op'[p].pc = "answered" => hop_op'[p].conn \in CircuitHops!Conns
    BY <1>4 DEF CommandInv, Connected
  <2>3. hop_op' \in [hop_Openers -> Opener]
    BY <1>4
  <2>4. hop_table' \in Table /\ CircuitHops!DialEnds(c) /\ hop_net' = [hop_net EXCEPT ![c] = s]
    BY <1>1, <1>6
  <2> QED BY <1>7, <2>1, <2>2, <2>3, <2>4, DialEndIs
<1>9. HopOwnerInv'
  <2>1. \A d \in CircuitHops!Conns : hop_table'.owners[d] = IF d = c THEN CircuitHops!Waiting ELSE hop_table.owners[d]
    BY <1>5, <1>6 DEF Table
  <2>2. \A p \in hop_Openers : ~CircuitHops!Holds(p, c)
    BY <1>5 DEF HopOwnerInv
  <2>3. \A p \in hop_Openers, d \in CircuitHops!Conns : CircuitHops!Holds(p, d)'
           => ((CircuitHops!Holds(p, d) /\ d # c) \/ (p \in CircuitHops!Waiting /\ d = c))
    BY <1>4, <2>2 DEF CircuitHops!Holds
  <2>4. \A d \in CircuitHops!Conns : hop_table'.owners[d] # {} <=> hop_net'[d] = "up"
    BY <1>7, <1>8, <2>1 DEF HopOwnerInv
  <2>5. \A p \in hop_Openers, d \in CircuitHops!Conns : (CircuitHops!Holds(p, d)'
           /\ hop_net'[d] = "up") => p \in hop_table'.owners[d]
    BY <1>8, <2>1, <2>3 DEF HopOwnerInv
  <2>6. \A p \in hop_Openers, d \in CircuitHops!Conns : CircuitHops!Holds(p, d)'
           => hop_net'[d] \in {"up", "gone"}
    BY <1>7, <1>8, <2>3 DEF HopOwnerInv
  <2> QED BY <2>4, <2>5, <2>6 DEF HopOwnerInv
<1>10. SelectionInv'
  BY <1>6, <1>8 DEF SelectionInv, SelectionOK, CircuitHops!Entries
<1> QED BY <1>8, <1>9, <1>10

LEMMA DialFailsKeeps ==
    ASSUME CircuitHops!HopConstants, HopInv, NEW c \in CircuitHops!Conns, CircuitHops!DialFails(c)
    PROVE  HopInv'
<1> USE DEF HopInv
<1>1. PICK s \in {"gone", "closing"} : hop_net' = [hop_net EXCEPT ![c] = s]
  BY DEF CircuitHops!DialFails
<1>2. /\ CircuitHops!DialEnds(c) /\ hop_table' \in CircuitHops!FailPending(hop_table)
      /\ hop_op' = [o \in hop_Openers |-> IF o \in CircuitHops!Waiting THEN [hop_op[o] EXCEPT !.pc = "done"] ELSE hop_op[o]]
  BY DEF CircuitHops!DialFails
<1>3. CircuitHops!Waiting \subseteq hop_waiters /\ \A o \in CircuitHops!Waiting : hop_op[o].pc = "sent"
  BY DEF CircuitHops!Waiting, CircuitHops!At
<1>4. /\ hop_op' \in [hop_Openers -> Opener]
      /\ \A p \in hop_Openers : p \in CircuitHops!Waiting => hop_op'[p].pc = "done"
      /\ \A p \in hop_Openers : p \notin CircuitHops!Waiting => hop_op'[p] = hop_op[p]
  <2>1. \A p \in hop_Openers : hop_op[p] \in Opener
    BY DEF HopType
  <2>2. \A p \in hop_Openers : LET r == [hop_op[p] EXCEPT !.pc = "done"] IN r \in Opener
           /\ r.pc = "done"
    BY <2>1 DEF Opener, Pcs
  <2> QED BY <1>2, <2>1, <2>2
<1>5. hop_table.key = CircuitHops!NoConn /\ hop_net[c] = "dialing" /\ hop_table \in Table
  BY <1>2 DEF CircuitHops!DialEnds, SelectionInv, SelectionOK, HopType
<1>6. hop_table' \in Table /\ hop_table'.owners = hop_table.owners /\ ~hop_table'.pending
         /\ SelectionOK(hop_table')
  BY <1>2, <1>5, FailPendingIs
<1>7. /\ HopType' /\ CommandInv' /\ WaiterInv' /\ PermitInv'
      /\ \A d \in CircuitHops!Conns : hop_net'[d] = (IF d = c THEN s ELSE hop_net[d])
          /\ hop_net'[d] # "dialing"
  <2>1. \A p \in hop_Openers : \/ hop_op'[p] = hop_op[p]
                               \/ /\ p \in hop_waiters /\ hop_op[p].pc = "sent"
                                  /\ hop_op'[p].pc \in {"answered", "done"}
    BY <1>3, <1>4
  <2>2. \A p \in hop_Openers : hop_op'[p].pc = "answered" => hop_op'[p].conn \in CircuitHops!Conns
    BY <1>4 DEF CommandInv, Connected
  <2>3. hop_op' \in [hop_Openers -> Opener] /\ s \in {"up", "closing", "gone"}
    BY <1>4
  <2>4. hop_table' \in Table /\ CircuitHops!DialEnds(c) /\ hop_net' = [hop_net EXCEPT ![c] = s]
    BY <1>1, <1>2, <1>6
  <2> QED BY <2>1, <2>2, <2>3, <2>4, DialEndIs
<1>8. HopOwnerInv'
  <2>1. \A p \in hop_Openers, d \in CircuitHops!Conns : CircuitHops!Holds(p, d)'
           => CircuitHops!Holds(p, d)
    BY <1>4 DEF CircuitHops!Holds
  <2>2. \A p \in hop_Openers : ~CircuitHops!Holds(p, c)
    BY <1>5 DEF HopOwnerInv
  <2>3. \A d \in CircuitHops!Conns : (hop_net'[d] = "up" <=> hop_net[d] = "up") /\ (d # c
           => hop_net'[d] = hop_net[d])
    BY <1>5, <1>7
  <2> QED BY <1>6, <2>1, <2>2, <2>3 DEF HopOwnerInv
<1>9. SelectionInv'
  BY <1>6, <1>7 DEF SelectionInv, SelectionOK, CircuitHops!Entries
<1> QED BY <1>7, <1>8, <1>9

\* The last release closes what nobody else owns: who releases holds it no more
LEMMA HandleCloseKeeps ==
    ASSUME CircuitHops!HopConstants, HopInv, NEW k \in hop_cmds, CircuitHops!HandleClose(k)
    PROVE  HopInv'
<1> USE DEF HopInv
<1> DEFINE o == k.who
           c == k.conn
<1>1. /\ k.kind \in {"close", "drop"} /\ hop_cmds' = hop_cmds \ {k}
      /\ hop_table' \in CircuitHops!Release(hop_table, c, o)
      /\ UNCHANGED <<hop_waiters, hop_free, hop_unread>>
  BY DEF CircuitHops!HandleClose
<1>2. o \in hop_Openers /\ c \in CircuitHops!Conns /\ hop_op[o].pc \in Letting
  BY <1>1, OwnCommands DEF CommandInv
<1>3. hop_net' = IF hop_net[c] = "up"
         /\ CircuitHops!ReleaseCloses(hop_table, c,
         o) THEN [hop_net EXCEPT ![c] = "closing"] ELSE hop_net
  BY DEF CircuitHops!HandleClose
<1>4. /\ hop_op' \in [hop_Openers -> Opener]
      /\ \A p \in hop_Openers : p # o => hop_op'[p] = hop_op[p]
      /\ hop_op'[o] = hop_op[o] \/ hop_op'[o].pc = "done"
  <2>1. CASE hop_op' = hop_op
    BY <2>1 DEF HopType
  <2>2. CASE CircuitHops!Goes(o, "done")
    <3> HIDE DEF o
    <3> QED BY <1>2, <2>2, GoesIs DEF Pcs
  <2> QED BY <2>1, <2>2 DEF CircuitHops!HandleClose
<1>5. hop_table \in Table /\ SelectionOK(hop_table)
  BY DEF HopType, SelectionInv
<1> HIDE DEF o, c
<1>6. /\ hop_table' \in Table /\ hop_table'.owners = [hop_table.owners EXCEPT ![c] = hop_table.owners[c] \ {o}]
      /\ hop_table'.pending = hop_table.pending /\ SelectionOK(hop_table')
  BY <1>1, <1>2, <1>5, ReleaseIs
<1>7. /\ hop_net' \in [CircuitHops!Conns -> Links] /\ \A d \in CircuitHops!Conns : d # c
          => hop_net'[d] = hop_net[d]
      /\ hop_net'[c] = IF hop_net[c] = "up"
          /\ hop_table.owners[c] \subseteq {o} THEN "closing" ELSE hop_net[c]
  BY <1>2, <1>3 DEF HopType, Links, CircuitHops!ReleaseCloses
<1>8. PermitInv'
  <2>1. Sent' = Sent
    BY <1>1, SentStays
  <2>2. Dialing' = Dialing
    BY <1>7 DEF Dialing
  <2> QED BY <1>1, <2>1, <2>2 DEF PermitInv
<1>9. HopType'
  BY <1>1, <1>4, <1>6, <1>7 DEF HopType, CircuitHops!ConnectCmd
<1>10. CommandInv'
  <2>1. \A p \in hop_Openers : CircuitHops!ConnectCmd(p) \in hop_cmds'
           => hop_op'[p].pc \in {"sent", "done"}
    BY <1>1, <1>4 DEF CommandInv
  <2>2. \A p \in hop_Openers : hop_op'[p].pc \in Connected => hop_op'[p].conn \in CircuitHops!Conns
    BY <1>4 DEF CommandInv, Connected
  <2>3. ASSUME NEW x \in hop_cmds', x.kind \in {"close", "drop"} PROVE hop_op'[x.who].pc \in Letting
    <3>1. x.who \in hop_Openers /\ hop_op[x.who].pc \in Letting
      BY <1>1, <2>3, OwnCommands DEF CommandInv
    <3> QED BY <1>4, <3>1 DEF Letting
  <2> QED BY <2>1, <2>2, <2>3 DEF CommandInv, CircuitHops!ConnectCmd
<1>11. WaiterInv'
  BY <1>1, <1>4 DEF WaiterInv, HopType, CircuitHops!ConnectCmd
<1>12. HopOwnerInv'
  <2>1. \A d \in CircuitHops!Conns : hop_table'.owners[d] = IF d = c THEN hop_table.owners[d] \ {o} ELSE hop_table.owners[d]
    BY <1>2, <1>5, <1>6 DEF Table
  <2>2. \A p \in hop_Openers, d \in CircuitHops!Conns : CircuitHops!Holds(p, d)'
           => (CircuitHops!Holds(p, d) /\ p # o)
    BY <1>2, <1>4 DEF CircuitHops!Holds, Letting
  <2>3. \A d \in CircuitHops!Conns : hop_table'.owners[d] # {} <=> hop_net'[d] = "up"
    <3>1. hop_table'.owners[c] # {} <=> hop_net'[c] = "up"
      BY <1>2, <1>7, <2>1 DEF HopOwnerInv
    <3>2. \A d \in CircuitHops!Conns : d # c => (hop_table'.owners[d] # {} <=> hop_net'[d] = "up")
      BY <1>7, <2>1 DEF HopOwnerInv
    <3> QED BY <3>1, <3>2
  <2>4. \A p \in hop_Openers, d \in CircuitHops!Conns : (CircuitHops!Holds(p, d)'
           /\ hop_net'[d] = "up") => p \in hop_table'.owners[d]
    BY <1>7, <2>1, <2>2 DEF HopOwnerInv
  <2>5. \A p \in hop_Openers, d \in CircuitHops!Conns : CircuitHops!Holds(p, d)'
           => hop_net'[d] \in {"up", "gone"}
    BY <1>7, <2>2 DEF HopOwnerInv
  <2> QED BY <2>3, <2>4, <2>5 DEF HopOwnerInv
<1>13. SelectionInv'
  BY <1>6, <1>7 DEF SelectionInv, SelectionOK, CircuitHops!Entries
<1> QED BY <1>8, <1>9, <1>10, <1>11, <1>12, <1>13

LEMMA ConnectionClosedKeeps ==
    ASSUME CircuitHops!HopConstants, HopInv, NEW c \in CircuitHops!Conns,
         CircuitHops!ConnectionClosed(c)
    PROVE  HopInv'
<1> USE DEF HopInv
<1>1. /\ hop_net[c] \in {"up", "closing"} /\ hop_net' = [hop_net EXCEPT ![c] = "gone"]
      /\ hop_table' \in CircuitHops!Invalidate(hop_table, c)
      /\ UNCHANGED <<hop_op, hop_cmds, hop_waiters, hop_free, hop_unread>>
  BY DEF CircuitHops!ConnectionClosed
<1>2. hop_table \in Table /\ SelectionOK(hop_table)
  BY DEF HopType, SelectionInv
<1>3. /\ hop_table' \in Table /\ hop_table'.owners = [hop_table.owners EXCEPT ![c] = {}]
      /\ hop_table'.pending = hop_table.pending /\ SelectionOK(hop_table')
  BY <1>1, <1>2, InvalidateIs
<1>4. /\ hop_net' \in [CircuitHops!Conns -> Links] /\ hop_net'[c] = "gone"
          /\ \A d \in CircuitHops!Conns : d # c => hop_net'[d] = hop_net[d]
  BY <1>1 DEF HopType, Links
<1>5. HopType' /\ CommandInv' /\ WaiterInv'
  BY <1>1, <1>3, <1>4 DEF HopType, CommandInv, WaiterInv, CircuitHops!ConnectCmd
<1>6. PermitInv'
  <2>1. Dialing' = Dialing /\ Sent' = Sent
    BY <1>1, <1>4 DEF Dialing, Sent, CircuitHops!ConnectCmd
  <2> QED BY <1>1, <2>1 DEF PermitInv
<1>7. HopOwnerInv'
  <2>1. \A d \in CircuitHops!Conns : hop_table'.owners[d] = IF d = c THEN {} ELSE hop_table.owners[d]
    BY <1>2, <1>3 DEF Table
  <2>2. \A p \in hop_Openers, d \in CircuitHops!Conns : CircuitHops!Holds(p,
           d)' <=> CircuitHops!Holds(p, d)
    BY <1>1 DEF CircuitHops!Holds
  <2> QED BY <1>4, <2>1, <2>2 DEF HopOwnerInv
<1>8. SelectionInv'
  BY <1>3, <1>4 DEF SelectionInv, SelectionOK, CircuitHops!Entries
<1> QED BY <1>5, <1>6, <1>7, <1>8

-----------------------------------------------------------------------------
(* The theorems *)

LEMMA HopInit ==
    ASSUME CircuitHops!HopConstants, CircuitHops!Init
    PROVE  HopInv
<1>1. HopType
  BY DEF CircuitHops!Init, HopType, Opener, Pcs, Table, Links, CircuitHops!HopConstants,
         CircuitHops!NoConn
<1>2. CommandInv /\ WaiterInv /\ HopOwnerInv /\ SelectionInv
  BY DEF CircuitHops!Init, CommandInv, WaiterInv, HopOwnerInv, SelectionInv, SelectionOK,
         CircuitHops!Entries, CircuitHops!Holds, Connected, CircuitHops!NoConn
<1>3. Sent = {} /\ Dialing = {}
  BY DEF CircuitHops!Init, Sent, Dialing
<1>4. PermitInv
  BY <1>3, FS_EmptySet DEF PermitInv, CircuitHops!Init, CircuitHops!HopConstants
<1> QED BY <1>1, <1>2, <1>4 DEF HopInv

LEMMA HopStep ==
    ASSUME CircuitHops!HopConstants, HopInv, [CircuitHops!Next]_(CircuitHops!vars)
    PROVE  HopInv'
<1>1. CASE UNCHANGED CircuitHops!vars
  BY <1>1
     DEF CircuitHops!vars, HopInv, HopType, CommandInv, WaiterInv, HopOwnerInv, SelectionInv,
         SelectionOK, CircuitHops!Entries,
       PermitInv, Sent, Dialing, CircuitHops!Holds, CircuitHops!ConnectCmd
<1>2. CASE CircuitHops!SwarmStep
  BY <1>2, RefuseConnectKeeps, ConnectLiveKeeps, ConnectPendingKeeps, ConnectVacantKeeps,
     DialEstablishedKeeps, DialFailsKeeps, HandleCloseKeeps DEF CircuitHops!SwarmStep
<1>3. CASE \E o \in hop_Openers : CircuitHops!Open(o) \/ CircuitHops!OpenerStep(o)
         \/ CircuitHops!Close(o) \/ CircuitHops!Drop(o)
  BY <1>3, OpenKeeps, AcquirePermitKeeps, ReceiveKeeps, OpenRelayedKeeps, CloseKeeps, HopDropKeeps
     DEF CircuitHops!OpenerStep
<1>4. CASE \E c \in CircuitHops!Conns : CircuitHops!ConnectionClosed(c)
  BY <1>4, ConnectionClosedKeeps
<1> QED BY <1>1, <1>2, <1>3, <1>4 DEF CircuitHops!Next

LEMMA HopInvariant ==
    ASSUME CircuitHops!HopConstants
    PROVE  CircuitHops!Spec => []HopInv
<1>1. CircuitHops!Init => HopInv
  BY HopInit
<1>2. HopInv /\ [CircuitHops!Next]_(CircuitHops!vars) => HopInv'
  BY HopStep
<1> QED BY <1>1, <1>2, PTL DEF CircuitHops!Spec

\* MAX_CONCURRENT_RELAY_CIRCUIT_DIALS: the fields keep their types, and however
\* openers are dropped the gate never has more permits than it began with.
THEOREM HopTypeCorrect ==
    ASSUME CircuitHops!HopConstants
    PROVE  CircuitHops!Spec => []CircuitHops!TypeOK
<1>1. HopInv => CircuitHops!TypeOK
  <2> SUFFICES ASSUME HopInv PROVE CircuitHops!TypeOK
    OBVIOUS
  <2>1. Cardinality(Sent) \in Nat
    BY FS_CardinalityType DEF HopInv, PermitInv
  <2>2. hop_free \in 0..hop_Permits
    BY <2>1 DEF HopInv, PermitInv, HopType, CircuitHops!HopConstants
  <2>3. 0..hop_MaxConn = {CircuitHops!NoConn} \cup CircuitHops!Conns
    BY DEF CircuitHops!NoConn, CircuitHops!Conns, CircuitHops!HopConstants
  <2> QED BY <2>2, <2>3 DEF CircuitHops!TypeOK, HopInv, HopType, Opener, Pcs, Table, Links
<1> QED BY <1>1, HopInvariant, PTL

\* CircuitHopTable::release: the node never closes a circuit that an opener or a
\* stream still holds, whatever closes are repeated, dropped or late.
THEOREM HeldCircuitsStay ==
    ASSUME CircuitHops!HopConstants
    PROVE  CircuitHops!Spec => []CircuitHops!HeldCircuitStaysUp
<1>1. HopInv => CircuitHops!HeldCircuitStaysUp
  BY DEF HopInv, HopOwnerInv, CircuitHops!HeldCircuitStaysUp
<1> QED BY <1>1, HopInvariant, PTL

\* restore_previous: unless a dial is pending, the newest opener finds a circuit
\* exactly when one is up; a selected circuit is up and nobody dials.
THEOREM SelectionIsRestored ==
    ASSUME CircuitHops!HopConstants
    PROVE  CircuitHops!Spec => []CircuitHops!SelectionFollowsCircuits
<1>1. HopInv => CircuitHops!SelectionFollowsCircuits
  BY DEF HopInv, HopOwnerInv, SelectionInv, SelectionOK, CircuitHops!Entries,
         CircuitHops!SelectionFollowsCircuits, HopType, Table
<1> QED BY <1>1, HopInvariant, PTL

-----------------------------------------------------------------------------
(* The source admissions of source_admission.rs for any number of callers, *)
(* keys, entries and leases.                                               *)

LeaseType == [id : 0..adm_MaxLease, until : Int]
AdmissionCall == [pc : {"idle", "gate", "ask", "connect", "invalidate"}, key : adm_Keys,
         entry : 0..adm_MaxEntry, lease : 0..adm_MaxLease]

\* Every variable is a function or a count
CacheType ==
    /\ adm_now \in 0..adm_MaxTime /\ adm_made \in 0..adm_MaxEntry /\ adm_issued \in 0..adm_MaxLease
    /\ adm_map \in [adm_Keys -> 0..adm_MaxEntry]
    /\ adm_gate \in [AdmissionCache!Entries -> adm_Callers \cup {AdmissionCache!Free}]
    /\ adm_cached \in [AdmissionCache!Entries -> LeaseType]
    /\ adm_call \in [adm_Callers -> AdmissionCall]

\* An entry is made once, for one key; whoever waits for its gate, holds it or waits to
\* invalidate its lease keeps it in the map, since retain counts the references.
MapInv ==
    /\ \A k \in adm_Keys : adm_map[k] <= adm_made
    /\ \A k, l \in adm_Keys : adm_map[k] = adm_map[l] /\ adm_map[k] # AdmissionCache!None => k = l
    /\ \A c \in adm_Callers : adm_call[c].pc \in {"gate", "ask", "invalidate"} =>
         adm_call[c].entry # AdmissionCache!None /\ adm_map[adm_call[c].key] = adm_call[c].entry
    /\ \A c \in adm_Callers : adm_call[c].pc \in {"idle", "connect"}
        => adm_call[c].entry = AdmissionCache!None

\* Whoever asks the relay holds the gate of its entry
GateInv ==
    \A c \in adm_Callers : adm_call[c].pc = "ask" => adm_gate[adm_call[c].entry] = c

-----------------------------------------------------------------------------
(* Types *)

LEMMA IdleType == AdmissionCache!CacheConstants => AdmissionCache!Idle \in AdmissionCall
BY DEF AdmissionCache!CacheConstants, AdmissionCache!Idle, AdmissionCall, AdmissionCache!None

LEMMA NoLeaseType == AdmissionCache!CacheConstants => AdmissionCache!NoLease \in LeaseType
BY DEF AdmissionCache!CacheConstants, AdmissionCache!NoLease, LeaseType

LEMMA RetainedType ==
    ASSUME CacheType, AdmissionCache!CacheConstants
    PROVE  /\ AdmissionCache!Retained \in [adm_Keys -> 0..adm_MaxEntry]
           /\ \A k \in adm_Keys : AdmissionCache!Retained[k] = adm_map[k]
               \/ AdmissionCache!Retained[k] = AdmissionCache!None
           /\ \A k \in adm_Keys : adm_map[k] # AdmissionCache!None
               /\ AdmissionCache!InUse(adm_map[k]) => AdmissionCache!Retained[k] = adm_map[k]
BY DEF CacheType, AdmissionCache!CacheConstants, AdmissionCache!Retained, AdmissionCache!Retains,
       AdmissionCache!None

LEMMA InitCacheType == AdmissionCache!CacheConstants /\ AdmissionCache!Init => CacheType
BY IdleType, NoLeaseType
   DEF AdmissionCache!CacheConstants, AdmissionCache!Init, CacheType, AdmissionCache!Entries,
       AdmissionCache!None

LEMMA NextCacheType == AdmissionCache!CacheConstants /\ CacheType /\ MapInv
     /\ [AdmissionCache!Next]_(AdmissionCache!vars) => CacheType'
<1> SUFFICES ASSUME AdmissionCache!CacheConstants, CacheType, MapInv,
     [AdmissionCache!Next]_(AdmissionCache!vars) PROVE CacheType'
  OBVIOUS
<1>1. ASSUME NEW c \in adm_Callers, NEW k \in adm_Keys, AdmissionCache!Authorize(c, k) PROVE CacheType'
  <2>1. CASE AdmissionCache!Retained[k] # AdmissionCache!None
    <3>1. [pc |-> "gate", key |-> k, entry |-> AdmissionCache!Retained[k],
             lease |-> 0] \in AdmissionCall
      BY RetainedType DEF AdmissionCall, AdmissionCache!CacheConstants
    <3> QED BY <1>1, <2>1, <3>1, RetainedType DEF AdmissionCache!Authorize, CacheType
  <2>2. CASE AdmissionCache!Retained[k] = AdmissionCache!None
    <3>1. adm_made + 1 \in 0..adm_MaxEntry
      BY <1>1, <2>2 DEF AdmissionCache!Authorize, CacheType, AdmissionCache!CacheConstants
    <3>2. [pc |-> "gate", key |-> k, entry |-> adm_made + 1, lease |-> 0] \in AdmissionCall
      BY <3>1 DEF AdmissionCall, AdmissionCache!CacheConstants
    <3> QED BY <1>1, <2>2, <3>1, <3>2, RetainedType DEF AdmissionCache!Authorize, CacheType
  <2> QED BY <2>1, <2>2
<1>2. ASSUME NEW c \in adm_Callers, AdmissionCache!EnterGate(c) PROVE CacheType'
  <2>1. adm_call[c].entry \in AdmissionCache!Entries
    BY <1>2
       DEF AdmissionCache!EnterGate, MapInv, CacheType, AdmissionCall, AdmissionCache!Entries,
           AdmissionCache!None
  <2>2. adm_cached[adm_call[c].entry].id \in 0..adm_MaxLease /\ AdmissionCache!None \in 0..adm_MaxEntry
    BY <2>1 DEF CacheType, LeaseType, AdmissionCache!None, AdmissionCache!CacheConstants
  <2> QED BY <1>2, <2>1, <2>2, NoLeaseType DEF AdmissionCache!EnterGate, CacheType, AdmissionCall
<1>3. ASSUME NEW c \in adm_Callers, NEW ttl \in 0..adm_Ttl, AdmissionCache!Admitted(c, ttl)
         PROVE CacheType'
  <2>1. adm_issued' \in 0..adm_MaxLease /\ AdmissionCache!None \in 0..adm_MaxEntry
    BY <1>3 DEF AdmissionCache!Admitted, CacheType, AdmissionCache!CacheConstants, AdmissionCache!None
  <2>2. [id |-> adm_issued', until |-> adm_now + ttl] \in LeaseType
    BY <2>1 DEF LeaseType, CacheType, AdmissionCache!CacheConstants
  <2>3. adm_cached' \in [AdmissionCache!Entries -> LeaseType]
    <3>1. CASE ttl > 0
      BY <1>3, <2>2, <3>1 DEF AdmissionCache!Admitted, CacheType
    <3>2. CASE ~(ttl > 0)
      BY <1>3, <3>2 DEF AdmissionCache!Admitted, CacheType
    <3> QED BY <3>1, <3>2
  <2>4. adm_call' \in [adm_Callers -> AdmissionCall]
    BY <1>3, <2>1 DEF AdmissionCache!Admitted, CacheType, AdmissionCall
  <2>5. adm_gate' \in [AdmissionCache!Entries -> adm_Callers \cup {AdmissionCache!Free}]
           /\ UNCHANGED <<adm_now, adm_map, adm_made>>
    BY <1>3 DEF AdmissionCache!Admitted, CacheType
  <2> QED BY <2>1, <2>3, <2>4, <2>5 DEF CacheType
<1>4. ASSUME NEW c \in adm_Callers, AdmissionCache!Leaves(c) \/ AdmissionCache!Connects(c)
         \/ AdmissionCache!Abandons(c) PROVE CacheType'
  BY <1>4, IdleType
     DEF AdmissionCache!Leaves, AdmissionCache!Connects, AdmissionCache!Abandons, CacheType
<1>5. ASSUME NEW c \in adm_Callers, AdmissionCache!Fails(c) PROVE CacheType'
  <2>1. adm_map[adm_call[c].key] \in 0..adm_MaxEntry
    BY DEF CacheType, AdmissionCall
  <2>2. CASE adm_map[adm_call[c].key] = AdmissionCache!None
    BY <1>5, <2>2, IdleType DEF AdmissionCache!Fails, CacheType
  <2>3. CASE adm_map[adm_call[c].key] # AdmissionCache!None
    BY <1>5, <2>1, <2>3 DEF AdmissionCache!Fails, CacheType, AdmissionCall
  <2> QED BY <2>2, <2>3
<1>6. ASSUME NEW c \in adm_Callers, AdmissionCache!Invalidate(c) PROVE CacheType'
  BY <1>6, IdleType, NoLeaseType DEF AdmissionCache!Invalidate, CacheType
<1>7. CASE AdmissionCache!Tick
  BY <1>7 DEF AdmissionCache!Tick, CacheType, AdmissionCache!CacheConstants
<1>8. CASE UNCHANGED AdmissionCache!vars
  BY <1>8 DEF AdmissionCache!vars, CacheType
<1> QED BY <1>1, <1>2, <1>3, <1>4, <1>5, <1>6, <1>7, <1>8 DEF AdmissionCache!Next

-----------------------------------------------------------------------------
(* Entries and their gates *)

LEMMA InitMap == AdmissionCache!CacheConstants /\ AdmissionCache!Init => MapInv /\ GateInv
BY DEF AdmissionCache!CacheConstants, AdmissionCache!Init, MapInv, GateInv, AdmissionCache!Idle,
       AdmissionCache!None

LEMMA NextMap == AdmissionCache!CacheConstants /\ CacheType /\ MapInv
     /\ [AdmissionCache!Next]_(AdmissionCache!vars) => MapInv'
<1> SUFFICES ASSUME AdmissionCache!CacheConstants, CacheType, MapInv,
     [AdmissionCache!Next]_(AdmissionCache!vars) PROVE MapInv'
  OBVIOUS
<1>0. AdmissionCache!Idle.pc = "idle" /\ AdmissionCache!Idle.entry = AdmissionCache!None
  BY DEF AdmissionCache!Idle
<1>1. ASSUME NEW c \in adm_Callers, NEW k \in adm_Keys, AdmissionCache!Authorize(c, k) PROVE MapInv'
  <2>0. \A d \in adm_Callers : adm_call[d].pc \in {"gate", "ask", "invalidate"} =>
          /\ AdmissionCache!Retained[adm_call[d].key] = adm_call[d].entry
          /\ adm_map[adm_call[d].key] = adm_call[d].entry
          /\ adm_call[d].key \in adm_Keys
    BY RetainedType DEF MapInv, AdmissionCache!InUse, CacheType, AdmissionCall
  <2>1. CASE AdmissionCache!Retained[k] # AdmissionCache!None
    BY <1>1, <2>0, <2>1, RetainedType
       DEF AdmissionCache!Authorize, MapInv, CacheType, AdmissionCall, AdmissionCache!None
  <2>2. CASE AdmissionCache!Retained[k] = AdmissionCache!None
    <3>1. /\ adm_made < adm_MaxEntry /\ adm_made' = adm_made + 1
          /\ adm_map' = [AdmissionCache!Retained EXCEPT ![k] = adm_made + 1]
          /\ adm_call' = [adm_call EXCEPT ![c] = [pc |-> "gate", key |-> k, entry |-> adm_made + 1,
                                          lease |-> 0]]
      BY <1>1, <2>2 DEF AdmissionCache!Authorize
    <3>2. \A l \in adm_Keys : AdmissionCache!Retained[l] <= adm_made
             /\ AdmissionCache!Retained[l] \in Nat
      BY RetainedType DEF MapInv, CacheType, AdmissionCache!CacheConstants, AdmissionCache!None
    <3>3. \A l \in adm_Keys : adm_map'[l] = IF l = k THEN adm_made + 1 ELSE AdmissionCache!Retained[l]
      BY <3>1, RetainedType
    <3>4. \A l \in adm_Keys : adm_map'[l] <= adm_made'
      BY <3>1, <3>2, <3>3 DEF CacheType, AdmissionCache!CacheConstants
    <3>5. \A l, m \in adm_Keys : adm_map'[l] = adm_map'[m] /\ adm_map'[l] # AdmissionCache!None => l = m
      BY <3>2, <3>3, RetainedType DEF MapInv, CacheType, AdmissionCache!CacheConstants
    <3>6. \A d \in adm_Callers : adm_call[d].pc \in {"gate", "ask", "invalidate"} => adm_call[d].key # k
      BY <2>0, <2>2 DEF MapInv
    <3>7. \A d \in adm_Callers : adm_call'[d].pc \in {"gate", "ask", "invalidate"} =>
            adm_call'[d].entry # AdmissionCache!None /\ adm_map'[adm_call'[d].key] = adm_call'[d].entry
      BY <2>0, <3>1, <3>3, <3>6
         DEF MapInv, CacheType, AdmissionCache!CacheConstants, AdmissionCache!None
    <3>8. \A d \in adm_Callers : adm_call'[d].pc \in {"idle", "connect"}
             => adm_call'[d].entry = AdmissionCache!None
      BY <3>1 DEF MapInv, CacheType
    <3> QED BY <3>4, <3>5, <3>7, <3>8 DEF MapInv
  <2> QED BY <2>1, <2>2
<1>2. ASSUME NEW c \in adm_Callers, AdmissionCache!EnterGate(c) PROVE MapInv'
  <2>1. CASE adm_call' = [adm_call EXCEPT ![c].pc = "connect", ![c].entry = AdmissionCache!None,
                                  ![c].lease = adm_cached[adm_call[c].entry].id]
    BY <1>2, <2>1 DEF AdmissionCache!EnterGate, MapInv, CacheType, AdmissionCall
  <2>2. CASE adm_call' = [adm_call EXCEPT ![c].pc = "ask"]
    BY <1>2, <2>2 DEF AdmissionCache!EnterGate, MapInv, CacheType, AdmissionCall
  <2> QED BY <1>2, <2>1, <2>2 DEF AdmissionCache!EnterGate
<1>3. ASSUME NEW c \in adm_Callers, NEW ttl \in 0..adm_Ttl, AdmissionCache!Admitted(c, ttl)
         PROVE MapInv'
  BY <1>3 DEF AdmissionCache!Admitted, MapInv, CacheType, AdmissionCall
<1>4. ASSUME NEW c \in adm_Callers, AdmissionCache!Leaves(c) \/ AdmissionCache!Connects(c) \/ AdmissionCache!Abandons(c) \/ AdmissionCache!Invalidate(c)
      PROVE  MapInv'
  <2>1. adm_call' = [adm_call EXCEPT ![c] = AdmissionCache!Idle] /\ UNCHANGED <<adm_map, adm_made>>
    BY <1>4
       DEF AdmissionCache!Leaves, AdmissionCache!Connects, AdmissionCache!Abandons,
           AdmissionCache!Invalidate
  <2> QED BY <1>0, <2>1 DEF MapInv, CacheType
<1>5. ASSUME NEW c \in adm_Callers, AdmissionCache!Fails(c) PROVE MapInv'
  <2>1. CASE adm_map[adm_call[c].key] = AdmissionCache!None
    <3>1. adm_call' = [adm_call EXCEPT ![c] = AdmissionCache!Idle] /\ UNCHANGED <<adm_map, adm_made>>
      BY <1>5, <2>1 DEF AdmissionCache!Fails
    <3> QED BY <1>0, <3>1 DEF MapInv, CacheType
  <2>2. CASE adm_map[adm_call[c].key] # AdmissionCache!None
    BY <1>5, <2>2 DEF AdmissionCache!Fails, MapInv, CacheType, AdmissionCall
  <2> QED BY <2>1, <2>2
<1>6. CASE AdmissionCache!Tick \/ UNCHANGED AdmissionCache!vars
  BY <1>6 DEF AdmissionCache!Tick, AdmissionCache!vars, MapInv
<1> QED BY <1>1, <1>2, <1>3, <1>4, <1>5, <1>6 DEF AdmissionCache!Next

LEMMA NextGate == AdmissionCache!CacheConstants /\ CacheType /\ MapInv /\ GateInv
     /\ [AdmissionCache!Next]_(AdmissionCache!vars) => GateInv'
<1> SUFFICES ASSUME AdmissionCache!CacheConstants, CacheType, MapInv, GateInv,
     [AdmissionCache!Next]_(AdmissionCache!vars) PROVE GateInv'
  OBVIOUS
<1>0. \A c \in adm_Callers : adm_call[c].pc \in {"gate", "ask"}
         => adm_call[c].entry \in AdmissionCache!Entries
  BY DEF MapInv, CacheType, AdmissionCall, AdmissionCache!Entries, AdmissionCache!None,
         AdmissionCache!CacheConstants
<1>1. ASSUME NEW c \in adm_Callers, NEW k \in adm_Keys, AdmissionCache!Authorize(c, k) PROVE GateInv'
  BY <1>1 DEF AdmissionCache!Authorize, GateInv, CacheType
<1>2. ASSUME NEW c \in adm_Callers, AdmissionCache!EnterGate(c) PROVE GateInv'
  BY <1>0, <1>2
     DEF AdmissionCache!EnterGate, GateInv, CacheType, AdmissionCall, AdmissionCache!CacheConstants
<1>3. ASSUME NEW c \in adm_Callers, NEW ttl \in 0..adm_Ttl, AdmissionCache!Admitted(c, ttl)
         PROVE GateInv'
  BY <1>0, <1>3 DEF AdmissionCache!Admitted, GateInv, CacheType, AdmissionCall
<1>4. ASSUME NEW c \in adm_Callers, AdmissionCache!Leaves(c) PROVE GateInv'
  BY <1>0, <1>4 DEF AdmissionCache!Leaves, GateInv, CacheType, AdmissionCall, AdmissionCache!Idle
<1>5. ASSUME NEW c \in adm_Callers, AdmissionCache!Connects(c) \/ AdmissionCache!Abandons(c) \/ AdmissionCache!Invalidate(c) \/ AdmissionCache!Fails(c)
      PROVE  GateInv'
  BY <1>5
     DEF AdmissionCache!Connects, AdmissionCache!Abandons, AdmissionCache!Invalidate,
         AdmissionCache!Fails, GateInv, CacheType, AdmissionCall, AdmissionCache!Idle
<1>6. CASE AdmissionCache!Tick \/ UNCHANGED AdmissionCache!vars
  BY <1>6 DEF AdmissionCache!Tick, AdmissionCache!vars, GateInv
<1> QED BY <1>1, <1>2, <1>3, <1>4, <1>5, <1>6 DEF AdmissionCache!Next

\* authorize asks a relay for one admission once at a time, though entries are dropped
\* from the map and made again meanwhile: callers of one key share the entry that the
\* map holds, and its gate has one holder.
THEOREM OneRequestPerAdmission ==
    ASSUME AdmissionCache!CacheConstants
    PROVE  AdmissionCache!Spec => []AdmissionCache!SingleFlight
<1>1. MapInv /\ GateInv => AdmissionCache!SingleFlight
  BY DEF MapInv, GateInv, AdmissionCache!SingleFlight
<1>2. AdmissionCache!CacheConstants
  OBVIOUS
<1> QED BY <1>1, <1>2, InitCacheType, NextCacheType, InitMap, NextMap, NextGate, PTL
           DEF AdmissionCache!Spec

-----------------------------------------------------------------------------
(* Leases *)

\* A lease is granted once and to one entry; who connects with one got it for the key
\* of that entry, so that invalidate looks in the right place if the entry is there.
LeaseInv ==
    /\ adm_refused \subseteq 1..adm_issued
    /\ \A e \in AdmissionCache!Entries : adm_cached[e].id <= adm_issued
    /\ \A e \in AdmissionCache!Entries : e > adm_made => adm_cached[e].id = 0
    /\ \A e, f \in AdmissionCache!Entries : adm_cached[e].id = adm_cached[f].id
        /\ adm_cached[e].id # 0 => e = f
    /\ \A c \in adm_Callers : adm_call[c].lease <= adm_issued
    /\ \A c \in adm_Callers : adm_call[c].pc \in {"connect", "invalidate"} => adm_call[c].lease # 0
    /\ \A c \in adm_Callers, k \in adm_Keys :
         /\ adm_call[c].pc \in {"connect", "invalidate"}
         /\ adm_map[k] # AdmissionCache!None /\ adm_cached[adm_map[k]].id = adm_call[c].lease
         => adm_call[c].key = k

CacheInv == CacheType /\ MapInv /\ LeaseInv /\ AdmissionCache!FailedLeaseIsGone

LEMMA InitLease == AdmissionCache!CacheConstants /\ AdmissionCache!Init => LeaseInv
     /\ AdmissionCache!FailedLeaseIsGone
BY DEF AdmissionCache!CacheConstants, AdmissionCache!Init, LeaseInv, AdmissionCache!FailedLeaseIsGone,
       AdmissionCache!Idle, AdmissionCache!NoLease, AdmissionCache!Entries

LEMMA NextLease ==
    AdmissionCache!CacheConstants /\ CacheInv /\ [AdmissionCache!Next]_(AdmissionCache!vars)
         => LeaseInv' /\ AdmissionCache!FailedLeaseIsGone'
<1> SUFFICES ASSUME AdmissionCache!CacheConstants, CacheType, MapInv, LeaseInv, AdmissionCache!FailedLeaseIsGone, [AdmissionCache!Next]_(AdmissionCache!vars)
             PROVE  LeaseInv' /\ AdmissionCache!FailedLeaseIsGone'
  BY DEF CacheInv
<1>0. /\ AdmissionCache!Idle.pc = "idle" /\ AdmissionCache!Idle.lease = 0
      /\ \A k \in adm_Keys : adm_map[k] # AdmissionCache!None => adm_map[k] \in AdmissionCache!Entries
      /\ \A c \in adm_Callers : adm_call[c].key \in adm_Keys /\ adm_call[c].lease \in Nat
      /\ \A e \in AdmissionCache!Entries : adm_cached[e].id \in Nat
      /\ adm_made \in Nat /\ adm_issued \in Nat
  BY DEF AdmissionCache!Idle, CacheType, AdmissionCache!CacheConstants, AdmissionCache!Entries,
         AdmissionCache!None, AdmissionCall, LeaseType
<1>1. ASSUME NEW c \in adm_Callers, NEW k \in adm_Keys, AdmissionCache!Authorize(c, k)
      PROVE  LeaseInv' /\ AdmissionCache!FailedLeaseIsGone'
  <2>1. UNCHANGED <<adm_cached, adm_issued, adm_refused>> /\ adm_made' >= adm_made /\ adm_made' \in Nat
    BY <1>0, <1>1 DEF AdmissionCache!Authorize
  <2>2. \A d \in adm_Callers :
          /\ adm_call'[d].pc \in {"connect", "invalidate"} => d # c
          /\ d # c => adm_call'[d] = adm_call[d]
          /\ adm_call'[d].lease = IF d = c THEN 0 ELSE adm_call[d].lease
    BY <1>1 DEF AdmissionCache!Authorize, CacheType
  <2>3. \A l \in adm_Keys : adm_map'[l] # AdmissionCache!None =>
          adm_map'[l] = adm_map[l] \/ (adm_map'[l] \in AdmissionCache!Entries
               /\ adm_cached[adm_map'[l]].id = 0)
    <3>1. CASE AdmissionCache!Retained[k] # AdmissionCache!None
      BY <1>1, <3>1, RetainedType DEF AdmissionCache!Authorize
    <3>2. CASE AdmissionCache!Retained[k] = AdmissionCache!None
      <4>1. adm_made + 1 \in AdmissionCache!Entries /\ adm_cached[adm_made + 1].id = 0
        BY <1>0, <1>1, <3>2
           DEF AdmissionCache!Authorize, LeaseInv, AdmissionCache!Entries, AdmissionCache!CacheConstants
      <4> QED BY <1>1, <3>2, <4>1, RetainedType DEF AdmissionCache!Authorize
    <3> QED BY <3>1, <3>2
  <2>4. 0 \notin adm_refused
    BY <1>0 DEF LeaseInv
  <2>5. AdmissionCache!FailedLeaseIsGone'
    BY <1>0, <2>1, <2>3, <2>4 DEF AdmissionCache!FailedLeaseIsGone
  <2>6. /\ \A d \in adm_Callers : adm_call'[d].lease <= adm_issued'
        /\ \A d \in adm_Callers : adm_call'[d].pc \in {"connect", "invalidate"}
            => adm_call'[d].lease # 0
    BY <1>0, <2>1, <2>2 DEF LeaseInv
  <2>7. \A d \in adm_Callers, l \in adm_Keys :
          /\ adm_call'[d].pc \in {"connect", "invalidate"}
          /\ adm_map'[l] # AdmissionCache!None /\ adm_cached'[adm_map'[l]].id = adm_call'[d].lease
          => adm_call'[d].key = l
    BY <2>1, <2>2, <2>3, <2>6 DEF LeaseInv
  <2>8. \A e \in AdmissionCache!Entries : e > adm_made' => adm_cached'[e].id = 0
    BY <1>0, <2>1 DEF LeaseInv, AdmissionCache!Entries, AdmissionCache!CacheConstants
  <2> QED BY <2>1, <2>5, <2>6, <2>7, <2>8 DEF LeaseInv
<1>2. ASSUME NEW c \in adm_Callers, AdmissionCache!EnterGate(c) PROVE LeaseInv'
         /\ AdmissionCache!FailedLeaseIsGone'
  <2> DEFINE e == adm_call[c].entry
  <2>1. e \in AdmissionCache!Entries /\ adm_map[adm_call[c].key] = e
    BY <1>0, <1>2 DEF AdmissionCache!EnterGate, MapInv
  <2>2. CASE AdmissionCache!Reusable(adm_cached[e])
    <3>1. /\ adm_call' = [adm_call EXCEPT ![c].pc = "connect", ![c].entry = AdmissionCache!None,
                                  ![c].lease = adm_cached[e].id]
          /\ UNCHANGED <<adm_cached, adm_map, adm_made, adm_issued, adm_refused>>
          /\ adm_cached[e].id # 0
      BY <1>2, <2>2 DEF AdmissionCache!EnterGate, AdmissionCache!Reusable
    <3>2. \A l \in adm_Keys : adm_map[l] # AdmissionCache!None /\ adm_cached[adm_map[l]].id = adm_cached[e].id =>
            l = adm_call[c].key
      BY <1>0, <2>1, <3>1
         DEF LeaseInv, MapInv, AdmissionCache!Entries, AdmissionCache!None,
             AdmissionCache!CacheConstants
    <3> HIDE DEF e
    <3> QED BY <1>0, <2>1, <3>1, <3>2
               DEF LeaseInv, AdmissionCache!FailedLeaseIsGone, CacheType, AdmissionCall
  <2>3. CASE ~AdmissionCache!Reusable(adm_cached[e])
    <3>1. /\ adm_call' = [adm_call EXCEPT ![c].pc = "ask"]
          /\ adm_cached' = [adm_cached EXCEPT ![e] = AdmissionCache!NoLease]
          /\ UNCHANGED <<adm_map, adm_made, adm_issued, adm_refused>>
      BY <1>2, <2>3 DEF AdmissionCache!EnterGate
    <3>2. AdmissionCache!NoLease.id = 0 /\ 0 \notin adm_refused
      BY <1>0 DEF AdmissionCache!NoLease, LeaseInv
    <3>3. \A f \in AdmissionCache!Entries : adm_cached'[f].id = IF f = e THEN 0 ELSE adm_cached[f].id
      BY <3>1, <3>2 DEF CacheType
    <3>4. AdmissionCache!FailedLeaseIsGone'
      BY <1>0, <3>1, <3>2, <3>3 DEF AdmissionCache!FailedLeaseIsGone
    <3>5. \A d \in adm_Callers : /\ adm_call'[d].lease = adm_call[d].lease
                                 /\ adm_call'[d].key = adm_call[d].key
                                 /\ adm_call'[d].pc = IF d = c THEN "ask" ELSE adm_call[d].pc
      BY <3>1 DEF CacheType, AdmissionCall
    <3> HIDE DEF e
    <3> QED BY <1>0, <3>1, <3>3, <3>4, <3>5 DEF LeaseInv
  <2> QED BY <2>2, <2>3
<1>3. ASSUME NEW c \in adm_Callers, NEW ttl \in 0..adm_Ttl, AdmissionCache!Admitted(c, ttl)
      PROVE  LeaseInv' /\ AdmissionCache!FailedLeaseIsGone'
  <2> DEFINE e == adm_call[c].entry
  <2>1. e \in AdmissionCache!Entries /\ adm_map[adm_call[c].key] = e
    BY <1>0, <1>3 DEF AdmissionCache!Admitted, MapInv
  <2>2. /\ UNCHANGED <<adm_map, adm_made, adm_refused>> /\ adm_issued' = adm_issued + 1
        /\ adm_call' = [adm_call EXCEPT ![c].pc = "connect", ![c].entry = AdmissionCache!None,
            ![c].lease = adm_issued']
    BY <1>3 DEF AdmissionCache!Admitted
  <2>3. \A f \in AdmissionCache!Entries : \/ adm_cached'[f].id = adm_cached[f].id
                                          \/ f = e /\ adm_cached'[f].id = adm_issued + 1
    <3>1. CASE ttl > 0
      BY <1>3, <2>2, <3>1 DEF AdmissionCache!Admitted, CacheType
    <3>2. CASE ~(ttl > 0)
      BY <1>3, <3>2 DEF AdmissionCache!Admitted, CacheType
    <3> QED BY <3>1, <3>2
  <2>4. \A d \in adm_Callers : /\ adm_call'[d].lease = IF d = c THEN adm_issued + 1 ELSE adm_call[d].lease
                               /\ adm_call'[d].key = adm_call[d].key
                               /\ adm_call'[d].pc = IF d = c THEN "connect" ELSE adm_call[d].pc
    BY <2>2 DEF CacheType, AdmissionCall
  <2>5. \A l \in adm_Keys : adm_map[l] = e => l = adm_call[c].key
    BY <1>0, <2>1 DEF MapInv, AdmissionCache!Entries, AdmissionCache!None, AdmissionCache!CacheConstants
  <2> HIDE DEF e
  <2>6. e <= adm_made
    BY <1>0, <2>1 DEF MapInv
  <2>7. AdmissionCache!FailedLeaseIsGone'
    BY <1>0, <2>2, <2>3 DEF AdmissionCache!FailedLeaseIsGone, LeaseInv
  <2>8. /\ adm_refused' \subseteq 1..adm_issued'
        /\ \A f \in AdmissionCache!Entries : adm_cached'[f].id <= adm_issued'
        /\ \A d \in adm_Callers : adm_call'[d].lease <= adm_issued'
        /\ \A d \in adm_Callers : adm_call'[d].pc \in {"connect", "invalidate"}
            => adm_call'[d].lease # 0
    <3>0. UNCHANGED <<adm_map, adm_made, adm_refused>> /\ adm_issued' = adm_issued + 1
      BY <2>2
    <3>1. adm_refused' \subseteq 1..adm_issued'
      <4>1. 1..adm_issued \subseteq 1..(adm_issued + 1)
        BY <1>0
      <4> QED BY <3>0, <4>1 DEF LeaseInv
    <3>2. \A f \in AdmissionCache!Entries : adm_cached'[f].id <= adm_issued'
      BY <1>0, <2>3, <3>0 DEF LeaseInv
    <3>3. \A d \in adm_Callers : adm_call'[d].lease <= adm_issued'
      BY <1>0, <2>4, <3>0 DEF LeaseInv
    <3>4. \A d \in adm_Callers : adm_call'[d].pc \in {"connect", "invalidate"} => adm_call'[d].lease # 0
      BY <1>0, <2>4 DEF LeaseInv
    <3> QED BY <3>1, <3>2, <3>3, <3>4
  <2>9. /\ \A f \in AdmissionCache!Entries : f > adm_made' => adm_cached'[f].id = 0
        /\ \A f, g \in AdmissionCache!Entries : adm_cached'[f].id = adm_cached'[g].id
            /\ adm_cached'[f].id # 0 => f = g
    BY <1>0, <2>1, <2>2, <2>3, <2>6 DEF LeaseInv, AdmissionCache!Entries, AdmissionCache!CacheConstants
  <2>10. \A d \in adm_Callers, l \in adm_Keys :
          /\ adm_call'[d].pc \in {"connect", "invalidate"}
          /\ adm_map'[l] # AdmissionCache!None /\ adm_cached'[adm_map'[l]].id = adm_call'[d].lease
          => adm_call'[d].key = l
    <3> SUFFICES ASSUME NEW d \in adm_Callers, NEW l \in adm_Keys,
                        adm_call'[d].pc \in {"connect", "invalidate"},
                        adm_map[l] # AdmissionCache!None,
                             adm_cached'[adm_map[l]].id = adm_call'[d].lease
                 PROVE  adm_call[d].key = l
      BY <2>2, <2>4
    <3>1. adm_map[l] \in AdmissionCache!Entries /\ adm_cached[adm_map[l]].id <= adm_issued
             /\ adm_cached[adm_map[l]].id \in Nat
      BY <1>0 DEF LeaseInv
    <3>2. CASE d = c
      <4>1. adm_cached'[adm_map[l]].id = adm_issued + 1
        BY <2>4, <3>2
      <4>2. adm_map[l] = e
        BY <1>0, <2>3, <3>1, <4>1
      <4> QED BY <2>5, <3>2, <4>2
    <3>3. CASE d # c
      <4>1. adm_call'[d].lease = adm_call[d].lease /\ adm_call[d].lease <= adm_issued
               /\ adm_call[d].lease \in Nat
        BY <1>0, <2>4, <3>3 DEF LeaseInv
      <4>2. adm_cached[adm_map[l]].id = adm_call[d].lease
        BY <1>0, <2>3, <3>1, <4>1
      <4> QED BY <2>4, <3>3, <4>2 DEF LeaseInv
    <3> QED BY <3>2, <3>3
  <2> QED BY <2>7, <2>8, <2>9, <2>10 DEF LeaseInv
<1>4. ASSUME NEW c \in adm_Callers, AdmissionCache!Leaves(c) \/ AdmissionCache!Connects(c) \/ AdmissionCache!Abandons(c)
      PROVE  LeaseInv' /\ AdmissionCache!FailedLeaseIsGone'
  <2>1. /\ adm_call' = [adm_call EXCEPT ![c] = AdmissionCache!Idle]
        /\ UNCHANGED <<adm_map, adm_cached, adm_made, adm_issued, adm_refused>>
    BY <1>4 DEF AdmissionCache!Leaves, AdmissionCache!Connects, AdmissionCache!Abandons
  <2> QED BY <1>0, <2>1 DEF LeaseInv, AdmissionCache!FailedLeaseIsGone, CacheType
<1>5. ASSUME NEW c \in adm_Callers, AdmissionCache!Fails(c) PROVE LeaseInv'
         /\ AdmissionCache!FailedLeaseIsGone'
  <2>0. UNCHANGED <<adm_map, adm_cached, adm_made, adm_issued>> /\ adm_call[c].pc = "connect"
    BY <1>5 DEF AdmissionCache!Fails
  <2>1. CASE adm_map[adm_call[c].key] = AdmissionCache!None
    <3>1. adm_call' = [adm_call EXCEPT ![c] = AdmissionCache!Idle]
             /\ adm_refused' = adm_refused \cup {adm_call[c].lease}
      BY <1>5, <2>1 DEF AdmissionCache!Fails
    <3>2. AdmissionCache!FailedLeaseIsGone'
      BY <2>0, <2>1, <3>1 DEF AdmissionCache!FailedLeaseIsGone, LeaseInv
    <3>3. adm_refused' \subseteq 1..adm_issued'
      <4>1. adm_call[c].lease \in 1..adm_issued
        BY <1>0, <2>0 DEF LeaseInv
      <4> QED BY <2>0, <3>1, <4>1 DEF LeaseInv
    <3> QED BY <1>0, <2>0, <3>1, <3>2, <3>3 DEF LeaseInv, CacheType
  <2>2. CASE adm_map[adm_call[c].key] # AdmissionCache!None
    <3>1. /\ UNCHANGED adm_refused
          /\ \A d \in adm_Callers : /\ adm_call'[d].lease = adm_call[d].lease
                                     /\ adm_call'[d].key = adm_call[d].key
                                     /\ adm_call'[d].pc = IF d = c THEN "invalidate" ELSE adm_call[d].pc
      BY <1>5, <2>2 DEF AdmissionCache!Fails, CacheType, AdmissionCall
    <3> QED BY <2>0, <3>1 DEF LeaseInv, AdmissionCache!FailedLeaseIsGone
  <2> QED BY <2>1, <2>2
<1>6. ASSUME NEW c \in adm_Callers, AdmissionCache!Invalidate(c) PROVE LeaseInv'
         /\ AdmissionCache!FailedLeaseIsGone'
  <2> DEFINE e == adm_call[c].entry
  <2>1. /\ e \in AdmissionCache!Entries /\ adm_map[adm_call[c].key] = e /\ adm_call[c].pc = "invalidate"
        /\ UNCHANGED <<adm_map, adm_made, adm_issued>>
        /\ adm_refused' = adm_refused \cup {adm_call[c].lease}
        /\ adm_call' = [adm_call EXCEPT ![c] = AdmissionCache!Idle]
    BY <1>0, <1>6 DEF AdmissionCache!Invalidate, MapInv
  <2>2. AdmissionCache!NoLease.id = 0 /\ 0 \notin adm_refused
    BY <1>0 DEF AdmissionCache!NoLease, LeaseInv
  <2>3. \A f \in AdmissionCache!Entries : adm_cached'[f].id =
          IF f = e /\ adm_cached[e].id = adm_call[c].lease THEN 0 ELSE adm_cached[f].id
    BY <1>6, <2>1, <2>2 DEF AdmissionCache!Invalidate, AdmissionCache!Invalidates, CacheType
  <2> HIDE DEF e
  <2>4. AdmissionCache!FailedLeaseIsGone'
    BY <1>0, <2>1, <2>2, <2>3 DEF AdmissionCache!FailedLeaseIsGone, LeaseInv
  <2>5. adm_refused' \subseteq 1..adm_issued'
    <3>1. adm_call[c].lease \in 1..adm_issued
      BY <1>0, <2>1 DEF LeaseInv
    <3> QED BY <2>1, <3>1 DEF LeaseInv
  <2>6. \A d \in adm_Callers : adm_call'[d] = IF d = c THEN AdmissionCache!Idle ELSE adm_call[d]
    BY <2>1 DEF CacheType
  <2> QED BY <1>0, <2>1, <2>3, <2>4, <2>5, <2>6 DEF LeaseInv
<1>7. CASE AdmissionCache!Tick \/ UNCHANGED AdmissionCache!vars
  BY <1>7 DEF AdmissionCache!Tick, AdmissionCache!vars, LeaseInv, AdmissionCache!FailedLeaseIsGone
<1> QED BY <1>1, <1>2, <1>3, <1>4, <1>5, <1>6, <1>7 DEF AdmissionCache!Next

LEMMA CacheInvariant ==
    ASSUME AdmissionCache!CacheConstants
    PROVE  AdmissionCache!Spec => []CacheInv
<1>1. AdmissionCache!CacheConstants
  OBVIOUS
<1>2. AdmissionCache!Init => CacheInv
  BY InitCacheType, InitMap, InitLease DEF CacheInv
<1>3. CacheInv /\ [AdmissionCache!Next]_(AdmissionCache!vars) => CacheInv'
  BY NextCacheType, NextMap, NextLease DEF CacheInv
<1> QED BY <1>2, <1>3, PTL DEF AdmissionCache!Spec

\* invalidate: a lease whose failure was recorded is offered to nobody any more, whichever
\* entry stands for its key by then.
THEOREM FailedLeasesGo ==
    ASSUME AdmissionCache!CacheConstants
    PROVE  AdmissionCache!Spec => []AdmissionCache!FailedLeaseIsGone
<1>1. CacheInv => AdmissionCache!FailedLeaseIsGone
  BY DEF CacheInv
<1> QED BY <1>1, CacheInvariant, PTL

\* The caches' variables keep their types.
THEOREM CacheTypeCorrect ==
    ASSUME AdmissionCache!CacheConstants
    PROVE  AdmissionCache!Spec => []AdmissionCache!TypeOK
<1>1. CacheInv => AdmissionCache!TypeOK
  BY DEF CacheInv, CacheType, LeaseInv, AdmissionCache!TypeOK, LeaseType, AdmissionCall,
         AdmissionCache!CacheConstants
<1> QED BY <1>1, CacheInvariant, PTL

-----------------------------------------------------------------------------
(* The servers of application protocols (protocols.rs, context.rs), for    *)
(* any users, protocols, registrations and streams.                        *)

ServerType == [task : {"none", "running", "joining", "ended"},
               held : {"entry", "closer", "shutdown", "dropped"}, stop : BOOLEAN, abort : BOOLEAN]
UserType == [pc : {"idle", "mounted", "closing", "closed"},
     gen : {ProtocolServers!NoGen} \cup ProtocolServers!Gens]

ProtocolTypes ==
    /\ prot_running \in BOOLEAN
    /\ prot_registrations \in [prot_Protocols -> {ProtocolServers!NoGen} \cup ProtocolServers!Gens]
    /\ prot_accepting \in [prot_Protocols -> {ProtocolServers!NoGen} \cup ProtocolServers!Gens]
    /\ prot_next \in Nat
    /\ prot_server \in [ProtocolServers!Gens -> ServerType]
    /\ prot_queue \in [ProtocolServers!Gens -> 0..prot_Capacity]
    /\ prot_handlers \in [ProtocolServers!Gens -> 0..prot_Concurrency]
    /\ prot_user \in [prot_Users -> UserType]
    /\ prot_shut \in {"no", "waiting", "ok", "failed", "aborted"}

\* A server by the handle on it: its entry's is neither stopped nor aborted, and runs until
\* the fence; only a dropped one is aborted; one that ended takes no stream, and unless it
\* was aborted has no handler left
ServerOK(g) ==
    /\ g >= prot_next => prot_server[g] = ProtocolServers!NoServer
    /\ prot_server[g].task = "none" => prot_server[g] = ProtocolServers!NoServer
    /\ prot_server[g].held = "entry" => ~prot_server[g].stop /\ ~prot_server[g].abort
    /\ prot_server[g].held = "entry" /\ prot_server[g].task # "none" /\ prot_running
        => prot_server[g].task = "running"
    /\ prot_server[g].abort => prot_server[g].held = "dropped"
    /\ prot_server[g].task \in {"none", "ended"} => prot_queue[g] = 0
        /\ \A p \in prot_Protocols : prot_accepting[p] # g
    /\ prot_server[g].task = "none" => prot_handlers[g] = 0
    /\ prot_server[g].task = "ended" /\ ~prot_server[g].abort => prot_handlers[g] = 0
    /\ prot_shut = "ok" /\ prot_server[g].held = "shutdown" => prot_server[g].task = "ended"

ServerInv == \A g \in ProtocolServers!Gens : ServerOK(g)

\* What is mounted is what is shown, by a server that its entry holds and, until the
\* fence, the transport has streams for; nothing is mounted after the drain
MountInv ==
    /\ prot_served = ProtocolServers!Mounted(prot_registrations)
    /\ prot_shut # "no" => ~prot_running
        /\ \A p \in prot_Protocols : prot_registrations[p] = ProtocolServers!NoGen
    /\ \A p \in prot_Protocols : prot_registrations[p] # ProtocolServers!NoGen =>
          /\ prot_running => prot_accepting[p] = prot_registrations[p]
          /\ prot_server[prot_registrations[p]].held = "entry"
          /\ prot_server[prot_registrations[p]].task # "none"

\* A generation has one owner, and a close that returned has seen the task end
OwnerInv ==
    /\ \A u \in prot_Users : prot_user[u].pc # "idle" =>
          /\ prot_user[u].gen \in ProtocolServers!Gens /\ prot_user[u].gen < prot_next
          /\ prot_server[prot_user[u].gen].task # "none"
          /\ prot_user[u].pc = "mounted" => prot_server[prot_user[u].gen].held # "closer"
          /\ prot_user[u].pc = "closing" => prot_server[prot_user[u].gen].held = "closer"
          /\ prot_user[u].pc = "closed" /\ prot_server[prot_user[u].gen].held = "closer" =>
                prot_server[prot_user[u].gen].task = "ended"
    /\ \A u, v \in prot_Users : prot_user[u].pc # "idle" /\ prot_user[v].pc # "idle"
        /\ prot_user[u].gen = prot_user[v].gen => u = v

ProtocolInv == ProtocolTypes /\ ServerInv /\ MountInv /\ OwnerInv

LEMMA NoServerType == ProtocolServers!NoServer \in ServerType /\ ProtocolServers!NoServer.task = "none" /\ ProtocolServers!NoServer.held = "entry"
                      /\ ~ProtocolServers!NoServer.stop /\ ~ProtocolServers!NoServer.abort
<1>1. ProtocolServers!NoServer \in ServerType
  BY DEF ProtocolServers!NoServer, ServerType
<1> QED BY <1>1 DEF ProtocolServers!NoServer

LEMMA InitProtocols ==
    ASSUME ProtocolServers!ProtocolConstants, ProtocolServers!Init
    PROVE  ProtocolInv
<1>1. ProtocolTypes
  BY NoServerType DEF ProtocolServers!Init, ProtocolTypes, UserType, ProtocolServers!ProtocolConstants
<1>2. ServerInv
  BY NoServerType
     DEF ProtocolServers!Init, ServerInv, ServerOK, ProtocolServers!Gens, ProtocolServers!NoGen
<1>3. MountInv
  BY DEF ProtocolServers!Init, MountInv, ProtocolServers!Mounted
<1>4. OwnerInv
  BY DEF ProtocolServers!Init, OwnerInv
<1> QED BY <1>1, <1>2, <1>3, <1>4 DEF ProtocolInv

LEMMA RegisterKeeps ==
    ASSUME ProtocolServers!ProtocolConstants, ProtocolInv, NEW u \in prot_Users,
         ProtocolServers!Register(u)
    PROVE  ProtocolInv'
<1> DEFINE s == [ProtocolServers!NoServer EXCEPT !.task = "running"]
<1>0. PICK p \in prot_Protocols :
         /\ prot_running /\ prot_registrations[p] = ProtocolServers!NoGen
         /\ prot_accepting[p] = ProtocolServers!NoGen
         /\ prot_registrations' = [prot_registrations EXCEPT ![p] = prot_next]
         /\ prot_served' = ProtocolServers!Mounted(prot_registrations')
         /\ prot_accepting' = [prot_accepting EXCEPT ![p] = prot_next]
         /\ prot_server' = [prot_server EXCEPT ![prot_next] = s]
         /\ prot_user' = [prot_user EXCEPT ![u] = [pc |-> "mounted", gen |-> prot_next]]
  BY DEF ProtocolServers!Register, ProtocolServers!MayRegister
<1>1. prot_next \in ProtocolServers!Gens /\ prot_next' = prot_next + 1
         /\ UNCHANGED <<prot_running, prot_queue, prot_handlers, prot_shut, prot_streams>>
  BY DEF ProtocolServers!Register
<1>2. s \in ServerType /\ s.task = "running" /\ s.held = "entry" /\ ~s.stop /\ ~s.abort
  <2>1. s \in ServerType
    BY DEF ProtocolServers!NoServer, ServerType
  <2> QED BY <2>1 DEF ProtocolServers!NoServer
<1> HIDE DEF s
<1>3. [pc |-> "mounted", gen |-> prot_next] \in UserType
  BY <1>1 DEF UserType
<1>4. ProtocolTypes'
  BY <1>0, <1>1, <1>2, <1>3 DEF ProtocolInv, ProtocolTypes
<1>5. prot_server[prot_next] = ProtocolServers!NoServer /\ prot_next # ProtocolServers!NoGen
  BY <1>1
     DEF ProtocolInv, ProtocolTypes, ServerInv, ServerOK, ProtocolServers!Gens, ProtocolServers!NoGen
<1>6. /\ prot_server'[prot_next] = s /\ \A g \in ProtocolServers!Gens : g # prot_next
          => prot_server'[g] = prot_server[g]
      /\ \A q \in prot_Protocols : q # p => prot_accepting'[q] = prot_accepting[q]
          /\ prot_registrations'[q] = prot_registrations[q]
      /\ prot_accepting'[p] = prot_next /\ prot_registrations'[p] = prot_next
  BY <1>0, <1>1 DEF ProtocolInv, ProtocolTypes
<1>7. ServerInv'
  <2> SUFFICES ASSUME NEW g \in ProtocolServers!Gens PROVE ServerOK(g)'
    BY DEF ServerInv
  <2>1. CASE g = prot_next
    <3>1. prot_next \in Nat /\ ~(prot_next >= prot_next')
      BY <1>1 DEF ProtocolInv, ProtocolTypes
    <3>2. prot_handlers[prot_next] = 0
      BY <1>1, <1>5, NoServerType DEF ProtocolInv, ServerInv, ServerOK
    <3> QED BY <1>0, <1>1, <1>2, <1>6, <2>1, <3>1, <3>2 DEF ProtocolInv, MountInv, ServerOK
  <2>2. CASE g # prot_next
    <3>1. prot_next \in Nat /\ g \in Nat /\ (g >= prot_next' => g >= prot_next)
      BY <1>1 DEF ProtocolInv, ProtocolTypes, ProtocolServers!Gens, ProtocolServers!ProtocolConstants
    <3> QED BY <1>0, <1>1, <1>6, <2>2, <3>1 DEF ProtocolInv, ServerInv, ServerOK
  <2> QED BY <2>1, <2>2
<1>8. MountInv'
  <2>1. \A q \in prot_Protocols : q # p /\ prot_registrations[q] # ProtocolServers!NoGen
           => prot_registrations[q] # prot_next /\ prot_registrations[q] \in ProtocolServers!Gens
    BY <1>5, NoServerType DEF ProtocolInv, ProtocolTypes, MountInv
  <2> QED BY <1>0, <1>1, <1>2, <1>6, <2>1 DEF ProtocolInv, MountInv
<1>9. OwnerInv'
  <2>1. prot_user'[u] = [pc |-> "mounted", gen |-> prot_next] /\ \A v \in prot_Users : v # u
           => prot_user'[v] = prot_user[v]
    BY <1>0 DEF ProtocolInv, ProtocolTypes
  <2>2. \A v \in prot_Users : prot_user[v].pc # "idle" => prot_user[v].gen # prot_next
           /\ prot_user[v].gen \in ProtocolServers!Gens /\ prot_user[v].gen < prot_next'
    BY <1>1
       DEF ProtocolInv, ProtocolTypes, OwnerInv, ProtocolServers!Gens, ProtocolServers!ProtocolConstants
  <2>3. prot_next < prot_next'
    BY <1>1 DEF ProtocolInv, ProtocolTypes
  <2> QED BY <1>1, <1>2, <1>6, <2>1, <2>2, <2>3 DEF ProtocolInv, OwnerInv
<1> QED BY <1>4, <1>7, <1>8, <1>9 DEF ProtocolInv

LEMMA RefusedKeeps ==
    ASSUME ProtocolServers!ProtocolConstants, ProtocolInv, NEW u \in prot_Users,
         ProtocolServers!RegisterRefused(u)
    PROVE  ProtocolInv'
<1>1. prot_next \in Nat /\ prot_next' = prot_next + 1
      /\ UNCHANGED <<prot_running, prot_registrations, prot_served, prot_accepting, prot_server,
          prot_queue, prot_handlers, prot_user, prot_shut>>
  BY DEF ProtocolServers!RegisterRefused, ProtocolInv, ProtocolTypes
<1>2. \A g \in ProtocolServers!Gens : g >= prot_next' => g >= prot_next
  BY <1>1 DEF ProtocolServers!Gens, ProtocolServers!ProtocolConstants
<1>3. \A v \in prot_Users : prot_user[v].pc # "idle" => prot_user[v].gen < prot_next'
  BY <1>1 DEF ProtocolInv, OwnerInv, ProtocolServers!Gens, ProtocolServers!ProtocolConstants
<1>4. ProtocolTypes'
  BY <1>1 DEF ProtocolInv, ProtocolTypes
<1>5. ServerInv'
  BY <1>1, <1>2 DEF ProtocolInv, ServerInv, ServerOK
<1>6. MountInv'
  BY <1>1 DEF ProtocolInv, MountInv
<1>7. OwnerInv'
  BY <1>1, <1>3 DEF ProtocolInv, OwnerInv
<1> QED BY <1>4, <1>5, <1>6, <1>7 DEF ProtocolInv

\* take_server, for a close and for a drop
LEMMA TakeKeeps ==
    ASSUME ProtocolServers!ProtocolConstants, ProtocolInv, NEW u \in prot_Users, NEW h \in {"closer", "dropped"}, ProtocolServers!TakeServer(u, h),
           UNCHANGED <<prot_running, prot_next, prot_accepting, prot_queue, prot_handlers, prot_shut,
                prot_streams>>,
           NEW x \in UserType, prot_user' = [prot_user EXCEPT ![u] = x],
           x.pc = "idle" \/ x.gen = prot_user[u].gen,
           x.pc \in {"closing", "idle"} \/ (x.pc = "closed"
                /\ prot_server[prot_user[u].gen].held # "entry"),
           h = "dropped" => x.pc = "idle",
           x.pc = "closing" => prot_server[prot_user[u].gen].held = "entry"
    PROVE  ProtocolInv'
<1> DEFINE g == prot_user[u].gen
           s == [prot_server[g] EXCEPT !.held = h, !.stop = TRUE, !.abort = h = "dropped"]
<1>0. /\ prot_user[u].pc = "mounted" /\ g \in ProtocolServers!Gens /\ prot_server[g].task # "none"
      /\ prot_server[g].held # "closer"
      /\ prot_server[g] \in ServerType /\ g < prot_next
  BY DEF ProtocolServers!TakeServer, ProtocolInv, ProtocolTypes, OwnerInv
<1>1. /\ prot_registrations' = [p \in prot_Protocols |-> IF prot_registrations[p] = g THEN ProtocolServers!NoGen ELSE prot_registrations[p]]
      /\ prot_served' = ProtocolServers!Mounted(prot_registrations')
      /\ prot_server' = IF prot_server[g].held # "entry" THEN prot_server ELSE [prot_server EXCEPT ![g] = s]
  BY DEF ProtocolServers!TakeServer, ProtocolServers!Unmounted
<1>2. /\ s \in ServerType /\ s.task = prot_server[g].task /\ s.held = h /\ s.stop
          /\ (s.abort <=> h = "dropped")
  BY <1>0 DEF ServerType
<1> HIDE DEF s, g
<1>3. /\ \A k \in ProtocolServers!Gens : k # g => prot_server'[k] = prot_server[k]
      /\ prot_server'[g] = prot_server[g] \/ (prot_server[g].held = "entry" /\ prot_server'[g] = s)
      /\ prot_server[g].held = "entry" => prot_server'[g] = s
      /\ prot_server' \in [ProtocolServers!Gens -> ServerType]
  BY <1>0, <1>1, <1>2 DEF ProtocolInv, ProtocolTypes
<1>4. ProtocolTypes'
  BY <1>1, <1>3 DEF ProtocolInv, ProtocolTypes
<1>5. ServerInv'
  <2> SUFFICES ASSUME NEW k \in ProtocolServers!Gens PROVE ServerOK(k)'
    BY DEF ServerInv
  <2>1. CASE prot_server'[k] = prot_server[k]
    BY <2>1 DEF ProtocolInv, ServerInv, ServerOK
  <2>2. CASE k = g /\ prot_server[g].held = "entry" /\ prot_server'[g] = s
    <3>1. prot_next \in Nat /\ g \in Nat /\ ~(g >= prot_next)
      BY <1>0 DEF ProtocolInv, ProtocolTypes, ProtocolServers!Gens, ProtocolServers!ProtocolConstants
    <3>2. ServerOK(g)
      BY <1>0 DEF ProtocolInv, ServerInv
    <3> QED BY <1>0, <1>2, <2>2, <3>1, <3>2 DEF ServerOK
  <2> QED BY <1>3, <2>1, <2>2
<1>6. MountInv'
  <2>1. \A p \in prot_Protocols : prot_registrations'[p] # ProtocolServers!NoGen =>
           prot_registrations[p] # ProtocolServers!NoGen
                /\ prot_registrations'[p] = prot_registrations[p] /\ prot_registrations[p] # g
    BY <1>1
  <2>2. \A p \in prot_Protocols : prot_registrations[p] # ProtocolServers!NoGen
           => prot_registrations[p] \in ProtocolServers!Gens
    BY DEF ProtocolInv, ProtocolTypes
  <2> QED BY <1>1, <1>3, <2>1, <2>2 DEF ProtocolInv, MountInv
<1>7. OwnerInv'
  <2>1. prot_user'[u] = x /\ \A v \in prot_Users : v # u => prot_user'[v] = prot_user[v]
    BY DEF ProtocolInv, ProtocolTypes
  <2>2. ASSUME NEW v \in prot_Users, v # u, prot_user[v].pc # "idle"
        PROVE  prot_user[v].gen \in ProtocolServers!Gens
             /\ prot_server'[prot_user[v].gen] = prot_server[prot_user[v].gen]
    BY <1>0, <1>3, <2>2 DEF ProtocolInv, OwnerInv, g
  <2>3. x.pc # "idle" => /\ x.gen = g /\ prot_server'[g].task # "none"
                         /\ x.pc = "closing" => prot_server'[g].held = "closer"
                         /\ x.pc = "closed" => prot_server'[g].held # "closer"
                         /\ x.pc # "mounted"
    BY <1>0, <1>2, <1>3 DEF g
  <2>4. \A v \in prot_Users : prot_user'[v].pc # "idle" =>
          /\ prot_user'[v].gen \in ProtocolServers!Gens /\ prot_user'[v].gen < prot_next'
          /\ prot_server'[prot_user'[v].gen].task # "none"
          /\ prot_user'[v].pc = "mounted" => prot_server'[prot_user'[v].gen].held # "closer"
          /\ prot_user'[v].pc = "closing" => prot_server'[prot_user'[v].gen].held = "closer"
          /\ prot_user'[v].pc = "closed" /\ prot_server'[prot_user'[v].gen].held = "closer" =>
                prot_server'[prot_user'[v].gen].task = "ended"
    <3> SUFFICES ASSUME NEW v \in prot_Users, prot_user'[v].pc # "idle"
                 PROVE  /\ prot_user'[v].gen \in ProtocolServers!Gens /\ prot_user'[v].gen < prot_next' /\ prot_server'[prot_user'[v].gen].task # "none"
                        /\ prot_user'[v].pc = "mounted"
                            => prot_server'[prot_user'[v].gen].held # "closer"
                        /\ prot_user'[v].pc = "closing"
                            => prot_server'[prot_user'[v].gen].held = "closer"
                        /\ prot_user'[v].pc = "closed" /\ prot_server'[prot_user'[v].gen].held = "closer" =>
                              prot_server'[prot_user'[v].gen].task = "ended"
      OBVIOUS
    <3>1. CASE v = u
      BY <1>0, <2>1, <2>3, <3>1
    <3>2. CASE v # u
      BY <2>1, <2>2, <3>2 DEF ProtocolInv, OwnerInv
    <3> QED BY <3>1, <3>2
  <2>5. \A v, w \in prot_Users : prot_user'[v].pc # "idle" /\ prot_user'[w].pc # "idle"
           /\ prot_user'[v].gen = prot_user'[w].gen => v = w
    BY <1>0, <2>1, <2>3 DEF ProtocolInv, OwnerInv, g
  <2> QED BY <2>4, <2>5 DEF OwnerInv
<1> QED BY <1>4, <1>5, <1>6, <1>7 DEF ProtocolInv

LEMMA ProtocolCloseKeeps ==
    ASSUME ProtocolServers!ProtocolConstants, ProtocolInv, NEW u \in prot_Users,
         ProtocolServers!Close(u)
    PROVE  ProtocolInv'
<1> DEFINE to == IF prot_server[prot_user[u].gen].held = "entry" THEN "closing" ELSE "closed"
           x == [prot_user[u] EXCEPT !.pc = to]
<1>0. prot_user[u] \in UserType /\ prot_user \in [prot_Users -> UserType]
  BY DEF ProtocolInv, ProtocolTypes
<1>1. x \in UserType /\ x.pc = to /\ x.gen = prot_user[u].gen
  BY <1>0 DEF UserType
<1>2. prot_user' = [prot_user EXCEPT ![u] = x]
  BY <1>0 DEF ProtocolServers!Close
<1>3. ProtocolServers!TakeServer(u, "closer")
         /\ UNCHANGED <<prot_running, prot_next, prot_accepting, prot_queue, prot_handlers, prot_shut,
         prot_streams>>
  BY DEF ProtocolServers!Close
<1>4. to \in {"closing", "closed"} /\ (to = "closing" <=> prot_server[prot_user[u].gen].held = "entry")
  OBVIOUS
<1> HIDE DEF x, to
<1> QED BY <1>1, <1>2, <1>3, <1>4, TakeKeeps

LEMMA DropKeeps ==
    ASSUME ProtocolServers!ProtocolConstants, ProtocolInv, NEW u \in prot_Users,
         ProtocolServers!DropRegistration(u)
    PROVE  ProtocolInv'
<1> DEFINE x == [pc |-> "idle", gen |-> ProtocolServers!NoGen]
<1>1. x \in UserType /\ x.pc = "idle"
  BY DEF UserType
<1>2. prot_user' = [prot_user EXCEPT ![u] = x] /\ ProtocolServers!TakeServer(u, "dropped")
      /\ UNCHANGED <<prot_running, prot_next, prot_accepting, prot_queue, prot_handlers, prot_shut,
          prot_streams>>
  BY DEF ProtocolServers!DropRegistration
<1> HIDE DEF x
<1> QED BY <1>1, <1>2, TakeKeeps

\* A step that changes the record of one server, and of one user at most
OneServer(g, s) ==
    /\ g \in ProtocolServers!Gens /\ s \in ServerType
    /\ prot_server' \in [ProtocolServers!Gens -> ServerType] /\ prot_server'[g] = s
    /\ \A k \in ProtocolServers!Gens : k # g => prot_server'[k] = prot_server[k]

LEMMA ReturnKeeps ==
    ASSUME ProtocolServers!ProtocolConstants, ProtocolInv, NEW u \in prot_Users,
         ProtocolServers!CloseReturns(u)
    PROVE  ProtocolInv'
<1> DEFINE x == [prot_user[u] EXCEPT !.pc = "closed"]
<1>0. prot_user[u] \in UserType /\ prot_user \in [prot_Users -> UserType]
  BY DEF ProtocolInv, ProtocolTypes
<1>1. x \in UserType /\ x.pc = "closed" /\ x.gen = prot_user[u].gen
  BY <1>0 DEF UserType
<1>2. prot_user' = [prot_user EXCEPT ![u] = x]
      /\ UNCHANGED <<prot_running, prot_registrations, prot_next, prot_served, prot_accepting,
          prot_server, prot_queue, prot_handlers, prot_shut>>
      /\ prot_user[u].pc = "closing" /\ prot_server[prot_user[u].gen].task = "ended"
  BY <1>0 DEF ProtocolServers!CloseReturns, ProtocolServers!Joined
<1> HIDE DEF x
<1>3. prot_user'[u] = x /\ \A v \in prot_Users : v # u => prot_user'[v] = prot_user[v]
  BY <1>0, <1>2
<1>4. ProtocolTypes'
  BY <1>1, <1>2 DEF ProtocolInv, ProtocolTypes
<1>5. ServerInv' /\ MountInv'
  BY <1>2 DEF ProtocolInv, ServerInv, ServerOK, MountInv
<1>6. OwnerInv'
  BY <1>1, <1>2, <1>3 DEF ProtocolInv, OwnerInv
<1> QED BY <1>4, <1>5, <1>6 DEF ProtocolInv

LEMMA AbandonedKeeps ==
    ASSUME ProtocolServers!ProtocolConstants, ProtocolInv, NEW u \in prot_Users,
         ProtocolServers!CloseAbandoned(u)
    PROVE  ProtocolInv'
<1> DEFINE x == [pc |-> "idle", gen |-> ProtocolServers!NoGen]
           g == prot_user[u].gen
           s == [prot_server[g] EXCEPT !.held = "dropped"]
<1>0. prot_user[u] \in UserType /\ prot_user \in [prot_Users -> UserType]
         /\ prot_server \in [ProtocolServers!Gens -> ServerType]
  BY DEF ProtocolInv, ProtocolTypes
<1>1. x \in UserType /\ x.pc = "idle"
  BY DEF UserType
<1>2. g \in ProtocolServers!Gens /\ prot_server[g] \in ServerType /\ prot_server[g].held = "closer" /\ prot_server[g].task # "none" /\ prot_user[u].pc = "closing"
      /\ g < prot_next
  BY <1>0 DEF ProtocolServers!CloseAbandoned, ProtocolInv, OwnerInv
<1>3. s \in ServerType /\ s.task = prot_server[g].task /\ s.held = "dropped"
         /\ s.abort = prot_server[g].abort
  BY <1>2 DEF ServerType
<1>4. prot_user' = [prot_user EXCEPT ![u] = x] /\ prot_server' = [prot_server EXCEPT ![g] = s]
      /\ UNCHANGED <<prot_running, prot_registrations, prot_next, prot_served, prot_accepting,
          prot_queue, prot_handlers, prot_shut>>
  BY DEF ProtocolServers!CloseAbandoned
<1> HIDE DEF x, s, g
<1>5. OneServer(g, s)
  BY <1>0, <1>2, <1>3, <1>4 DEF OneServer
<1>6. prot_user'[u] = x /\ \A v \in prot_Users : v # u => prot_user'[v] = prot_user[v]
  BY <1>0, <1>4
<1>7. ProtocolTypes'
  BY <1>1, <1>4, <1>5 DEF ProtocolInv, ProtocolTypes, OneServer
<1>8. ServerInv'
  <2> SUFFICES ASSUME NEW k \in ProtocolServers!Gens PROVE ServerOK(k)'
    BY DEF ServerInv
  <2>1. CASE k # g
    BY <1>4, <1>5, <2>1 DEF ProtocolInv, ServerInv, ServerOK, OneServer
  <2>2. CASE k = g
    <3>1. prot_next \in Nat /\ g \in Nat /\ ~(g >= prot_next)
      BY <1>2 DEF ProtocolInv, ProtocolTypes, ProtocolServers!Gens, ProtocolServers!ProtocolConstants
    <3> QED BY <1>2, <1>3, <1>4, <1>5, <2>2, <3>1 DEF ProtocolInv, ServerInv, ServerOK, OneServer
  <2> QED BY <2>1, <2>2
<1>9. MountInv'
  <2>1. \A p \in prot_Protocols : prot_registrations[p] # ProtocolServers!NoGen
           => prot_registrations[p] \in ProtocolServers!Gens /\ prot_registrations[p] # g
    BY <1>2 DEF ProtocolInv, ProtocolTypes, MountInv
  <2> QED BY <1>4, <1>5, <2>1 DEF ProtocolInv, MountInv, OneServer
<1>10. OwnerInv'
  <2>1. ASSUME NEW v \in prot_Users, prot_user'[v].pc # "idle"
        PROVE  v # u /\ prot_user'[v] = prot_user[v] /\ prot_user[v].gen \in ProtocolServers!Gens
             /\ prot_server'[prot_user[v].gen] = prot_server[prot_user[v].gen]
    BY <1>1, <1>2, <1>5, <1>6, <2>1 DEF ProtocolInv, OwnerInv, OneServer, g
  <2> QED BY <1>4, <2>1 DEF ProtocolInv, OwnerInv
<1> QED BY <1>7, <1>8, <1>9, <1>10 DEF ProtocolInv

\* Servers in G are handed on: what changes of them is who holds them
Handed(G, h) ==
    /\ prot_server' \in [ProtocolServers!Gens -> ServerType] /\ G \subseteq ProtocolServers!Gens
    /\ \A g \in ProtocolServers!Gens : g \notin G => prot_server'[g] = prot_server[g]
    /\ \A g \in G : prot_server'[g].held = h /\ (prot_server'[g].abort => h = "dropped") /\ prot_server'[g].task = prot_server[g].task
                  /\ ~prot_server[g].abort

LEMMA HandedOwners ==
    ASSUME ProtocolInv, NEW G, NEW h \in {"shutdown", "dropped"}, Handed(G, h), UNCHANGED <<prot_next, prot_user>>,
           \A g \in G : prot_server[g].held \in {"entry", "shutdown"}
    PROVE  OwnerInv'
<1>1. \A u \in prot_Users : prot_user[u].pc # "idle" => prot_user[u].gen \in ProtocolServers!Gens
  BY DEF ProtocolInv, OwnerInv
<1>2. ASSUME NEW u \in prot_Users, prot_user[u].pc # "idle"
      PROVE  /\ prot_server'[prot_user[u].gen].task = prot_server[prot_user[u].gen].task
             /\ prot_server'[prot_user[u].gen].held = "closer" <=> prot_server[prot_user[u].gen].held = "closer"
  <2> DEFINE g == prot_user[u].gen
  <2>1. g \in ProtocolServers!Gens
    BY <1>1, <1>2
  <2>2. CASE g \in G
    BY <2>2 DEF Handed
  <2>3. CASE g \notin G
    BY <2>1, <2>3 DEF Handed
  <2> QED BY <2>2, <2>3
<1> QED BY <1>1, <1>2 DEF ProtocolInv, OwnerInv

LEMMA DrainKeeps ==
    ASSUME ProtocolServers!ProtocolConstants, ProtocolInv, NEW h \in {"shutdown", "dropped"}, ProtocolServers!Drain(h),
           prot_shut' \in {"waiting", "aborted"}
    PROVE  ProtocolInv'
<1> DEFINE G == ProtocolServers!Held("entry")
           s(g) == [prot_server[g] EXCEPT !.held = h, !.stop = TRUE, !.abort = h = "dropped"]
<1>0. /\ prot_server \in [ProtocolServers!Gens -> ServerType] /\ G \subseteq ProtocolServers!Gens
      /\ prot_running' = FALSE
      /\ prot_registrations' = [p \in prot_Protocols |-> ProtocolServers!NoGen] /\ prot_served' = {}
      /\ prot_server' = [g \in ProtocolServers!Gens |-> IF g \in G THEN s(g) ELSE prot_server[g]]
      /\ UNCHANGED <<prot_next, prot_accepting, prot_queue, prot_handlers, prot_user>>
      /\ \A g \in ProtocolServers!Gens : g \in G <=> prot_server[g].held = "entry"
          /\ prot_server[g].task # "none"
      /\ \A g \in G : ~prot_server[g].abort
  BY DEF ProtocolServers!Drain, ProtocolServers!Fenced, ProtocolInv, ProtocolTypes,
         ProtocolServers!Held, ServerInv, ServerOK
<1>1. ASSUME NEW g \in ProtocolServers!Gens
      PROVE  s(g) \in ServerType /\ s(g).held = h /\ (s(g).abort <=> h = "dropped")
           /\ s(g).task = prot_server[g].task
  <2>1. prot_server[g] \in ServerType
    BY <1>0
  <2> QED BY <2>1 DEF ServerType
<1> HIDE DEF G, s
<1>2. Handed(G, h)
  BY <1>0, <1>1 DEF Handed
<1>3. ProtocolTypes'
  BY <1>0, <1>2 DEF ProtocolInv, ProtocolTypes, Handed
<1>4. ServerInv'
  <2> SUFFICES ASSUME NEW k \in ProtocolServers!Gens PROVE ServerOK(k)'
    BY DEF ServerInv
  <2>1. ServerOK(k)
    BY DEF ProtocolInv, ServerInv
  <2>2. CASE k \in G
    <3>1. prot_server[k].task # "none" /\ prot_server[k] # ProtocolServers!NoServer
      BY <1>0, <2>1, <2>2, NoServerType DEF ServerOK
    <3> QED BY <1>0, <1>2, <2>1, <2>2, <3>1 DEF ServerOK, Handed
  <2>3. CASE k \notin G
    <3>1. prot_server'[k] = prot_server[k] /\ ~(prot_server[k].held = "entry"
             /\ prot_server[k].task # "none")
      BY <1>0, <1>2, <2>3 DEF Handed
    <3> QED BY <1>0, <2>1, <3>1 DEF ServerOK
  <2> QED BY <2>2, <2>3
<1>5. MountInv'
  BY <1>0 DEF MountInv, ProtocolServers!Mounted
<1>6. OwnerInv'
  BY <1>0, <1>2, HandedOwners
<1> QED BY <1>3, <1>4, <1>5, <1>6 DEF ProtocolInv

LEMMA FenceKeeps ==
    ASSUME ProtocolInv, ProtocolServers!Fence
    PROVE  ProtocolInv'
<1>0. prot_running' = FALSE /\ UNCHANGED <<prot_registrations, prot_next, prot_served, prot_accepting,
         prot_server, prot_queue, prot_handlers, prot_user, prot_shut>>
  BY DEF ProtocolServers!Fence, ProtocolServers!Fenced
<1>1. ProtocolTypes'
  BY <1>0 DEF ProtocolInv, ProtocolTypes
<1>2. ServerInv'
  BY <1>0 DEF ProtocolInv, ServerInv, ServerOK
<1>3. MountInv' /\ OwnerInv'
  BY <1>0 DEF ProtocolInv, MountInv, ProtocolServers!Mounted, OwnerInv
<1> QED BY <1>1, <1>2, <1>3 DEF ProtocolInv

LEMMA ProtocolShutdownKeeps ==
    ASSUME ProtocolServers!ProtocolConstants, ProtocolInv, ProtocolServers!ShutdownReturns
    PROVE  ProtocolInv'
<1> DEFINE G == ProtocolServers!Held("shutdown")
<1>0. /\ prot_server \in [ProtocolServers!Gens -> ServerType] /\ G \subseteq ProtocolServers!Gens
      /\ prot_shut = "waiting"
      /\ UNCHANGED <<prot_running, prot_registrations, prot_next, prot_served, prot_accepting,
          prot_queue, prot_handlers, prot_user>>
      /\ \A g \in ProtocolServers!Gens : g \in G <=> prot_server[g].held = "shutdown"
          /\ prot_server[g].task # "none"
      /\ \A g \in G : ~prot_server[g].abort
  BY DEF ProtocolServers!ShutdownReturns, ProtocolInv, ProtocolTypes, ProtocolServers!Held, ServerInv,
         ServerOK
<1>1. CASE (\A g \in G : ProtocolServers!Joined(g)) /\ prot_shut' = "ok" /\ UNCHANGED prot_server
  <2>1. ProtocolTypes'
    BY <1>0, <1>1 DEF ProtocolInv, ProtocolTypes
  <2>2. ServerInv'
    <3> SUFFICES ASSUME NEW k \in ProtocolServers!Gens PROVE ServerOK(k)'
      BY DEF ServerInv
    <3>1. prot_server[k].held = "shutdown" => prot_server[k].task = "ended"
      BY <1>0, <1>1, NoServerType DEF ProtocolServers!Joined, ProtocolInv, ServerInv, ServerOK
    <3>2. ServerOK(k)
      BY DEF ProtocolInv, ServerInv
    <3> QED BY <1>0, <1>1, <3>1, <3>2 DEF ServerOK
  <2>3. MountInv' /\ OwnerInv'
    BY <1>0, <1>1 DEF ProtocolInv, MountInv, OwnerInv
  <2> QED BY <2>1, <2>2, <2>3 DEF ProtocolInv
<1>2. ASSUME NEW j \in G, prot_shut' = "failed",
             prot_server' = [g \in ProtocolServers!Gens |-> IF g \in G
                          THEN [prot_server[g] EXCEPT !.held = "dropped",
                               !.abort = g # j] ELSE prot_server[g]]
      PROVE  ProtocolInv'
  <2> DEFINE s(g) == [prot_server[g] EXCEPT !.held = "dropped", !.abort = g # j]
  <2>1. ASSUME NEW g \in ProtocolServers!Gens
        PROVE  s(g) \in ServerType /\ s(g).held = "dropped" /\ s(g).task = prot_server[g].task
    <3>1. prot_server[g] \in ServerType
      BY <1>0
    <3> QED BY <3>1 DEF ServerType
  <2>0. prot_server' = [g \in ProtocolServers!Gens |-> IF g \in G THEN s(g) ELSE prot_server[g]]
    BY <1>2
  <2> HIDE DEF G, s
  <2>2. Handed(G, "dropped")
    BY <1>0, <2>0, <2>1 DEF Handed
  <2>3. ProtocolTypes'
    BY <1>0, <1>2, <2>2 DEF ProtocolInv, ProtocolTypes, Handed
  <2>4. ServerInv'
    <3> SUFFICES ASSUME NEW k \in ProtocolServers!Gens PROVE ServerOK(k)'
      BY DEF ServerInv
    <3>1. ServerOK(k)
      BY DEF ProtocolInv, ServerInv
    <3>2. CASE k \in G
      <4>1. prot_server[k] # ProtocolServers!NoServer /\ prot_server[k].task # "none"
        BY <1>0, <3>1, <3>2, NoServerType DEF ServerOK
      <4> QED BY <1>0, <1>2, <2>2, <3>1, <3>2, <4>1 DEF ServerOK, Handed
    <3>3. CASE k \notin G
      <4>1. prot_server'[k] = prot_server[k]
        BY <1>0, <2>2, <3>3 DEF Handed
      <4> QED BY <1>0, <1>2, <3>1, <4>1 DEF ServerOK
    <3> QED BY <3>2, <3>3
  <2>5. MountInv'
    <3>1. \A p \in prot_Protocols : prot_registrations[p] = ProtocolServers!NoGen
      BY <1>0 DEF ProtocolInv, MountInv
    <3> QED BY <1>0, <1>2, <3>1 DEF ProtocolInv, MountInv
  <2>6. OwnerInv'
    BY <1>0, <2>2, HandedOwners
  <2> QED BY <2>3, <2>4, <2>5, <2>6 DEF ProtocolInv
<1> QED BY <1>1, <1>2 DEF ProtocolServers!ShutdownReturns

LEMMA StreamKeeps ==
    ASSUME ProtocolServers!ProtocolConstants, ProtocolInv, NEW g \in ProtocolServers!Gens,
         ProtocolServers!Inbound(g) \/ ProtocolServers!Accept(g) \/ ProtocolServers!HandlerEnds(g)
    PROVE  ProtocolInv'
<1>0. /\ prot_queue \in [ProtocolServers!Gens -> 0..prot_Capacity]
      /\ prot_handlers \in [ProtocolServers!Gens -> 0..prot_Concurrency]
      /\ UNCHANGED <<prot_running, prot_registrations, prot_next, prot_served, prot_accepting,
          prot_server, prot_user, prot_shut>>
  BY DEF ProtocolServers!Inbound, ProtocolServers!Accept, ProtocolServers!HandlerEnds, ProtocolInv,
         ProtocolTypes
<1>1. prot_queue[g] \in 0..prot_Capacity /\ prot_handlers[g] \in 0..prot_Concurrency
  BY <1>0
<1>2. /\ prot_queue' \in [ProtocolServers!Gens -> 0..prot_Capacity]
      /\ prot_handlers' \in [ProtocolServers!Gens -> 0..prot_Concurrency]
      /\ \A k \in ProtocolServers!Gens : k # g => prot_queue'[k] = prot_queue[k]
          /\ prot_handlers'[k] = prot_handlers[k]
      /\ prot_server[g].task \in {"none", "ended"} => prot_queue'[g] = prot_queue[g]
      /\ prot_handlers[g] = 0 /\ prot_server[g].task # "running" => prot_handlers'[g] = 0
  <2>1. CASE ProtocolServers!Inbound(g)
    <3>1. prot_queue[g] + 1 \in 0..prot_Capacity
      BY <1>1, <2>1 DEF ProtocolServers!Inbound, ProtocolServers!ProtocolConstants
    <3>2. ~(prot_server[g].task \in {"none", "ended"})
      BY <2>1 DEF ProtocolServers!Inbound, ProtocolInv, ServerInv, ServerOK
    <3> QED BY <1>0, <2>1, <3>1, <3>2 DEF ProtocolServers!Inbound
  <2>2. CASE ProtocolServers!Accept(g)
    <3>1. prot_queue[g] - 1 \in 0..prot_Capacity /\ prot_handlers[g] + 1 \in 0..prot_Concurrency
      BY <1>1, <2>2 DEF ProtocolServers!Accept, ProtocolServers!ProtocolConstants
    <3> QED BY <1>0, <2>2, <3>1 DEF ProtocolServers!Accept
  <2>3. CASE ProtocolServers!HandlerEnds(g)
    <3>1. prot_handlers[g] - 1 \in 0..prot_Concurrency /\ prot_handlers[g] # 0
      BY <1>1, <2>3 DEF ProtocolServers!HandlerEnds, ProtocolServers!ProtocolConstants
    <3> QED BY <1>0, <2>3, <3>1 DEF ProtocolServers!HandlerEnds
  <2> QED BY <2>1, <2>2, <2>3
<1>3. ProtocolTypes'
  BY <1>0, <1>2 DEF ProtocolInv, ProtocolTypes
<1>4. ServerInv'
  <2> SUFFICES ASSUME NEW k \in ProtocolServers!Gens PROVE ServerOK(k)'
    BY DEF ServerInv
  <2>1. ServerOK(k)
    BY DEF ProtocolInv, ServerInv
  <2> QED BY <1>0, <1>2, <2>1 DEF ServerOK
<1>5. MountInv' /\ OwnerInv'
  BY <1>0 DEF ProtocolInv, MountInv, OwnerInv
<1> QED BY <1>3, <1>4, <1>5 DEF ProtocolInv

LEMMA TaskKeeps ==
    ASSUME ProtocolServers!ProtocolConstants, ProtocolInv, NEW g \in ProtocolServers!Gens,
         ProtocolServers!LoopEnds(g) \/ ProtocolServers!TaskEnds(g)
    PROVE  ProtocolInv'
<1> DEFINE to == IF ProtocolServers!LoopEnds(g) THEN "joining" ELSE "ended"
           s == [prot_server[g] EXCEPT !.task = to]
<1>0. prot_server \in [ProtocolServers!Gens -> ServerType] /\ prot_server[g] \in ServerType /\ ServerOK(g)
      /\ UNCHANGED <<prot_running, prot_registrations, prot_next, prot_served, prot_handlers,
          prot_user, prot_shut>>
  BY DEF ProtocolServers!LoopEnds, ProtocolServers!TaskEnds, ProtocolInv, ProtocolTypes, ServerInv
<1>1. to \in {"joining", "ended"}
  OBVIOUS
<1> HIDE DEF to
<1>2. s \in ServerType /\ s.task = to /\ s.held = prot_server[g].held
         /\ s.stop = prot_server[g].stop /\ s.abort = prot_server[g].abort
  BY <1>0, <1>1 DEF ServerType
<1>3. /\ prot_server' = [prot_server EXCEPT ![g] = s]
      /\ \/ to = "joining" /\ UNCHANGED <<prot_accepting, prot_queue>>
             /\ prot_server[g].task = "running" /\ ProtocolServers!Stopped(g)
         \/ /\ to = "ended"
            /\ prot_accepting' = [p \in prot_Protocols |-> IF prot_accepting[p] = g THEN ProtocolServers!NoGen ELSE prot_accepting[p]]
            /\ prot_queue' = [prot_queue EXCEPT ![g] = 0]
            /\ prot_server[g].task \in {"running", "joining"}
            /\ prot_server[g].abort \/ (prot_handlers[g] = 0 /\ prot_server[g].task = "joining")
  <2>1. CASE ProtocolServers!LoopEnds(g)
    BY <1>0, <2>1 DEF ProtocolServers!LoopEnds, to
  <2>2. CASE ~ProtocolServers!LoopEnds(g)
    BY <1>0, <2>2 DEF ProtocolServers!TaskEnds, to, ProtocolServers!Drained, ProtocolServers!MayEnd
  <2> QED BY <2>1, <2>2
<1> HIDE DEF s
<1>4. OneServer(g, s)
  BY <1>0, <1>2, <1>3 DEF OneServer
<1>5. prot_server[g].held # "entry" \/ ~prot_running
  BY <1>0, <1>3 DEF ServerOK, ProtocolServers!Stopped
<1>6. /\ prot_accepting' \in [prot_Protocols -> {ProtocolServers!NoGen} \cup ProtocolServers!Gens]
      /\ prot_queue' \in [ProtocolServers!Gens -> 0..prot_Capacity]
      /\ \A p \in prot_Protocols : prot_accepting'[p] = prot_accepting[p] \/ (prot_accepting[p] = g
          /\ prot_accepting'[p] = ProtocolServers!NoGen)
      /\ \A k \in ProtocolServers!Gens : k # g => prot_queue'[k] = prot_queue[k]
      /\ to = "ended" => prot_queue'[g] = 0 /\ \A p \in prot_Protocols : prot_accepting'[p] # g
  <2>1. g # ProtocolServers!NoGen /\ 0 \in 0..prot_Capacity
    BY DEF ProtocolServers!Gens, ProtocolServers!NoGen, ProtocolServers!ProtocolConstants
  <2>2. prot_accepting \in [prot_Protocols -> {ProtocolServers!NoGen} \cup ProtocolServers!Gens]
           /\ prot_queue \in [ProtocolServers!Gens -> 0..prot_Capacity]
    BY DEF ProtocolInv, ProtocolTypes
  <2> QED BY <1>3, <2>1, <2>2
<1>7. ProtocolTypes'
  BY <1>0, <1>4, <1>6 DEF ProtocolInv, ProtocolTypes, OneServer
<1>8. ServerInv'
  <2> SUFFICES ASSUME NEW k \in ProtocolServers!Gens PROVE ServerOK(k)'
    BY DEF ServerInv
  <2>1. ServerOK(k)
    BY DEF ProtocolInv, ServerInv
  <2>2. CASE k = g
    <3>1. prot_server[g] # ProtocolServers!NoServer
      BY <1>3, NoServerType
    <3> QED BY <1>0, <1>1, <1>2, <1>3, <1>4, <1>5, <1>6, <2>1, <2>2, <3>1 DEF ServerOK, OneServer
  <2>3. CASE k # g
    <3>1. k # ProtocolServers!NoGen
      BY DEF ProtocolServers!Gens, ProtocolServers!NoGen
    <3> QED BY <1>0, <1>4, <1>6, <2>1, <2>3, <3>1 DEF ServerOK, OneServer
  <2> QED BY <2>2, <2>3
<1>9. MountInv'
  <2> SUFFICES ASSUME NEW p \in prot_Protocols, prot_registrations[p] # ProtocolServers!NoGen
               PROVE  /\ prot_running => prot_accepting'[p] = prot_registrations[p]
                      /\ prot_server'[prot_registrations[p]].held = "entry"
                      /\ prot_server'[prot_registrations[p]].task # "none"
    BY <1>0 DEF ProtocolInv, MountInv, ProtocolServers!Mounted
  <2>1. /\ prot_registrations[p] \in ProtocolServers!Gens /\ (prot_running
            => prot_accepting[p] = prot_registrations[p])
        /\ prot_server[prot_registrations[p]].held = "entry"
        /\ prot_server[prot_registrations[p]].task # "none"
    BY DEF ProtocolInv, ProtocolTypes, MountInv
  <2>2. CASE prot_registrations[p] = g
    BY <1>1, <1>2, <1>4, <1>5, <2>1, <2>2 DEF OneServer
  <2>3. CASE prot_registrations[p] # g
    BY <1>4, <1>6, <2>1, <2>3 DEF OneServer
  <2> QED BY <2>2, <2>3
<1>10. OwnerInv'
  <2>1. ASSUME NEW v \in prot_Users, prot_user[v].pc # "idle"
        PROVE  /\ prot_user[v].gen \in ProtocolServers!Gens /\ prot_server'[prot_user[v].gen].task # "none"
               /\ prot_server'[prot_user[v].gen].held = prot_server[prot_user[v].gen].held
               /\ prot_server[prot_user[v].gen].task = "ended"
                   => prot_server'[prot_user[v].gen].task = "ended"
    <3> DEFINE k == prot_user[v].gen
    <3>1. k \in ProtocolServers!Gens /\ prot_server[k].task # "none"
      BY <2>1 DEF ProtocolInv, OwnerInv
    <3>2. CASE k = g
      BY <1>1, <1>2, <1>3, <1>4, <3>1, <3>2 DEF OneServer
    <3>3. CASE k # g
      BY <1>4, <3>1, <3>3 DEF OneServer
    <3> QED BY <3>1, <3>2, <3>3
  <2> QED BY <1>0, <2>1 DEF ProtocolInv, OwnerInv
<1> QED BY <1>7, <1>8, <1>9, <1>10 DEF ProtocolInv

LEMMA ProtocolInvariant ==
    ASSUME ProtocolServers!ProtocolConstants
    PROVE  ProtocolServers!Spec => []ProtocolInv
<1>1. ProtocolServers!Init => ProtocolInv
  BY InitProtocols
<1>2. ProtocolInv /\ [ProtocolServers!Next]_(ProtocolServers!vars) => ProtocolInv'
  <2> SUFFICES ASSUME ProtocolInv, [ProtocolServers!Next]_(ProtocolServers!vars) PROVE ProtocolInv'
    OBVIOUS
  <2>1. CASE UNCHANGED ProtocolServers!vars
    BY <2>1
       DEF ProtocolServers!vars, ProtocolInv, ProtocolTypes, ServerInv, ServerOK, MountInv, OwnerInv
  <2>2. ASSUME NEW u \in prot_Users, ProtocolServers!Register(u) \/ ProtocolServers!RegisterRefused(u) \/ ProtocolServers!Close(u) \/ ProtocolServers!DropRegistration(u)
                                \/ ProtocolServers!CloseReturns(u) \/ ProtocolServers!CloseAbandoned(u)
        PROVE  ProtocolInv'
    BY <2>2, RegisterKeeps, RefusedKeeps, ProtocolCloseKeeps, DropKeeps, ReturnKeeps, AbandonedKeeps
  <2>3. CASE ProtocolServers!Fence \/ ProtocolServers!ShutdownAll \/ ProtocolServers!AbortAll
    BY <2>3, FenceKeeps, DrainKeeps DEF ProtocolServers!ShutdownAll, ProtocolServers!AbortAll
  <2>4. CASE ProtocolServers!ShutdownReturns
    BY <2>4, ProtocolShutdownKeeps
  <2>5. ASSUME NEW g \in ProtocolServers!Gens, ProtocolServers!Inbound(g) \/ ProtocolServers!Accept(g) \/ ProtocolServers!HandlerEnds(g) \/ ProtocolServers!LoopEnds(g) \/ ProtocolServers!TaskEnds(g)
        PROVE  ProtocolInv'
    BY <2>5, StreamKeeps, TaskKeeps
  <2> QED BY <2>1, <2>2, <2>3, <2>4, <2>5 DEF ProtocolServers!Next
<1> QED BY <1>1, <1>2, PTL DEF ProtocolServers!Spec

\* Of the servers: until the fence what is advertised is served, and a joined server has no handler and no
\* stream left
LEMMA ServersCorrect ==
    ASSUME ProtocolServers!ProtocolConstants
    PROVE  ProtocolServers!Spec => [](ProtocolServers!TypeOK /\ ProtocolServers!AdvertisedIsServed
         /\ ProtocolServers!JoinedMeansQuiet)
<1>1. ProtocolInv => ProtocolServers!TypeOK /\ ProtocolServers!AdvertisedIsServed
         /\ ProtocolServers!JoinedMeansQuiet
  <2> SUFFICES ASSUME ProtocolInv PROVE ProtocolServers!TypeOK
       /\ ProtocolServers!AdvertisedIsServed /\ ProtocolServers!JoinedMeansQuiet
    OBVIOUS
  <2>1. ProtocolServers!TypeOK
    BY DEF ProtocolInv, ProtocolTypes, MountInv, ProtocolServers!Mounted, ServerType, UserType,
           ProtocolServers!TypeOK
  <2>2. ProtocolServers!AdvertisedIsServed
    <3> SUFFICES ASSUME prot_running, NEW p \in prot_served
                 PROVE  \E g \in ProtocolServers!Gens : /\ prot_accepting[p] = g /\ prot_server[g].task = "running"
                                                        /\ ~ProtocolServers!Stopped(g)
                                                        /\ ~prot_server[g].abort
      BY DEF ProtocolServers!AdvertisedIsServed
    <3>1. p \in prot_Protocols /\ prot_registrations[p] # ProtocolServers!NoGen
             /\ prot_registrations[p] \in ProtocolServers!Gens
      BY DEF ProtocolInv, ProtocolTypes, MountInv, ProtocolServers!Mounted
    <3> QED BY <3>1 DEF ProtocolInv, MountInv, ServerInv, ServerOK, ProtocolServers!Stopped
  <2>3. ProtocolServers!JoinedMeansQuiet
    <3> SUFFICES ASSUME NEW g \in ProtocolServers!Gens,
                        \/ prot_shut = "ok" /\ g \in ProtocolServers!Held("shutdown")
                        \/ prot_server[g].held = "closer"
                            /\ \E u \in prot_Users : prot_user[u] = [pc |-> "closed", gen |-> g]
                 PROVE  prot_handlers[g] = 0 /\ prot_queue[g] = 0
                      /\ \A p \in prot_Protocols : prot_accepting[p] # g
      BY DEF ProtocolServers!JoinedMeansQuiet
    <3>1. prot_server[g].task = "ended" /\ ~prot_server[g].abort
      BY DEF ProtocolInv, ServerInv, ServerOK, OwnerInv, ProtocolServers!Held
    <3> QED BY <3>1 DEF ProtocolInv, ServerInv, ServerOK
  <2> QED BY <2>1, <2>2, <2>3
<1> QED BY <1>1, ProtocolInvariant, PTL

\* Behind the fence nothing is mounted, and a drained peer shows nothing
LEMMA FenceCorrect ==
    ASSUME ProtocolServers!ProtocolConstants
    PROVE  ProtocolServers!Spec => ProtocolServers!FenceHolds
<1>1. ProtocolInv /\ ProtocolInv' /\ [ProtocolServers!Next]_(ProtocolServers!vars) =>
        [~prot_running => /\ prot_served' \subseteq prot_served /\ (prot_shut # "no" => prot_served' = {})
                          /\ \A g \in ProtocolServers!Gens : prot_server[g].task = "none"
                              => prot_server'[g].task = "none"]_(ProtocolServers!vars)
  <2> SUFFICES ASSUME ProtocolInv, ProtocolInv', ProtocolServers!Next, ~prot_running
               PROVE  /\ prot_served' \subseteq prot_served /\ (prot_shut # "no" => prot_served' = {})
                      /\ \A g \in ProtocolServers!Gens : prot_server[g].task = "none"
                          => prot_server'[g].task = "none"
    BY DEF ProtocolServers!vars
  <2>0. ~prot_running /\ prot_server \in [ProtocolServers!Gens -> ServerType]
    BY DEF ProtocolInv, ProtocolTypes
  <2>1. prot_served' \subseteq prot_served
    <3>1. ASSUME NEW u \in prot_Users, ProtocolServers!TakeServer(u, "closer") \/ ProtocolServers!TakeServer(u, "dropped")
          PROVE  prot_served' \subseteq prot_served
      BY <3>1
         DEF ProtocolServers!TakeServer, ProtocolServers!Unmounted, ProtocolServers!Mounted,
             ProtocolInv, MountInv
    <3>2. ASSUME NEW u \in prot_Users, ProtocolServers!Close(u)
             \/ ProtocolServers!DropRegistration(u) PROVE prot_served' \subseteq prot_served
      BY <3>1, <3>2 DEF ProtocolServers!Close, ProtocolServers!DropRegistration
    <3> QED BY <3>2
               DEF ProtocolServers!Next, ProtocolServers!Register, ProtocolServers!MayRegister,
                   ProtocolServers!RegisterRefused, ProtocolServers!CloseReturns,
                   ProtocolServers!CloseAbandoned, ProtocolServers!Fence,
              ProtocolServers!ShutdownAll, ProtocolServers!AbortAll, ProtocolServers!Drain,
                   ProtocolServers!ShutdownReturns, ProtocolServers!Inbound, ProtocolServers!Accept,
                   ProtocolServers!HandlerEnds, ProtocolServers!LoopEnds, ProtocolServers!TaskEnds
  <2>2. prot_shut # "no" => prot_served' = {}
    <3>1. prot_shut # "no" => prot_served = {}
      BY DEF ProtocolInv, MountInv, ProtocolServers!Mounted
    <3> QED BY <2>1, <3>1
  <2>3. ASSUME NEW g \in ProtocolServers!Gens, prot_server[g].task = "none"
           PROVE prot_server'[g].task = "none"
    <3>0. prot_server[g] = ProtocolServers!NoServer /\ prot_server[g] \in ServerType
      BY <2>0, <2>3 DEF ProtocolInv, ServerInv, ServerOK
    <3>1. ASSUME NEW u \in prot_Users, ProtocolServers!Register(u) \/ ProtocolServers!RegisterRefused(u) \/ ProtocolServers!CloseReturns(u)
          PROVE  prot_server'[g].task = "none"
      BY <2>0, <2>3, <3>1
         DEF ProtocolServers!Register, ProtocolServers!MayRegister, ProtocolServers!RegisterRefused,
             ProtocolServers!CloseReturns
    <3>2. ASSUME NEW u \in prot_Users, ProtocolServers!Close(u) \/ ProtocolServers!DropRegistration(u) \/ ProtocolServers!CloseAbandoned(u)
          PROVE  prot_server'[g].task = "none"
      <4>1. prot_user[u].gen # g /\ prot_user[u].gen \in ProtocolServers!Gens
        BY <2>3, <3>2
           DEF ProtocolServers!Close, ProtocolServers!DropRegistration, ProtocolServers!CloseAbandoned,
               ProtocolServers!TakeServer, ProtocolInv, OwnerInv
      <4> QED BY <2>0, <2>3, <3>2, <4>1
                 DEF ProtocolServers!Close, ProtocolServers!DropRegistration,
                     ProtocolServers!CloseAbandoned, ProtocolServers!TakeServer
    <3>3. CASE ProtocolServers!Fence \/ ProtocolServers!ShutdownAll \/ ProtocolServers!AbortAll
      BY <2>3, <3>3
         DEF ProtocolServers!Fence, ProtocolServers!ShutdownAll, ProtocolServers!AbortAll,
             ProtocolServers!Drain, ProtocolServers!Held
    <3>4. CASE ProtocolServers!ShutdownReturns
      BY <2>3, <3>4 DEF ProtocolServers!ShutdownReturns, ProtocolServers!Held
    <3>5. ASSUME NEW k \in ProtocolServers!Gens, ProtocolServers!Inbound(k)
             \/ ProtocolServers!Accept(k) \/ ProtocolServers!HandlerEnds(k) PROVE prot_server'[g].task = "none"
      BY <2>3, <3>5 DEF ProtocolServers!Inbound, ProtocolServers!Accept, ProtocolServers!HandlerEnds
    <3>6. ASSUME NEW k \in ProtocolServers!Gens, ProtocolServers!LoopEnds(k)
             \/ ProtocolServers!TaskEnds(k) PROVE prot_server'[g].task = "none"
      <4>1. k # g
        BY <2>3, <3>0, <3>6, NoServerType
           DEF ProtocolServers!LoopEnds, ProtocolServers!TaskEnds, ProtocolServers!MayEnd
      <4> QED BY <2>0, <2>3, <3>6, <4>1 DEF ProtocolServers!LoopEnds, ProtocolServers!TaskEnds
    <3> QED BY <3>1, <3>2, <3>3, <3>4, <3>5, <3>6 DEF ProtocolServers!Next
  <2> QED BY <2>1, <2>2, <2>3
<1> QED BY <1>1, ProtocolInvariant, PTL DEF ProtocolServers!Spec, ProtocolServers!FenceHolds

-----------------------------------------------------------------------------
(* The advertisement of a peer (discovery.rs), for any values and attempts. *)

AdTaskType ==
    [pc : {"off", "publish0", "sleep0", "comp", "idle", "publish", "sleep", "withdraw", "final", "ended"},
     attempt : 1..adv_Attempts, value : adv_Values \cup {Advertiser!Nothing}, stale : BOOLEAN]

\* publish_with_retry sleeps between attempts, not after the last
AdvertiserInv ==
    /\ adv_kind \in {"native", "browser"} /\ adv_local \in adv_Values \cup {Advertiser!Nothing}
    /\ adv_ad \in adv_Values \cup {Advertiser!Nothing}
    /\ adv_late \subseteq adv_Values \cup {Advertiser!Nothing}
    /\ adv_task \in AdTaskType
    /\ adv_owner \in {"idle", "starting", "running", "failed", "gone"}
    /\ adv_task.pc \in {"sleep0", "sleep"} => adv_task.attempt < adv_Attempts

\* The outcomes of a request
LEMMA ReachesTyped ==
    ASSUME adv_ad \in adv_Values \cup {Advertiser!Nothing}, adv_late \subseteq adv_Values \cup {Advertiser!Nothing},
           NEW v \in adv_Values \cup {Advertiser!Nothing},
                \E o \in Advertiser!Outcomes(v) : Advertiser!Reaches(o)
    PROVE  adv_ad' \in adv_Values \cup {Advertiser!Nothing}
         /\ adv_late' \subseteq adv_Values \cup {Advertiser!Nothing}
BY DEF Advertiser!Outcomes, Advertiser!Reaches

\* The next place after a publication
LEMMA AfterPublishPlaces ==
    ASSUME NEW ok \in BOOLEAN
    PROVE  Advertiser!AfterPublish(ok) \in {"final", "idle", "comp"}
BY DEF Advertiser!AfterPublish

LEMMA AdPublishKeeps ==
    ASSUME Advertiser!AdvertiserConstants, AdvertiserInv, Advertiser!Publish
    PROVE  AdvertiserInv'
<1>1. PICK o \in Advertiser!Outcomes(adv_task.value) :
          /\ Advertiser!Reaches(o)
          /\ adv_task' = IF o.result = "retry" /\ adv_task.attempt < adv_Attempts
                       THEN Advertiser!Going(IF Advertiser!At("publish0") THEN "sleep0" ELSE "sleep")
                       ELSE [Advertiser!Going(Advertiser!AfterPublish(o.result = "ok")) EXCEPT !.stale = o.result # "ok"]
          /\ adv_owner' = IF Advertiser!InStart /\ adv_task'.pc = "idle"
              /\ adv_owner = "starting" THEN "running" ELSE adv_owner
  BY DEF Advertiser!Publish
<1>2. adv_task \in AdTaskType /\ adv_task.value \in adv_Values \cup {Advertiser!Nothing}
  BY DEF AdvertiserInv, AdTaskType
<1>3. adv_ad' \in adv_Values \cup {Advertiser!Nothing}
         /\ adv_late' \subseteq adv_Values \cup {Advertiser!Nothing}
  BY <1>1, <1>2, ReachesTyped DEF AdvertiserInv
<1>4. adv_owner' \in {"idle", "starting", "running", "failed", "gone"}
  BY <1>1 DEF AdvertiserInv
<1>5. adv_task' \in AdTaskType /\ (adv_task'.pc \in {"sleep0", "sleep"}
         => adv_task'.attempt < adv_Attempts)
  <2>1. CASE o.result = "retry" /\ adv_task.attempt < adv_Attempts
    BY <1>1, <1>2, <2>1 DEF AdTaskType, Advertiser!Going
  <2>2. CASE ~(o.result = "retry" /\ adv_task.attempt < adv_Attempts)
    <3> DEFINE pc == Advertiser!AfterPublish(o.result = "ok")
               st == o.result # "ok"
    <3>1. pc \in {"final", "idle", "comp"} /\ st \in BOOLEAN
      BY AfterPublishPlaces
    <3>2. adv_task' = [[adv_task EXCEPT !.pc = pc] EXCEPT !.stale = st]
      BY <1>1, <2>2 DEF Advertiser!Going
    <3> HIDE DEF pc, st
    <3> QED BY <1>2, <3>1, <3>2 DEF AdTaskType
  <2> QED BY <2>1, <2>2
<1> QED BY <1>3, <1>4, <1>5 DEF AdvertiserInv, Advertiser!Publish, Advertiser!peerVars

LEMMA AdSleepKeeps ==
    ASSUME Advertiser!AdvertiserConstants, AdvertiserInv, Advertiser!Sleep
    PROVE  AdvertiserInv'
<1>1. adv_task \in AdTaskType /\ adv_task.attempt < adv_Attempts
         /\ adv_task.attempt + 1 \in 1..adv_Attempts
  BY DEF AdvertiserInv, Advertiser!Sleep, AdTaskType, Advertiser!AdvertiserConstants
<1>2. \/ \E pc \in {"publish0",
          "publish"} : adv_task' = [[adv_task EXCEPT !.pc = pc] EXCEPT !.attempt = adv_task.attempt + 1]
      \/ \E pc \in {"comp", "final"} : adv_task' = [adv_task EXCEPT !.pc = pc]
  <2>1. ASSUME NEW pc PROVE [Advertiser!Going(pc) EXCEPT !.attempt = @ + 1] = [[adv_task EXCEPT !.pc = pc] EXCEPT !.attempt = adv_task.attempt + 1]
    BY <1>1 DEF Advertiser!Going, AdTaskType
  <2> QED BY <2>1 DEF Advertiser!Sleep, Advertiser!Going
<1>3. adv_task' \in AdTaskType /\ adv_task'.pc \notin {"sleep0", "sleep"}
  BY <1>1, <1>2 DEF AdTaskType
<1> QED BY <1>3 DEF AdvertiserInv, Advertiser!Sleep, Advertiser!peerVars

LEMMA AdRestKeeps ==
    ASSUME Advertiser!AdvertiserConstants, AdvertiserInv,
           \/ Advertiser!Compensate \/ Advertiser!StartCancelled \/ Advertiser!LoopStops
               \/ Advertiser!Withdraw \/ Advertiser!Final
    PROVE  AdvertiserInv'
<1>1. adv_task \in AdTaskType
  BY DEF AdvertiserInv
<1>2. \E pc \in {"ended", "final", "idle"} : adv_task' = [adv_task EXCEPT !.pc = pc]
  BY DEF Advertiser!Compensate, Advertiser!StartCancelled, Advertiser!LoopStops, Advertiser!Withdraw,
         Advertiser!Final, Advertiser!Going
<1>3. adv_task' \in AdTaskType /\ adv_task'.pc \notin {"sleep0", "sleep"}
  BY <1>1, <1>2 DEF AdTaskType
<1>4. \/ UNCHANGED <<adv_ad, adv_late>>
      \/ \E o \in Advertiser!Outcomes(Advertiser!Nothing) : Advertiser!Reaches(o)
  BY DEF Advertiser!Compensate, Advertiser!StartCancelled, Advertiser!LoopStops, Advertiser!Withdraw,
         Advertiser!Final
<1>5. adv_ad' \in adv_Values \cup {Advertiser!Nothing}
         /\ adv_late' \subseteq adv_Values \cup {Advertiser!Nothing}
  BY <1>4, ReachesTyped DEF AdvertiserInv
<1>6. UNCHANGED <<adv_kind, adv_local>> /\ adv_owner' \in {adv_owner, "failed"}
  BY DEF Advertiser!Compensate, Advertiser!StartCancelled, Advertiser!LoopStops, Advertiser!Withdraw,
         Advertiser!Final, Advertiser!peerVars
<1> QED BY <1>3, <1>5, <1>6 DEF AdvertiserInv

LEMMA AdLoopKeeps ==
    ASSUME Advertiser!AdvertiserConstants, AdvertiserInv, Advertiser!LoopPublishes
    PROVE  AdvertiserInv'
<1>1. adv_task \in AdTaskType /\ adv_local \in adv_Values \cup {Advertiser!Nothing}
         /\ 1 \in 1..adv_Attempts
  BY DEF AdvertiserInv, Advertiser!AdvertiserConstants
<1>2. \E pc \in {"withdraw", "publish"} :
        adv_task' = [[adv_task EXCEPT !.pc = pc] EXCEPT !.attempt = 1, !.value = adv_local]
  BY DEF Advertiser!LoopPublishes, Advertiser!Going
<1>3. adv_task' \in AdTaskType /\ adv_task'.pc \notin {"sleep0", "sleep"}
  BY <1>1, <1>2 DEF AdTaskType
<1> QED BY <1>3 DEF AdvertiserInv, Advertiser!LoopPublishes

LEMMA AdPeerKeeps ==
    ASSUME Advertiser!AdvertiserConstants, AdvertiserInv,
           \/ Advertiser!Start \/ Advertiser!LocalChanges \/ Advertiser!AuthorityEnds
               \/ Advertiser!Cancel \/ Advertiser!OwnerGone \/ Advertiser!LateRequest \/ Advertiser!LeaseEnds
           \/ Advertiser!LoopSkips
    PROVE  AdvertiserInv'
<1>1. adv_task \in AdTaskType /\ adv_local \in adv_Values \cup {Advertiser!Nothing}
  BY DEF AdvertiserInv
<1>2. \/ UNCHANGED adv_task
      \/ adv_task' = [adv_task EXCEPT !.pc = "publish0", !.value = adv_local]
      \/ adv_task' = [adv_task EXCEPT !.pc = "ended"]
  BY DEF Advertiser!Start, Advertiser!LocalChanges, Advertiser!AuthorityEnds, Advertiser!Cancel,
         Advertiser!OwnerGone, Advertiser!LateRequest, Advertiser!LeaseEnds, Advertiser!DropStart,
         Advertiser!Going,
         Advertiser!LoopSkips
<1>3. adv_task' \in AdTaskType /\ (adv_task'.pc \in {"sleep0", "sleep"}
         => adv_task'.attempt < adv_Attempts)
  BY <1>1, <1>2 DEF AdTaskType, AdvertiserInv
<1>4. /\ adv_ad' \in adv_Values \cup {Advertiser!Nothing}
      /\ adv_late' \subseteq adv_Values \cup {Advertiser!Nothing}
      /\ adv_kind' = adv_kind /\ adv_local' \in adv_Values \cup {Advertiser!Nothing}
      /\ adv_owner' \in {"idle", "starting", "running", "failed", "gone"}
  <2>1. Advertiser!InFlight \subseteq adv_Values \cup {Advertiser!Nothing}
    BY <1>1 DEF Advertiser!InFlight, AdTaskType
  <2> QED BY <2>1
             DEF AdvertiserInv, Advertiser!Start, Advertiser!LocalChanges, Advertiser!AuthorityEnds,
                 Advertiser!Cancel, Advertiser!OwnerGone, Advertiser!DropStart,
                      Advertiser!LateRequest, Advertiser!LeaseEnds, Advertiser!LoopSkips,
                           Advertiser!peerVars
<1> QED BY <1>3, <1>4 DEF AdvertiserInv

\* Every step of the peer, the tracker and the task keeps the invariant.
LEMMA AdvertiserStep ==
    ASSUME Advertiser!AdvertiserConstants, AdvertiserInv, [Advertiser!Next]_(Advertiser!vars)
    PROVE  AdvertiserInv'
<1>1. CASE UNCHANGED Advertiser!vars
  BY <1>1 DEF Advertiser!vars, AdvertiserInv
<1> QED BY <1>1, AdPublishKeeps, AdSleepKeeps, AdRestKeeps, AdLoopKeeps, AdPeerKeeps
           DEF Advertiser!Next, Advertiser!TaskStep

\* The advertiser keeps its types: no attempt beyond the last is counted.
LEMMA AdvertiserTyped ==
    ASSUME Advertiser!AdvertiserConstants
    PROVE  Advertiser!Spec => []Advertiser!TypeOK
<1>1. Advertiser!Init => AdvertiserInv
  BY DEF Advertiser!Init, AdvertiserInv, AdTaskType, Advertiser!AdvertiserConstants
<1>2. AdvertiserInv => Advertiser!TypeOK
  BY DEF AdvertiserInv, Advertiser!TypeOK, AdTaskType
<1> QED BY <1>1, <1>2, AdvertiserStep, PTL DEF Advertiser!Spec

-----------------------------------------------------------------------------
(* The runtime of a peer (peer_runtime.rs): its start, the undoing of a     *)
(* start that fails, its monitor and its shutdown, for any waiters.        *)

\* What is left of a shutdown, and of the undoing of a start
Left0 == <<>>
Left1 == <<"node">>
Left2 == <<"authority", "node">>
Left3 == <<"protocols", "authority", "node">>
Left4 == <<"lifecycle", "protocols", "authority", "node">>
Left5 == <<"relay", "lifecycle", "protocols", "authority", "node">>
Left6 == <<"publisher", "relay", "lifecycle", "protocols", "authority", "node">>
Left7 == <<"monitor", "publisher", "relay", "lifecycle", "protocols", "authority", "node">>
Undo2 == <<"lifecycle", "node">>
Undo3 == <<"authority", "lifecycle", "node">>
Undo4 == <<"relay", "authority", "lifecycle", "node">>

LEMMA HeadsAndTails ==
    /\ Head(Left1) = "node" /\ Tail(Left1) = Left0
    /\ Head(Left2) = "authority" /\ Tail(Left2) = Left1
    /\ Head(Left3) = "protocols" /\ Tail(Left3) = Left2
    /\ Head(Left4) = "lifecycle" /\ Tail(Left4) = Left3
    /\ Head(Left5) = "relay" /\ Tail(Left5) = Left4
    /\ Head(Left6) = "publisher" /\ Tail(Left6) = Left5
    /\ Head(Left7) = "monitor" /\ Tail(Left7) = Left6
    /\ Head(Undo2) = "lifecycle" /\ Tail(Undo2) = Left1
    /\ Head(Undo3) = "authority" /\ Tail(Undo3) = Undo2
    /\ Head(Undo4) = "relay" /\ Tail(Undo4) = Undo3
  BY DEF Left0, Left1, Left2, Left3, Left4, Left5, Left6, Left7, Undo2, Undo3, Undo4

LEMMA TodosDiffer ==
    /\ Left0 \notin {Left1, Left2, Left3, Left4, Left5, Left6, Left7, Undo2, Undo3, Undo4}
    /\ Left1 \notin {Left2, Left3, Left4, Left5, Left6, Left7, Undo2, Undo3, Undo4}
    /\ Left2 \notin {Left3, Left4, Left5, Left6, Left7, Undo3, Undo4}
    /\ Left3 \notin {Left4, Left5, Left6, Left7}
    /\ Left4 \notin {Left5, Left6, Left7}
    /\ Left5 \notin {Left6, Left7}
    /\ Left6 # Left7
    /\ Undo2 \notin {Undo3, Undo4} /\ Undo3 # Undo4
  BY DEF Left0, Left1, Left2, Left3, Left4, Left5, Left6, Left7, Undo2, Undo3, Undo4

LEMMA TerminalStatuses ==
    /\ ~PeerRuntime!IsTerminal(<<"none">>) /\ ~PeerRuntime!IsTerminal(<<"ready">>)
    /\ ~PeerRuntime!IsTerminal(<<"authorityUnavailable">>)
    /\ ~PeerRuntime!IsTerminal(<<"relayUnavailable">>) /\ PeerRuntime!IsTerminal(<<"stopping">>)
    /\ PeerRuntime!IsTerminal(<<"stopped">>)
    /\ ~PeerRuntime!IsFinal(<<"stopping">>)
        /\ \A k \in PeerRuntime!Kinds : PeerRuntime!IsTerminal(PeerRuntime!Failed(k))
        /\ PeerRuntime!IsFinal(PeerRuntime!Failed(k))
    /\ PeerRuntime!IsFinal(<<"stopped">>)
    /\ \A k \in PeerRuntime!Kinds : PeerRuntime!Failed(k) # <<"stopped">>
        /\ <<"stopped">> # PeerRuntime!NoExit
    /\ \A s : PeerRuntime!IsFinal(s) => PeerRuntime!IsTerminal(s) /\ s # PeerRuntime!NoExit
  BY DEF PeerRuntime!IsTerminal, PeerRuntime!IsFinal, PeerRuntime!Failed, PeerRuntime!NoExit

PeerTypes ==
    /\ PeerRuntime!TypeOK /\ peer_todo \in {Left0, Left1, Left2, Left3, Left4, Left5, Left6, Left7,
        Undo2, Undo3, Undo4}
    /\ peer_monitor \in [pc : {"none", "check", "wait", "fenced", "done"},
        verdict : PeerRuntime!Statuses \cup {PeerRuntime!NoExit}]
    /\ peer_shuttingDown \in BOOLEAN /\ peer_stopMonitor \in BOOLEAN
    /\ peer_exit \in [peer_Waiters -> PeerRuntime!Statuses \cup {PeerRuntime!NoExit}]

Starting == {"node", "listen", "authority", "relay", "ready", "discovery"}

\* What a start has built at each of its steps, and what its undoing has left to take down
StartInv ==
    /\ peer_phase \in Starting \cup {"undo", "failed", "abandoned"} =>
          /\ peer_publisher = "none" /\ peer_monitor.pc = "none" /\ ~peer_shuttingDown
          /\ ~PeerRuntime!IsTerminal(peer_status)
          /\ \A w \in peer_Waiters : peer_exit[w] = PeerRuntime!NoExit
    /\ peer_phase \notin {"abandoned", "dropped"} => peer_node # "closing" /\ peer_relay # "closing"
    /\ peer_phase \in Starting \cup {"live"} => peer_failures = {}
    /\ peer_phase = "node" => peer_node = "none"
    /\ peer_phase \in {"node", "listen", "authority"} => peer_authority = "none"
    /\ peer_phase \in {"node", "listen", "authority", "relay"} => peer_relay = "none"
    /\ peer_phase = "undo" =>
          /\ peer_todo \in {Left0, Left1, Left2, Undo2, Undo3, Undo4}
          /\ peer_todo = Left0 => peer_node \in {"none", "down"}
          /\ peer_todo \in {Left0, Left1, Undo2} => peer_authority \in {"none", "ended"}
          /\ peer_todo # Undo4 => peer_relay \in {"none", "down"}
    /\ PeerRuntime!FailedStartLeavesNothing

\* What each stage of a shutdown leaves behind it
ShutdownInv ==
    /\ peer_phase = "shutdown" =>
          /\ peer_todo \in {Left0, Left1, Left2, Left3, Left4, Left5, Left6, Left7}
          /\ peer_todo # Left7 => peer_monitor.pc = "done"
          /\ peer_todo \notin {Left7, Left6} => peer_publisher \in {"none", "down"}
          /\ peer_todo \notin {Left7, Left6, Left5} => peer_relay \in {"none", "down"}
              /\ (peer_failures = {} => ~peer_booking)
          /\ peer_todo \in {Left3, Left2, Left1, Left0} => ~peer_confirmed
          /\ peer_todo \in {Left2, Left1, Left0} => peer_protocols = "joined"
          /\ peer_todo \in {Left1, Left0} => peer_authority = "ended"
          /\ peer_todo = Left0 => peer_node = "down"
    /\ peer_phase = "closed" =>
          /\ peer_node = "down" /\ peer_authority = "ended" /\ peer_relay \in {"none", "down"}
          /\ ~peer_confirmed
          /\ peer_protocols = "joined" /\ peer_publisher \in {"none", "down"}
          /\ peer_monitor.pc = "done"
          /\ peer_failures = {} => ~peer_booking
    /\ peer_status = <<"stopped">> => peer_phase = "closed" /\ peer_failures = {}
    /\ \A w \in peer_Waiters : peer_exit[w] = <<"stopped">> => peer_phase = "closed"
        /\ peer_failures = {}

\* The end is published behind the fence, and by one who leaves the status alone afterwards
EndInv ==
    /\ peer_phase \in {"shutdown", "closed", "dropped"} => peer_shuttingDown
    /\ peer_shuttingDown => ~peer_running /\ PeerRuntime!IsTerminal(peer_status)
        /\ peer_phase \in {"shutdown", "closed", "dropped"}
    /\ peer_monitor.pc = "fenced" => ~peer_running /\ PeerRuntime!IsTerminal(peer_monitor.verdict)
         /\ peer_monitor.verdict \in {PeerRuntime!Failed(k) : k \in PeerRuntime!Kinds}
    /\ peer_monitor.pc \in {"check", "wait"} /\ ~peer_shuttingDown
        => ~PeerRuntime!IsTerminal(peer_status)
    /\ PeerRuntime!EndIsFenced

PeerInv == PeerTypes /\ StartInv /\ ShutdownInv /\ EndInv

LEMMA ObservedStatus ==
    /\ PeerRuntime!Observed \in PeerRuntime!Statuses
    /\ PeerRuntime!IsTerminal(PeerRuntime!Observed)
        => PeerRuntime!Observed \in {PeerRuntime!Failed(k) : k \in PeerRuntime!Kinds}
    /\ PeerRuntime!StartupReady => ~PeerRuntime!IsTerminal(PeerRuntime!Observed)
<1>1. \/ \E k \in PeerRuntime!Kinds : PeerRuntime!Observed = PeerRuntime!Failed(k)
          /\ ~PeerRuntime!StartupReady
      \/ PeerRuntime!Observed \in {<<"authorityUnavailable">>, <<"relayUnavailable">>, <<"ready">>}
  BY DEF PeerRuntime!Observed, PeerRuntime!Kinds, PeerRuntime!NodeDead, PeerRuntime!RelayFailed,
         PeerRuntime!StartupReady, PeerRuntime!StartupRefused
<1>2. CASE \E k \in PeerRuntime!Kinds : PeerRuntime!Observed = PeerRuntime!Failed(k)
         /\ ~PeerRuntime!StartupReady
  BY <1>2 DEF PeerRuntime!Statuses
<1>3. CASE PeerRuntime!Observed \in {<<"authorityUnavailable">>, <<"relayUnavailable">>, <<"ready">>}
  BY <1>3, TerminalStatuses DEF PeerRuntime!Statuses
<1> QED BY <1>1, <1>2, <1>3

LEMMA InitPeer ==
    ASSUME PeerRuntime!Init
    PROVE  PeerInv
<1>1. PeerTypes
  <2>1. peer_todo = Left0 /\ peer_exit \in [peer_Waiters -> PeerRuntime!Statuses \cup {PeerRuntime!NoExit}] /\ \A w \in peer_Waiters : peer_exit[w] = PeerRuntime!NoExit
    BY DEF PeerRuntime!Init, Left0
  <2>2. peer_monitor \in [pc : {"none", "check", "wait", "fenced", "done"},
           verdict : PeerRuntime!Statuses \cup {PeerRuntime!NoExit}]
    BY DEF PeerRuntime!Init
  <2> QED BY <2>1, <2>2 DEF PeerRuntime!Init, PeerTypes, PeerRuntime!TypeOK
<1>2. StartInv
  BY TerminalStatuses DEF PeerRuntime!Init, StartInv, PeerRuntime!FailedStartLeavesNothing
<1>3. ShutdownInv
  BY TerminalStatuses DEF PeerRuntime!Init, ShutdownInv, PeerRuntime!NoExit
<1>4. EndInv
  BY TerminalStatuses DEF PeerRuntime!Init, EndInv, PeerRuntime!EndIsFenced
<1> QED BY <1>1, <1>2, <1>3, <1>4 DEF PeerInv

LEMMA SignalsKeepPeer ==
    ASSUME PeerInv, PeerRuntime!Signals
    PROVE  PeerInv'
<1>0. /\ UNCHANGED <<peer_config, peer_phase, peer_todo, peer_booking, peer_publisher, peer_running, peer_protocols, peer_status,
                     peer_shuttingDown, peer_monitor, peer_stopMonitor, peer_failures, peer_exit>>
      /\ \/ peer_node = "up" /\ peer_node' = "dead"
             /\ UNCHANGED <<peer_authority, peer_relay, peer_confirmed>>
         \/ /\ peer_authority \in {"ready", "expired"}
                /\ peer_authority' \in {"ready", "expired", "refused", "stopped"}
            /\ UNCHANGED <<peer_node, peer_relay, peer_confirmed>>
         \/ peer_relay = "up" /\ peer_confirmed' = ~peer_confirmed
             /\ UNCHANGED <<peer_node, peer_authority, peer_relay>>
         \/ peer_relay = "up" /\ peer_relay' = "failed"
             /\ UNCHANGED <<peer_node, peer_authority, peer_confirmed>>
         \/ UNCHANGED <<peer_node, peer_authority, peer_relay, peer_confirmed>>
  BY DEF PeerRuntime!Signals, PeerRuntime!NodeFails, PeerRuntime!AuthorityChanges,
         PeerRuntime!RoutesChange, PeerRuntime!RelayFails, PeerRuntime!SignalCloses, PeerRuntime!Change
<1>1. PeerTypes'
  <2>1. peer_confirmed' \in BOOLEAN
    BY <1>0 DEF PeerInv, PeerTypes, PeerRuntime!TypeOK
  <2>2. peer_node' \in {"none", "up", "dead", "closing", "down"}
        /\ peer_authority' \in {"none", "ready", "expired", "refused", "stopped", "ended"}
        /\ peer_relay' \in {"none", "up", "failed", "closing", "down"}
    BY <1>0 DEF PeerInv, PeerTypes, PeerRuntime!TypeOK
  <2> QED BY <1>0, <2>1, <2>2 DEF PeerInv, PeerTypes, PeerRuntime!TypeOK
<1>2. StartInv'
  BY <1>0 DEF PeerInv, StartInv, PeerRuntime!FailedStartLeavesNothing
<1>3. ShutdownInv'
  <2>1. peer_confirmed' = peer_confirmed \/ peer_relay = "up"
    BY <1>0
  <2>2. peer_relay' = peer_relay \/ peer_relay = "up"
    BY <1>0
  <2>3. peer_node' = peer_node \/ peer_node = "up"
    BY <1>0
  <2>4. peer_authority' = peer_authority \/ peer_authority \in {"ready", "expired"}
    BY <1>0
  <2>5. UNCHANGED <<peer_phase, peer_todo, peer_booking, peer_publisher, peer_protocols, peer_status,
           peer_monitor, peer_failures, peer_exit>>
    BY <1>0
  <2> QED BY TodosDiffer, <2>1, <2>2, <2>3, <2>4, <2>5 DEF PeerInv, ShutdownInv
<1>4. EndInv'
  BY <1>0 DEF PeerInv, EndInv, PeerRuntime!EndIsFenced
<1> QED BY <1>1, <1>2, <1>3, <1>4 DEF PeerInv

LEMMA StartFailsKeeps ==
    ASSUME PeerInv, peer_phase \in Starting, PeerRuntime!StartFails
    PROVE  PeerInv'
<1>0. /\ peer_phase' = "undo"
      /\ UNCHANGED <<peer_config, PeerRuntime!parts, peer_status, peer_shuttingDown, peer_monitor,
          peer_stopMonitor, peer_failures, peer_exit>>
      /\ \/ peer_phase \in {"ready", "discovery"} /\ peer_todo' = Undo4
         \/ peer_phase = "relay" /\ peer_todo' = Left2
         \/ peer_phase \in {"listen", "authority"} /\ peer_todo' = Left1
         \/ peer_phase = "node" /\ peer_todo' = Left0
  BY DEF PeerRuntime!StartFails, PeerRuntime!UndoOf, Starting, Undo4, Left2, Left1, Left0
<1>1. PeerTypes'
  BY <1>0 DEF PeerInv, PeerTypes, PeerRuntime!TypeOK, PeerRuntime!parts
<1>2. StartInv'
  <2>1. CASE peer_phase \in {"ready", "discovery"} /\ peer_todo' = Undo4
    <3>1. peer_todo' \notin {Left0, Left1, Undo2}
      BY <2>1, TodosDiffer
    <3> QED BY <1>0, <2>1, <3>1
               DEF PeerInv, StartInv, PeerRuntime!parts, PeerRuntime!FailedStartLeavesNothing, Starting
  <2>2. CASE peer_phase = "relay" /\ peer_todo' = Left2
    <3>1. peer_todo' \notin {Left0, Left1}
      BY <2>2, TodosDiffer
    <3>2. peer_todo' # Undo2
      BY <2>2 DEF Left2, Undo2
    <3> QED BY <1>0, <2>2, <3>1, <3>2
               DEF PeerInv, StartInv, PeerRuntime!parts, PeerRuntime!FailedStartLeavesNothing, Starting
  <2>3. CASE peer_phase \in {"listen", "authority"} /\ peer_todo' = Left1
    BY <1>0, <2>3, TodosDiffer
       DEF PeerInv, StartInv, PeerRuntime!parts, PeerRuntime!FailedStartLeavesNothing, Starting
  <2>4. CASE peer_phase = "node" /\ peer_todo' = Left0
    BY <1>0, <2>4, TodosDiffer
       DEF PeerInv, StartInv, PeerRuntime!parts, PeerRuntime!FailedStartLeavesNothing, Starting
  <2> QED BY <1>0, <2>1, <2>2, <2>3, <2>4
<1>3. ShutdownInv'
  BY <1>0 DEF PeerInv, ShutdownInv, PeerRuntime!parts, Starting
<1>4. EndInv'
  BY <1>0 DEF PeerInv, EndInv, PeerRuntime!EndIsFenced, PeerRuntime!parts, Starting
<1> QED BY <1>1, <1>2, <1>3, <1>4 DEF PeerInv

\* The steps of a start that succeed
StartStep ==
    /\ UNCHANGED <<peer_config, peer_todo, peer_running, peer_protocols, peer_shuttingDown,
        peer_stopMonitor, peer_failures, peer_exit>>
    /\ \/ /\ peer_phase = "node" /\ peer_phase' = "listen" /\ peer_node' = "up"
          /\ UNCHANGED <<peer_authority, peer_relay, peer_booking, peer_confirmed, peer_publisher,
              peer_monitor, peer_status>>
       \/ /\ peer_phase = "listen" /\ peer_phase' = "authority"
          /\ UNCHANGED <<peer_node, peer_authority, peer_relay, peer_booking, peer_confirmed,
              peer_publisher, peer_monitor, peer_status>>
       \/ /\ peer_phase = "authority" /\ peer_phase' = "relay" /\ peer_authority' = "ready"
          /\ UNCHANGED <<peer_node, peer_relay, peer_booking, peer_confirmed, peer_publisher,
              peer_monitor, peer_status>>
       \/ /\ peer_phase = "relay" /\ peer_phase' = "ready" /\ peer_relay' \in {peer_relay, "up"}
              /\ peer_booking' \in {peer_booking, TRUE}
          /\ UNCHANGED <<peer_node, peer_authority, peer_confirmed, peer_publisher, peer_monitor,
              peer_status>>
       \/ /\ peer_phase = "ready" /\ peer_phase' = "discovery"
              /\ peer_status' = PeerRuntime!Observed /\ ~PeerRuntime!IsTerminal(PeerRuntime!Observed)
          /\ UNCHANGED <<peer_node, peer_authority, peer_relay, peer_booking, peer_confirmed,
              peer_publisher, peer_monitor>>
       \/ /\ peer_phase = "discovery" /\ peer_phase' = "live" /\ peer_publisher' \in {"none", "up"}
          /\ peer_monitor' = [peer_monitor EXCEPT !.pc = "check"]
          /\ UNCHANGED <<peer_node, peer_authority, peer_relay, peer_booking, peer_confirmed,
              peer_status>>

LEMMA StartSteps ==
    ASSUME PeerRuntime!StartNode \/ PeerRuntime!Listen \/ PeerRuntime!StartAuthority
         \/ PeerRuntime!StartRelay \/ PeerRuntime!BecomesReady \/ PeerRuntime!GoLive
    PROVE  StartStep
  BY ObservedStatus
     DEF PeerRuntime!StartNode, PeerRuntime!Listen, PeerRuntime!StartAuthority, PeerRuntime!StartRelay,
         PeerRuntime!BecomesReady, PeerRuntime!GoLive, StartStep, PeerRuntime!startRest,
         PeerRuntime!parts

LEMMA StartStepKeeps ==
    ASSUME PeerInv, StartStep
    PROVE  PeerInv'
<1>1. PeerTypes'
  <2>1. peer_monitor' \in [pc : {"none", "check", "wait", "fenced", "done"},
           verdict : PeerRuntime!Statuses \cup {PeerRuntime!NoExit}]
    BY DEF StartStep, PeerInv, PeerTypes
  <2>2. peer_relay' \in {"none", "up", "failed", "closing", "down"} /\ peer_booking' \in BOOLEAN
        /\ peer_publisher' \in {"none", "up", "canceled", "down"}
    BY DEF StartStep, PeerInv, PeerTypes, PeerRuntime!TypeOK
  <2>3. peer_node' \in {"none", "up", "dead", "closing", "down"}
        /\ peer_authority' \in {"none", "ready", "expired", "refused", "stopped", "ended"}
        /\ peer_phase' \in {"listen", "authority", "relay", "ready", "discovery", "live"}
    BY DEF StartStep, PeerInv, PeerTypes, PeerRuntime!TypeOK
  <2>4. peer_status' \in PeerRuntime!Statuses \cup {<<"none">>}
    BY ObservedStatus DEF StartStep, PeerInv, PeerTypes, PeerRuntime!TypeOK
  <2>5. UNCHANGED <<peer_todo, peer_running, peer_protocols, peer_shuttingDown, peer_stopMonitor,
           peer_exit, peer_confirmed>>
    BY DEF StartStep
  <2> QED BY <2>1, <2>2, <2>3, <2>4, <2>5 DEF PeerInv, PeerTypes, PeerRuntime!TypeOK
<1>2. StartInv'
  BY DEF StartStep, PeerInv, PeerTypes, PeerRuntime!TypeOK, StartInv,
         PeerRuntime!FailedStartLeavesNothing, Starting
<1>3. ShutdownInv'
  BY TerminalStatuses DEF StartStep, PeerInv, ShutdownInv
<1>4. EndInv'
  <2>1. peer_monitor'.pc \in {peer_monitor.pc, "check"} /\ (peer_monitor'.pc # peer_monitor.pc => peer_phase = "discovery" /\ peer_phase' = "live" /\ peer_status' = peer_status)
        /\ peer_monitor'.verdict = peer_monitor.verdict
    BY DEF StartStep, PeerInv, PeerTypes
  <2>2. peer_phase \in Starting /\ peer_phase' \in Starting \cup {"live"}
        /\ UNCHANGED <<peer_running, peer_shuttingDown, peer_exit>>
        /\ ~PeerRuntime!IsTerminal(peer_status')
    BY DEF StartStep, Starting, PeerInv, StartInv
  <2> QED BY <2>1, <2>2 DEF PeerInv, StartInv, EndInv, PeerRuntime!EndIsFenced, Starting
<1> QED BY <1>1, <1>2, <1>3, <1>4 DEF PeerInv

LEMMA DropStartKeeps ==
    ASSUME PeerInv, PeerRuntime!DropStart
    PROVE  PeerInv'
<1>0. /\ peer_phase \in Starting \cup {"undo"} /\ peer_phase' = "abandoned" /\ peer_todo' = Left0
      /\ peer_node' \in {"none", "down", "closing"} /\ peer_authority' \in {"none", "ended"}
      /\ peer_relay' \in {"none", "down", "closing"} /\ peer_confirmed' = FALSE
      /\ UNCHANGED <<peer_config, peer_booking, peer_publisher, peer_running, peer_protocols, peer_status, peer_shuttingDown,
                     peer_monitor, peer_stopMonitor, peer_failures, peer_exit>>
  BY DEF PeerRuntime!DropStart, PeerRuntime!Ended, PeerRuntime!Leaving, Starting, Left0
<1>1. PeerTypes'
  <2>1. peer_confirmed' \in BOOLEAN
    BY <1>0
  <2> QED BY <1>0, <2>1 DEF PeerInv, PeerTypes, PeerRuntime!TypeOK
<1>2. StartInv'
  BY <1>0 DEF PeerInv, StartInv, PeerRuntime!FailedStartLeavesNothing, Starting
<1>3. ShutdownInv'
  BY <1>0 DEF PeerInv, ShutdownInv, Starting
<1>4. EndInv'
  BY <1>0 DEF PeerInv, EndInv, PeerRuntime!EndIsFenced, Starting
<1> QED BY <1>1, <1>2, <1>3, <1>4 DEF PeerInv

LEMMA StartupKeepsPeer ==
    ASSUME PeerInv, PeerRuntime!Startup
    PROVE  PeerInv'
<1>1. CASE PeerRuntime!StartStepFails \/ PeerRuntime!RelayStartFails \/ PeerRuntime!StartupIsRefused
  BY <1>1, StartFailsKeeps
     DEF PeerRuntime!StartStepFails, PeerRuntime!RelayStartFails, PeerRuntime!StartupIsRefused, Starting
<1> QED BY <1>1, StartSteps, StartStepKeeps, DropStartKeeps DEF PeerRuntime!Startup

\* All that the monitor does: it looks, it waits, it fences, it publishes behind the fence
MonitorStep ==
    /\ UNCHANGED <<peer_config, peer_phase, peer_todo, peer_node, peer_authority, peer_relay, peer_booking, peer_confirmed,
                   peer_shuttingDown, peer_stopMonitor, peer_failures, peer_exit>>
    /\ peer_monitor' \in [pc : {"check", "wait", "fenced", "done"},
        verdict : PeerRuntime!Statuses \cup {PeerRuntime!NoExit}]
    /\ peer_monitor.pc \in {"check", "wait", "fenced"}
    /\ \/ /\ peer_monitor'.pc \in {"check", "wait"} /\ peer_monitor.pc \in {"check", "wait"}
          /\ peer_status' = peer_status \/ (~peer_shuttingDown
              /\ peer_status' \in PeerRuntime!Statuses /\ ~PeerRuntime!IsTerminal(peer_status'))
          /\ UNCHANGED <<peer_publisher, peer_running, peer_protocols>>
       \/ /\ peer_monitor'.pc = "done" /\ peer_monitor.pc = "wait" /\ peer_stopMonitor
          /\ UNCHANGED <<peer_publisher, peer_running, peer_protocols, peer_status>>
       \/ /\ peer_monitor'.pc = "done" /\ peer_monitor.pc = "fenced"
          /\ peer_status' = peer_status \/ (~peer_shuttingDown /\ peer_status' = peer_monitor.verdict)
          /\ UNCHANGED <<peer_publisher, peer_running, peer_protocols>>
       \/ /\ peer_monitor'.pc = "fenced"
              /\ peer_monitor'.verdict \in {PeerRuntime!Failed(k) : k \in PeerRuntime!Kinds}
          /\ peer_running' = FALSE /\ peer_protocols' = "aborted" /\ UNCHANGED peer_status
          /\ peer_publisher' = IF peer_publisher = "up" THEN "canceled" ELSE peer_publisher

LEMMA MonitorSteps ==
    ASSUME PeerInv, PeerRuntime!Monitoring
    PROVE  MonitorStep
<1>0. peer_monitor \in [pc : {"none", "check", "wait", "fenced", "done"}, verdict : PeerRuntime!Statuses \cup {PeerRuntime!NoExit}]
      /\ PeerRuntime!Observed \in PeerRuntime!Statuses
  BY ObservedStatus DEF PeerInv, PeerTypes
<1>1. CASE PeerRuntime!MonitorLooks
  <2>1. peer_monitor' \in [pc : {"check", "wait", "fenced", "done"}, verdict : PeerRuntime!Statuses \cup {PeerRuntime!NoExit}]
        /\ peer_monitor'.pc = "wait"
    BY <1>0, <1>1 DEF PeerRuntime!MonitorLooks
  <2> QED BY <1>0, <1>1, <2>1
             DEF PeerRuntime!MonitorLooks, MonitorStep, PeerRuntime!monitorRest, PeerRuntime!Update
<1>2. CASE PeerRuntime!MonitorFences
  <2>1. peer_monitor' \in [pc : {"check", "wait", "fenced", "done"}, verdict : PeerRuntime!Statuses \cup {PeerRuntime!NoExit}]
        /\ peer_monitor'.pc = "fenced" /\ peer_monitor'.verdict = PeerRuntime!Observed
    BY <1>0, <1>2 DEF PeerRuntime!MonitorFences, PeerRuntime!Fence
  <2> QED BY <1>0, <1>2, <2>1, ObservedStatus
             DEF PeerRuntime!MonitorFences, MonitorStep, PeerRuntime!monitorRest, PeerRuntime!Fence,
                 PeerRuntime!AbortAll
<1>3. CASE PeerRuntime!MonitorPublishes
  <2>1. peer_monitor' \in [pc : {"check", "wait", "fenced", "done"}, verdict : PeerRuntime!Statuses \cup {PeerRuntime!NoExit}]
        /\ peer_monitor'.pc = "done"
    BY <1>0, <1>3 DEF PeerRuntime!MonitorPublishes
  <2> QED BY <1>0, <1>3, <2>1
             DEF PeerRuntime!MonitorPublishes, MonitorStep, PeerRuntime!monitorRest, PeerRuntime!Update
<1>4. CASE PeerRuntime!MonitorStops
  <2>1. peer_monitor' \in [pc : {"check", "wait", "fenced", "done"}, verdict : PeerRuntime!Statuses \cup {PeerRuntime!NoExit}]
        /\ peer_monitor'.pc = "done"
    BY <1>0, <1>4 DEF PeerRuntime!MonitorStops
  <2> QED BY <1>0, <1>4, <2>1 DEF PeerRuntime!MonitorStops, MonitorStep, PeerRuntime!monitorRest
<1>5. CASE PeerRuntime!MonitorWakes
  <2>1. peer_monitor' \in [pc : {"check", "wait", "fenced", "done"}, verdict : PeerRuntime!Statuses \cup {PeerRuntime!NoExit}]
        /\ peer_monitor'.pc = "check"
    BY <1>0, <1>5 DEF PeerRuntime!MonitorWakes
  <2> QED BY <1>0, <1>5, <2>1 DEF PeerRuntime!MonitorWakes, MonitorStep, PeerRuntime!monitorRest
<1>6. CASE PeerRuntime!MonitorIsOrphaned
  <2>0. PeerRuntime!Failed("supervisor") \in PeerRuntime!Statuses
           /\ PeerRuntime!Failed("supervisor") \in {PeerRuntime!Failed(k) : k \in PeerRuntime!Kinds}
    BY DEF PeerRuntime!Statuses, PeerRuntime!Kinds
  <2>1. peer_monitor' \in [pc : {"check", "wait", "fenced", "done"}, verdict : PeerRuntime!Statuses \cup {PeerRuntime!NoExit}]
        /\ peer_monitor'.pc = "fenced" /\ peer_monitor'.verdict = PeerRuntime!Failed("supervisor")
    BY <2>0, <1>6 DEF PeerRuntime!MonitorIsOrphaned, PeerRuntime!Fence
  <2> QED BY <1>0, <1>6, <2>0, <2>1
             DEF PeerRuntime!MonitorIsOrphaned, MonitorStep, PeerRuntime!monitorRest,
                 PeerRuntime!Fence, PeerRuntime!AbortAll
<1> QED BY <1>1, <1>2, <1>3, <1>4, <1>5, <1>6 DEF PeerRuntime!Monitoring

LEMMA MonitoringKeepsPeer ==
    ASSUME PeerInv, PeerRuntime!Monitoring
    PROVE  PeerInv'
<1>0. MonitorStep
  BY MonitorSteps
<1>1. /\ peer_monitor.pc \notin {"none", "done"}
      /\ UNCHANGED <<peer_config, peer_phase, peer_todo, peer_node, peer_authority, peer_relay, peer_booking, peer_confirmed,
                     peer_shuttingDown, peer_stopMonitor, peer_failures, peer_exit>>
  BY <1>0 DEF MonitorStep
<1>2. peer_status' = peer_status \/ (~peer_shuttingDown /\ peer_status' \in PeerRuntime!Statuses
         /\ peer_status' # <<"stopped">>)
  BY <1>0, TerminalStatuses DEF MonitorStep, PeerInv, EndInv, PeerRuntime!Statuses
<1>3. peer_running' \in {peer_running, FALSE} /\ peer_publisher' \in {peer_publisher, "canceled"}
         /\ peer_protocols' \in {peer_protocols, "aborted"}
  BY <1>0 DEF MonitorStep
<1>4. PeerTypes'
  <2>1. peer_monitor' \in [pc : {"none", "check", "wait", "fenced", "done"},
           verdict : PeerRuntime!Statuses \cup {PeerRuntime!NoExit}]
    BY <1>0 DEF MonitorStep
  <2>2. peer_running' \in BOOLEAN
    BY <1>3 DEF PeerInv, PeerTypes, PeerRuntime!TypeOK
  <2>3. peer_publisher' \in {"none", "up", "canceled", "down"} /\ peer_protocols' \in {"serving", "aborted", "joined"}
        /\ peer_status' \in PeerRuntime!Statuses \cup {<<"none">>}
    BY <1>2, <1>3 DEF PeerInv, PeerTypes, PeerRuntime!TypeOK
  <2> QED BY <1>1, <2>1, <2>2, <2>3 DEF PeerInv, PeerTypes, PeerRuntime!TypeOK
<1>5. StartInv'
  BY <1>1 DEF PeerInv, StartInv, PeerRuntime!FailedStartLeavesNothing
<1>6. ShutdownInv'
  <2>1. peer_phase \notin {"closed"} /\ (peer_phase = "shutdown" => peer_todo = Left7)
    BY <1>1 DEF PeerInv, ShutdownInv
  <2> QED BY <1>1, <1>2, <2>1, TodosDiffer DEF PeerInv, ShutdownInv
<1>7. EndInv'
  <2>1. CASE peer_monitor'.pc \in {"check", "wait"}
    BY <1>0, <1>1, <2>1 DEF MonitorStep, PeerInv, EndInv, PeerRuntime!EndIsFenced
  <2>2. CASE peer_monitor'.pc = "done"
    BY <1>0, <1>1, <2>2 DEF MonitorStep, PeerInv, EndInv, PeerRuntime!EndIsFenced
  <2>3. CASE peer_monitor'.pc = "fenced"
    BY <1>0, <1>1, <2>3, TerminalStatuses DEF MonitorStep, PeerInv, EndInv, PeerRuntime!EndIsFenced
  <2> QED BY <1>0, <2>1, <2>2, <2>3 DEF MonitorStep
<1> QED BY <1>4, <1>5, <1>6, <1>7 DEF PeerInv

LEMMA PeerShutdownKeeps ==
    ASSUME PeerInv, PeerRuntime!Shutdown
    PROVE  PeerInv'
<1>0. /\ peer_phase = "live" /\ peer_phase' = "shutdown" /\ peer_todo' = Left7 /\ peer_running' = FALSE
      /\ peer_shuttingDown' = TRUE
          /\ peer_status' = (IF peer_shuttingDown THEN peer_status ELSE <<"stopping">>)
      /\ peer_stopMonitor' = TRUE
          /\ peer_publisher' = (IF peer_publisher = "up" THEN "canceled" ELSE peer_publisher)
      /\ UNCHANGED <<peer_config, peer_node, peer_authority, peer_relay, peer_booking, peer_confirmed, peer_protocols, peer_monitor,
                     peer_failures, peer_exit>>
  BY DEF PeerRuntime!Shutdown, PeerRuntime!Live, PeerRuntime!BeginShutdown, Left7
<1>1. peer_status' = <<"stopping">> /\ <<"stopping">> \in PeerRuntime!Statuses
         /\ <<"stopping">> # <<"stopped">>
  BY <1>0 DEF PeerInv, EndInv, PeerRuntime!Statuses
<1>2. PeerTypes'
  <2>1. peer_running' \in BOOLEAN /\ peer_shuttingDown' \in BOOLEAN /\ peer_stopMonitor' \in BOOLEAN
        /\ peer_publisher' \in {"none", "up", "canceled", "down"}
    BY <1>0 DEF PeerInv, PeerTypes, PeerRuntime!TypeOK
  <2> QED BY <1>0, <1>1, <2>1 DEF PeerInv, PeerTypes, PeerRuntime!TypeOK
<1>3. StartInv'
  BY <1>0 DEF PeerInv, StartInv, PeerRuntime!FailedStartLeavesNothing, Starting
<1>4. ShutdownInv'
  BY <1>0, <1>1, TodosDiffer DEF PeerInv, ShutdownInv
<1>5. EndInv'
  BY <1>0, <1>1, TerminalStatuses DEF PeerInv, EndInv, PeerRuntime!EndIsFenced
<1> QED BY <1>2, <1>3, <1>4, <1>5 DEF PeerInv

LEMMA RunStageKeeps ==
    ASSUME PeerInv, PeerRuntime!RunStage
    PROVE  PeerInv'
<1>0. PICK ok \in BOOLEAN : PeerRuntime!Stage(Head(peer_todo), ok)
  BY DEF PeerRuntime!RunStage
<1>1. /\ peer_phase \in {"shutdown", "undo"} /\ peer_todo # Left0 /\ peer_todo' = Tail(peer_todo)
      /\ UNCHANGED <<peer_config, peer_phase, peer_running, peer_status, peer_shuttingDown,
          peer_monitor, peer_stopMonitor, peer_exit>>
  BY DEF PeerRuntime!RunStage, Left0
<1>2. PeerTypes'
  <2>1. peer_todo' \in {Left0, Left1, Left2, Left3, Left4, Left5, Left6, Left7, Undo2, Undo3, Undo4}
    BY <1>1, HeadsAndTails DEF PeerInv, PeerTypes
  <2>2. peer_booking' \in BOOLEAN /\ peer_confirmed' \in BOOLEAN
    BY <1>0 DEF PeerRuntime!Stage
  <2>3. /\ peer_publisher' \in {"none", "up", "canceled", "down"}
        /\ peer_relay' \in {"none", "up", "failed", "closing", "down"}
        /\ peer_protocols' \in {"serving", "aborted", "joined"}
        /\ peer_authority' \in {"none", "ready", "expired", "refused", "stopped", "ended"}
        /\ peer_node' \in {"none", "up", "dead", "closing", "down"}
    BY <1>0 DEF PeerRuntime!Stage, PeerRuntime!Ended, PeerInv, PeerTypes, PeerRuntime!TypeOK
  <2> QED BY <1>1, <2>1, <2>2, <2>3 DEF PeerInv, PeerTypes, PeerRuntime!TypeOK
<1>3. StartInv'
  <2>1. CASE peer_phase = "undo"
    <3>1. peer_publisher' = "none" /\ peer_node' \in {peer_node, "down"}
             /\ peer_authority' \in {peer_authority, "ended"} /\ peer_relay' \in {peer_relay,
             PeerRuntime!Ended(peer_relay, "down")}
      BY <1>0, <2>1 DEF PeerRuntime!Stage, PeerRuntime!Ended, PeerInv, StartInv
    <3>2. peer_todo \in {Left1, Left2, Undo2, Undo3, Undo4}
      BY <1>1, <2>1 DEF PeerInv, StartInv
    <3>3. peer_todo' \in {Left0, Left1, Left2, Undo2, Undo3}
      BY <1>1, <3>2, HeadsAndTails
    <3>4. peer_todo' = Left0 => peer_node' = "down"
      <4>1. peer_todo # Left1 => peer_todo' \in {Left1, Left2, Undo2, Undo3}
        BY <1>1, <3>2, HeadsAndTails
      <4>2. peer_todo' = Left0 => peer_todo = Left1
        BY <4>1, TodosDiffer
      <4> QED BY <1>0, <4>2, HeadsAndTails DEF PeerRuntime!Stage
    <3>5. peer_todo' \in {Left0, Left1, Undo2} => peer_authority' \in {"none", "ended"}
      <4>1. peer_todo \in {Left2, Undo3} => Head(peer_todo) = "authority"
        BY HeadsAndTails
      <4> QED BY <1>0, <3>1, <3>2, <4>1, <1>1, <2>1, HeadsAndTails, TodosDiffer
                 DEF PeerRuntime!Stage, PeerInv, StartInv
    <3>6. peer_relay' \in {"none", "down"}
      <4>1. CASE peer_todo = Undo4
        BY <1>0, <4>1, HeadsAndTails DEF PeerRuntime!Stage, PeerRuntime!Ended
      <4>2. CASE peer_todo # Undo4
        <5>1. peer_relay \in {"none", "down"}
          BY <2>1, <4>2 DEF PeerInv, StartInv
        <5> QED BY <3>1, <5>1 DEF PeerRuntime!Ended
      <4> QED BY <4>1, <4>2
    <3> QED BY <1>1, <2>1, <3>1, <3>3, <3>4, <3>5, <3>6
               DEF PeerInv, StartInv, PeerRuntime!FailedStartLeavesNothing, Starting
  <2>2. CASE peer_phase = "shutdown"
    <3>1. peer_node' \in {peer_node, "down"} /\ peer_relay' \in {peer_relay, "none", "down"}
      BY <1>0 DEF PeerRuntime!Stage, PeerRuntime!Ended
    <3> QED BY <1>1, <2>2, <3>1 DEF PeerInv, StartInv, PeerRuntime!FailedStartLeavesNothing, Starting
  <2> QED BY <1>1, <2>1, <2>2
<1>4. ShutdownInv'
  <2>1. CASE peer_phase = "undo"
    BY <1>1, <2>1 DEF PeerInv, ShutdownInv
  <2>2. CASE peer_phase = "shutdown"
    <3>0. peer_todo \in {Left1, Left2, Left3, Left4, Left5, Left6, Left7}
      BY <1>1, <2>2 DEF PeerInv, ShutdownInv
    <3>1. CASE peer_todo = Left7
      <4>1. peer_todo' = Left6 /\ peer_monitor.pc = "done"
        BY <1>0, <1>1, <3>1, HeadsAndTails DEF PeerRuntime!Stage
      <4> QED BY <1>1, <2>2, <4>1, TodosDiffer DEF PeerInv, ShutdownInv
    <3>2. CASE peer_todo = Left6
      <4>1. peer_todo' = Left5 /\ peer_publisher' \in {"none", "down"} /\ peer_monitor.pc = "done"
        BY <1>0, <1>1, <2>2, <3>2, HeadsAndTails, TodosDiffer
           DEF PeerRuntime!Stage, PeerRuntime!Ended, PeerInv, ShutdownInv
      <4> QED BY <1>1, <2>2, <4>1, TodosDiffer DEF PeerInv, ShutdownInv
    <3>3. CASE peer_todo = Left5
      <4>1. peer_todo' = Left4 /\ peer_relay' \in {"none", "down"}
               /\ peer_publisher' = peer_publisher /\ (peer_failures' = {} => ~peer_booking')
        BY <1>0, <1>1, <3>3, HeadsAndTails
           DEF PeerRuntime!Stage, PeerRuntime!Ended, PeerRuntime!FailureOf
      <4>2. peer_monitor.pc = "done" /\ peer_publisher \in {"none", "down"}
        BY <2>2, <3>3, TodosDiffer DEF PeerInv, ShutdownInv
      <4> QED BY <1>1, <2>2, <4>1, <4>2, TodosDiffer DEF PeerInv, ShutdownInv
    <3>4. CASE peer_todo \in {Left1, Left2, Left3, Left4}
      <4>1. peer_monitor.pc = "done" /\ peer_publisher \in {"none", "down"}
               /\ peer_relay \in {"none", "down"} /\ (peer_failures = {} => ~peer_booking)
        BY <2>2, <3>4, TodosDiffer DEF PeerInv, ShutdownInv
      <4>2. Head(peer_todo) \notin {"monitor", "publisher", "relay"}
               /\ peer_todo' \in {Left0, Left1, Left2, Left3}
        BY <1>1, <3>4, HeadsAndTails
      <4>3. peer_monitor'.pc = "done" /\ peer_publisher' = peer_publisher
               /\ peer_relay' = peer_relay /\ (peer_failures' = {} => ~peer_booking')
        BY <1>0, <1>1, <4>1, <4>2 DEF PeerRuntime!Stage
      <4>4. ~peer_confirmed'
        <5>1. CASE peer_todo = Left4
          BY <1>0, <5>1, HeadsAndTails DEF PeerRuntime!Stage
        <5>2. CASE peer_todo # Left4
          BY <1>0, <2>2, <3>4, <5>2 DEF PeerRuntime!Stage, PeerInv, ShutdownInv
        <5> QED BY <5>1, <5>2
      <4>5. peer_todo' \in {Left2, Left1, Left0} => peer_protocols' = "joined"
        <5>1. peer_todo' \in {Left2, Left1, Left0} => peer_todo \in {Left3, Left2, Left1}
          BY <1>1, <3>4, HeadsAndTails, TodosDiffer
        <5>2. CASE peer_todo = Left3
          BY <1>0, <5>2, HeadsAndTails DEF PeerRuntime!Stage
        <5>3. CASE peer_todo \in {Left2, Left1}
          BY <1>0, <2>2, <5>3 DEF PeerRuntime!Stage, PeerInv, ShutdownInv
        <5> QED BY <5>1, <5>2, <5>3
      <4>6. peer_todo' \in {Left1, Left0} => peer_authority' = "ended"
        <5>1. peer_todo' \in {Left1, Left0} => peer_todo \in {Left2, Left1}
          BY <1>1, <3>4, HeadsAndTails, TodosDiffer
        <5>2. CASE peer_todo = Left2
          BY <1>0, <5>2, HeadsAndTails DEF PeerRuntime!Stage
        <5>3. CASE peer_todo = Left1
          BY <1>0, <2>2, <5>3 DEF PeerRuntime!Stage, PeerInv, ShutdownInv
        <5> QED BY <5>1, <5>2, <5>3
      <4>7. peer_todo' = Left0 => peer_node' = "down"
        <5>1. peer_todo # Left1 => peer_todo' \in {Left1, Left2, Left3}
          BY <1>1, <3>4, HeadsAndTails
        <5>2. peer_todo' = Left0 => peer_todo = Left1
          BY <5>1, TodosDiffer
        <5> QED BY <1>0, <5>2, HeadsAndTails DEF PeerRuntime!Stage
      <4> QED BY <1>1, <2>2, <4>1, <4>2, <4>3, <4>4, <4>5, <4>6, <4>7 DEF PeerInv, ShutdownInv
    <3> QED BY <3>0, <3>1, <3>2, <3>3, <3>4
  <2> QED BY <1>1, <2>1, <2>2
<1>5. EndInv'
  BY <1>1 DEF PeerInv, EndInv, PeerRuntime!EndIsFenced
<1> QED BY <1>2, <1>3, <1>4, <1>5 DEF PeerInv

LEMMA StartReturnsErrorKeeps ==
    ASSUME PeerInv, PeerRuntime!StartReturnsError
    PROVE  PeerInv'
<1>0. /\ peer_phase = "undo" /\ peer_todo = Left0 /\ peer_phase' = "failed"
      /\ UNCHANGED <<peer_config, peer_todo, PeerRuntime!parts, peer_status, peer_shuttingDown,
          peer_monitor, peer_stopMonitor, peer_failures, peer_exit>>
  BY DEF PeerRuntime!StartReturnsError, Left0
<1>1. PeerTypes'
  BY <1>0 DEF PeerInv, PeerTypes, PeerRuntime!TypeOK, PeerRuntime!parts
<1>2. StartInv'
  <2>1. peer_node \in {"none", "down"} /\ peer_authority \in {"none", "ended"}
           /\ peer_relay \in {"none", "down"}
    BY <1>0, TodosDiffer DEF PeerInv, StartInv
  <2> QED BY <1>0, <2>1
             DEF PeerInv, StartInv, PeerRuntime!FailedStartLeavesNothing, Starting, PeerRuntime!parts
<1>3. ShutdownInv'
  BY <1>0 DEF PeerInv, ShutdownInv, PeerRuntime!parts
<1>4. EndInv'
  BY <1>0 DEF PeerInv, EndInv, PeerRuntime!EndIsFenced, PeerRuntime!parts
<1> QED BY <1>1, <1>2, <1>3, <1>4 DEF PeerInv

LEMMA FinishShutdownKeeps ==
    ASSUME PeerInv, PeerRuntime!FinishShutdown
    PROVE  PeerInv'
<1>0. /\ peer_phase = "shutdown" /\ peer_todo = Left0 /\ peer_phase' = "closed"
      /\ peer_shuttingDown' = TRUE
      /\ peer_status' = IF peer_failures = {} THEN <<"stopped">> ELSE PeerRuntime!Failed("cleanup")
      /\ UNCHANGED <<peer_config, peer_todo, PeerRuntime!parts, peer_monitor, peer_stopMonitor,
          peer_failures, peer_exit>>
  BY DEF PeerRuntime!FinishShutdown, Left0
<1>1. peer_status' \in PeerRuntime!Statuses /\ PeerRuntime!IsTerminal(peer_status')
         /\ (peer_status' = <<"stopped">> => peer_failures = {})
  BY <1>0, TerminalStatuses DEF PeerRuntime!Statuses, PeerRuntime!Kinds
<1>2. PeerTypes'
  <2>1. peer_shuttingDown' \in BOOLEAN
    BY <1>0
  <2> QED BY <1>0, <1>1, <2>1 DEF PeerInv, PeerTypes, PeerRuntime!TypeOK, PeerRuntime!parts
<1>3. StartInv'
  BY <1>0 DEF PeerInv, StartInv, PeerRuntime!FailedStartLeavesNothing, Starting, PeerRuntime!parts
<1>4. ShutdownInv'
  <2>1. peer_todo \notin {Left7, Left6, Left5}
    BY <1>0, TodosDiffer
  <2> QED BY <1>0, <1>1, <2>1 DEF PeerInv, ShutdownInv, PeerRuntime!parts
<1>5. EndInv'
  BY <1>0, <1>1 DEF PeerInv, EndInv, PeerRuntime!EndIsFenced, PeerRuntime!parts
<1> QED BY <1>2, <1>3, <1>4, <1>5 DEF PeerInv

LEMMA DropPeerKeeps ==
    ASSUME PeerInv, PeerRuntime!DropPeer
    PROVE  PeerInv'
<1>0. /\ peer_phase \in {"live", "shutdown"} /\ peer_phase' = "dropped" /\ peer_todo' = Left0
      /\ peer_running' = FALSE
      /\ peer_shuttingDown' = TRUE
          /\ peer_status' = (IF peer_shuttingDown THEN peer_status ELSE <<"stopping">>)
      /\ peer_stopMonitor' = TRUE /\ peer_publisher' \in {"none", "down"}
      /\ peer_relay' \in {"none", "down", "closing"} /\ peer_confirmed' = FALSE
      /\ peer_authority' = "ended" /\ peer_protocols' \in {"joined", "aborted"}
      /\ peer_node' \in {"none", "down", "closing"}
      /\ UNCHANGED <<peer_config, peer_booking, peer_monitor, peer_failures, peer_exit>>
  BY DEF PeerRuntime!DropPeer, PeerRuntime!BeginShutdown, PeerRuntime!Ended, PeerRuntime!Leaving, Left0
<1>1. peer_status' \in PeerRuntime!Statuses /\ PeerRuntime!IsTerminal(peer_status')
         /\ peer_status' # <<"stopped">>
  BY <1>0, TerminalStatuses
     DEF PeerRuntime!Statuses, PeerInv, PeerTypes, PeerRuntime!TypeOK, EndInv, ShutdownInv
<1>2. PeerTypes'
  <2>1. peer_shuttingDown' \in BOOLEAN /\ peer_running' \in BOOLEAN
           /\ peer_stopMonitor' \in BOOLEAN /\ peer_confirmed' \in BOOLEAN
    BY <1>0
  <2> QED BY <1>0, <1>1, <2>1 DEF PeerInv, PeerTypes, PeerRuntime!TypeOK
<1>3. StartInv'
  BY <1>0 DEF StartInv, PeerRuntime!FailedStartLeavesNothing, Starting
<1>4. ShutdownInv'
  BY <1>0, <1>1 DEF PeerInv, ShutdownInv
<1>5. EndInv'
  BY <1>0, <1>1 DEF PeerInv, EndInv, PeerRuntime!EndIsFenced
<1> QED BY <1>2, <1>3, <1>4, <1>5 DEF PeerInv

LEMMA RelayGoneKeeps ==
    ASSUME PeerInv, PeerRuntime!RelayGone
    PROVE  PeerInv'
<1> USE DEF PeerRuntime!RelayGone
<1>1. PeerTypes'
  BY DEF PeerInv, PeerTypes, PeerRuntime!TypeOK
<1>2. StartInv'
  BY DEF PeerInv, StartInv, PeerRuntime!FailedStartLeavesNothing
<1>3. ShutdownInv'
  BY DEF PeerInv, ShutdownInv
<1>4. EndInv'
  BY DEF PeerInv, EndInv, PeerRuntime!EndIsFenced
<1> QED BY <1>1, <1>2, <1>3, <1>4 DEF PeerInv

LEMMA NodeGoneKeeps ==
    ASSUME PeerInv, PeerRuntime!NodeGone
    PROVE  PeerInv'
<1> USE DEF PeerRuntime!NodeGone
<1>1. PeerTypes'
  BY DEF PeerInv, PeerTypes, PeerRuntime!TypeOK
<1>2. StartInv'
  BY DEF PeerInv, StartInv, PeerRuntime!FailedStartLeavesNothing
<1>3. ShutdownInv'
  BY DEF PeerInv, ShutdownInv
<1>4. EndInv'
  BY DEF PeerInv, EndInv, PeerRuntime!EndIsFenced
<1> QED BY <1>1, <1>2, <1>3, <1>4 DEF PeerInv

LEMMA WaiterReturnsKeeps ==
    ASSUME PeerInv, NEW w \in peer_Waiters, PeerRuntime!WaiterReturns(w)
    PROVE  PeerInv'
<1>0. /\ UNCHANGED <<peer_config, peer_phase, peer_todo, PeerRuntime!parts, peer_status,
          peer_shuttingDown, peer_monitor, peer_stopMonitor, peer_failures>>
      /\ \/ PeerRuntime!IsFinal(peer_status) /\ peer_exit' = [peer_exit EXCEPT ![w] = peer_status]
         \/ peer_phase \in {"closed", "dropped"}
             /\ peer_exit' = [peer_exit EXCEPT ![w] = PeerRuntime!Failed("supervisor")]
  BY DEF PeerRuntime!WaiterReturns, PeerRuntime!SendersGone, PeerRuntime!OrphanExit
<1>1. PeerRuntime!Failed("supervisor") \in PeerRuntime!Statuses
         /\ PeerRuntime!IsFinal(PeerRuntime!Failed("supervisor"))
         /\ PeerRuntime!Failed("supervisor") # <<"stopped">>
  BY TerminalStatuses DEF PeerRuntime!Statuses, PeerRuntime!Kinds
<1>2. /\ peer_exit'[w] \in PeerRuntime!Statuses \cup {PeerRuntime!NoExit}
          /\ PeerRuntime!IsFinal(peer_exit'[w]) /\ (peer_exit'[w] = <<"stopped">>
          => peer_status = <<"stopped">>)
      /\ \A v \in peer_Waiters : v # w => peer_exit'[v] = peer_exit[v]
      /\ peer_exit' \in [peer_Waiters -> PeerRuntime!Statuses \cup {PeerRuntime!NoExit}]
  BY <1>0, <1>1 DEF PeerInv, PeerTypes, PeerRuntime!TypeOK, PeerRuntime!NoExit
<1>3. ~peer_running /\ peer_phase \notin Starting \cup {"undo", "failed", "abandoned"}
  BY <1>0, TerminalStatuses DEF PeerInv, StartInv, EndInv, PeerRuntime!EndIsFenced, Starting
<1>4. PeerTypes'
  BY <1>0, <1>2 DEF PeerInv, PeerTypes, PeerRuntime!TypeOK, PeerRuntime!parts
<1>5. StartInv'
  BY <1>0, <1>3 DEF PeerInv, StartInv, PeerRuntime!FailedStartLeavesNothing, Starting, PeerRuntime!parts
<1>6. ShutdownInv'
  BY <1>0, <1>2 DEF PeerInv, ShutdownInv, PeerRuntime!parts
<1>7. EndInv'
  BY <1>0, <1>3 DEF PeerInv, EndInv, PeerRuntime!EndIsFenced, PeerRuntime!parts
<1> QED BY <1>4, <1>5, <1>6, <1>7 DEF PeerInv

LEMMA PeerStep ==
    ASSUME PeerInv, [PeerRuntime!Next]_(PeerRuntime!vars)
    PROVE  PeerInv'
<1>1. CASE UNCHANGED PeerRuntime!vars
  BY <1>1
     DEF PeerRuntime!vars, PeerRuntime!parts, PeerInv, PeerTypes, PeerRuntime!TypeOK, StartInv,
         PeerRuntime!FailedStartLeavesNothing, ShutdownInv,
              EndInv, PeerRuntime!EndIsFenced
<1>2. CASE PeerRuntime!Next
  BY <1>2, SignalsKeepPeer, StartupKeepsPeer, MonitoringKeepsPeer, PeerShutdownKeeps, RunStageKeeps,
     StartReturnsErrorKeeps, FinishShutdownKeeps, DropPeerKeeps, RelayGoneKeeps,
     NodeGoneKeeps, WaiterReturnsKeeps
     DEF PeerRuntime!Next, PeerRuntime!Stopping
<1> QED BY <1>1, <1>2

LEMMA PeerInvariant ==
    PeerRuntime!Spec => []PeerInv
<1>1. PeerRuntime!Init => PeerInv
  BY InitPeer
<1>2. PeerInv /\ [PeerRuntime!Next]_(PeerRuntime!vars) => PeerInv'
  BY PeerStep
<1> QED BY <1>1, <1>2, PTL DEF PeerRuntime!Spec

\* Of a peer: its end is published behind the fence, one that stopped is gone, and a start
\* that failed leaves nothing running
LEMMA PeerCorrect ==
    PeerRuntime!Spec => [](PeerRuntime!TypeOK /\ PeerRuntime!EndIsFenced
         /\ PeerRuntime!StoppedMeansGone /\ PeerRuntime!FailedStartLeavesNothing)
<1>1. PeerInv => PeerRuntime!TypeOK /\ PeerRuntime!EndIsFenced /\ PeerRuntime!FailedStartLeavesNothing
  BY DEF PeerInv, PeerTypes, EndInv, StartInv
<1>2. PeerInv => PeerRuntime!StoppedMeansGone
  BY DEF PeerInv, ShutdownInv, PeerRuntime!StoppedMeansGone
<1> QED BY <1>1, <1>2, PeerInvariant, PTL

LEMMA TerminalStep ==
    ASSUME PeerInv, [PeerRuntime!Next]_(PeerRuntime!vars), PeerRuntime!IsTerminal(peer_status)
    PROVE  PeerRuntime!IsTerminal(peer_status')
<1>1. CASE UNCHANGED peer_status
  BY <1>1
<1>2. CASE PeerRuntime!BecomesReady
  BY <1>2 DEF PeerRuntime!BecomesReady, PeerInv, StartInv, Starting
<1>3. CASE PeerRuntime!Monitoring
  <2>1. MonitorStep
    BY <1>3, MonitorSteps
  <2> QED BY <2>1 DEF MonitorStep, PeerInv, EndInv
<1>4. CASE PeerRuntime!Shutdown \/ PeerRuntime!DropPeer
  BY <1>4, TerminalStatuses DEF PeerRuntime!Shutdown, PeerRuntime!DropPeer, PeerRuntime!BeginShutdown
<1>5. CASE PeerRuntime!FinishShutdown
  BY <1>5, TerminalStatuses DEF PeerRuntime!FinishShutdown, PeerRuntime!Kinds
<1>6. CASE PeerRuntime!Signals
  BY <1>1, <1>6
     DEF PeerRuntime!Signals, PeerRuntime!NodeFails, PeerRuntime!AuthorityChanges,
         PeerRuntime!RoutesChange, PeerRuntime!RelayFails, PeerRuntime!SignalCloses, PeerRuntime!Change
<1>7. CASE PeerRuntime!Startup /\ ~PeerRuntime!BecomesReady
  BY <1>1, <1>7
     DEF PeerRuntime!Startup, PeerRuntime!StartNode, PeerRuntime!Listen, PeerRuntime!StartAuthority,
         PeerRuntime!StartRelay, PeerRuntime!StartStepFails, PeerRuntime!RelayStartFails,
     PeerRuntime!StartupIsRefused, PeerRuntime!StartFails, PeerRuntime!GoLive, PeerRuntime!DropStart,
          PeerRuntime!startRest
<1>8. CASE PeerRuntime!RunStage \/ PeerRuntime!StartReturnsError \/ PeerRuntime!RelayGone
         \/ PeerRuntime!NodeGone \/ \E w \in peer_Waiters : PeerRuntime!WaiterReturns(w)
  BY <1>1, <1>8
     DEF PeerRuntime!RunStage, PeerRuntime!StartReturnsError, PeerRuntime!RelayGone,
         PeerRuntime!NodeGone, PeerRuntime!WaiterReturns
<1>9. CASE UNCHANGED PeerRuntime!vars
  BY <1>1, <1>9 DEF PeerRuntime!vars
<1> QED BY <1>2, <1>3, <1>4, <1>5, <1>6, <1>7, <1>8, <1>9 DEF PeerRuntime!Next, PeerRuntime!Stopping

\* No status that says the peer lives follows one that says it ended
LEMMA TerminalCorrect ==
    PeerRuntime!Spec => PeerRuntime!TerminalStays
<1>1. PeerInv /\ [PeerRuntime!Next]_(PeerRuntime!vars) => [PeerRuntime!IsTerminal(peer_status)
         => PeerRuntime!IsTerminal(peer_status')]_(PeerRuntime!vars)
  BY TerminalStep
<1> QED BY <1>1, PeerInvariant, PTL DEF PeerRuntime!Spec, PeerRuntime!TerminalStays
=============================================================================
