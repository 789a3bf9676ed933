--------------------------- MODULE ProtocolServers ----------------------------
(***************************************************************************)
(* Mounted inbound protocols: registration, close and drop                 *)
(* (core/auki-sdk/src/protocols.rs, served_protocols.rs, context.rs), the  *)
(* supervised server of a protocol (core/auki-p2p/src/runtime.rs), its     *)
(* bounded queue of inbound streams (inbound_stream.rs, transport.rs) and  *)
(* the shutdown of them all.  A step is the code between two awaits under  *)
(* its locks.                                                              *)
(***************************************************************************)
EXTENDS Naturals, FiniteSets

CONSTANTS
    Users,          \* owners of registrations
    Protocols,      \* protocol ids
    Concurrency,    \* max_concurrency of a protocol
    Capacity,       \* INBOUND_QUEUE_CAPACITY: 64
    MaxGen,         \* bound on registrations
    MaxStreams      \* bound on inbound streams

Gens == 1..MaxGen
NoGen == 0

\* What the theorems ask of the constants
ProtocolConstants == MaxGen \in Nat /\ Concurrency \in Nat /\ Capacity \in Nat

VARIABLES
    running,        \* ContextLifecycle: FALSE behind the fence, which cancels every server
    registrations,  \* protocol id -> generation
    next,           \* next_generation
    served,         \* the snapshot of served protocols
    accepting,      \* protocol id -> generation registered with the transport
    server,         \* per generation: task, handle, stop, abort
    queue,          \* inbound streams waiting per generation
    handlers,       \* handshakes and handlers running per generation
    user,           \* per user: pc and generation
    shut,           \* shutdown_all
    streams         \* inbound streams so far

vars == <<running, registrations, next, served, accepting, server, queue, handlers, user,
          shut, streams>>

NoServer == [task |-> "none", held |-> "entry", stop |-> FALSE, abort |-> FALSE]

Init ==
    /\ running = TRUE /\ registrations = [p \in Protocols |-> NoGen] /\ next = 1
    /\ served = {} /\ accepting = [p \in Protocols |-> NoGen]
    /\ server = [g \in Gens |-> NoServer]
    /\ queue = [g \in Gens |-> 0] /\ handlers = [g \in Gens |-> 0]
    /\ user = [u \in Users |-> [pc |-> "idle", gen |-> NoGen]]
    /\ shut = "no" /\ streams = 0

Mounted(r) == {p \in Protocols : r[p] # NoGen}
Stopped(g) == server[g].stop \/ ~running

-----------------------------------------------------------------------------
(* Owners of registrations *)

MayRegister(p) == running /\ registrations[p] = NoGen

\* register: the lifecycle and the registrations stay locked; the transport refuses
\* a protocol whose last server still holds its inbound queue
Register(u) ==
    /\ user[u].pc = "idle" /\ next \in Gens
    /\ \E p \in Protocols :
         /\ MayRegister(p) /\ accepting[p] = NoGen
         /\ registrations' = [registrations EXCEPT ![p] = next]
         /\ served' = Mounted(registrations')
         /\ accepting' = [accepting EXCEPT ![p] = next]
         /\ server' = [server EXCEPT ![next] = [NoServer EXCEPT !.task = "running"]]
         /\ user' = [user EXCEPT ![u] = [pc |-> "mounted", gen |-> next]]
    /\ next' = next + 1
    /\ UNCHANGED <<running, queue, handlers, shut, streams>>

\* A registration that is refused takes its generation only from the transport
RegisterRefused(u) ==
    /\ user[u].pc = "idle"
    /\ \E p \in Protocols : MayRegister(p) /\ accepting[p] # NoGen
    /\ next \in Gens /\ next' = next + 1
    /\ UNCHANGED <<running, registrations, served, accepting, server, queue, handlers, user,
                   shut, streams>>

\* take_server: only its own generation is removed
Unmounted(g) == [p \in Protocols |-> IF registrations[p] = g THEN NoGen ELSE registrations[p]]

TakeServer(u, holder) ==
    LET g == user[u].gen IN
    /\ user[u].pc = "mounted"
    /\ registrations' = Unmounted(g)
    /\ served' = Mounted(registrations')
    /\ server' = IF server[g].held # "entry" THEN server
                 ELSE [server EXCEPT ![g] = [@ EXCEPT !.held = holder, !.stop = TRUE,
                                                      !.abort = holder = "dropped"]]

\* close: without a server there is nothing to wait for
Close(u) ==
    /\ TakeServer(u, "closer")
    /\ user' = [user EXCEPT ![u].pc =
                   IF server[user[u].gen].held = "entry" THEN "closing" ELSE "closed"]
    /\ UNCHANGED <<running, next, accepting, queue, handlers, shut, streams>>

DropRegistration(u) ==
    /\ TakeServer(u, "dropped")
    /\ user' = [user EXCEPT ![u] = [pc |-> "idle", gen |-> NoGen]]
    /\ UNCHANGED <<running, next, accepting, queue, handlers, shut, streams>>

\* ApplicationProtocolServer::shutdown waits for its task
Joined(g) == server[g].task = "ended"

CloseReturns(u) ==
    /\ user[u].pc = "closing" /\ Joined(user[u].gen)
    /\ user' = [user EXCEPT ![u].pc = "closed"]
    /\ UNCHANGED <<running, registrations, next, served, accepting, server, queue, handlers,
                   shut, streams>>

\* The close future is dropped, or runs into its timeout, while it joins the task:
\* shutdown has taken the handle of the task, which is detached and not aborted
CloseAbandoned(u) ==
    /\ user[u].pc = "closing"
    /\ user' = [user EXCEPT ![u] = [pc |-> "idle", gen |-> NoGen]]
    /\ server' = [server EXCEPT ![user[u].gen].held = "dropped"]
    /\ UNCHANGED <<running, registrations, next, served, accepting, queue, handlers, shut, streams>>

-----------------------------------------------------------------------------
(* shutdown_all and abort_all *)

Held(holder) == {g \in Gens : server[g].held = holder /\ server[g].task # "none"}

Fenced == FALSE

\* AukiPeer::shutdown and Drop, and the fence of a task's peer: every server is
\* cancelled, while what is registered and shown stays until the drain
Fence ==
    /\ running' = Fenced
    /\ UNCHANGED <<registrations, next, served, accepting, server, queue, handlers, user,
                   shut, streams>>

\* Every server that its entry still holds is taken, behind the fence
Drain(holder) ==
    /\ running' = Fenced
    /\ registrations' = [p \in Protocols |-> NoGen] /\ served' = {}
    /\ server' = [g \in Gens |-> IF g \in Held("entry")
                    THEN [server[g] EXCEPT !.held = holder, !.stop = TRUE, !.abort = holder = "dropped"]
                    ELSE server[g]]
    /\ UNCHANGED <<next, accepting, queue, handlers, user, streams>>

ShutdownAll == shut = "no" /\ shut' = "waiting" /\ Drain("shutdown")

AbortAll == shut \in {"no", "failed"} /\ shut' = "aborted" /\ Drain("dropped")

\* The servers are joined in turn. Past PROTOCOL_SHUTDOWN_TIMEOUT, or when the future is
\* dropped, the one being joined is detached, the others are aborted
ShutdownReturns ==
    /\ shut = "waiting"
    /\ \/ (\A g \in Held("shutdown") : Joined(g)) /\ shut' = "ok" /\ UNCHANGED server
       \/ \E joining \in Held("shutdown") :
            /\ shut' = "failed"
            /\ server' = [g \in Gens |-> IF g \in Held("shutdown")
                 THEN [server[g] EXCEPT !.held = "dropped", !.abort = g # joining] ELSE server[g]]
    /\ UNCHANGED <<running, registrations, next, served, accepting, queue, handlers, user, streams>>

-----------------------------------------------------------------------------
(* The server of one generation *)

\* A negotiated stream is queued with try_send, or dropped
Inbound(g) ==
    /\ (\E p \in Protocols : accepting[p] = g) /\ streams < MaxStreams
    /\ queue[g] < Capacity
    /\ queue' = [queue EXCEPT ![g] = @ + 1] /\ streams' = streams + 1
    /\ UNCHANGED <<running, registrations, next, served, accepting, server, handlers, user, shut>>

\* next_authentication, only below the limit; the stop is looked at first
Accept(g) ==
    /\ server[g].task = "running" /\ ~Stopped(g) /\ ~server[g].abort
    /\ queue[g] > 0 /\ handlers[g] < Concurrency
    /\ queue' = [queue EXCEPT ![g] = @ - 1]
    /\ handlers' = [handlers EXCEPT ![g] = @ + 1]
    /\ UNCHANGED <<running, registrations, next, served, accepting, server, user, shut, streams>>

\* A handshake fails, a handler returns, panics, or is aborted and reaped
HandlerEnds(g) ==
    /\ handlers[g] > 0
    /\ handlers' = [handlers EXCEPT ![g] = @ - 1]
    /\ UNCHANGED <<running, registrations, next, served, accepting, server, queue, user, shut, streams>>

\* The loop ends and aborts its handlers
LoopEnds(g) ==
    /\ server[g].task = "running" /\ Stopped(g)
    /\ server' = [server EXCEPT ![g].task = "joining"]
    /\ UNCHANGED <<running, registrations, next, served, accepting, queue, handlers, user, shut, streams>>

MayEnd(g) == server[g].task = "joining" /\ handlers[g] = 0

\* IncomingStreams::drop closes and drains
Drained(g) == [queue EXCEPT ![g] = 0]

\* The task ends, or its future is dropped by an abort: handlers are then left to end
TaskEnds(g) ==
    /\ MayEnd(g) \/ (server[g].abort /\ server[g].task \in {"running", "joining"})
    /\ server' = [server EXCEPT ![g].task = "ended"]
    /\ accepting' = [p \in Protocols |-> IF accepting[p] = g THEN NoGen ELSE accepting[p]]
    /\ queue' = Drained(g)
    /\ UNCHANGED <<running, registrations, next, served, handlers, user, shut, streams>>

-----------------------------------------------------------------------------

Next ==
    \/ \E u \in Users : \/ Register(u) \/ RegisterRefused(u) \/ Close(u) \/ DropRegistration(u)
                        \/ CloseReturns(u) \/ CloseAbandoned(u)
    \/ Fence \/ ShutdownAll \/ AbortAll \/ ShutdownReturns
    \/ \E g \in Gens : Inbound(g) \/ Accept(g) \/ HandlerEnds(g) \/ LoopEnds(g) \/ TaskEnds(g)

Spec == Init /\ [][Next]_vars

\* Tasks are polled, and an aborted handler ends; handlers of a running server may not.
Fairness ==
    /\ \A u \in Users : WF_vars(CloseReturns(u))
    /\ WF_vars(ShutdownReturns)
    /\ \A g \in Gens :
         /\ WF_vars(Stopped(g) /\ HandlerEnds(g)) /\ WF_vars(Accept(g))
         /\ WF_vars(LoopEnds(g)) /\ WF_vars(TaskEnds(g))

FairSpec == Spec /\ Fairness

-----------------------------------------------------------------------------
(* Properties *)

TypeOK ==
    /\ running \in BOOLEAN /\ registrations \in [Protocols -> {NoGen} \cup Gens]
    /\ accepting \in [Protocols -> {NoGen} \cup Gens] /\ served \subseteq Protocols
    /\ \A g \in Gens : /\ server[g].task \in {"none", "running", "joining", "ended"}
                       /\ server[g].held \in {"entry", "closer", "shutdown", "dropped"}
                       /\ queue[g] \in 0..Capacity /\ handlers[g] \in 0..Concurrency
    /\ \A u \in Users : user[u].pc \in {"idle", "mounted", "closing", "closed"}
    /\ shut \in {"no", "waiting", "ok", "failed", "aborted"}

\* ServedProtocolSnapshots: until the peer is fenced, a protocol that it advertises has a
\* server that is neither stopped nor aborted, and takes its streams. Behind the fence
\* the snapshot is stale until the drain empties it.
AdvertisedIsServed ==
    running => \A p \in served : \E g \in Gens :
        /\ accepting[p] = g /\ server[g].task = "running" /\ ~Stopped(g) /\ ~server[g].abort

\* close and shutdown_all: who took a server and returned without an error leaves
\* neither a handler of it nor a queued stream, and its protocol can be mounted again.
JoinedMeansQuiet ==
    \A g \in Gens :
        (\/ shut = "ok" /\ g \in Held("shutdown")
         \/ server[g].held = "closer" /\ \E u \in Users : user[u] = [pc |-> "closed", gen |-> g])
        => handlers[g] = 0 /\ queue[g] = 0 /\ \A p \in Protocols : accepting[p] # g

\* ContextLifecycle::fence: behind it no server is mounted and nothing joins what is
\* shown; once drained a peer shows nothing again.
FenceHolds ==
    [][~running => /\ served' \subseteq served /\ (shut # "no" => served' = {})
                   /\ \A g \in Gens : server[g].task = "none" => server'[g].task = "none"]_vars

\* ApplicationProtocolServer::drop and shutdown, and the fence: a server nobody owns any
\* more, or behind the fence, ends with all its handlers and streams, and its protocol is
\* free again.
LetGoEnds ==
    \A g \in Gens : (server[g].task # "none" /\ (server[g].held # "entry" \/ ~running)) ~>
        (/\ server[g].task = "ended" /\ handlers[g] = 0 /\ queue[g] = 0
         /\ \A p \in Protocols : accepting[p] # g)
=============================================================================
