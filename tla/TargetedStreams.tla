--------------------------- MODULE TargetedStreams ---------------------------
(***************************************************************************)
(* Application streams opened on one chosen connection, and the retirement *)
(* of a relay connection that stalls (auki-p2p, targeted_stream.rs).  A    *)
(* caller sends a command over a bounded channel; the behaviour, polled by *)
(* the swarm, hands it to the handler of that very connection, which       *)
(* negotiates and answers later, perhaps when the connection or the caller *)
(* has gone.  Opens of the source-admission protocol that time out count   *)
(* against their connection.                                               *)
(*                                                                         *)
(* The peer of a connection is part of its identity here: an open for      *)
(* another peer is answered as one for a closed connection is.  What the   *)
(* caller is told is left out, that it is told is not.  One step of Poll   *)
(* takes one command; the code goes on to the next when it answered the    *)
(* command at once.                                                        *)
(***************************************************************************)
EXTENDS Integers, Sequences, FiniteSets, SequencesExt

CONSTANTS
    MaxRequests,  \* bound of the request ids
    Conns,        \* connection ids
    Capacity,     \* COMMAND_CAPACITY
    Threshold,    \* RELAY_TIMEOUT_THRESHOLD
    Window,       \* RELAY_TIMEOUT_WINDOW
    IdleReset,    \* RELAY_TIMEOUT_IDLE_RESET
    MaxTime       \* bound of the clock

\* What the theorems ask of the constants
StreamConstants ==
    /\ MaxRequests \in Nat /\ MaxTime \in Nat /\ Capacity \in Nat
    /\ Threshold \in Nat /\ Window \in Nat /\ IdleReset \in Nat
    /\ Conns # {}

VARIABLES
    now,          \* the swarm's clock
    swarm,        \* "runs" or "stopped" (the behaviour is dropped)
    conn,         \* "new", "up", "ending" (closed by the behaviour), "closed"
    call,         \* the callers of open_stream: where they are, their connection
    commands,     \* the channel
    pending,      \* instants at which the behaviour dispatched, or Never
    handler,      \* what the connection's handler does for a request
    progress,     \* RelayProgress of every connection
    closes,       \* pending_closes
    history       \* history: outcomes that count, of connections still open

vars == <<now, swarm, conn, call, commands, pending, handler, progress, closes, history>>
swarmVars == <<now, swarm>>

Requests == 1..MaxRequests
Never == -1
Fresh == [success |-> Never, first |-> Never, last |-> Never, timeouts |-> 0,
          closing |-> FALSE]
NoOutcome == [result |-> "none", started |-> Never, at |-> Never]

\* A negotiation ends with a stream, with the timeout of an open of the
\* source-admission protocol, or with any other failure
Results == {"stream", "timeout", "refused"}

Waiting(r) == call[r].pc \in {"queued", "pending"}
On(c) == {r \in Requests : pending[r] # Never /\ call[r].conn = c}
Established(c) == conn[c] \in {"up", "ending"}

Init ==
    /\ now = 0 /\ swarm = "runs"
    /\ conn = [c \in Conns |-> "new"]
    /\ call = [r \in Requests |-> [pc |-> "idle", conn |-> CHOOSE c \in Conns : TRUE]]
    /\ commands = <<>>
    /\ pending = [r \in Requests |-> Never]
    /\ handler = [r \in Requests |-> "none"]
    /\ progress = [c \in Conns |-> Fresh]
    /\ closes = <<>>
    /\ history = [r \in Requests |-> NoOutcome]

-----------------------------------------------------------------------------
\* RelayProgress

\* Mutant: a success does not begin a new count
SucceededKeeps(p, t) == [p EXCEPT !.success = t]

\* succeeded
Succeeded(p, t) == [Fresh EXCEPT !.success = t, !.closing = p.closing]

\* timed_out ignores opens older than the last success, and those of a connection
\* that is already being retired
Counts(p, started) == ~p.closing /\ (p.success # Never => started > p.success)

\* timed_out
TimedOut(p, t) ==
    LET idle  == p.last # Never /\ t - p.last > IdleReset
        first == IF idle \/ p.first = Never THEN t ELSE p.first
        count == IF idle THEN 1 ELSE p.timeouts + 1
    IN  [p EXCEPT !.first = first, !.last = t, !.timeouts = count,
                  !.closing = count >= Threshold /\ t - first >= Window]

-----------------------------------------------------------------------------
\* open_stream

\* next_request_id: the clones of the control share one sequence
NextId(r) == call[r].pc = "idle" /\ \A q \in 1..(r - 1) : call[q].pc # "idle"

\* open_stream: the send waits for room
Open(r, c) ==
    /\ NextId(r) /\ conn[c] # "new" /\ swarm = "runs" /\ Len(commands) < Capacity
    /\ call' = [call EXCEPT ![r] = [pc |-> "queued", conn |-> c]]
    /\ commands' = Append(commands, r)
    /\ UNCHANGED <<swarmVars, conn, pending, handler, progress, closes, history>>

\* The caller's deadline passes, or its future is dropped
Drop(r) ==
    /\ Waiting(r)
    /\ call' = [call EXCEPT ![r].pc = "gone"]
    /\ UNCHANGED <<swarmVars, conn, commands, pending, handler, progress, closes, history>>

-----------------------------------------------------------------------------
\* The behaviour

\* handle_open: the connection is there and is not being retired
Selectable(c) == Established(c) /\ ~progress[c].closing

\* poll and handle_open
Poll ==
    /\ swarm = "runs" /\ closes = <<>> /\ commands # <<>>
    /\ LET r == Head(commands) IN
       \/ /\ call[r].pc = "gone"
          /\ call' = [call EXCEPT ![r].pc = "done"]
          /\ UNCHANGED <<pending, handler>>
       \/ /\ call[r].pc # "gone" /\ ~Selectable(call[r].conn)
          /\ call' = [call EXCEPT ![r].pc = "done"]
          /\ UNCHANGED <<pending, handler>>
       \/ /\ call[r].pc # "gone" /\ Selectable(call[r].conn)
          /\ call' = [call EXCEPT ![r].pc = "pending"]
          /\ pending' = [pending EXCEPT ![r] = now]
          /\ handler' = [handler EXCEPT ![r] = "asked"]
    /\ commands' = Tail(commands)
    /\ UNCHANGED <<swarmVars, conn, progress, closes, history>>

\* poll: a connection to retire goes first
PollClose ==
    /\ swarm = "runs" /\ closes # <<>>
    /\ conn' = [conn EXCEPT ![Head(closes)] = "ending"]
    /\ closes' = Tail(closes)
    /\ UNCHANGED <<swarmVars, call, commands, pending, handler, progress, history>>

\* TargetedStreamHandler, with the upgrade's own timeout (libp2p)
Negotiated(r, result) ==
    /\ handler[r] = "asked" /\ Established(call[r].conn)
    /\ handler' = [handler EXCEPT ![r] = result]
    /\ UNCHANGED <<swarmVars, conn, call, commands, pending, progress, closes, history>>

\* on_connection_handler_event: what the outcome says of the connection
Progressed(r) ==
    LET p == progress[call[r].conn] IN
    CASE handler[r] = "stream" -> Succeeded(p, now)
      [] handler[r] = "timeout" /\ Counts(p, pending[r]) -> TimedOut(p, now)
      [] OTHER -> p

\* on_connection_handler_event; a late one finds nothing pending.  Outcomes count
\* also for callers that have gone
HandlerEvent(r) ==
    /\ swarm = "runs" /\ handler[r] \in Results
    /\ handler' = [handler EXCEPT ![r] = "none"]
    /\ LET c == call[r].conn IN
       IF pending[r] = Never
         THEN UNCHANGED <<call, pending, progress, closes, history>>
         ELSE /\ pending' = [pending EXCEPT ![r] = Never]
              /\ progress' = [progress EXCEPT ![c] = Progressed(r)]
              /\ closes' = IF progress'[c].closing /\ ~progress[c].closing
                             THEN Append(closes, c) ELSE closes
              /\ call' = [call EXCEPT ![r].pc = "done"]
              /\ history' = IF handler[r] = "refused" THEN history
                            ELSE [history EXCEPT ![r] = [result |-> handler[r],
                                    started |-> pending[r], at |-> now]]
    /\ UNCHANGED <<swarmVars, conn, commands>>

\* connection_established
Connected(c) ==
    /\ swarm = "runs" /\ conn[c] = "new"
    /\ conn' = [conn EXCEPT ![c] = "up"]
    /\ UNCHANGED <<swarmVars, call, commands, pending, handler, progress, closes, history>>

\* pending_closes.retain: a connection is in it once at most
Retain(queue, c) ==
    IF c \in ToSet(queue) THEN RemoveAt(queue, CHOOSE i \in DOMAIN queue : queue[i] = c)
                          ELSE queue

\* connection_closed: nobody may wait for it any longer.  Answers of its handler may
\* still be on their way
Closed(c) ==
    /\ swarm = "runs" /\ Established(c)
    /\ conn' = [conn EXCEPT ![c] = "closed"]
    /\ progress' = [progress EXCEPT ![c] = Fresh]
    /\ closes' = Retain(closes, c)
    /\ pending' = [r \in Requests |-> IF r \in On(c) THEN Never ELSE pending[r]]
    /\ call' = [r \in Requests |-> IF r \in On(c) THEN [call[r] EXCEPT !.pc = "done"]
                                   ELSE call[r]]
    /\ history' = [r \in Requests |-> IF call[r].conn = c THEN NoOutcome ELSE history[r]]
    /\ handler' = [r \in Requests |-> IF call[r].conn = c /\ handler[r] = "asked"
                                      THEN "none" ELSE handler[r]]
    /\ UNCHANGED <<swarmVars, commands>>

\* The node's task ends and drops the behaviour, with every sender it holds and every
\* connection; what is in the channel stays there
Stop ==
    /\ swarm = "runs"
    /\ swarm' = "stopped"
    /\ conn' = [c \in Conns |-> "closed"]
    /\ pending' = [r \in Requests |-> Never] /\ handler' = [r \in Requests |-> "none"]
    /\ progress' = [c \in Conns |-> Fresh] /\ closes' = <<>>
    /\ call' = [r \in Requests |-> IF pending[r] # Never THEN [call[r] EXCEPT !.pc = "done"]
                                   ELSE call[r]]
    /\ history' = [r \in Requests |-> NoOutcome]
    /\ UNCHANGED <<now, commands>>

Tick ==
    /\ now < MaxTime /\ swarm = "runs"
    /\ now' = now + 1
    /\ UNCHANGED <<swarm, conn, call, commands, pending, handler, progress, closes, history>>

Next ==
    \/ \E r \in Requests : Drop(r) \/ HandlerEvent(r)
    \/ \E r \in Requests, c \in Conns : Open(r, c)
    \/ \E r \in Requests, result \in Results : Negotiated(r, result)
    \/ \E c \in Conns : Connected(c) \/ Closed(c)
    \/ Poll \/ PollClose \/ Stop \/ Tick

Spec == Init /\ [][Next]_vars

\* The swarm is polled, a negotiation ends within its timeout, and a connection that
\* is told to close does
Fairness ==
    /\ WF_vars(Poll) /\ WF_vars(PollClose)
    /\ \A r \in Requests :
         /\ WF_vars(HandlerEvent(r))
         /\ WF_vars(\E result \in Results : Negotiated(r, result))
    /\ \A c \in Conns : WF_vars(conn[c] = "ending" /\ Closed(c))

FairSpec == Spec /\ Fairness

-----------------------------------------------------------------------------
TypeOK ==
    /\ now \in 0..MaxTime /\ swarm \in {"runs", "stopped"}
    /\ conn \in [Conns -> {"new", "up", "ending", "closed"}]
    /\ \A r \in Requests :
         /\ call[r].pc \in {"idle", "queued", "pending", "gone", "done"}
         /\ call[r].conn \in Conns
         /\ pending[r] \in Never..MaxTime
         /\ handler[r] \in {"none", "asked"} \cup Results
    /\ Len(commands) <= Capacity /\ ToSet(commands) \subseteq Requests
    /\ \A c \in Conns : progress[c].timeouts \in 0..Cardinality(Requests)
    /\ ToSet(closes) \subseteq Conns

\* The admission timeouts of a connection since its last success
Stalls(c, okAt) ==
    {r \in Requests : /\ call[r].conn = c /\ history'[r].result = "timeout"
                      /\ history'[r].started > okAt}

\* "Concurrent callers must not turn one stall into an immediate teardown" and "Older
\* pending requests cannot contradict more recent progress": a connection is retired
\* only when Threshold opens that began after its last success timed out, the first
\* of them a Window ago, with no idle pause between them.
RetiredWasStalled ==
    [][\A c \in Conns : progress'[c].closing /\ ~progress[c].closing =>
         LET oks  == {history'[r].at : r \in {q \in Requests :
                          history'[q].result = "stream" /\ call[q].conn = c}}
             okAt == CHOOSE t \in oks \cup {Never} : \A u \in oks : u <= t
         IN  \E S \in SUBSET Stalls(c, okAt) :
               /\ Cardinality(S) >= Threshold
               /\ \E r \in S : now - history'[r].at >= Window
               /\ \A r \in S : \/ history'[r].at = now
                               \/ \E s \in S : /\ history'[s].at > history'[r].at
                                               /\ history'[s].at - history'[r].at <= IdleReset
      ]_vars

\* on_connection_handler_event, connection_closed: while the swarm runs, every open is
\* answered or was given up, whether its connection lives, closes or is retired.
OpenReturns ==
    \A r \in Requests : (call[r].pc = "pending" \/ (swarm = "runs" /\ call[r].pc = "queued")) ~>
                          (~Waiting(r) \/ (swarm = "stopped" /\ call[r].pc = "queued"))

\* pending_closes: a connection that is being retired goes, so that the reservation
\* on it is lost and a new one can be made.
RetiredCloses ==
    \A c \in Conns : progress[c].closing ~> (conn[c] = "closed" \/ swarm = "stopped")
=============================================================================
