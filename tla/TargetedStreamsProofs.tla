------------------------ MODULE TargetedStreamsProofs ------------------------
(***************************************************************************)
(* Targeted streams (targeted_stream.rs), for any number of requests,      *)
(* connections, thresholds and times: a relay connection is retired only   *)
(* for a stall.  The invariant says that the counter of timeouts stands for *)
(* a set of requests that the history still holds, all of them begun after *)
(* the last success.                                                       *)
(***************************************************************************)
EXTENDS TargetedStreams, SequenceTheorems, FiniteSetTheorems, TLAPS

Times == Never..MaxTime
ProgressType == [success : Times, first : Times, last : Times, timeouts : Nat, closing : BOOLEAN]
OutcomeType == [result : {"none", "stream", "timeout"}, started : Times, at : Times]
StreamCallType == [pc : {"idle", "queued", "pending", "gone", "done"}, conn : Conns]

StreamTypes ==
    /\ now \in 0..MaxTime /\ swarm \in {"runs", "stopped"}
    /\ conn \in [Conns -> {"new", "up", "ending", "closed"}]
    /\ call \in [Requests -> StreamCallType]
    /\ commands \in Seq(Requests) /\ Len(commands) <= Capacity
    /\ pending \in [Requests -> Times]
    /\ handler \in [Requests -> {"none", "asked"} \cup Results]
    /\ progress \in [Conns -> ProgressType]
    /\ closes \in Seq(Conns)
    /\ history \in [Requests -> OutcomeType]

\* A request in the channel is there once and nothing was done for it; one that is
\* pending was dispatched, and has no outcome yet
Untouched(r) == pending[r] = Never /\ history[r] = NoOutcome
RequestInv(r) ==
    /\ call[r].pc = "idle" => Untouched(r)
    /\ pending[r] <= now /\ history[r].at <= now
    /\ pending[r] # Never => history[r] = NoOutcome
    /\ history[r].result # "none" => history[r].started >= 0 /\ history[r].at >= 0

ChannelInv ==
    /\ \A i \in DOMAIN commands : call[commands[i]].pc # "idle" /\ Untouched(commands[i])
    /\ \A i, j \in DOMAIN commands : commands[i] = commands[j] => i = j

\* A connection is in pending_closes once, and is being retired
ClosesInv ==
    /\ \A i \in DOMAIN closes : progress[closes[i]].closing
    /\ \A i, j \in DOMAIN closes : closes[i] = closes[j] => i = j

\* The requests that the counter of connection c stands for
Stall(S, c, p, who, out) ==
    /\ S \subseteq Requests /\ Cardinality(S) = p.timeouts
    /\ \A r \in S : /\ who[r].conn = c /\ out[r].result = "timeout"
                    /\ out[r].started > p.success
                    /\ \/ out[r].at = p.last
                       \/ \E s \in S : out[s].at > out[r].at /\ out[s].at - out[r].at <= IdleReset
    /\ IF p.timeouts = 0 THEN p.first = Never /\ p.last = Never
       ELSE p.first >= 0 /\ p.last >= 0 /\ \E r \in S : out[r].at = p.first

\* The last success of connection c
LastSuccess(c, p, who, out) ==
    /\ \A r \in Requests : out[r].result = "stream" /\ who[r].conn = c => out[r].at <= p.success
    /\ p.success = Never
         \/ \E r \in Requests : out[r].result = "stream" /\ who[r].conn = c /\ out[r].at = p.success

ProgressInv(c, p, who, out, t) ==
    /\ p.success <= t /\ p.last <= t
    /\ LastSuccess(c, p, who, out)
    /\ \E S \in SUBSET Requests : Stall(S, c, p, who, out)

StreamInv ==
    /\ StreamTypes
    /\ \A r \in Requests : RequestInv(r)
    /\ ChannelInv /\ ClosesInv
    /\ \A c \in Conns : ProgressInv(c, progress[c], call, history, now)

-----------------------------------------------------------------------------
(* The counter and the history *)

\* A step that leaves the outcomes of a connection alone, but for timeouts that do not
\* count, leaves what its counter stands for
LEMMA ProgressFrame ==
    ASSUME NEW c, NEW p \in ProgressType, NEW who, NEW out, NEW who2, NEW out2,
           NEW t \in Int, NEW t2 \in Int, t <= t2, ProgressInv(c, p, who, out, t),
           \A r \in Requests : who[r].conn = c /\ out[r].result # "none" =>
                                 out2[r] = out[r] /\ who2[r].conn = c,
           \A r \in Requests : who2[r].conn = c /\ out2[r].result = "stream" =>
                                 out2[r] = out[r] /\ who[r].conn = c
    PROVE  ProgressInv(c, p, who2, out2, t2)
<1>1. p.success <= t2 /\ p.last <= t2
  BY DEF ProgressInv, ProgressType, Times, Never
<1>2. LastSuccess(c, p, who2, out2)
  BY DEF ProgressInv, LastSuccess
<1>3. PICK S \in SUBSET Requests : Stall(S, c, p, who, out)
  BY DEF ProgressInv
<1>4. \A r \in S : out2[r] = out[r] /\ who2[r].conn = c
  BY <1>3 DEF Stall
<1>5. Stall(S, c, p, who2, out2)
  BY <1>3, <1>4 DEF Stall
<1> QED BY <1>1, <1>2, <1>5 DEF ProgressInv

\* A connection of which nothing is known
LEMMA FreshProgress ==
    ASSUME NEW c, NEW who, NEW out, NEW t \in Nat,
           \A r \in Requests : who[r].conn = c => out[r].result # "stream"
    PROVE  ProgressInv(c, Fresh, who, out, t)
<1>1. LastSuccess(c, Fresh, who, out)
  BY DEF LastSuccess, Fresh
<1>2. Stall({}, c, Fresh, who, out)
  BY FS_EmptySet DEF Stall, Fresh
<1> QED BY <1>1, <1>2 DEF ProgressInv, Fresh, Never

\* succeeded: the count begins anew
LEMMA SuccessCounts ==
    ASSUME StreamConstants, NEW c, NEW p \in ProgressType, NEW who, NEW out, NEW out2, NEW t \in Nat,
           NEW r \in Requests, who[r].conn = c, out2[r].result = "stream", out2[r].at = t,
           \A q \in Requests : out2[q].at <= t
    PROVE  ProgressInv(c, Succeeded(p, t), who, out2, t)
<1> DEFINE n == Succeeded(p, t)
<1>0. n.success = t /\ n.first = Never /\ n.last = Never /\ n.timeouts = 0
  BY DEF Succeeded, Fresh
<1> HIDE DEF n
<1>1. LastSuccess(c, n, who, out2)
  BY <1>0 DEF LastSuccess
<1>2. Stall({}, c, n, who, out2)
  BY <1>0, FS_EmptySet DEF Stall
<1>3. n.success <= t /\ n.last <= t
  BY <1>0 DEF Never
<1>4. ProgressInv(c, n, who, out2, t)
  BY <1>1, <1>2, <1>3 DEF ProgressInv
<1> QED BY <1>4 DEF n

\* timed_out, field by field
LEMMA TimedOutFacts ==
    ASSUME StreamConstants, NEW p \in ProgressType, NEW t \in 0..MaxTime
    PROVE  LET n == TimedOut(p, t)
               idle == p.last # Never /\ t - p.last > IdleReset
           IN  /\ n \in ProgressType /\ n.success = p.success /\ n.last = t
               /\ idle => n.timeouts = 1 /\ n.first = t
               /\ ~idle => n.timeouts = p.timeouts + 1 /\ n.first = IF p.first = Never THEN t ELSE p.first
               /\ n.closing => n.timeouts >= Threshold /\ t - n.first >= Window
<1> DEFINE idle == p.last # Never /\ t - p.last > IdleReset
           first == IF idle \/ p.first = Never THEN t ELSE p.first
           count == IF idle THEN 1 ELSE p.timeouts + 1
           shut == count >= Threshold /\ t - first >= Window
           n == [p EXCEPT !.first = first, !.last = t, !.timeouts = count, !.closing = shut]
<1>1. first \in Times /\ count \in Nat /\ t \in Times
  BY DEF ProgressType, Times, Never, StreamConstants
<1>2. shut \in BOOLEAN
  OBVIOUS
<1>3. n = TimedOut(p, t)
  BY DEF TimedOut
<1> HIDE DEF shut, first, count
<1>4. /\ n.success = p.success /\ n.first = first /\ n.last = t /\ n.timeouts = count /\ n.closing = shut
      /\ n \in ProgressType
  BY <1>1, <1>2 DEF ProgressType
<1> QED BY <1>3, <1>4 DEF shut, first, count

\* timed_out: the request joins the ones counted, or is the first after a pause
LEMMA TimeoutCounts ==
    ASSUME StreamConstants, NEW c, NEW p \in ProgressType, NEW who, NEW out \in [Requests -> OutcomeType],
           NEW out2, NEW t \in 0..MaxTime, NEW r \in Requests, NEW s \in 0..MaxTime,
           ProgressInv(c, p, who, out, t), \A q \in Requests : out[q].at <= t,
           Counts(p, s), who[r].conn = c, out[r] = NoOutcome,
           out2 = [out EXCEPT ![r] = [result |-> "timeout", started |-> s, at |-> t]]
    PROVE  /\ LastSuccess(c, TimedOut(p, t), who, out2)
           /\ \E S \in SUBSET Requests : Stall(S, c, TimedOut(p, t), who, out2)
<1> DEFINE n == TimedOut(p, t)
           idle == p.last # Never /\ t - p.last > IdleReset
<1>1. /\ n \in ProgressType /\ n.success = p.success /\ n.last = t
      /\ idle => n.timeouts = 1 /\ n.first = t
      /\ ~idle => n.timeouts = p.timeouts + 1 /\ n.first = IF p.first = Never THEN t ELSE p.first
  BY TimedOutFacts
<1> HIDE DEF n
<1>2. /\ out2[r].result = "timeout" /\ out2[r].started = s /\ out2[r].at = t
      /\ \A q \in Requests : q # r => out2[q] = out[q]
  OBVIOUS
<1>3. s > p.success
  BY DEF Counts, ProgressType, Times, Never
<1>4. LastSuccess(c, n, who, out2)
  <2>1. out[r].result = "none"
    BY DEF NoOutcome
  <2> QED BY <1>1, <1>2, <2>1 DEF ProgressInv, LastSuccess
<1>5. PICK S \in SUBSET Requests : Stall(S, c, p, who, out)
  BY DEF ProgressInv
<1>6. r \notin S
  BY <1>5 DEF Stall, NoOutcome
<1>7. CASE idle
  <2>1. Cardinality({r}) = 1
    BY FS_Singleton
  <2>2. Stall({r}, c, n, who, out2)
    BY <1>1, <1>2, <1>3, <1>7, <2>1 DEF Stall
  <2> QED BY <1>4, <2>2 DEF n
<1>8. CASE ~idle
  <2> DEFINE U == S \cup {r}
  <2>0. IsFiniteSet(S)
    <3>1. IsFiniteSet(Requests)
      BY FS_Interval DEF Requests, StreamConstants
    <3> QED BY <3>1, FS_Subset
  <2>1. Cardinality(U) = p.timeouts + 1
    BY <1>5, <1>6, <2>0, FS_AddElement DEF Stall
  <2>2. \A q \in S : /\ q # r /\ out2[q] = out[q] /\ q \in Requests
                     /\ out2[q].at \in Times /\ out2[q].at <= t
    BY <1>2, <1>6 DEF OutcomeType
  <2>3. ASSUME NEW q \in S
        PROVE  out2[q].at = t \/ \E h \in U : out2[h].at > out2[q].at /\ out2[h].at - out2[q].at <= IdleReset
    <3>1. CASE out[q].at = p.last
      <4>1. p.timeouts # 0
        BY <1>5, <2>0, FS_EmptySet DEF Stall
      <4>2. p.last >= 0
        BY <1>5, <4>1 DEF Stall
      <4>3. t - p.last <= IdleReset
        BY <1>8, <4>2 DEF ProgressType, Times, Never, StreamConstants
      <4> QED BY <1>2, <2>2, <3>1, <4>3 DEF Times, Never, StreamConstants
    <3>2. CASE \E h \in S : out[h].at > out[q].at /\ out[h].at - out[q].at <= IdleReset
      BY <2>2, <3>2
    <3> QED BY <1>5, <3>1, <3>2 DEF Stall
  <2>4. IF n.timeouts = 0 THEN n.first = Never /\ n.last = Never
        ELSE n.first >= 0 /\ n.last >= 0 /\ \E q \in U : out2[q].at = n.first
    <3>1. n.timeouts # 0
      BY <1>1, <1>8 DEF ProgressType
    <3>2. CASE p.timeouts = 0
      BY <1>1, <1>2, <1>5, <1>8, <3>1, <3>2 DEF Stall
    <3>3. CASE p.timeouts # 0
      BY <1>1, <1>2, <1>5, <1>8, <2>2, <3>1, <3>3 DEF Stall, Never
    <3> QED BY <3>2, <3>3
  <2>5. \A q \in U : /\ who[q].conn = c /\ out2[q].result = "timeout"
                     /\ out2[q].started > n.success
    BY <1>1, <1>2, <1>3, <1>5, <2>2 DEF Stall
  <2>6. \A q \in U : \/ out2[q].at = n.last
                     \/ \E h \in U : out2[h].at > out2[q].at /\ out2[h].at - out2[q].at <= IdleReset
    BY <1>1, <1>2, <2>3
  <2>7. U \subseteq Requests /\ Cardinality(U) = n.timeouts
    BY <1>1, <1>8, <2>1
  <2> HIDE DEF U
  <2>8. Stall(U, c, n, who, out2)
    BY <2>4, <2>5, <2>6, <2>7 DEF Stall
  <2> QED BY <1>4, <2>7, <2>8 DEF n
<1> QED BY <1>7, <1>8

-----------------------------------------------------------------------------
(* pending_closes *)

\* retain: the others stay, each once
Others(q, c, r) ==
    /\ r \in Seq(Conns) /\ \A i, j \in DOMAIN r : r[i] = r[j] => i = j
    /\ \A i \in DOMAIN r : r[i] # c /\ \E j \in DOMAIN q : r[i] = q[j]

LEMMA RetainIs ==
    ASSUME NEW q \in Seq(Conns), \A i, j \in DOMAIN q : q[i] = q[j] => i = j, NEW c
    PROVE  Others(q, c, Retain(q, c))
<1>1. CASE c \notin ToSet(q)
  BY <1>1 DEF Retain, Others, ToSet
<1>2. CASE c \in ToSet(q)
  <2> DEFINE p == CHOOSE i \in DOMAIN q : q[i] = c
             a == SubSeq(q, 1, p - 1)
             b == SubSeq(q, p + 1, Len(q))
             l == Len(q)
             r == a \o b
  <2>0. DOMAIN q = 1..l /\ l \in Nat
    OBVIOUS
  <2>1. p \in 1..l /\ q[p] = c
    BY <1>2, <2>0 DEF ToSet
  <2>2. Retain(q, c) = r
    BY <1>2 DEF Retain, RemoveAt
  <2> HIDE DEF p, l
  <2>3. a \in Seq(Conns) /\ Len(a) = p - 1 /\ \A i \in 1..(p - 1) : a[i] = q[i]
    <3>1. \A i \in 1..(p - 1) : i \in 1..l
      BY <2>0, <2>1
    <3>2. \A i \in 1..(p - 1) : q[i] \in Conns
      BY <2>0, <3>1, ElementOfSeq
    <3>3. Len(a) = IF 1 <= p - 1 THEN p - 1 - 1 + 1 ELSE 0
      BY <2>1, SubSeqProperties DEF l
    <3>4. Len(a) = p - 1
      BY <2>0, <2>1, <3>3
    <3>5. a \in Seq(Conns) /\ \A i \in 1..(p - 1) : a[i] = q[1 + i - 1]
      BY <2>0, <2>1, SubSeqProperties DEF l
    <3>6. \A i \in 1..(p - 1) : 1 + i - 1 = i
      BY <2>0, <2>1
    <3> QED BY <3>4, <3>5, <3>6
  <2>4. b \in Seq(Conns) /\ Len(b) = l - p /\ \A i \in 1..(l - p) : b[i] = q[p + i]
    <3>3. Len(b) = IF p + 1 <= l THEN l - (p + 1) + 1 ELSE 0
      BY <2>0, <2>1, SubSeqProperties DEF l
    <3>4. Len(b) = l - p
      BY <2>0, <2>1, <3>3
    <3>5. b \in Seq(Conns) /\ \A i \in 1..(l - (p + 1) + 1) : b[i] = q[p + 1 + i - 1]
      BY <2>0, <2>1, SubSeqProperties DEF l
    <3>6. l - (p + 1) + 1 = l - p /\ \A i \in 1..(l - p) : p + 1 + i - 1 = p + i
      BY <2>0, <2>1
    <3> QED BY <3>4, <3>5, <3>6
  <2> HIDE DEF a, b
  <2>5. /\ r \in Seq(Conns) /\ Len(r) = Len(a) + Len(b)
        /\ \A i \in 1..Len(a) + Len(b) : r[i] = IF i <= Len(a) THEN a[i] ELSE b[i - Len(a)]
    <3>1. a \in Seq(Conns) /\ b \in Seq(Conns)
      BY <2>3, <2>4
    <3> QED BY <3>1, ConcatProperties
  <2> DEFINE la == Len(a)
             lb == Len(b)
  <2>6. la = p - 1 /\ lb = l - p
    BY <2>3, <2>4
  <2>7. /\ r \in Seq(Conns) /\ DOMAIN r = 1..(la + lb)
        /\ \A i \in 1..(la + lb) : r[i] = IF i <= la THEN a[i] ELSE b[i - la]
    <3>1. DOMAIN r = 1..Len(r)
      BY <2>5
    <3> HIDE DEF r
    <3> QED BY <2>5, <3>1
  <2> HIDE DEF r, la, lb
  <2>8. \A i \in DOMAIN r : \E j \in 1..l : j # p /\ r[i] = q[j] /\ j = IF i < p THEN i ELSE i + 1
    <3> SUFFICES ASSUME NEW i \in 1..(la + lb)
                 PROVE  \E j \in 1..l : j # p /\ r[i] = q[j] /\ j = IF i < p THEN i ELSE i + 1
      BY <2>7
    <3>1. CASE i < p
      <4>1. i <= la /\ i \in 1..(p - 1) /\ i \in 1..l /\ i # p
        BY <2>0, <2>1, <2>6, <3>1
      <4>2. r[i] = a[i] /\ a[i] = q[i]
        BY <2>3, <2>7, <4>1
      <4> QED BY <3>1, <4>1, <4>2
    <3>2. CASE ~(i < p)
      <4>1. ~(i <= la) /\ i - la \in 1..(l - p) /\ p + (i - la) = i + 1 /\ i + 1 \in 1..l /\ i + 1 # p
        BY <2>0, <2>1, <2>6, <3>2
      <4>2. r[i] = b[i - la] /\ b[i - la] = q[p + (i - la)]
        BY <2>4, <2>7, <4>1
      <4> QED BY <3>2, <4>1, <4>2
    <3> QED BY <3>1, <3>2
  <2>9. \A i, j \in DOMAIN r : r[i] = r[j] => i = j
    <3> SUFFICES ASSUME NEW i \in DOMAIN r, NEW j \in DOMAIN r, r[i] = r[j] PROVE i = j
      OBVIOUS
    <3>1. PICK x \in 1..l : r[i] = q[x] /\ x = IF i < p THEN i ELSE i + 1
      BY <2>8
    <3>2. PICK y \in 1..l : r[j] = q[y] /\ y = IF j < p THEN j ELSE j + 1
      BY <2>8
    <3>3. x = y
      BY <2>0, <3>1, <3>2
    <3>4. i \in Int /\ j \in Int /\ p \in Int
      BY <2>0, <2>1, <2>6, <2>7
    <3> QED BY <3>1, <3>2, <3>3, <3>4
  <2>10. \A i \in DOMAIN r : r[i] # c /\ \E j \in DOMAIN q : r[i] = q[j]
    BY <2>0, <2>1, <2>8
  <2> QED BY <2>2, <2>7, <2>9, <2>10 DEF Others
<1> QED BY <1>1, <1>2

-----------------------------------------------------------------------------
(* Steps *)

\* A new behaviour has nothing in flight.
LEMMA InitStreams ==
    ASSUME StreamConstants, Init
    PROVE  StreamInv
<1>0. 0 \in 0..MaxTime /\ Never \in Times
  BY DEF StreamConstants, Times, Never
<1>1. Fresh \in ProgressType /\ NoOutcome \in OutcomeType
  BY <1>0 DEF Fresh, NoOutcome, ProgressType, OutcomeType
<1>2. (CHOOSE c \in Conns : TRUE) \in Conns
  BY DEF StreamConstants
<1>3. commands \in Seq(Requests) /\ Len(commands) = 0 /\ closes \in Seq(Conns) /\ DOMAIN commands = {} /\ DOMAIN closes = {}
  BY EmptySeq DEF Init
<1>4. StreamTypes
  <2>1. call \in [Requests -> StreamCallType]
    BY <1>2 DEF Init, StreamCallType
  <2>2. Len(commands) <= Capacity
    BY <1>3 DEF StreamConstants
  <2>3. progress \in [Conns -> ProgressType] /\ history \in [Requests -> OutcomeType]
    BY <1>1 DEF Init
  <2> QED BY <1>0, <1>3, <2>1, <2>2, <2>3 DEF Init, StreamTypes, Results
<1>5. \A r \in Requests : RequestInv(r)
  BY DEF Init, RequestInv, Untouched, NoOutcome, Never
<1>6. ChannelInv /\ ClosesInv
  BY <1>3 DEF ChannelInv, ClosesInv
<1>7. \A c \in Conns : ProgressInv(c, progress[c], call, history, now)
  <2>1. now \in Nat /\ \A r \in Requests : history[r].result # "stream"
    BY DEF Init, NoOutcome
  <2>2. \A c \in Conns : progress[c] = Fresh
    BY DEF Init
  <2> QED BY <2>1, <2>2, FreshProgress
<1> QED BY <1>4, <1>5, <1>6, <1>7 DEF StreamInv

\* What steps that touch neither the counters nor the outcomes leave
LEMMA ProgressStays ==
    ASSUME StreamInv, UNCHANGED <<progress, history>>, now' \in Int, now <= now',
           \A r \in Requests : history[r].result # "none" => call'[r].conn = call[r].conn
    PROVE  \A c \in Conns : ProgressInv(c, progress[c], call, history, now)'
<1> SUFFICES ASSUME NEW c \in Conns PROVE ProgressInv(c, progress[c], call', history, now')
  OBVIOUS
<1>1. ProgressInv(c, progress[c], call, history, now) /\ progress[c] \in ProgressType /\ now \in Int
  BY DEF StreamInv, StreamTypes, StreamConstants
<1>2. /\ \A r \in Requests : call[r].conn = c /\ history[r].result # "none" =>
           history[r] = history[r] /\ call'[r].conn = c
      /\ \A r \in Requests : call'[r].conn = c /\ history[r].result = "stream" =>
           history[r] = history[r] /\ call[r].conn = c
  OBVIOUS
<1> QED BY <1>1, <1>2, ProgressFrame

\* open_stream
LEMMA OpenKeeps ==
    ASSUME StreamConstants, StreamInv, NEW r \in Requests, NEW c \in Conns, Open(r, c)
    PROVE  StreamInv'
<1>0. StreamTypes /\ call[r].pc = "idle" /\ RequestInv(r)
  BY DEF StreamInv, Open, NextId
<1>1. commands' = Append(commands, r) /\ commands \in Seq(Requests) /\ Len(commands) < Capacity
  BY <1>0 DEF Open, StreamTypes
<1>2. commands' \in Seq(Requests) /\ Len(commands') = Len(commands) + 1 /\ Len(commands) \in Nat
  BY <1>1, AppendProperties, LenProperties
<1>3. /\ \A i \in DOMAIN commands' : i = Len(commands) + 1 \/ i \in DOMAIN commands
      /\ \A i \in DOMAIN commands : commands'[i] = commands[i]
      /\ commands'[Len(commands) + 1] = r
  BY <1>1
<1>4. call' \in [Requests -> StreamCallType] /\ call'[r] = [pc |-> "queued", conn |-> c]
      /\ \A q \in Requests : q # r => call'[q] = call[q]
  BY <1>0 DEF Open, StreamTypes, StreamCallType
<1>5. StreamTypes'
  BY <1>0, <1>1, <1>2, <1>4 DEF StreamTypes, Open, swarmVars, StreamConstants
<1>6. \A q \in Requests : RequestInv(q)'
  BY <1>4 DEF StreamInv, RequestInv, Untouched, Open, swarmVars
<1>7. ChannelInv'
  <2>1. Untouched(r)
    BY <1>0 DEF RequestInv
  <2>2. \A i \in DOMAIN commands : commands[i] # r /\ commands[i] \in Requests
    BY <1>0, <1>1, ElementOfSeq DEF StreamInv, ChannelInv
  <2>3. \A q : Untouched(q)' <=> Untouched(q)
    BY DEF Untouched, Open
  <2>4. \A i \in DOMAIN commands' : call'[commands'[i]].pc # "idle" /\ Untouched(commands'[i])
    BY <1>3, <1>4, <2>1, <2>2 DEF StreamInv, ChannelInv
  <2>5. \A i, j \in DOMAIN commands' : commands'[i] = commands'[j] => i = j
    BY <1>3, <2>2 DEF StreamInv, ChannelInv
  <2>6. \A i \in DOMAIN commands' : Untouched(commands[i])'
    BY <2>3, <2>4 DEF Untouched
  <2> QED BY <2>4, <2>5, <2>6 DEF ChannelInv
<1>8. ClosesInv'
  BY DEF StreamInv, ClosesInv, Open
<1>9. \A d \in Conns : ProgressInv(d, progress[d], call, history, now)'
  <2>1. history[r].result = "none"
    BY <1>0 DEF RequestInv, Untouched, NoOutcome
  <2>2. now' \in Int /\ now <= now'
    BY <1>0 DEF StreamTypes, Open, swarmVars, StreamConstants
  <2> QED BY <1>4, <2>1, <2>2, ProgressStays DEF Open
<1> QED BY <1>5, <1>6, <1>7, <1>8, <1>9 DEF StreamInv

\* What a step leaves that only moves callers which are not idle
LEMMA CallersMove ==
    ASSUME StreamConstants, StreamInv, call' \in [Requests -> StreamCallType],
           \A r \in Requests : /\ call'[r].conn = call[r].conn
                               /\ call'[r].pc = "idle" <=> call[r].pc = "idle",
           UNCHANGED <<pending, progress, history, now, closes>>
    PROVE  /\ \A r \in Requests : RequestInv(r)'
           /\ ClosesInv'
           /\ UNCHANGED commands => ChannelInv'
           /\ \A c \in Conns : ProgressInv(c, progress[c], call, history, now)'
<1>1. \A r \in Requests : RequestInv(r)'
  BY DEF StreamInv, RequestInv, Untouched
<1>2. ClosesInv'
  BY DEF StreamInv, ClosesInv
<1>3. ASSUME UNCHANGED commands PROVE ChannelInv'
  <2>1. \A i \in DOMAIN commands : commands[i] \in Requests
    BY ElementOfSeq DEF StreamInv, StreamTypes
  <2> QED BY <1>3, <2>1 DEF StreamInv, ChannelInv, Untouched
<1>4. \A c \in Conns : ProgressInv(c, progress[c], call, history, now)'
  <2>1. now' \in Int /\ now <= now'
    BY DEF StreamInv, StreamTypes, StreamConstants
  <2> QED BY <2>1, ProgressStays
<1> QED BY <1>1, <1>2, <1>3, <1>4

\* open_stream is dropped
LEMMA DropKeeps ==
    ASSUME StreamConstants, StreamInv, NEW r \in Requests, Drop(r)
    PROVE  StreamInv'
<1>1. /\ call' \in [Requests -> StreamCallType]
      /\ \A q \in Requests : /\ call'[q].conn = call[q].conn
                             /\ call'[q].pc = "idle" <=> call[q].pc = "idle"
  BY DEF StreamInv, StreamTypes, StreamCallType, Drop, Waiting
<1>2. StreamTypes'
  BY <1>1 DEF StreamInv, StreamTypes, Drop, swarmVars
<1> QED BY <1>1, <1>2, CallersMove DEF StreamInv, Drop, swarmVars

\* The channel after its head was taken
LEMMA ChannelTail ==
    ASSUME StreamConstants, StreamInv, commands # <<>>
    PROVE  /\ Head(commands) \in Requests /\ 1 \in DOMAIN commands /\ commands[1] = Head(commands)
           /\ Tail(commands) \in Seq(Requests) /\ Len(Tail(commands)) <= Capacity
           /\ \A i \in DOMAIN Tail(commands) :
                i + 1 \in DOMAIN commands /\ Tail(commands)[i] = commands[i + 1] /\ i \in Nat
                /\ Tail(commands)[i] # Head(commands) /\ Tail(commands)[i] \in Requests
           /\ \A i, j \in DOMAIN Tail(commands) : Tail(commands)[i] = Tail(commands)[j] => i = j
<1>0. commands \in Seq(Requests) /\ Len(commands) <= Capacity /\ Capacity \in Nat
  BY DEF StreamInv, StreamTypes, StreamConstants
<1>1. /\ Head(commands) \in Requests /\ Tail(commands) \in Seq(Requests)
      /\ Len(Tail(commands)) = Len(commands) - 1
      /\ \A i \in 1..Len(Tail(commands)) : Tail(commands)[i] = commands[i + 1]
  BY <1>0, HeadTailProperties
<1>2. Len(commands) \in Nat /\ Len(commands) # 0 /\ DOMAIN commands = 1..Len(commands)
  BY <1>0, LenProperties, EmptySeq
<1>3. commands[1] = Head(commands) /\ 1 \in DOMAIN commands
  BY <1>0, <1>2
<1> DEFINE t == Tail(commands)
           l == Len(commands)
           lt == Len(t)
<1>4. DOMAIN t = 1..lt /\ lt = l - 1 /\ l \in Nat /\ l # 0 /\ l <= Capacity
  BY <1>0, <1>1, <1>2, LenProperties
<1>5. \A i \in DOMAIN t : t[i] = commands[i + 1] /\ t[i] \in Requests
  BY <1>1, <1>4, ElementOfSeq
<1> HIDE DEF t, l, lt
<1>6. \A i \in DOMAIN t : i + 1 \in 1..l /\ i \in Nat /\ i + 1 # 1
  BY <1>4
<1>7. \A i \in DOMAIN t : i + 1 \in DOMAIN commands
  BY <1>2, <1>6 DEF l
<1>8. \A i, j \in DOMAIN commands : commands[i] = commands[j] => i = j
  BY DEF StreamInv, ChannelInv
<1>9. \A i \in DOMAIN t : t[i] # Head(commands)
  BY <1>3, <1>5, <1>6, <1>7, <1>8
<1>10. \A i, j \in DOMAIN t : t[i] = t[j] => i = j
  BY <1>5, <1>6, <1>7, <1>8
<1>11. lt <= Capacity
  BY <1>0, <1>4
<1> QED BY <1>1, <1>3, <1>5, <1>6, <1>7, <1>9, <1>10, <1>11 DEF t, lt

\* poll and handle_open
LEMMA PollKeeps ==
    ASSUME StreamConstants, StreamInv, Poll
    PROVE  StreamInv'
<1> DEFINE r == Head(commands)
           t == Tail(commands)
<1>0. /\ commands # <<>> /\ commands' = t /\ UNCHANGED <<now, swarm, conn, progress, closes, history>>
      /\ StreamTypes
  BY DEF Poll, swarmVars, StreamInv
<1>1. /\ r \in Requests /\ 1 \in DOMAIN commands /\ commands[1] = r
      /\ t \in Seq(Requests) /\ Len(t) <= Capacity
      /\ \A i \in DOMAIN t :
           i + 1 \in DOMAIN commands /\ t[i] = commands[i + 1] /\ i \in Nat
           /\ t[i] # r /\ t[i] \in Requests
      /\ \A i, j \in DOMAIN t : t[i] = t[j] => i = j
  BY <1>0, ChannelTail
<1>2. Untouched(r) /\ call[r].pc # "idle"
  BY <1>1 DEF StreamInv, ChannelInv
<1>3. \/ call' = [call EXCEPT ![r].pc = "done"]
      \/ call' = [call EXCEPT ![r].pc = "pending"]
  BY DEF Poll
<1>4. \/ UNCHANGED <<pending, handler>>
      \/ pending' = [pending EXCEPT ![r] = now] /\ handler' = [handler EXCEPT ![r] = "asked"]
  BY DEF Poll
<1> HIDE DEF r, t
<1>5. /\ call' \in [Requests -> StreamCallType]
      /\ \A q \in Requests : /\ call'[q].conn = call[q].conn
                             /\ call'[q].pc = "idle" <=> call[q].pc = "idle"
  <2>1. r \in Requests /\ call \in [Requests -> StreamCallType] /\ call[r].pc # "idle"
    BY <1>0, <1>1, <1>2 DEF StreamTypes
  <2>2. CASE call' = [call EXCEPT ![r].pc = "done"]
    BY <2>1, <2>2 DEF StreamCallType
  <2>3. CASE call' = [call EXCEPT ![r].pc = "pending"]
    BY <2>1, <2>3 DEF StreamCallType
  <2> QED BY <1>3, <2>2, <2>3
<1>6. /\ pending' \in [Requests -> Times] /\ handler' \in [Requests -> {"none", "asked"} \cup Results]
      /\ \A q \in Requests : q # r => pending'[q] = pending[q]
      /\ pending'[r] \in {Never, now}
  <2>1. now \in Times
    BY <1>0 DEF StreamTypes, Times, Never, StreamConstants
  <2>2. /\ r \in Requests /\ pending \in [Requests -> Times] /\ pending[r] = Never
        /\ handler \in [Requests -> {"none", "asked"} \cup Results]
    BY <1>0, <1>1, <1>2 DEF StreamTypes, Untouched
  <2>3. CASE UNCHANGED <<pending, handler>>
    BY <2>2, <2>3
  <2>4. CASE pending' = [pending EXCEPT ![r] = now] /\ handler' = [handler EXCEPT ![r] = "asked"]
    BY <2>1, <2>2, <2>4
  <2> QED BY <1>4, <2>3, <2>4
<1>7. StreamTypes'
  BY <1>0, <1>1, <1>5, <1>6 DEF StreamTypes
<1>8. \A q \in Requests : RequestInv(q)'
  <2> SUFFICES ASSUME NEW q \in Requests PROVE RequestInv(q)'
    OBVIOUS
  <2>1. CASE q # r
    BY <1>0, <1>5, <1>6, <2>1 DEF StreamInv, RequestInv, Untouched
  <2>2. CASE q = r
    <3>1. now \in Nat /\ history'[r] = NoOutcome /\ call'[r].pc # "idle"
      BY <1>0, <1>1, <1>2, <1>5 DEF StreamTypes, Untouched, StreamConstants
    <3> QED BY <1>0, <1>6, <2>2, <3>1 DEF RequestInv, NoOutcome, Never
  <2> QED BY <2>1, <2>2
<1>9. ChannelInv'
  BY <1>0, <1>1, <1>5, <1>6 DEF StreamInv, ChannelInv, Untouched
<1>10. ClosesInv'
  BY <1>0 DEF StreamInv, ClosesInv
<1>11. \A c \in Conns : ProgressInv(c, progress[c], call, history, now)'
  <2>1. now' \in Int /\ now <= now'
    BY <1>0 DEF StreamTypes, StreamConstants
  <2> QED BY <1>0, <1>5, <2>1, ProgressStays
<1> QED BY <1>7, <1>8, <1>9, <1>10, <1>11 DEF StreamInv

\* poll: a connection to retire
LEMMA PollCloseKeeps ==
    ASSUME StreamConstants, StreamInv, PollClose
    PROVE  StreamInv'
<1>0. closes \in Seq(Conns) /\ closes # <<>> /\ closes' = Tail(closes) /\ StreamTypes
  BY DEF StreamInv, StreamTypes, PollClose
<1>1. /\ Head(closes) \in Conns /\ Tail(closes) \in Seq(Conns)
      /\ Len(Tail(closes)) = Len(closes) - 1
      /\ \A i \in 1..Len(Tail(closes)) : Tail(closes)[i] = closes[i + 1]
  BY <1>0, HeadTailProperties
<1> DEFINE t == Tail(closes)
           l == Len(closes)
           lt == Len(t)
<1>2. DOMAIN t = 1..lt /\ lt = l - 1 /\ l \in Nat /\ DOMAIN closes = 1..l
  BY <1>0, <1>1, LenProperties
<1>3. \A i \in 1..lt : t[i] = closes[i + 1]
  BY <1>1
<1> HIDE DEF t, l, lt
<1>4. \A i \in DOMAIN t : i + 1 \in DOMAIN closes /\ i \in Nat /\ t[i] = closes[i + 1]
  BY <1>2, <1>3
<1>5. closes' = t /\ t \in Seq(Conns)
  BY <1>0, <1>1 DEF t
<1>6. ClosesInv'
  BY <1>4, <1>5 DEF StreamInv, ClosesInv, PollClose
<1>7. StreamTypes'
  BY <1>0, <1>1, <1>5 DEF StreamTypes, PollClose, swarmVars
<1>8. (\A r \in Requests : RequestInv(r)') /\ ChannelInv'
  BY DEF StreamInv, RequestInv, ChannelInv, Untouched, PollClose, swarmVars
<1>9. \A c \in Conns : ProgressInv(c, progress[c], call, history, now)'
  BY DEF StreamInv, PollClose, swarmVars
<1> QED BY <1>6, <1>7, <1>8, <1>9 DEF StreamInv

\* A negotiation ends
LEMMA NegotiatedKeeps ==
    ASSUME StreamConstants, StreamInv, NEW r \in Requests, NEW result \in Results, Negotiated(r, result)
    PROVE  StreamInv'
<1>1. StreamTypes'
  BY DEF StreamInv, StreamTypes, Negotiated, swarmVars
<1>2. (\A q \in Requests : RequestInv(q)') /\ ChannelInv' /\ ClosesInv'
  BY DEF StreamInv, RequestInv, ChannelInv, ClosesInv, Untouched, Negotiated, swarmVars
<1>3. \A c \in Conns : ProgressInv(c, progress[c], call, history, now)'
  BY DEF StreamInv, Negotiated, swarmVars
<1> QED BY <1>1, <1>2, <1>3 DEF StreamInv

\* connection_established
LEMMA ConnectedKeeps ==
    ASSUME StreamConstants, StreamInv, NEW c \in Conns, Connected(c)
    PROVE  StreamInv'
<1>1. StreamTypes'
  BY DEF StreamInv, StreamTypes, Connected, swarmVars
<1>2. (\A q \in Requests : RequestInv(q)') /\ ChannelInv' /\ ClosesInv'
  BY DEF StreamInv, RequestInv, ChannelInv, ClosesInv, Untouched, Connected, swarmVars
<1>3. \A d \in Conns : ProgressInv(d, progress[d], call, history, now)'
  BY DEF StreamInv, Connected, swarmVars
<1> QED BY <1>1, <1>2, <1>3 DEF StreamInv

\* Time passes
LEMMA TickKeeps ==
    ASSUME StreamConstants, StreamInv, Tick
    PROVE  StreamInv'
<1>0. StreamTypes /\ now \in Int /\ now' = now + 1 /\ now' \in 0..MaxTime
  BY DEF StreamInv, StreamTypes, Tick, StreamConstants
<1>1. StreamTypes'
  BY <1>0 DEF StreamTypes, Tick
<1>2. \A r \in Requests : RequestInv(r)'
  <2> SUFFICES ASSUME NEW r \in Requests PROVE RequestInv(r)'
    OBVIOUS
  <2>1. pending[r] \in Int /\ history[r].at \in Int /\ RequestInv(r)
    BY <1>0 DEF StreamInv, StreamTypes, OutcomeType, Times, Never, StreamConstants
  <2>2. pending[r] <= now' /\ history[r].at <= now'
    BY <1>0, <2>1 DEF RequestInv
  <2> QED BY <2>1, <2>2 DEF RequestInv, Untouched, Tick
<1>3. ChannelInv' /\ ClosesInv'
  BY DEF StreamInv, ChannelInv, ClosesInv, Untouched, Tick
<1>4. \A c \in Conns : ProgressInv(c, progress[c], call, history, now)'
  <2>1. now' \in Int /\ now <= now'
    BY <1>0
  <2> QED BY <2>1, ProgressStays DEF Tick
<1> QED BY <1>1, <1>2, <1>3, <1>4 DEF StreamInv

\* An answer for a request that is pending
Answered(r) == swarm = "runs" /\ handler[r] \in Results /\ pending[r] # Never /\ HandlerEvent(r)

\* on_connection_handler_event: what becomes of callers and outcomes
LEMMA AnswerMoves ==
    ASSUME StreamConstants, StreamInv, NEW r \in Requests, Answered(r)
    PROVE  /\ call[r].conn \in Conns /\ pending[r] \in 0..MaxTime /\ now \in 0..MaxTime
           /\ history[r] = NoOutcome
           /\ call' \in [Requests -> StreamCallType] /\ call'[r].pc = "done"
           /\ \A q \in Requests : call'[q].conn = call[q].conn /\ (q # r => call'[q] = call[q])
           /\ history' \in [Requests -> OutcomeType] /\ (handler[r] = "refused" => history' = history)
           /\ \A q \in Requests : q # r => history'[q] = history[q]
           /\ handler[r] # "refused" => history'[r] = [result |-> handler[r], started |-> pending[r], at |-> now]
<1>0. StreamTypes /\ RequestInv(r) /\ pending[r] # Never /\ handler[r] \in Results
  BY DEF StreamInv, Answered
<1>1. call[r].conn \in Conns /\ now \in 0..MaxTime /\ call \in [Requests -> StreamCallType]
  BY <1>0 DEF StreamTypes, StreamCallType
<1>2. pending[r] \in 0..MaxTime
  <2>1. pending[r] \in Times
    BY <1>0 DEF StreamTypes
  <2> QED BY <1>0, <2>1 DEF Times, Never, StreamConstants
<1>3. history[r] = NoOutcome /\ history \in [Requests -> OutcomeType]
  BY <1>0 DEF RequestInv, StreamTypes
<1>4. call' = [call EXCEPT ![r].pc = "done"]
  BY <1>0 DEF Answered, HandlerEvent
<1>5. /\ call' \in [Requests -> StreamCallType] /\ call'[r].pc = "done"
      /\ \A q \in Requests : call'[q].conn = call[q].conn /\ (q # r => call'[q] = call[q])
  BY <1>1, <1>4 DEF StreamCallType
<1> DEFINE o == [result |-> handler[r], started |-> pending[r], at |-> now]
<1>6. history' = IF handler[r] = "refused" THEN history ELSE [history EXCEPT ![r] = o]
  BY <1>0 DEF Answered, HandlerEvent
<1>7. handler[r] # "refused" => o \in OutcomeType
  <2>1. handler[r] # "refused" => handler[r] \in {"stream", "timeout"}
    BY <1>0 DEF Results
  <2>2. pending[r] \in Times /\ now \in Times
    BY <1>1, <1>2 DEF Times, Never, StreamConstants
  <2> QED BY <2>1, <2>2 DEF OutcomeType
<1> HIDE DEF o
<1>8. /\ history' \in [Requests -> OutcomeType] /\ (handler[r] = "refused" => history' = history)
      /\ \A q \in Requests : q # r => history'[q] = history[q]
      /\ handler[r] # "refused" => history'[r] = o
  BY <1>3, <1>6, <1>7
<1> QED BY <1>1, <1>2, <1>3, <1>5, <1>8 DEF o

\* on_connection_handler_event: what becomes of the connection's progress
LEMMA AnswerProgress ==
    ASSUME StreamConstants, StreamInv, NEW r \in Requests, Answered(r)
    PROVE  LET c == call[r].conn
               p == progress[c]
               n == Progressed(r)
           IN  /\ n \in ProgressType /\ (p.closing => n.closing)
               /\ n.closing /\ ~p.closing =>
                    handler[r] = "timeout" /\ Counts(p, pending[r]) /\ n = TimedOut(p, now)
               /\ ProgressInv(c, n, call', history', now)
<1> DEFINE c == call[r].conn
           p == progress[c]
           n == Progressed(r)
<1>0. /\ c \in Conns /\ pending[r] \in 0..MaxTime /\ now \in 0..MaxTime
      /\ history[r] = NoOutcome
      /\ \A q \in Requests : call'[q].conn = call[q].conn
      /\ history' \in [Requests -> OutcomeType] /\ (handler[r] = "refused" => history' = history)
      /\ \A q \in Requests : q # r => history'[q] = history[q]
      /\ handler[r] # "refused" => history'[r] = [result |-> handler[r], started |-> pending[r], at |-> now]
  BY AnswerMoves
<1>1. p \in ProgressType /\ ProgressInv(c, p, call, history, now) /\ handler[r] \in Results
  BY <1>0 DEF StreamInv, StreamTypes, Answered
<1>2. now \in Nat /\ now \in Int /\ now <= now /\ now \in Times /\ Never \in Times
  BY <1>0 DEF StreamConstants, Times, Never
<1>3. \A q \in Requests : history[q].at <= now
  BY DEF StreamInv, RequestInv
<1>4. CASE handler[r] = "stream"
  <2>1. n = Succeeded(p, now)
    BY <1>4 DEF Progressed
  <2>2. \A q \in Requests : history'[q].at <= now
    BY <1>0, <1>2, <1>3, <1>4
  <2>3. history'[r].result = "stream" /\ history'[r].at = now /\ call'[r].conn = c
    BY <1>0, <1>4
  <2>4. n \in ProgressType /\ n.closing = p.closing
    <3>1. n = [success |-> now, first |-> Never, last |-> Never, timeouts |-> 0, closing |-> p.closing]
      BY <2>1 DEF Succeeded, Fresh
    <3>2. p.closing \in BOOLEAN
      BY <1>1 DEF ProgressType
    <3> HIDE DEF n, p
    <3> QED BY <1>2, <3>1, <3>2 DEF ProgressType
  <2> HIDE DEF p, n, c
  <2>5. ProgressInv(c, Succeeded(p, now), call', history', now)
    BY <1>1, <1>2, <2>2, <2>3, SuccessCounts
  <2> QED BY <2>1, <2>4, <2>5 DEF p, n, c
<1>5. CASE handler[r] = "timeout" /\ Counts(p, pending[r])
  <2>1. n = TimedOut(p, now)
    BY <1>5 DEF Progressed
  <2>2. n \in ProgressType /\ n.success = p.success /\ n.last = now
    BY <1>0, <1>1, <2>1, TimedOutFacts
  <2>3. ~p.closing
    BY <1>5 DEF Counts
  <2>4. history' = [history EXCEPT ![r] = [result |-> "timeout", started |-> pending[r], at |-> now]]
    BY <1>5 DEF Answered, HandlerEvent
  <2>5. history \in [Requests -> OutcomeType]
    BY DEF StreamInv, StreamTypes
  <2> HIDE DEF p, n, c
  <2>6. call'[r].conn = c
    BY <1>0 DEF c
  <2>7. ProgressInv(c, p, call', history, now)
    BY <1>0, <1>1, <1>2, ProgressFrame
  <2>8. /\ LastSuccess(c, TimedOut(p, now), call', history')
        /\ \E S \in SUBSET Requests : Stall(S, c, TimedOut(p, now), call', history')
    BY <1>0, <1>1, <1>3, <1>5, <2>4, <2>5, <2>6, <2>7, TimeoutCounts
  <2>9. ProgressInv(c, n, call', history', now)
    BY <1>1, <1>2, <2>1, <2>2, <2>8 DEF ProgressInv
  <2> QED BY <1>5, <2>1, <2>2, <2>3, <2>9 DEF p, n, c
<1>6. CASE handler[r] # "stream" /\ ~(handler[r] = "timeout" /\ Counts(p, pending[r]))
  <2>1. n = p
    BY <1>6 DEF Progressed
  <2>2. history[r].result = "none" /\ history'[r].result # "stream"
    BY <1>0, <1>6 DEF NoOutcome
  <2> HIDE DEF p, n, c
  <2>3. ProgressInv(c, p, call', history', now)
    <3>1. \A q \in Requests : call[q].conn = c /\ history[q].result # "none" =>
                                history'[q] = history[q] /\ call'[q].conn = c
      BY <1>0, <2>2
    <3>2. \A q \in Requests : call'[q].conn = c /\ history'[q].result = "stream" =>
                                history'[q] = history[q] /\ call[q].conn = c
      BY <1>0, <2>2
    <3> QED BY <1>1, <1>2, <3>1, <3>2, ProgressFrame
  <2> QED BY <1>1, <2>1, <2>3 DEF p, n, c
<1> QED BY <1>1, <1>4, <1>5, <1>6

\* on_connection_handler_event
LEMMA AnswerKeeps ==
    ASSUME StreamConstants, StreamInv, NEW r \in Requests, Answered(r)
    PROVE  StreamInv'
<1> DEFINE c == call[r].conn
           p == progress[c]
           n == Progressed(r)
<1>0. /\ c \in Conns /\ pending[r] \in 0..MaxTime /\ now \in 0..MaxTime
      /\ history[r] = NoOutcome
      /\ call' \in [Requests -> StreamCallType] /\ call'[r].pc = "done"
      /\ \A q \in Requests : call'[q].conn = call[q].conn /\ (q # r => call'[q] = call[q])
      /\ history' \in [Requests -> OutcomeType] /\ (handler[r] = "refused" => history' = history)
      /\ \A q \in Requests : q # r => history'[q] = history[q]
      /\ handler[r] # "refused" => history'[r] = [result |-> handler[r], started |-> pending[r], at |-> now]
  BY AnswerMoves
<1>1. /\ n \in ProgressType /\ (p.closing => n.closing)
      /\ ProgressInv(c, n, call', history', now)
  BY AnswerProgress
<1>2. /\ progress' = [progress EXCEPT ![c] = n] /\ pending' = [pending EXCEPT ![r] = Never]
      /\ handler' = [handler EXCEPT ![r] = "none"]
      /\ closes' = IF progress'[c].closing /\ ~progress[c].closing THEN Append(closes, c) ELSE closes
      /\ UNCHANGED <<now, swarm, conn, commands>>
  BY DEF Answered, HandlerEvent, swarmVars
<1> HIDE DEF n
<1>3. StreamTypes
  BY DEF StreamInv
<1>4. /\ progress' \in [Conns -> ProgressType] /\ progress'[c] = n
      /\ \A d \in Conns : d # c => progress'[d] = progress[d]
  BY <1>0, <1>1, <1>2, <1>3 DEF StreamTypes
<1>5. /\ pending' \in [Requests -> Times] /\ pending'[r] = Never
      /\ \A q \in Requests : q # r => pending'[q] = pending[q]
  <2>1. Never \in Times
    BY DEF Times, Never, StreamConstants
  <2> QED BY <1>2, <1>3, <2>1 DEF StreamTypes
<1>6. closes' \in Seq(Conns)
  <2>1. closes \in Seq(Conns)
    BY <1>3 DEF StreamTypes
  <2>2. Append(closes, c) \in Seq(Conns)
    BY <1>0, <2>1, AppendProperties
  <2> QED BY <1>2, <2>1, <2>2
<1>7. StreamTypes'
  <2>1. handler' \in [Requests -> {"none", "asked"} \cup Results]
    BY <1>2, <1>3 DEF StreamTypes
  <2> QED BY <1>0, <1>2, <1>3, <1>4, <1>5, <1>6, <2>1 DEF StreamTypes
<1>8. \A q \in Requests : RequestInv(q)'
  <2> SUFFICES ASSUME NEW q \in Requests PROVE RequestInv(q)'
    OBVIOUS
  <2>1. CASE q # r
    BY <1>0, <1>2, <1>5, <2>1 DEF StreamInv, RequestInv, Untouched
  <2>2. CASE q = r
    <3>1. handler[r] = "refused" => history'[r] = NoOutcome
      BY <1>0
    <3>2. now \in Nat /\ pending[r] \in Nat
      BY <1>0 DEF StreamConstants
    <3> QED BY <1>0, <1>2, <1>5, <2>2, <3>1, <3>2 DEF RequestInv, Untouched, NoOutcome, Never
  <2> QED BY <2>1, <2>2
<1>9. ChannelInv'
  <2>1. \A i \in DOMAIN commands : commands[i] \in Requests /\ Untouched(commands[i])
    BY <1>3, ElementOfSeq DEF StreamTypes, StreamInv, ChannelInv
  <2>2. \A i \in DOMAIN commands : commands[i] # r
    <3>1. pending[r] # Never
      BY DEF Answered
    <3> QED BY <2>1, <3>1 DEF Untouched
  <2> QED BY <1>0, <1>2, <1>5, <2>1, <2>2 DEF StreamInv, ChannelInv, Untouched
<1>10. ClosesInv'
  <2>1. closes \in Seq(Conns) /\ Len(closes) \in Nat
    BY <1>3, LenProperties DEF StreamTypes
  <2>2. \A i \in DOMAIN closes : closes[i] \in Conns /\ progress[closes[i]].closing /\ progress'[closes[i]].closing
    BY <1>1, <1>4, <2>1, ElementOfSeq DEF StreamInv, ClosesInv
  <2>3. CASE closes' = closes
    BY <2>2, <2>3 DEF StreamInv, ClosesInv
  <2>4. CASE closes' # closes
    <3>1. closes' = Append(closes, c) /\ progress'[c].closing /\ ~progress[c].closing
      BY <1>2, <2>4
    <3>2. \A i \in DOMAIN closes : closes[i] # c
      BY <2>2, <3>1
    <3>3. /\ \A i \in DOMAIN closes' : i = Len(closes) + 1 \/ i \in DOMAIN closes
          /\ \A i \in DOMAIN closes : closes'[i] = closes[i]
          /\ closes'[Len(closes) + 1] = c
      BY <2>1, <3>1
    <3> QED BY <2>2, <3>1, <3>2, <3>3 DEF StreamInv, ClosesInv
  <2> QED BY <2>3, <2>4
<1>11. \A d \in Conns : ProgressInv(d, progress[d], call, history, now)'
  <2> SUFFICES ASSUME NEW d \in Conns PROVE ProgressInv(d, progress'[d], call', history', now')
    OBVIOUS
  <2>1. CASE d = c
    BY <1>1, <1>2, <1>4, <2>1
  <2>2. CASE d # c
    <3>1. now \in Int /\ now <= now
      BY <1>0
    <3>2. ProgressInv(d, progress[d], call, history, now) /\ progress[d] \in ProgressType
      BY <1>3 DEF StreamInv, StreamTypes
    <3>3. ProgressInv(d, progress[d], call', history', now)
      BY <1>0, <2>2, <3>1, <3>2, ProgressFrame
    <3> QED BY <1>2, <1>4, <2>2, <3>3
  <2> QED BY <2>1, <2>2
<1> QED BY <1>7, <1>8, <1>9, <1>10, <1>11 DEF StreamInv

\* A late answer finds nothing pending.
LEMMA HandlerEventKeeps ==
    ASSUME StreamConstants, StreamInv, NEW r \in Requests, HandlerEvent(r)
    PROVE  StreamInv'
<1>1. CASE pending[r] # Never
  BY <1>1, AnswerKeeps DEF Answered, HandlerEvent
<1>2. CASE pending[r] = Never
  <2>1. UNCHANGED <<now, swarm, conn, call, commands, pending, progress, closes, history>>
        /\ handler' = [handler EXCEPT ![r] = "none"]
    BY <1>2 DEF HandlerEvent, swarmVars
  <2>2. StreamTypes'
    BY <2>1 DEF StreamInv, StreamTypes
  <2>3. (\A q \in Requests : RequestInv(q)') /\ ChannelInv' /\ ClosesInv'
    BY <2>1 DEF StreamInv, RequestInv, ChannelInv, ClosesInv, Untouched
  <2>4. \A c \in Conns : ProgressInv(c, progress[c], call, history, now)'
    BY <2>1 DEF StreamInv
  <2> QED BY <2>2, <2>3, <2>4 DEF StreamInv
<1> QED BY <1>1, <1>2

\* connection_closed
LEMMA ClosedKeeps ==
    ASSUME StreamConstants, StreamInv, NEW c \in Conns, Closed(c)
    PROVE  StreamInv'
<1>0. StreamTypes
  BY DEF StreamInv
<1>1. Fresh \in ProgressType /\ NoOutcome \in OutcomeType /\ Never \in Times
  BY DEF Fresh, NoOutcome, ProgressType, OutcomeType, Times, Never, StreamConstants
<1>2. /\ progress' \in [Conns -> ProgressType] /\ progress'[c] = Fresh
      /\ \A d \in Conns : d # c => progress'[d] = progress[d]
  BY <1>0, <1>1 DEF StreamTypes, Closed
<1>3. /\ pending' \in [Requests -> Times] /\ \A r \in Requests : pending'[r] \in {Never, pending[r]}
  BY <1>0, <1>1 DEF StreamTypes, Closed
<1>4. /\ call' \in [Requests -> StreamCallType]
      /\ \A r \in Requests : call'[r].conn = call[r].conn
      /\ \A r \in Requests : call'[r] = call[r] \/ (pending[r] # Never /\ call'[r].pc = "done")
  BY <1>0 DEF StreamTypes, StreamCallType, Closed, On
<1>5. /\ history' \in [Requests -> OutcomeType]
      /\ \A r \in Requests : /\ call[r].conn = c => history'[r] = NoOutcome
                             /\ call[r].conn # c => history'[r] = history[r]
  BY <1>0, <1>1 DEF StreamTypes, Closed
<1>6. Others(closes, c, closes')
  BY <1>0, RetainIs DEF StreamTypes, Closed, StreamInv, ClosesInv
<1>7. StreamTypes'
  <2>1. handler' \in [Requests -> {"none", "asked"} \cup Results]
    BY <1>0 DEF StreamTypes, Closed
  <2>2. conn' \in [Conns -> {"new", "up", "ending", "closed"}]
    BY <1>0 DEF StreamTypes, Closed
  <2>3. closes' \in Seq(Conns)
    BY <1>6 DEF Others
  <2> QED BY <1>0, <1>2, <1>3, <1>4, <1>5, <2>1, <2>2, <2>3 DEF StreamTypes, Closed, swarmVars
<1>8. \A r \in Requests : RequestInv(r)'
  <2> SUFFICES ASSUME NEW r \in Requests PROVE RequestInv(r)'
    OBVIOUS
  <2>1. RequestInv(r) /\ now' = now /\ now \in Nat
    BY <1>0 DEF StreamInv, Closed, swarmVars, StreamTypes, StreamConstants
  <2>2. pending'[r] <= now' /\ history'[r].at <= now'
    BY <1>3, <1>5, <2>1 DEF RequestInv, NoOutcome, Never
  <2>3. history'[r] \in {NoOutcome, history[r]}
    BY <1>5
  <2>4. call'[r].pc = "idle" => call[r].pc = "idle"
    BY <1>4
  <2> QED BY <1>3, <2>1, <2>2, <2>3, <2>4 DEF RequestInv, Untouched, NoOutcome
<1>9. ChannelInv'
  <2>1. \A i \in DOMAIN commands : commands[i] \in Requests
    BY <1>0, ElementOfSeq DEF StreamTypes
  <2>2. \A i \in DOMAIN commands : call'[commands[i]].pc # "idle" /\ Untouched(commands[i])'
    <3> SUFFICES ASSUME NEW i \in DOMAIN commands PROVE call'[commands[i]].pc # "idle" /\ Untouched(commands[i])'
      OBVIOUS
    <3>1. call[commands[i]].pc # "idle" /\ Untouched(commands[i])
      BY DEF StreamInv, ChannelInv
    <3>2. commands' = commands
      BY DEF Closed
    <3> QED BY <1>3, <1>4, <1>5, <2>1, <3>1, <3>2 DEF Untouched
  <2> QED BY <2>2 DEF StreamInv, ChannelInv, Closed
<1>10. ClosesInv'
  <2>1. \A i \in DOMAIN closes' : closes'[i] # c /\ progress[closes'[i]].closing /\ closes'[i] \in Conns
    <3>1. \A i \in DOMAIN closes : progress[closes[i]].closing /\ closes[i] \in Conns
      BY <1>0, ElementOfSeq DEF StreamTypes, StreamInv, ClosesInv
    <3> QED BY <1>6, <3>1 DEF Others
  <2> QED BY <1>2, <1>6, <2>1 DEF ClosesInv, Others
<1>11. \A d \in Conns : ProgressInv(d, progress[d], call, history, now)'
  <2> SUFFICES ASSUME NEW d \in Conns PROVE ProgressInv(d, progress'[d], call', history', now')
    OBVIOUS
  <2>1. now \in Nat /\ now' = now
    BY <1>0 DEF StreamTypes, Closed, swarmVars, StreamConstants
  <2>2. CASE d = c
    <3>1. \A r \in Requests : call'[r].conn = c => history'[r].result # "stream"
      BY <1>4, <1>5 DEF NoOutcome
    <3>2. ProgressInv(c, Fresh, call', history', now)
      BY <2>1, <3>1, FreshProgress
    <3> QED BY <1>2, <2>1, <2>2, <3>2
  <2>3. CASE d # c
    <3>1. ProgressInv(d, progress[d], call, history, now) /\ progress[d] \in ProgressType
      BY <1>0 DEF StreamInv, StreamTypes
    <3>2. now \in Int /\ now <= now
      BY <2>1
    <3>3. ProgressInv(d, progress[d], call', history', now)
      BY <1>4, <1>5, <2>3, <3>1, <3>2, ProgressFrame
    <3> QED BY <1>2, <2>1, <2>3, <3>3
  <2> QED BY <2>2, <2>3
<1> QED BY <1>7, <1>8, <1>9, <1>10, <1>11 DEF StreamInv

\* The behaviour is dropped
LEMMA StopKeeps ==
    ASSUME StreamConstants, StreamInv, Stop
    PROVE  StreamInv'
<1>0. StreamTypes
  BY DEF StreamInv
<1>1. Fresh \in ProgressType /\ NoOutcome \in OutcomeType /\ Never \in Times
  BY DEF Fresh, NoOutcome, ProgressType, OutcomeType, Times, Never, StreamConstants
<1>2. progress' \in [Conns -> ProgressType] /\ \A c \in Conns : progress'[c] = Fresh
  BY <1>1 DEF Stop
<1>3. pending' \in [Requests -> Times] /\ \A r \in Requests : pending'[r] = Never
  BY <1>1 DEF Stop
<1>4. history' \in [Requests -> OutcomeType] /\ \A r \in Requests : history'[r] = NoOutcome
  BY <1>1 DEF Stop
<1>5. call' \in [Requests -> StreamCallType]
      /\ \A r \in Requests : call'[r].pc = "idle" => call[r].pc = "idle"
  BY <1>0 DEF StreamTypes, StreamCallType, Stop
<1>6. closes' \in Seq(Conns) /\ DOMAIN closes' = {}
  BY EmptySeq DEF Stop
<1>7. StreamTypes'
  BY <1>0, <1>2, <1>3, <1>4, <1>5, <1>6 DEF StreamTypes, Stop
<1>8. \A r \in Requests : RequestInv(r)'
  <2>1. now' \in Nat
    BY <1>0 DEF StreamTypes, Stop, StreamConstants
  <2> QED BY <1>3, <1>4, <2>1 DEF RequestInv, Untouched, NoOutcome, Never
<1>9. ChannelInv'
  <2>1. \A i \in DOMAIN commands : commands[i] \in Requests
    BY <1>0, ElementOfSeq DEF StreamTypes
  <2> QED BY <1>3, <1>4, <1>5, <2>1 DEF StreamInv, ChannelInv, Untouched, Stop
<1>10. ClosesInv'
  BY <1>6 DEF ClosesInv
<1>11. \A c \in Conns : ProgressInv(c, progress[c], call, history, now)'
  <2>1. now' \in Nat /\ \A r \in Requests : history'[r].result # "stream"
    BY <1>0, <1>4 DEF StreamTypes, Stop, NoOutcome, StreamConstants
  <2> QED BY <1>2, <2>1, FreshProgress
<1> QED BY <1>7, <1>8, <1>9, <1>10, <1>11 DEF StreamInv

LEMMA StreamStutter ==
    ASSUME StreamInv, UNCHANGED vars
    PROVE  StreamInv'
<1>1. StreamTypes'
  BY DEF StreamInv, StreamTypes, vars
<1>2. (\A q \in Requests : RequestInv(q)') /\ ChannelInv' /\ ClosesInv'
  BY DEF StreamInv, RequestInv, ChannelInv, ClosesInv, Untouched, vars
<1>3. \A c \in Conns : ProgressInv(c, progress[c], call, history, now)'
  BY DEF StreamInv, vars
<1> QED BY <1>1, <1>2, <1>3 DEF StreamInv

\* Every step of the callers, the swarm and the handlers keeps the invariant.
LEMMA StreamStep ==
    ASSUME StreamConstants, StreamInv, [Next]_vars
    PROVE  StreamInv'
<1>1. ASSUME NEW r \in Requests, Drop(r) \/ HandlerEvent(r) PROVE StreamInv'
  BY <1>1, DropKeeps, HandlerEventKeeps
<1>2. ASSUME NEW r \in Requests, NEW c \in Conns, Open(r, c) PROVE StreamInv'
  BY <1>2, OpenKeeps
<1>3. ASSUME NEW r \in Requests, NEW result \in Results, Negotiated(r, result) PROVE StreamInv'
  BY <1>3, NegotiatedKeeps
<1>4. ASSUME NEW c \in Conns, Connected(c) \/ Closed(c) PROVE StreamInv'
  BY <1>4, ConnectedKeeps, ClosedKeeps
<1> QED BY <1>1, <1>2, <1>3, <1>4, PollKeeps, PollCloseKeeps, StopKeeps, TickKeeps, StreamStutter DEF Next

\* The counters of the connections stand for requests in the history.
LEMMA StreamInvariant ==
    ASSUME StreamConstants
    PROVE  Spec => []StreamInv
BY InitStreams, StreamStep, PTL DEF Spec

\* The count of a connection's timeouts never exceeds the requests.
LEMMA StreamFacts ==
    ASSUME StreamConstants, StreamInv
    PROVE  TypeOK
<1>0. StreamTypes
  BY DEF StreamInv
<1>1. ToSet(commands) \subseteq Requests /\ ToSet(closes) \subseteq Conns
  BY <1>0, ElementOfSeq DEF StreamTypes, ToSet
<1>2. ASSUME NEW c \in Conns PROVE progress[c].timeouts \in 0..Cardinality(Requests)
  <2>1. PICK S \in SUBSET Requests : Cardinality(S) = progress[c].timeouts
    BY DEF StreamInv, ProgressInv, Stall
  <2>2. IsFiniteSet(Requests)
    BY FS_Interval DEF Requests, StreamConstants
  <2>3. Cardinality(S) <= Cardinality(Requests) /\ Cardinality(Requests) \in Nat
    BY <2>2, FS_Subset, FS_CardinalityType
  <2>4. progress[c].timeouts \in Nat
    BY <1>0 DEF StreamTypes, ProgressType
  <2> QED BY <2>1, <2>3, <2>4
<1>3. \A r \in Requests : /\ call[r].pc \in {"idle", "queued", "pending", "gone", "done"}
                          /\ call[r].conn \in Conns
                          /\ pending[r] \in Never..MaxTime
                          /\ handler[r] \in {"none", "asked"} \cup Results
  BY <1>0 DEF StreamTypes, StreamCallType, Times
<1> QED BY <1>0, <1>1, <1>2, <1>3 DEF StreamTypes, TypeOK

\* A connection begins to be retired by an answer only, and by that of a timeout that
\* counts.
LEMMA OnlyTimeoutsRetire ==
    ASSUME StreamConstants, StreamInv, [Next]_vars, NEW c \in Conns,
           progress'[c].closing, ~progress[c].closing
    PROVE  \E r \in Requests : Answered(r) /\ call[r].conn = c
<1>1. ASSUME NEW r \in Requests, HandlerEvent(r) PROVE Answered(r) /\ call[r].conn = c
  <2>1. pending[r] # Never
    BY <1>1 DEF HandlerEvent
  <2>2. Answered(r)
    BY <1>1, <2>1 DEF Answered, HandlerEvent
  <2>3. progress' = [progress EXCEPT ![call[r].conn] = Progressed(r)] /\ call[r].conn \in Conns
    BY <1>1, <2>1, <2>2, AnswerMoves DEF HandlerEvent
  <2>4. progress \in [Conns -> ProgressType]
    BY DEF StreamInv, StreamTypes
  <2> QED BY <2>2, <2>3, <2>4
<1>2. ASSUME NEW d \in Conns, Closed(d) PROVE FALSE
  BY <1>2 DEF Closed, StreamInv, StreamTypes, Fresh
<1>3. CASE Stop
  BY <1>3 DEF Stop, Fresh
<1>4. ~UNCHANGED progress
  OBVIOUS
<1> QED BY <1>1, <1>2, <1>3, <1>4
        DEF Next, Drop, Open, Negotiated, Connected, Poll, PollClose, Tick, vars

\* timed_out: a connection is retired for a stall.
LEMMA RetirementsAreStalls ==
    ASSUME StreamConstants, StreamInv, [Next]_vars, NEW c \in Conns,
           progress'[c].closing, ~progress[c].closing
    PROVE  LET oks  == {history'[r].at : r \in {q \in Requests :
                          history'[q].result = "stream" /\ call[q].conn = c}}
               okAt == CHOOSE t \in oks \cup {Never} : \A u \in oks : u <= t
           IN  \E S \in SUBSET Stalls(c, okAt) :
                 /\ Cardinality(S) >= Threshold
                 /\ \E r \in S : now - history'[r].at >= Window
                 /\ \A r \in S : \/ history'[r].at = now
                                 \/ \E s \in S : /\ history'[s].at > history'[r].at
                                                 /\ history'[s].at - history'[r].at <= IdleReset
<1> DEFINE oks  == {history'[r].at : r \in {q \in Requests :
                      history'[q].result = "stream" /\ call[q].conn = c}}
           okAt == CHOOSE t \in oks \cup {Never} : \A u \in oks : u <= t
<1>1. PICK r \in Requests : Answered(r) /\ call[r].conn = c
  BY OnlyTimeoutsRetire
<1> DEFINE p == progress[c]
           n == Progressed(r)
<1>2. /\ pending[r] # Never /\ progress' = [progress EXCEPT ![c] = n]
      /\ progress \in [Conns -> ProgressType] /\ p \in ProgressType
      /\ now \in 0..MaxTime
  BY <1>1 DEF Answered, HandlerEvent, StreamInv, StreamTypes
<1>3. progress'[c] = n
  BY <1>2
<1>4. /\ n = TimedOut(p, now) /\ ProgressInv(c, n, call', history', now)
  BY <1>1, <1>3, AnswerProgress
<1>5. /\ \A q \in Requests : call'[q].conn = call[q].conn
      /\ history' \in [Requests -> OutcomeType]
  BY <1>1, AnswerMoves
<1>6. n.last = now /\ n.timeouts >= Threshold /\ now - n.first >= Window /\ n.success = p.success
      /\ n \in ProgressType
  BY <1>2, <1>3, <1>4, TimedOutFacts
<1>7. \A q \in Requests : history'[q].result # "none" => history'[q].at >= 0
  BY <1>1, AnswerKeeps DEF StreamInv, RequestInv
<1> HIDE DEF n, p
<1>8. okAt = n.success
  <2>1. n.success \in Times /\ n.success \in oks \cup {Never} /\ \A u \in oks : u <= n.success
    BY <1>4, <1>5, <1>6 DEF ProgressInv, LastSuccess, ProgressType
  <2>2. \A u \in oks : u \in Int /\ u >= 0
    BY <1>5, <1>7 DEF OutcomeType, Times, Never, StreamConstants
  <2> HIDE DEF oks
  <2>3. okAt \in oks \cup {Never} /\ \A u \in oks : u <= okAt
    BY <2>1
  <2> HIDE DEF okAt
  <2>4. n.success \in Int
    BY <2>1 DEF Times, Never, StreamConstants
  <2>5. CASE oks = {}
    BY <2>1, <2>3, <2>5
  <2>6. CASE oks # {}
    <3>1. n.success \in oks /\ okAt \in oks
      BY <2>1, <2>2, <2>3, <2>4, <2>6 DEF Never
    <3>2. n.success <= okAt /\ okAt <= n.success /\ okAt \in Int
      BY <2>1, <2>2, <2>3, <3>1
    <3> QED BY <2>4, <3>2
  <2> QED BY <2>5, <2>6
<1> HIDE DEF okAt
<1>9. PICK S \in SUBSET Requests : Stall(S, c, n, call', history')
  BY <1>4 DEF ProgressInv
<1>10. S \in SUBSET Stalls(c, okAt)
  BY <1>5, <1>8, <1>9 DEF Stalls, Stall
<1>11. Cardinality(S) >= Threshold
  BY <1>6, <1>9 DEF Stall
<1>12. \E q \in S : now - history'[q].at >= Window
  <2>1. n.timeouts # 0
    <3>1. CASE n.timeouts = 0
      <4>1. n.last = Never
        BY <1>9, <3>1 DEF Stall
      <4> QED BY <1>2, <1>6, <4>1 DEF Never
    <3> QED BY <3>1
  <2>2. \E q \in S : history'[q].at = n.first
    BY <1>9, <2>1 DEF Stall
  <2> QED BY <1>6, <2>2
<1>13. \A q \in S : \/ history'[q].at = now
                    \/ \E s \in S : /\ history'[s].at > history'[q].at
                                    /\ history'[s].at - history'[q].at <= IdleReset
  BY <1>6, <1>9 DEF Stall
<1> QED BY <1>10, <1>11, <1>12, <1>13 DEF okAt

\* Streams and their connections keep their types.
LEMMA StreamsTyped ==
    ASSUME StreamConstants
    PROVE  Spec => []TypeOK
BY StreamInvariant, StreamFacts, PTL

\* A relay connection is retired only for a stall that no success interrupted.
LEMMA RetiredCorrect ==
    ASSUME StreamConstants
    PROVE  Spec => RetiredWasStalled
<1> DEFINE A == \A c \in Conns : progress'[c].closing /\ ~progress[c].closing =>
         LET oks  == {history'[r].at : r \in {q \in Requests :
                          history'[q].result = "stream" /\ call[q].conn = c}}
             okAt == CHOOSE t \in oks \cup {Never} : \A u \in oks : u <= t
         IN  \E S \in SUBSET Stalls(c, okAt) :
               /\ Cardinality(S) >= Threshold
               /\ \E r \in S : now - history'[r].at >= Window
               /\ \A r \in S : \/ history'[r].at = now
                               \/ \E s \in S : /\ history'[s].at > history'[r].at
                                               /\ history'[s].at - history'[r].at <= IdleReset
<1>1. StreamInv /\ [Next]_vars => A
  BY RetirementsAreStalls
<1> HIDE DEF A
<1>2. Spec => [][A]_vars
  BY <1>1, StreamInvariant, PTL DEF Spec
<1> QED BY <1>2, PTL DEF RetiredWasStalled, A
=============================================================================
