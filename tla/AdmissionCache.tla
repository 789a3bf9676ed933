--------------------------- MODULE AdmissionCache ----------------------------
(***************************************************************************)
(* The cache of source admissions a peer has obtained from a relay         *)
(* (auki-p2p, source_admission.rs) and its use by connect_relayed_inner    *)
(* (transport.rs).  An entry of the map has a gate, held across the        *)
(* authorization itself, and a lease.  Whoever connects with a lease and   *)
(* fails invalidates it, by then perhaps replaced.  An entry is dropped    *)
(* from the map when nobody uses it and its lease has run out; a later     *)
(* caller begins a new one.                                                *)
(*                                                                         *)
(* A key is a credential on one relay connection, target and domain; a     *)
(* caller keeps the key it read.  One clock stands for the wall clock and  *)
(* the monotonic one, and leases end before the safety margin.             *)
(***************************************************************************)
EXTENDS Integers, FiniteSets

CONSTANTS
    Callers,
    Keys,
    Ttl,          \* what a relay grants, less REUSE_SAFETY_MARGIN
    MaxEntry,     \* bound of the entries made
    MaxLease,     \* bound of the leases granted
    MaxTime       \* bound of the clock

VARIABLES
    now,
    map,          \* entries: from a key to its entry, or None
    gate,         \* of every entry: the caller that holds it, or Free
    cached,       \* of every entry: its lease, or NoLease
    made,         \* entries made so far
    issued,       \* next_lease_id: leases granted so far
    call,         \* callers: where they are, key, entry they hold, lease
    refused       \* history: leases that failed and whose invalidation is over

vars == <<now, map, gate, cached, made, issued, call, refused>>

None == 0
Free == "free"

\* What the theorems ask of the constants
CacheConstants ==
    /\ Keys # {}
    /\ Free \notin Callers
    /\ Ttl \in Nat /\ MaxEntry \in Nat /\ MaxLease \in Nat /\ MaxTime \in Nat

NoLease == [id |-> 0, until |-> 0]
Entries == 1..MaxEntry
Idle == [pc |-> "idle", key |-> CHOOSE k \in Keys : TRUE, entry |-> None, lease |-> 0]

\* lease.reusable
Reusable(lease) == lease.id # 0 /\ now < lease.until

\* Arc::strong_count(entry) > 1: some future holds the entry besides the map
InUse(e) == \E c \in Callers : call[c].entry = e

Init ==
    /\ now = 0 /\ made = 0 /\ issued = 0 /\ refused = {}
    /\ map = [k \in Keys |-> None]
    /\ gate = [e \in Entries |-> Free]
    /\ cached = [e \in Entries |-> NoLease]
    /\ call = [c \in Callers |-> Idle]

-----------------------------------------------------------------------------
\* Mutant: an entry stays while its lease is good, whoever uses it
RetainsCached(e) == Reusable(cached[e])

\* entries.retain
Retains(e) == InUse(e) \/ Reusable(cached[e])

Retained == [k \in Keys |-> IF map[k] # None /\ Retains(map[k]) THEN map[k] ELSE None]

\* authorize, up to the gate: the map is cleaned, the entry found or made
Authorize(c, k) ==
    /\ call[c].pc = "idle"
    /\ IF Retained[k] # None
         THEN /\ map' = Retained
              /\ call' = [call EXCEPT ![c] = [pc |-> "gate", key |-> k, entry |-> Retained[k],
                                              lease |-> 0]]
              /\ UNCHANGED made
         ELSE /\ made < MaxEntry
              /\ made' = made + 1
              /\ map' = [Retained EXCEPT ![k] = made + 1]
              /\ call' = [call EXCEPT ![c] = [pc |-> "gate", key |-> k, entry |-> made + 1,
                                              lease |-> 0]]
    /\ UNCHANGED <<now, gate, cached, issued, refused>>

\* authorize, with the gate: a good lease is reused, which gives the gate back at once;
\* otherwise the relay is asked
EnterGate(c) ==
    LET e == call[c].entry IN
    /\ call[c].pc = "gate" /\ gate[e] = Free
    /\ \/ /\ Reusable(cached[e])
          /\ call' = [call EXCEPT ![c].pc = "connect", ![c].entry = None,
                                  ![c].lease = cached[e].id]
          /\ UNCHANGED <<gate, cached>>
       \/ /\ ~Reusable(cached[e])
          /\ gate' = [gate EXCEPT ![e] = c]
          /\ cached' = [cached EXCEPT ![e] = NoLease]
          /\ call' = [call EXCEPT ![c].pc = "ask"]
    /\ UNCHANGED <<now, map, made, issued, refused>>

\* The relay admits; reuse_deadline is none for a grant within the safety margin
Admitted(c, ttl) ==
    LET e == call[c].entry IN
    /\ call[c].pc = "ask" /\ issued < MaxLease
    /\ issued' = issued + 1
    /\ cached' = [cached EXCEPT ![e] = IF ttl > 0 THEN [id |-> issued', until |-> now + ttl]
                                       ELSE @]
    /\ gate' = [gate EXCEPT ![e] = Free]
    /\ call' = [call EXCEPT ![c].pc = "connect", ![c].entry = None, ![c].lease = issued']
    /\ UNCHANGED <<now, map, made, refused>>

\* The relay refuses, or the caller is dropped, before it has a lease
Leaves(c) ==
    LET e == call[c].entry IN
    /\ call[c].pc \in {"gate", "ask"}
    /\ gate' = IF gate[e] = c THEN [gate EXCEPT ![e] = Free] ELSE gate
    /\ call' = [call EXCEPT ![c] = Idle]
    /\ UNCHANGED <<now, map, cached, made, issued, refused>>

\* connect_exact succeeds, or the caller is dropped in it
Connects(c) ==
    /\ call[c].pc = "connect"
    /\ call' = [call EXCEPT ![c] = Idle]
    /\ UNCHANGED <<now, map, gate, cached, made, issued, refused>>

\* connect_exact fails: invalidate looks for the entry of the lease's key
Fails(c) ==
    /\ call[c].pc = "connect"
    /\ LET e == map[call[c].key] IN
       IF e = None
         THEN /\ call' = [call EXCEPT ![c] = Idle]
              /\ refused' = refused \cup {call[c].lease}
         ELSE /\ call' = [call EXCEPT ![c].pc = "invalidate", ![c].entry = e]
              /\ UNCHANGED refused
    /\ UNCHANGED <<now, map, gate, cached, made, issued>>

\* invalidate: the lease that failed, no other
Invalidates(c, lease) == lease.id = call[c].lease

\* invalidate, with the gate
Invalidate(c) ==
    LET e == call[c].entry IN
    /\ call[c].pc = "invalidate" /\ gate[e] = Free
    /\ cached' = IF Invalidates(c, cached[e]) THEN [cached EXCEPT ![e] = NoLease] ELSE cached
    /\ refused' = refused \cup {call[c].lease}
    /\ call' = [call EXCEPT ![c] = Idle]
    /\ UNCHANGED <<now, map, gate, made, issued>>

\* The caller is dropped while it waits to invalidate
Abandons(c) ==
    /\ call[c].pc = "invalidate"
    /\ call' = [call EXCEPT ![c] = Idle]
    /\ UNCHANGED <<now, map, gate, cached, made, issued, refused>>

Tick ==
    /\ now < MaxTime
    /\ now' = now + 1
    /\ UNCHANGED <<map, gate, cached, made, issued, call, refused>>

Next ==
    \/ \E c \in Callers, k \in Keys : Authorize(c, k)
    \/ \E c \in Callers, ttl \in 0..Ttl : Admitted(c, ttl)
    \/ \E c \in Callers : \/ EnterGate(c) \/ Leaves(c) \/ Connects(c) \/ Fails(c)
                          \/ Invalidate(c) \/ Abandons(c)
    \/ Tick

Spec == Init /\ [][Next]_vars

-----------------------------------------------------------------------------
TypeOK ==
    /\ now \in 0..MaxTime /\ made \in 0..MaxEntry /\ issued \in 0..MaxLease
    /\ map \in [Keys -> 0..MaxEntry] /\ gate \in [Entries -> Callers \cup {Free}]
    /\ refused \subseteq 1..MaxLease
    /\ \A e \in Entries : cached[e].id \in 0..issued
    /\ \A c \in Callers :
         /\ call[c].pc \in {"idle", "gate", "ask", "connect", "invalidate"}
         /\ call[c].key \in Keys /\ call[c].entry \in 0..MaxEntry /\ call[c].lease \in 0..issued

\* "Serializing cache misses": at no time do two callers ask the relay for the same
\* admission, though entries are dropped from the map and made again meanwhile.
SingleFlight ==
    \A c, d \in Callers :
        call[c].pc = "ask" /\ call[d].pc = "ask" /\ call[c].key = call[d].key => c = d

\* invalidate: once the failure of a lease has been recorded the map offers it to
\* nobody, whichever entry stood for its key by then.
FailedLeaseIsGone ==
    \A k \in Keys : map[k] # None => cached[map[k]].id \notin refused
=============================================================================
