------------------------------ MODULE DomainKeys ------------------------------
(***************************************************************************)
(* The verification keys and the credential of one peer                    *)
(* (core/auki-p2p/src/token.rs, transport.rs, local_authority.rs).  A      *)
(* VerificationKeyRing holds the DDS's current key and, for an overlap     *)
(* after a rotation, the previous one; a TokenStore holds the newest       *)
(* credential installed.  Hosts hand in key sets late, twice or out of     *)
(* order.  Keys go by the monotonic clock, credentials by the wall clock,  *)
(* which the machine may set; both count minutes.                          *)
(***************************************************************************)
EXTENDS Integers

CONSTANTS
    Keys,          \* ES256 public keys
    Claims,        \* what a credential says besides its times
    Ttl,           \* P2P_TOKEN_TTL
    Skew,          \* P2P_TOKEN_CLOCK_SKEW
    Overlap,       \* DDS_PREVIOUS_KEY_MIN_OVERLAP
    Staleness,     \* DDS_VERIFICATION_KEYS_MAX_STALENESS
    MaxGeneration, \* bound on key generations
    MaxTime,       \* bound on the clocks
    NoKey,
    NoCredential

\* Durations are naturals, and the overlap of two keys outlasts any credential that the
\* first of them may have signed (token.rs: 31 minutes, of 30 and 1)
ASSUME DurationsAssumption ==
    /\ Ttl \in Nat /\ Skew \in Nat /\ Overlap \in Nat
    /\ MaxTime \in Nat /\ MaxGeneration \in Nat
    /\ Overlap >= Ttl + Skew

VARIABLES
    now,      \* Instant::now()
    wall,     \* unix_time_now()
    ring,     \* DdsTokenVerifier.keys
    store,    \* TokenStore.current
    trusted,  \* a credential verified with the key that was then current
    until     \* the Instant at which it would expire, seen from then

vars == <<now, wall, ring, store, trusted, until>>

KeySets == [generation : 0..MaxGeneration, current : Keys, previous : Keys \cup {NoKey}]
Credentials == [iat : 0..(MaxTime + Skew), key : Keys, claims : Claims]
Exp(c) == c.iat + Ttl
SameClaims(a, b) == a.iat = b.iat /\ a.claims = b.claims

-----------------------------------------------------------------------------
(* Key sets *)

\* parse_key_set
WellFormed(keys) == keys.current # keys.previous

\* validate_key_successor: the transition to a proposed key set, or "refused"
Transition(live, keys) ==
    IF keys.generation < live.generation THEN "refused"
    ELSE IF keys.generation = live.generation
      THEN IF keys.current = live.current /\ keys.previous = live.previous
             THEN "refresh" ELSE "refused"
    ELSE IF keys.current # live.current
      THEN IF keys.previous = live.current THEN "rotate" ELSE "refused"
    ELSE IF keys.previous # live.previous
      THEN IF keys.previous = NoKey THEN "retire" ELSE "refused"
    ELSE "advance"

\* Mutant: a second rotation may cut the overlap of the first short
MayReplaceAnyTime(live, keys) == Transition(live, keys) # "refused"

\* replace_keys_at: the previous key is protected for the whole overlap
MayReplace(live, keys) ==
    /\ WellFormed(keys)
    /\ Transition(live, keys) # "refused"
    /\ Transition(live, keys) \in {"rotate", "retire"} => now >= live.protectedUntil

\* replace_keys_at: the ring after an accepted replacement
Replaced(live, keys) ==
    IF Transition(live, keys) = "refresh"
      THEN [live EXCEPT !.refreshedAt = now]
      ELSE [generation |-> keys.generation, current |-> keys.current,
            previous |-> keys.previous,
            protectedUntil |-> CASE Transition(live, keys) = "rotate" -> now + Overlap
                                 [] Transition(live, keys) = "retire" -> 0
                                 [] OTHER -> live.protectedUntil,
            refreshedAt |-> now]

\* from_keys
FromKeys(keys) ==
    [generation |-> keys.generation, current |-> keys.current, previous |-> keys.previous,
     protectedUntil |-> IF keys.previous = NoKey THEN 0 ELSE now + Overlap,
     refreshedAt |-> now]

-----------------------------------------------------------------------------
(* Credentials *)

Stale(live) == now - live.refreshedAt > Staleness

\* verify_at and validate_profile
Verifies(live, c) ==
    /\ ~Stale(live)
    /\ c.key \in {live.current, live.previous}
    /\ Exp(c) > wall
    /\ c.iat <= wall + Skew

\* A credential counts as trusted once the current key has verified it
Trust(live, c) ==
    IF c.key = live.current
      THEN trusted' = c /\ until' = now + (Exp(c) - wall)
      ELSE UNCHANGED <<trusted, until>>

\* TokenStore::install: newer, or the same claims again
Installs(c) ==
    store # NoCredential => c.iat > store.iat \/ SameClaims(c, store)

\* An equal re-signed credential does not replace the stored one
Stored(c) == IF store # NoCredential /\ SameClaims(c, store) THEN store ELSE c

-----------------------------------------------------------------------------
(* Operations *)

Init ==
    /\ now = 0 /\ wall = 0
    /\ \E keys \in KeySets : WellFormed(keys) /\ keys.generation = 0 /\ ring = FromKeys(keys)
    /\ store = NoCredential
    /\ trusted = NoCredential /\ until = 0

\* Node::install_verification_keys
InstallKeys(keys) ==
    /\ MayReplace(ring, keys)
    /\ ring' = Replaced(ring, keys)
    /\ UNCHANGED <<now, wall, store, trusted, until>>

\* A remote credential is verified in a handshake
VerifyRemote(c) ==
    /\ Verifies(ring, c)
    /\ Trust(ring, c)
    /\ UNCHANGED <<now, wall, ring, store>>

\* Node::install_credential and its two stricter variants
InstallCredential(c) ==
    /\ Verifies(ring, c)
    /\ Installs(c)
    /\ store' = Stored(c)
    /\ Trust(ring, c)
    /\ UNCHANGED <<now, wall, ring>>

\* LocalAuthority::replace: the bundle is checked on its own, then the ring is
\* replaced, then the credential; a stale credential leaves the new keys behind
ReplaceAuthority(keys) ==
    /\ MayReplace(ring, keys)
    /\ ring' = Replaced(ring, keys)
    /\ \E c \in Credentials :
         /\ Verifies(FromKeys(keys), c)
         /\ store' = IF Installs(c) THEN Stored(c) ELSE store
         /\ Trust(ring', c)
    /\ UNCHANGED <<now, wall>>

\* Node::clear_credential
ClearCredential ==
    /\ store' = NoCredential
    /\ UNCHANGED <<now, wall, ring, trusted, until>>

Tick ==
    /\ now < MaxTime /\ wall < MaxTime
    /\ now' = now + 1 /\ wall' = wall + 1
    /\ UNCHANGED <<ring, store, trusted, until>>

\* The machine's wall clock is set, forward or back
SetClock(w) ==
    /\ w # wall /\ wall' = w
    /\ UNCHANGED <<now, ring, store, trusted, until>>

Next ==
    \/ \E keys \in KeySets : InstallKeys(keys) \/ ReplaceAuthority(keys)
    \/ \E c \in Credentials : VerifyRemote(c) \/ InstallCredential(c)
    \/ ClearCredential
    \/ Tick
    \/ \E w \in 0..MaxTime : SetClock(w)

Spec == Init /\ [][Next]_vars

-----------------------------------------------------------------------------
(* Properties *)

TypeOK ==
    /\ now \in 0..MaxTime /\ wall \in 0..MaxTime
    /\ ring \in [generation : 0..MaxGeneration, current : Keys,
                 previous : Keys \cup {NoKey}, protectedUntil : Int, refreshedAt : Int]
    /\ store \in Credentials \cup {NoCredential}
    /\ trusted \in Credentials \cup {NoCredential} /\ until \in Int

\* The key of a credential that was once verified with the current key stays in the
\* ring for what was then left of the credential's life, whatever rotations and
\* retirements the host installs (token.rs: the overlap is the lifetime plus the
\* clock skew).  Whether verify_at accepts the credential meanwhile also depends on
\* fresh keys (Stale) and on the wall clock; and a wall clock that is set back makes
\* a credential valid for longer than its key is kept.
TrustedKeyIsKept ==
    trusted # NoCredential /\ now < until =>
        trusted.key \in {ring.current, ring.previous}
=============================================================================
