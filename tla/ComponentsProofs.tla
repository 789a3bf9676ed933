--------------------------- MODULE ComponentsProofs ---------------------------
(***************************************************************************)
(* What holds of the components side by side, for every value of their     *)
(* constants: the verification keys, proved here, and the components       *)
(* proved in MachinePartsProofs, PeerPartsProofs and modules of their own. *)
(* A behaviour of the components is one of each of them, so that what is   *)
(* proved of a component holds of it here.                                 *)
(***************************************************************************)
EXTENDS MCComponents, MachinePartsProofs, PeerPartsProofs, TLAPS

-----------------------------------------------------------------------------
(* The verification keys of token.rs, for every set of keys and claims and *)
(* every choice of durations, from the assumption that the overlap of two  *)
(* keys is at least the lifetime of a credential and the clock skew.       *)

Ring == [generation : 0..MaxGeneration, current : Keys,
         previous : Keys \cup {NoKey}, protectedUntil : Int, refreshedAt : Int]

-----------------------------------------------------------------------------
(* The ring that a replacement leaves *)

\* from_keys builds a ring of the ring's type.
LEMMA FromKeysType ==
    ASSUME now \in 0..MaxTime, NEW keys \in KeySets
    PROVE  FromKeys(keys) \in Ring
BY DurationsAssumption DEF FromKeys, KeySets, Ring

\* replace_keys_at keeps the ring's type, whatever the transition.
LEMMA ReplacedType ==
    ASSUME now \in 0..MaxTime, ring \in Ring, NEW keys \in KeySets
    PROVE  Replaced(ring, keys) \in Ring
<1>1. CASE Transition(ring, keys) = "refresh"
  BY <1>1 DEF Replaced, Ring
<1>2. CASE Transition(ring, keys) # "refresh"
  BY <1>2, DurationsAssumption DEF Replaced, KeySets, Ring
<1> QED BY <1>1, <1>2

\* validate_key_successor: an accepted key set keeps the current key, or makes it the
\* previous one; and the previous key changes in a rotation or a retirement only.
LEMMA SuccessorKeepsCurrent ==
    ASSUME ring \in Ring, NEW keys \in KeySets, Transition(ring, keys) # "refused"
    PROVE  /\ Transition(ring, keys) = "rotate" => keys.previous = ring.current
           /\ Transition(ring, keys) # "rotate" => keys.current = ring.current
           /\ Transition(ring, keys) \notin {"rotate", "retire"} =>
                keys.previous = ring.previous
BY DEF Transition, KeySets, Ring

-----------------------------------------------------------------------------
(* Type correctness *)

\* A verified credential of the set is one the peer may come to trust.
LEMMA TrustType ==
    ASSUME TypeOK, NEW c \in Credentials, NEW live \in Ring, Trust(live, c)
    PROVE  trusted' \in Credentials \cup {NoCredential} /\ until' \in Int
BY DurationsAssumption DEF Trust, TypeOK, Credentials, Exp

\* TokenStore::install keeps a credential in the store.
LEMMA StoredType ==
    ASSUME TypeOK, NEW c \in Credentials
    PROVE  Stored(c) \in Credentials \cup {NoCredential}
BY DEF Stored, TypeOK

\* Every operation on keys and credentials keeps the types.
LEMMA TypeStep == TypeOK /\ [Next]_vars => TypeOK'
<1> SUFFICES ASSUME TypeOK, [Next]_vars PROVE TypeOK'
  OBVIOUS
<1>0. now \in 0..MaxTime /\ ring \in Ring
  BY DEF TypeOK, Ring
<1>1. ASSUME NEW keys \in KeySets, InstallKeys(keys) PROVE TypeOK'
  <2>1. ring' \in Ring
    BY <1>0, <1>1, ReplacedType DEF InstallKeys
  <2> QED BY <1>1, <2>1 DEF InstallKeys, TypeOK, Ring
<1>2. ASSUME NEW c \in Credentials, VerifyRemote(c) PROVE TypeOK'
  <2>1. trusted' \in Credentials \cup {NoCredential} /\ until' \in Int
    BY <1>0, <1>2, TrustType DEF VerifyRemote
  <2> QED BY <1>2, <2>1 DEF VerifyRemote, TypeOK
<1>3. ASSUME NEW c \in Credentials, InstallCredential(c) PROVE TypeOK'
  <2>1. trusted' \in Credentials \cup {NoCredential} /\ until' \in Int
    BY <1>0, <1>3, TrustType DEF InstallCredential
  <2>2. store' \in Credentials \cup {NoCredential}
    BY <1>3, StoredType DEF InstallCredential
  <2> QED BY <1>3, <2>1, <2>2 DEF InstallCredential, TypeOK
<1>4. ASSUME NEW keys \in KeySets, ReplaceAuthority(keys) PROVE TypeOK'
  <2>0. PICK c \in Credentials :
          Trust(ring', c) /\ store' = IF Installs(c) THEN Stored(c) ELSE store
    BY <1>4 DEF ReplaceAuthority
  <2>1. ring' \in Ring
    BY <1>0, <1>4, ReplacedType DEF ReplaceAuthority
  <2>2. trusted' \in Credentials \cup {NoCredential} /\ until' \in Int
    BY <2>0, <2>1, TrustType
  <2>3. store' \in Credentials \cup {NoCredential}
    BY <2>0, StoredType DEF TypeOK
  <2> QED BY <1>4, <2>1, <2>2, <2>3 DEF ReplaceAuthority, TypeOK, Ring
<1>5. CASE ClearCredential
  BY <1>5 DEF ClearCredential, TypeOK
<1>6. CASE Tick
  BY <1>6, DurationsAssumption DEF Tick, TypeOK
<1>7. ASSUME NEW w \in 0..MaxTime, SetClock(w) PROVE TypeOK'
  BY <1>7 DEF SetClock, TypeOK
<1>8. CASE UNCHANGED vars
  BY <1>8 DEF vars, TypeOK
<1> QED BY <1>1, <1>2, <1>3, <1>4, <1>5, <1>6, <1>7, <1>8 DEF Next

\* A new peer has no credential and a ring of its first key set.
LEMMA TypeInit == Init => TypeOK
<1> SUFFICES ASSUME Init PROVE TypeOK
  OBVIOUS
<1>1. now \in 0..MaxTime
  BY DurationsAssumption DEF Init
<1>2. ring \in Ring
  BY <1>1, FromKeysType DEF Init
<1> QED BY <1>1, <1>2 DEF Init, TypeOK, Ring

\* The clocks, the ring, the store and the trusted credential keep their types.
THEOREM KeysTypeCorrect == Spec => []TypeOK
BY TypeInit, TypeStep, PTL DEF Spec

-----------------------------------------------------------------------------
(* The overlap *)

\* The inductive invariant.  A trusted credential has no more than its lifetime and
\* the skew left, and its key is the current one, or the previous one under a
\* protection that outlasts what it had left when it was verified, or that has run out.
\* The bound on what is left is what makes an overlap that begins now long enough; it
\* counts the monotonic clock, so that nothing done to the wall clock disturbs it.
Covered(c, live) ==
    \/ c.key = live.current
    \/ c.key = live.previous /\ until <= live.protectedUntil
    \/ until <= now

TrustedIsCovered ==
    trusted # NoCredential =>
        /\ until <= now + Ttl + Skew
        /\ Covered(trusted, ring)

\* replace_keys_at: a replacement uncovers no credential.
LEMMA ReplacementCovers ==
    ASSUME TypeOK, NEW keys \in KeySets, MayReplace(ring, keys),
           NEW c \in Credentials, until <= now + Ttl + Skew, Covered(c, ring)
    PROVE  Covered(c, Replaced(ring, keys))
<1>0. ring \in Ring /\ now \in Nat /\ until \in Int
  BY DurationsAssumption DEF TypeOK, Ring
<1>1. Transition(ring, keys) # "refused"
  BY DEF MayReplace
<1>2. CASE Transition(ring, keys) = "refresh"
  BY <1>0, <1>2 DEF Replaced, Covered, Ring
<1>3. CASE Transition(ring, keys) = "rotate"
  <2>1. keys.previous = ring.current /\ now >= ring.protectedUntil
    BY <1>0, <1>1, <1>3, SuccessorKeepsCurrent DEF MayReplace
  <2>2. /\ Replaced(ring, keys).previous = ring.current
        /\ Replaced(ring, keys).protectedUntil = now + Overlap
    BY <1>3, <2>1 DEF Replaced
  <2>3. until <= now + Overlap
    BY <1>0, DurationsAssumption
  <2> QED BY <1>0, <2>1, <2>2, <2>3 DEF Covered, Ring
<1>4. CASE Transition(ring, keys) = "retire"
  <2>1. keys.current = ring.current /\ now >= ring.protectedUntil
    BY <1>0, <1>1, <1>4, SuccessorKeepsCurrent DEF MayReplace
  <2>2. Replaced(ring, keys).current = ring.current
    BY <1>4, <2>1 DEF Replaced
  <2> QED BY <1>0, <2>1, <2>2 DEF Covered, Ring
<1>5. CASE Transition(ring, keys) \notin {"refresh", "rotate", "retire"}
  <2>1. keys.current = ring.current /\ keys.previous = ring.previous
    BY <1>0, <1>1, <1>5, SuccessorKeepsCurrent
  <2>2. /\ Replaced(ring, keys).current = ring.current
        /\ Replaced(ring, keys).previous = ring.previous
        /\ Replaced(ring, keys).protectedUntil = ring.protectedUntil
    BY <1>5, <2>1 DEF Replaced
  <2> QED BY <2>2 DEF Covered
<1> QED BY <1>2, <1>3, <1>4, <1>5

\* verify_at: a credential that the ring's current key verifies has no more than its
\* lifetime and the skew left.
LEMMA VerifiedIsCovered ==
    ASSUME TypeOK, NEW c \in Credentials, c.iat <= wall + Skew, UNCHANGED now,
           Trust(ring', c), c.key = ring'.current
    PROVE  TrustedIsCovered'
<1>1. c.iat \in Int /\ wall \in Int /\ now \in Int /\ c.iat <= wall + Skew
  BY DEF TypeOK, Credentials
<1>2. trusted' = c /\ until' = now + (Exp(c) - wall)
  BY DEF Trust
<1>3. until' <= now + Ttl + Skew
  BY <1>1, <1>2, DurationsAssumption DEF Exp
<1> QED BY <1>2, <1>3 DEF TrustedIsCovered, Covered

\* No operation, no passing of time and no setting of the clock uncovers the trusted
\* credential.
LEMMA CoverStep == TypeOK /\ TrustedIsCovered /\ [Next]_vars => TrustedIsCovered'
<1> SUFFICES ASSUME TypeOK, TrustedIsCovered, [Next]_vars PROVE TrustedIsCovered'
  OBVIOUS
<1>0. trusted # NoCredential => trusted \in Credentials
  BY DEF TypeOK
<1>1. ASSUME NEW keys \in KeySets, InstallKeys(keys) PROVE TrustedIsCovered'
  BY <1>0, <1>1, ReplacementCovers DEF InstallKeys, TrustedIsCovered, Covered
<1>2. ASSUME NEW c \in Credentials, VerifyRemote(c) PROVE TrustedIsCovered'
  <2>1. CASE c.key = ring.current
    BY <1>2, <2>1, VerifiedIsCovered DEF VerifyRemote, Verifies
  <2>2. CASE c.key # ring.current
    BY <1>2, <2>2 DEF VerifyRemote, Trust, TrustedIsCovered, Covered
  <2> QED BY <2>1, <2>2
<1>3. ASSUME NEW c \in Credentials, InstallCredential(c) PROVE TrustedIsCovered'
  <2>1. CASE c.key = ring.current
    BY <1>3, <2>1, VerifiedIsCovered DEF InstallCredential, Verifies
  <2>2. CASE c.key # ring.current
    BY <1>3, <2>2 DEF InstallCredential, Trust, TrustedIsCovered, Covered
  <2> QED BY <2>1, <2>2
<1>4. ASSUME NEW keys \in KeySets, ReplaceAuthority(keys) PROVE TrustedIsCovered'
  <2>0. PICK c \in Credentials : Trust(ring', c) /\ c.iat <= wall + Skew
    BY <1>4 DEF ReplaceAuthority, Verifies
  <2>1. CASE c.key = ring'.current
    BY <1>4, <2>0, <2>1, VerifiedIsCovered DEF ReplaceAuthority
  <2>2. CASE c.key # ring'.current
    BY <1>0, <1>4, <2>0, <2>2, ReplacementCovers
       DEF ReplaceAuthority, Trust, TrustedIsCovered, Covered
  <2> QED BY <2>1, <2>2
<1>5. CASE ClearCredential
  BY <1>5 DEF ClearCredential, TrustedIsCovered, Covered
<1>6. CASE Tick
  BY <1>6, DurationsAssumption DEF Tick, TypeOK, TrustedIsCovered, Covered
<1>7. ASSUME NEW w \in 0..MaxTime, SetClock(w) PROVE TrustedIsCovered'
  BY <1>7 DEF SetClock, TrustedIsCovered, Covered
<1>8. CASE UNCHANGED vars
  BY <1>8 DEF vars, TrustedIsCovered, Covered
<1> QED BY <1>1, <1>2, <1>3, <1>4, <1>5, <1>6, <1>7, <1>8 DEF Next

\* The key of a credential that the current key verified stays in the ring for what was
\* then left of the credential's life, whatever key sets the host installs, in whatever
\* order, and whatever happens to the wall clock (token.rs, replace_keys_at).
THEOREM OverlapSuffices == Spec => []TrustedKeyIsKept
<1>1. Init => TrustedIsCovered
  BY DEF Init, TrustedIsCovered
<1>2. TypeOK /\ TrustedIsCovered => TrustedKeyIsKept
  BY DEF TypeOK, TrustedIsCovered, TrustedKeyIsKept, Covered
<1> QED BY <1>1, <1>2, KeysTypeCorrect, CoverStep, PTL DEF Spec

-----------------------------------------------------------------------------
(* What a replacement may do *)

\* replace_keys_at never goes back: the generation of the ring does not fall, and a key
\* that leaves the ring was not the current one (validate_key_successor).
NoKeyRollback ==
    [][/\ ring'.generation >= ring.generation
       /\ ring.current \in {ring'.current, ring'.previous}]_ring

\* No key set that the host hands in, late, twice or out of order, takes the ring back
\* (token.rs, replace_keys_at).
THEOREM KeysNeverRollBack == Spec => NoKeyRollback
<1>1. ASSUME TypeOK, NEW keys \in KeySets, MayReplace(ring, keys), ring' = Replaced(ring, keys)
      PROVE  /\ ring'.generation >= ring.generation
             /\ ring.current \in {ring'.current, ring'.previous}
  <2>0. ring \in Ring
    BY <1>1 DEF TypeOK, Ring
  <2>1. Transition(ring, keys) # "refused"
    BY <1>1 DEF MayReplace
  <2>2. keys.generation >= ring.generation
    BY <2>0, <2>1, DurationsAssumption DEF Transition, KeySets, Ring
  <2>3. CASE Transition(ring, keys) = "refresh"
    BY <1>1, <2>0, <2>3, DurationsAssumption DEF Replaced, Ring
  <2>4. CASE Transition(ring, keys) # "refresh"
    BY <1>1, <2>0, <2>1, <2>2, <2>4, SuccessorKeepsCurrent DEF Replaced
  <2> QED BY <2>3, <2>4
<1>2. TypeOK /\ [Next]_vars =>
        [/\ ring'.generation >= ring.generation
         /\ ring.current \in {ring'.current, ring'.previous}]_ring
  BY <1>1 DEF Next, vars, InstallKeys, VerifyRemote, InstallCredential,
              ReplaceAuthority, ClearCredential, Tick, SetClock
<1> QED BY <1>2, KeysTypeCorrect, PTL DEF Spec, NoKeyRollback

-----------------------------------------------------------------------------
(* The components side by side: whichever is the subject, every step is one  *)
(* of a component or leaves it alone.                                        *)

LEMMA KeysSteps ==
    ASSUME [MCNext]_mcvars
    PROVE  [Next]_vars
BY DEF MCNext, mcvars, vars

LEMMA TaskSteps ==
    ASSUME [MCNext]_mcvars
    PROVE  [TaskRuntime!Next]_(TaskRuntime!vars)
BY DEF MCNext, mcvars, task_vars, TaskRuntime!vars, TaskRuntime!dmsVars,
       TaskRuntime!leaseVars, TaskRuntime!hostVars, TaskRuntime!peerVars

LEMMA RobotSteps ==
    ASSUME [MCNext]_mcvars
    PROVE  [RobotPeer!Next]_(RobotPeer!vars)
BY DEF MCNext, mcvars, robot_vars, RobotPeer!vars, RobotPeer!stateVars,
       RobotPeer!driverVars

LEMMA CredentialSteps ==
    ASSUME [MCNext]_mcvars
    PROVE  [TokenManager!Next]_(TokenManager!vars)
BY DEF MCNext, mcvars, token_vars, TokenManager!vars, TokenManager!tokenVars,
       TokenManager!ownerVars

LEMMA SessionSteps ==
    ASSUME [MCNext]_mcvars
    PROVE  [AuthSession!Next]_(AuthSession!vars)
BY DEF MCNext, mcvars, auth_vars, AuthSession!vars

LEMMA AuthoritySteps ==
    ASSUME [MCNext]_mcvars
    PROVE  [AuthoritySupervisor!Next]_(AuthoritySupervisor!vars)
BY DEF MCNext, mcvars, sup_vars, AuthoritySupervisor!vars, AuthoritySupervisor!stateVars,
       AuthoritySupervisor!statusVars, AuthoritySupervisor!lockVars

LEMMA ReservationSteps ==
    ASSUME [MCNext]_mcvars
    PROVE  [RelayReservations!Next]_(RelayReservations!vars)
BY DEF MCNext, mcvars, res_vars, RelayReservations!vars

LEMMA CircuitSteps ==
    ASSUME [MCNext]_mcvars
    PROVE  [CircuitHops!Next]_(CircuitHops!vars)
BY DEF MCNext, mcvars, hop_vars, CircuitHops!vars

LEMMA StreamSteps ==
    ASSUME [MCNext]_mcvars
    PROVE  [TargetedStreams!Next]_(TargetedStreams!vars)
BY DEF MCNext, mcvars, str_vars, TargetedStreams!vars

LEMMA AdmissionSteps ==
    ASSUME [MCNext]_mcvars
    PROVE  [AdmissionCache!Next]_(AdmissionCache!vars)
BY DEF MCNext, mcvars, adm_vars, AdmissionCache!vars

LEMMA ObservationSteps ==
    ASSUME [MCNext]_mcvars
    PROVE  [NodeObservations!Next]_(NodeObservations!vars)
BY DEF MCNext, mcvars, obs_vars, NodeObservations!vars

LEMMA ProtocolSteps ==
    ASSUME [MCNext]_mcvars
    PROVE  [ProtocolServers!Next]_(ProtocolServers!vars)
BY DEF MCNext, mcvars, prot_vars, ProtocolServers!vars

LEMMA AdvertisingSteps ==
    ASSUME [MCNext]_mcvars
    PROVE  [Advertiser!Next]_(Advertiser!vars)
BY DEF MCNext, mcvars, adv_vars, Advertiser!vars

LEMMA PeerSteps ==
    ASSUME [MCNext]_mcvars
    PROVE  [PeerRuntime!Next]_(PeerRuntime!vars)
BY DEF MCNext, mcvars, peer_vars, PeerRuntime!vars, PeerRuntime!parts

\* The composition implements each of its components.
LEMMA BehavesAsKeys == MCSpec => Spec
<1>1. MCInit => Init
  BY DEF MCInit
<1> QED BY <1>1, KeysSteps, PTL DEF MCSpec, Spec

LEMMA BehavesAsTasks == MCSpec => TaskRuntime!Spec
<1>1. MCInit => TaskRuntime!Init
  BY DEF MCInit
<1> QED BY <1>1, TaskSteps, PTL DEF MCSpec, TaskRuntime!Spec

LEMMA BehavesAsRobotPeer == MCSpec => RobotPeer!Spec
<1>1. MCInit => RobotPeer!Init
  BY DEF MCInit
<1> QED BY <1>1, RobotSteps, PTL DEF MCSpec, RobotPeer!Spec

LEMMA BehavesAsCredential == MCSpec => TokenManager!Spec
<1>1. MCInit => TokenManager!Init
  BY DEF MCInit
<1> QED BY <1>1, CredentialSteps, PTL DEF MCSpec, TokenManager!Spec

LEMMA BehavesAsSession == MCSpec => AuthSession!Spec
<1>1. MCInit => AuthSession!Init
  BY DEF MCInit
<1> QED BY <1>1, SessionSteps, PTL DEF MCSpec, AuthSession!Spec

LEMMA BehavesAsAuthority == MCSpec => AuthoritySupervisor!Spec
<1>1. MCInit => AuthoritySupervisor!Init
  BY DEF MCInit
<1> QED BY <1>1, AuthoritySteps, PTL DEF MCSpec, AuthoritySupervisor!Spec

LEMMA BehavesAsReservations == MCSpec => RelayReservations!Spec
<1>1. MCInit => RelayReservations!Init
  BY DEF MCInit
<1> QED BY <1>1, ReservationSteps, PTL DEF MCSpec, RelayReservations!Spec

LEMMA BehavesAsCircuits == MCSpec => CircuitHops!Spec
<1>1. MCInit => CircuitHops!Init
  BY DEF MCInit
<1> QED BY <1>1, CircuitSteps, PTL DEF MCSpec, CircuitHops!Spec

LEMMA BehavesAsStreams == MCSpec => TargetedStreams!Spec
<1>1. MCInit => TargetedStreams!Init
  BY DEF MCInit
<1> QED BY <1>1, StreamSteps, PTL DEF MCSpec, TargetedStreams!Spec

LEMMA BehavesAsAdmissions == MCSpec => AdmissionCache!Spec
<1>1. MCInit => AdmissionCache!Init
  BY DEF MCInit
<1> QED BY <1>1, AdmissionSteps, PTL DEF MCSpec, AdmissionCache!Spec

LEMMA BehavesAsObservations == MCSpec => NodeObservations!Spec
<1>1. MCInit => NodeObservations!Init
  BY DEF MCInit
<1> QED BY <1>1, ObservationSteps, PTL DEF MCSpec, NodeObservations!Spec

LEMMA BehavesAsProtocols == MCSpec => ProtocolServers!Spec
<1>1. MCInit => ProtocolServers!Init
  BY DEF MCInit
<1> QED BY <1>1, ProtocolSteps, PTL DEF MCSpec, ProtocolServers!Spec

LEMMA BehavesAsAdvertiser == MCSpec => Advertiser!Spec
<1>1. MCInit => Advertiser!Init
  BY DEF MCInit
<1> QED BY <1>1, AdvertisingSteps, PTL DEF MCSpec, Advertiser!Spec

LEMMA BehavesAsPeer == MCSpec => PeerRuntime!Spec
<1>1. MCInit => PeerRuntime!Init
  BY DEF MCInit
<1> QED BY <1>1, PeerSteps, PTL DEF MCSpec, PeerRuntime!Spec

-----------------------------------------------------------------------------
(* The invariants *)

\* Every component keeps its type.
THEOREM ComponentsKeepTypes == MCSpec => []ComponentsTypeOK
<1>1. MCSpec => []TypeOK
  BY BehavesAsKeys, KeysTypeCorrect, PTL
<1>2. MCSpec => []TaskRuntime!TypeOK
  BY BehavesAsTasks, CloseCorrect, MachineConstants, PTL
<1>3. MCSpec => []RobotPeer!TypeOK
  BY BehavesAsRobotPeer, RobotCorrect, MachineConstants, PTL
<1>4. MCSpec => []TokenManager!TypeOK
  BY BehavesAsCredential, ManagerTypeCorrect, MachineConstants, PTL
<1>5. MCSpec => []AuthSession!TypeOK
  BY BehavesAsSession, SessionTypeCorrect, MachineConstants, PTL
<1>6. MCSpec => []AuthoritySupervisor!TypeOK
  BY BehavesAsAuthority, SupervisorTypeCorrect, MachineConstants, PTL
<1>7. MCSpec => []RelayReservations!TypeOK
  BY BehavesAsReservations, RelayReservations!ReservationsCorrect, PeerConstants, PTL
<1>8. MCSpec => []CircuitHops!TypeOK
  BY BehavesAsCircuits, HopTypeCorrect, PeerConstants, PTL
<1>9. MCSpec => []TargetedStreams!TypeOK
  BY BehavesAsStreams, TargetedStreams!StreamsTyped, PeerConstants, PTL
<1>10. MCSpec => []AdmissionCache!TypeOK
  BY BehavesAsAdmissions, CacheTypeCorrect, PeerConstants, PTL
<1>11. MCSpec => []NodeObservations!TypeOK
  BY BehavesAsObservations, NodeObservations!ObservationsCorrect, PeerConstants, PTL
<1>12. MCSpec => []ProtocolServers!TypeOK
  BY BehavesAsProtocols, ServersCorrect, PeerConstants, PTL
<1>13. MCSpec => []Advertiser!TypeOK
  BY BehavesAsAdvertiser, AdvertiserTyped, PeerConstants, PTL
<1>14. MCSpec => []PeerRuntime!TypeOK
  BY BehavesAsPeer, PeerCorrect, PTL
<1>15. /\ TypeOK /\ TaskRuntime!TypeOK /\ RobotPeer!TypeOK /\ TokenManager!TypeOK
       /\ AuthSession!TypeOK /\ AuthoritySupervisor!TypeOK /\ RelayReservations!TypeOK
       /\ CircuitHops!TypeOK /\ TargetedStreams!TypeOK /\ AdmissionCache!TypeOK
       /\ NodeObservations!TypeOK /\ ProtocolServers!TypeOK /\ Advertiser!TypeOK
       /\ PeerRuntime!TypeOK
       => ComponentsTypeOK
  BY DEF ComponentsTypeOK
<1> QED BY <1>1, <1>2, <1>3, <1>4, <1>5, <1>6, <1>7, <1>8, <1>9, <1>10, <1>11, <1>12, <1>13,
           <1>14, <1>15, PTL

\* The key of a verified credential stays for what was left of the credential's life,
\* whatever the other components do (token.rs, replace_keys_at).
THEOREM TrustOutlastsRotation == MCSpec => []TrustedKeyIsKept
BY BehavesAsKeys, OverlapSuffices, PTL

\* runtime.rs, heartbeat and flush: the events of a task reach the DMS once and in
\* order, and none is missing when the receipt arrives, however requests are lost,
\* answered late or refused.
THEOREM EventsReachTheDms == MCSpec => []DmsSeesWholeTask
<1>1. TaskRuntime!Spec => [](TaskRuntime!EventsArriveOnce /\ TaskRuntime!ReceiptAfterEvents)
  BY EventsCorrect, MachineConstants
<1>2. TaskRuntime!EventsArriveOnce /\ TaskRuntime!ReceiptAfterEvents => DmsSeesWholeTask
  BY DEF DmsSeesWholeTask
<1> QED BY <1>1, <1>2, BehavesAsTasks, PTL

\* What a component says of its end is what happened: closes that return Ok, failures
\* that reach their waiters, joins, failed starts and published ends (runtime.rs,
\* robot_peer.rs, machine.rs, protocols.rs, peer_runtime.rs).
THEOREM OutcomesStayHonest == MCSpec => []OutcomesAreHonest
<1>1. MCSpec => []TaskRuntime!CloseIsHonest
  BY BehavesAsTasks, CloseCorrect, MachineConstants, PTL
<1>2. MCSpec => [](RobotPeer!CloseIsHonest /\ RobotPeer!FailureReachesWaiters)
  BY BehavesAsRobotPeer, RobotCorrect, MachineConstants, PTL
<1>3. MCSpec => []TokenManager!CloseOutlivesAll
  BY BehavesAsCredential, NothingOutlivesClose, MachineConstants, PTL
<1>4. MCSpec => []ProtocolServers!JoinedMeansQuiet
  BY BehavesAsProtocols, ServersCorrect, PeerConstants, PTL
<1>5. MCSpec => [](PeerRuntime!EndIsFenced /\ PeerRuntime!StoppedMeansGone
                   /\ PeerRuntime!FailedStartLeavesNothing)
  BY BehavesAsPeer, PeerCorrect, PTL
<1>6. /\ TaskRuntime!CloseIsHonest
      /\ RobotPeer!CloseIsHonest /\ RobotPeer!FailureReachesWaiters
      /\ TokenManager!CloseOutlivesAll /\ ProtocolServers!JoinedMeansQuiet
      /\ PeerRuntime!EndIsFenced /\ PeerRuntime!StoppedMeansGone
      /\ PeerRuntime!FailedStartLeavesNothing
      => OutcomesAreHonest
  BY DEF OutcomesAreHonest
<1> QED BY <1>1, <1>2, <1>3, <1>4, <1>5, <1>6, PTL

\* What a component shows to the others is there: reservations, protocols (until the
\* peer is fenced), circuits, admissions, authenticated peers and the transport's
\* credential (transport.rs, served_protocols.rs, circuit_hop.rs, source_admission.rs,
\* observation.rs, known_peers.rs, authority.rs).
THEOREM ShownStaysBacked == MCSpec => []ShownIsBacked
<1>1. MCSpec => []RelayReservations!PublishedIsBacked
  BY BehavesAsReservations, RelayReservations!ReservationsCorrect, PeerConstants, PTL
<1>2. MCSpec => []ProtocolServers!AdvertisedIsServed
  BY BehavesAsProtocols, ServersCorrect, PeerConstants, PTL
<1>3. MCSpec => []CircuitHops!SelectionFollowsCircuits
  BY BehavesAsCircuits, SelectionIsRestored, PeerConstants, PTL
<1>4. MCSpec => []AuthoritySupervisor!TransportAgrees
  BY BehavesAsAuthority, TransportFollows, MachineConstants, PTL
<1>5. MCSpec => []AdmissionCache!FailedLeaseIsGone
  BY BehavesAsAdmissions, FailedLeasesGo, PeerConstants, PTL
<1>6. MCSpec => [](NodeObservations!AuthenticatedIsConnected /\ NodeObservations!EventsAddUp
                   /\ NodeObservations!FollowerAgrees /\ NodeObservations!DriverIsArmed)
  BY BehavesAsObservations, NodeObservations!ObservationsCorrect, PeerConstants, PTL
<1>7. /\ RelayReservations!PublishedIsBacked /\ ProtocolServers!AdvertisedIsServed
      /\ CircuitHops!SelectionFollowsCircuits /\ AuthoritySupervisor!TransportAgrees
      /\ AdmissionCache!FailedLeaseIsGone
      /\ NodeObservations!AuthenticatedIsConnected /\ NodeObservations!EventsAddUp
      /\ NodeObservations!FollowerAgrees /\ NodeObservations!DriverIsArmed
      => ShownIsBacked
  BY DEF ShownIsBacked
<1> QED BY <1>1, <1>2, <1>3, <1>4, <1>5, <1>6, <1>7, PTL

\* Whoever asks, one login is under way at a time (token_manager.rs, get_access), and
\* one request for the same admission (source_admission.rs, authorize).
THEOREM RequestsAreSingleFlight == MCSpec => []SingleFlight
<1>1. TokenManager!Spec => []TokenManager!SingleLogin
  BY OneLoginAtATime, MachineConstants
<1>2. AdmissionCache!Spec => []AdmissionCache!SingleFlight
  BY OneRequestPerAdmission, PeerConstants
<1>3. TokenManager!SingleLogin /\ AdmissionCache!SingleFlight => SingleFlight
  BY DEF SingleFlight
<1> QED BY <1>1, <1>2, <1>3, BehavesAsCredential, BehavesAsAdmissions, PTL

\* zitadel_session.rs, refresh and ready: a refresh token is never submitted twice,
\* and what an operation uses has been saved.
THEOREM RotationsAreSafe == MCSpec => []RotationIsSafe
<1>1. AuthSession!Spec => []AuthSession!ConsumedNeverReused
  BY TokensAreConsumedOnce, MachineConstants
<1>2. AuthSession!Spec => []AuthSession!UsedIsSaved
  BY SavedBeforeUse, MachineConstants
<1>3. AuthSession!ConsumedNeverReused /\ AuthSession!UsedIsSaved => RotationIsSafe
  BY DEF RotationIsSafe
<1> QED BY <1>1, <1>2, <1>3, BehavesAsSession, PTL

\* authority.rs, refresh_after_unauthorized: success means a newer revision.
THEOREM RefreshesReplace == MCSpec => []RefreshedMeansReplaced
<1>1. AuthoritySupervisor!Spec => []AuthoritySupervisor!RefreshedMeansReplaced
  BY SuccessMeansReplaced, MachineConstants
<1>2. AuthoritySupervisor!RefreshedMeansReplaced => RefreshedMeansReplaced
  BY DEF RefreshedMeansReplaced
<1> QED BY <1>1, <1>2, BehavesAsAuthority, PTL

\* relay_client.rs: a reservation is accepted by its own answer only, however late the
\* answers to earlier generations arrive.
THEOREM AcceptanceStaysOwn == MCSpec => []AcceptanceIsOwn
<1>1. MCSpec => []RelayReservations!AcceptanceIsOwn
  BY BehavesAsReservations, RelayReservations!ReservationsCorrect, PeerConstants, PTL
<1>2. RelayReservations!AcceptanceIsOwn => AcceptanceIsOwn
  BY DEF AcceptanceIsOwn
<1> QED BY <1>1, <1>2, PTL

\* circuit_hop.rs: a circuit that is held is never closed by the node.
THEOREM HeldCircuitsStayUp == MCSpec => []HeldCircuitStaysUp
<1>1. CircuitHops!Spec => []CircuitHops!HeldCircuitStaysUp
  BY HeldCircuitsStay, PeerConstants
<1>2. CircuitHops!HeldCircuitStaysUp => HeldCircuitStaysUp
  BY DEF HeldCircuitStaysUp
<1> QED BY <1>1, <1>2, BehavesAsCircuits, PTL

-----------------------------------------------------------------------------
(* What a step may never do *)

\* runtime.rs: the permit of a lease returns when its handler and its peer are gone.
THEOREM PermitsCoverLeases == MCSpec => PermitCoversLease
<1>1. TaskRuntime!Spec => TaskRuntime!PermitCoversLease
  BY PermitCorrect, MachineConstants
<1> QED BY <1>1, BehavesAsTasks, PTL DEF PermitCoversLease

\* authority.rs, current, and targeted_stream.rs, timed_out: no stale credential is
\* handed out, and no relay connection retired that a success kept alive.
THEOREM CurrentStateIsActedOn == MCSpec => ActsOnCurrentState
<1>1. AuthoritySupervisor!Spec => AuthoritySupervisor!AuthorizationIsCurrent
  BY ReadersGetTheCurrent, MachineConstants
<1>2. TargetedStreams!Spec => TargetedStreams!RetiredWasStalled
  BY TargetedStreams!RetiredCorrect, PeerConstants
<1> QED BY <1>1, <1>2, BehavesAsAuthority, BehavesAsStreams, PTL DEF ActsOnCurrentState

\* What is over stays over: a lease revoked before the last look at it, a cancelled
\* reservation, a closed session and one that needs a login, a fenced mount, a terminal
\* status and the end of a node's observations (runtime.rs, transport.rs, client.rs,
\* zitadel_session.rs, context.rs, status.rs, observation.rs).
THEOREM TheEndIsTheEnd == MCSpec => NothingAfterTheEnd
<1>1. TaskRuntime!Spec => TaskRuntime!ReceiptIsLast
  BY ReceiptCorrect, MachineConstants
<1>2. RelayReservations!Spec => RelayReservations!CancelClosesEverything
  BY RelayReservations!CancelCorrect, PeerConstants
<1>3. AuthSession!Spec => AuthSession!ClosedIsSilent
  BY NothingAfterClose, MachineConstants
<1>4. AuthSession!Spec => AuthSession!LoginStaysRequired
  BY LoginIsForGood, MachineConstants
<1>5. ProtocolServers!Spec => ProtocolServers!FenceHolds
  BY FenceCorrect, PeerConstants
<1>6. NodeObservations!Spec => NodeObservations!EventsAlternate
  BY NodeObservations!EventsCorrectlyAlternate, PeerConstants
<1> QED BY <1>1, <1>2, <1>3, <1>4, <1>5, <1>6, TerminalCorrect, BehavesAsTasks,
           BehavesAsReservations, BehavesAsSession, BehavesAsProtocols, BehavesAsPeer,
           BehavesAsObservations, PTL DEF NothingAfterTheEnd
=============================================================================
