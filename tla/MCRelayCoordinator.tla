---------------------------- MODULE MCRelayCoordinator ----------------------------
EXTENDS RelayCoordinator, TLC

CONSTANTS s1, s2, r1, r2

OneSlot == {s1}
TwoSlots == {s1, s2}
OneRelay == {r1}
TwoRelays == {r1, r2}

RelaySymmetry == Permutations(Relays)
FullSymmetry == Permutations(Relays) \cup Permutations(Slots)
=============================================================================
