--------------------------- MODULE MCRouteCatalog ---------------------------
(* Small instances of RouteCatalog for TLC *)
EXTENDS RouteCatalog, TLC

CONSTANTS o1, o2, s1, s2, r1, r2, d1

TwoOwners == {o1, o2}
OneOwner == {o1}
TwoSlots == {s1, s2}
OneSlot == {s1}
TwoRelays == {r1, r2}
OneRelay == {r1}
OneDirect == {d1}
AppAndPublisher == {"app", "publisher"}
NoReaders == {}

Symmetry == Permutations(TwoOwners) \cup Permutations(TwoSlots)
              \cup Permutations(TwoRelays)
=============================================================================
