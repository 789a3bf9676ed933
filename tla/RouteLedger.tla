----------------------------- MODULE RouteLedger -----------------------------
(***************************************************************************)
(* What a reader of the route catalog may rely on: the advertised content  *)
(* changes only together with a version that never goes back, so two reads *)
(* of the same version saw the same content.                               *)
(***************************************************************************)
EXTENDS Naturals

VARIABLES version, content

LedgerInit == version \in {0, 1}

\* A change, or several folded into one call: the version is never reused
Revise == version' > version

LedgerSpec == LedgerInit /\ [][Revise]_<<version, content>>
=============================================================================
