---------------------------- MODULE MCBrainStore ----------------------------
(***************************************************************************)
(* Instances of BrainStore: one process, or two that race.                 *)
(***************************************************************************)
EXTENDS BrainStore, TLC

CONSTANTS p1, p2, b1, b2, b3, k1

OneProc == {p1}
TwoProcs == {p1, p2}
TwoBrains == {b1, b2}
ThreeBrains == {b1, b2, b3}
OneKey == {k1}

BrainKinds == {"create", "mutate", "audit", "export", "import"}
CopyKinds == {"mutate", "export", "import"}

Symmetric == Permutations(Procs) \cup Permutations(BrainIds)

=============================================================================
