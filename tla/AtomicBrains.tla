---------------------------- MODULE AtomicBrains ----------------------------
(***************************************************************************)
(* What the brain store promises one user at a time: brains are a map from *)
(* ids to logs of operations.  A brain appears, by creation or by import,  *)
(* gains one operation at a time, and may be lost for good when a process  *)
(* dies (or be unusable from the start); it never holds anything else, and *)
(* a brain that was lost never comes back with another log.                *)
(***************************************************************************)
CONSTANTS BrainIds,  \* ids of brains
          Ops        \* operations

VARIABLE brains      \* id -> {log}, or {} for a brain that does not load

Contents == {{log} : log \in SUBSET Ops} \cup {{}}

Init == \E ids \in SUBSET BrainIds : brains \in [ids -> Contents]

\* A new brain with a log of its own, or that of the package it comes from.
Appear(b) ==
    /\ b \notin DOMAIN brains
    /\ \E content \in Contents :
          brains' = [x \in DOMAIN brains \cup {b} |-> IF x = b THEN content ELSE brains[x]]

\* An operation is new to every brain when it is recorded.
Record(b) ==
    \E op \in Ops, log \in brains[b] :
        /\ \A x \in DOMAIN brains : \A other \in brains[x] : op \notin other
        /\ brains' = [brains EXCEPT ![b] = {log \cup {op}}]

Lose(b) == brains' = [brains EXCEPT ![b] = {}]

Next ==
    \/ \E b \in BrainIds : Appear(b)
    \/ \E b \in DOMAIN brains : Record(b) \/ Lose(b)

Spec == Init /\ [][Next]_brains

=============================================================================
