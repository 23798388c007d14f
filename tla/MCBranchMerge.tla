---------------------------- MODULE MCBranchMerge ---------------------------
(***************************************************************************)
(* Instances of BranchMerge: an empty brain, and a package with a branch   *)
(* that differs from main in one object, lacks one and has one more.       *)
(***************************************************************************)
EXTENDS BranchMerge, TLC

Object(topic, value) == [about |-> topic, value |-> value, suppressed |-> FALSE]

MCNames == {"main", "work", "spare"}
MCTopics == {"tea", "cup"}

Created == [b \in {"main"} |-> <<>>]

Package ==
    [main |-> [o1 |-> Object("tea", 1), o2 |-> Object("cup", 1)],
     work |-> [o1 |-> Object("tea", 2), o3 |-> Object("tea", 1)]]

MCImported == {Created, Package}

=============================================================================
