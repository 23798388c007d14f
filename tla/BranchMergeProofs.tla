-------------------------- MODULE BranchMergeProofs -------------------------
(***************************************************************************)
(* Proofs about BranchMerge, for any brain, any number of branches and any *)
(* sequence of commands.                                                   *)
(***************************************************************************)
EXTENDS BranchMerge, FiniteSetTheorems, FunctionTheorems, SequenceTheorems, TLAPS

Records == [about : Topics, count : Nat]

IsBranch(x) ==
    /\ DOMAIN x = {"name", "objects", "suppressions"}
    /\ IsFiniteSet(DOMAIN x.objects)
    /\ \A id \in DOMAIN x.objects : x.objects[id] \in Objects
    /\ x.suppressions \in Seq(Records)

BranchesInv ==
    /\ Active \in DOMAIN branches /\ DOMAIN branches \subseteq Names
    /\ \A b \in DOMAIN branches : IsBranch(branches[b]) /\ branches[b].name = b

-----------------------------------------------------------------------------
\* What a command does to the branches

\* The command changed nothing.
Refused == ~did'.ok /\ UNCHANGED state

Succeeded == did'.ok /\ audit' = Append(audit, did'.command)

\* The branches but one are as they were.
Others(b) ==
    /\ DOMAIN branches' = DOMAIN branches
    /\ \A other \in DOMAIN branches \ {b} : branches'[other] = branches[other]

\* A branch has new objects and suppressions, and is the same otherwise.
Becomes(b, objects, suppressions) ==
    /\ DOMAIN branches'[b] = DOMAIN branches[b]
    /\ branches'[b].name = branches[b].name
    /\ branches'[b].objects = objects
    /\ branches'[b].suppressions = suppressions

Copied(new) ==
    /\ new \notin DOMAIN branches
    /\ DOMAIN branches' = DOMAIN branches \cup {new}
    /\ \A b \in DOMAIN branches : branches'[b] = branches[b]
    /\ DOMAIN branches'[new] = DOMAIN branches[Active]
    /\ branches'[new].name = new
    /\ branches'[new].objects = branches[Active].objects
    /\ branches'[new].suppressions = branches[Active].suppressions

Overlaid(src, dst, taken) ==
    [id \in DOMAIN dst \cup taken |-> IF id \in taken THEN src[id] ELSE dst[id]]

Merged(source, target, strategy) ==
    LET src == branches[source].objects
        dst == branches[target].objects
        taken == Taken(src, dst, strategy)
    IN  /\ source \in DOMAIN branches /\ target \in DOMAIN branches
        /\ Others(target)
        /\ Becomes(target, Overlaid(src, dst, taken), branches[target].suppressions)
        /\ did'.command.op = "merge" /\ did'.command.target = target
        /\ did'.command.strategy = strategy /\ did'.command.count = Cardinality(taken)

\* What a suppression hits.
Hit(topic) ==
    LET objects == branches[Active].objects
    IN  {id \in DOMAIN objects : objects[id].about = topic /\ ~objects[id].suppressed}

Marked(objects, hit) ==
    [id \in DOMAIN objects |-> IF id \in hit THEN [objects[id] EXCEPT !.suppressed = TRUE] ELSE objects[id]]

Suppressed(topic) ==
    /\ Others(Active)
    /\ Becomes(Active, Marked(branches[Active].objects, Hit(topic)),
               Append(branches[Active].suppressions, RecordOf(topic, Hit(topic))))
    /\ did'.command.op = "forget" /\ did'.command.count = Cardinality(Hit(topic))

\* mutate_brain writes what a command makes of a copy, or nothing.
LEMMA CommitEffect ==
    ASSUME NEW command, NEW ok \in BOOLEAN, NEW changed, Commit(command, ok, changed)
    PROVE  /\ did'.command = command /\ did'.ok = ok
           /\ ok => branches' = changed /\ audit' = Append(audit, command)
           /\ ~ok => UNCHANGED <<branches, audit>>
<1>1. did' = [command |-> command, ok |-> ok]
  BY DEF Commit
<1>2. did'.command = command /\ did'.ok = ok
  BY <1>1
<1> QED
  BY <1>2 DEF Commit

\* A fork is a new branch or nothing.
LEMMA BranchEffect ==
    ASSUME BranchesInv, NEW new \in Names, Branch(new)
    PROVE  UNCHANGED attachments /\ (Refused \/ (Succeeded /\ did'.command.op = "branch" /\ Copied(new)))
<1> DEFINE command == [op |-> "branch", from |-> Active, to |-> new]
           forked == [b \in DOMAIN branches \cup {new} |-> IF b = new THEN Forked(new) ELSE branches[b]]
           ok == new \notin DOMAIN branches
<1>1. Commit(command, ok, forked) /\ UNCHANGED attachments
  BY DEF Branch
<1>2. command.op = "branch" /\ ok \in BOOLEAN
  OBVIOUS
<1>3. CASE ~ok
  <2> HIDE DEF command, forked, ok
  <2> QED
    BY <1>1, <1>2, <1>3, CommitEffect DEF Refused, state
<1>4. CASE ok
  <2>1. did'.ok /\ did'.command = command /\ branches' = forked /\ audit' = Append(audit, command)
    <3> HIDE DEF command, forked, ok
    <3> QED
      BY <1>1, <1>2, <1>4, CommitEffect
  <2>2. branches'[new] = [branches[Active] EXCEPT !.name = new]
    BY <2>1 DEF Forked
  <2>3. "name" \in DOMAIN branches[Active]
    BY DEF BranchesInv, IsBranch
  <2>4. branches'[new].name = new /\ \A f \in {"objects", "suppressions"} : branches'[new][f] = branches[Active][f]
    BY <2>2, <2>3
  <2>5. DOMAIN branches' = DOMAIN branches \cup {new} /\ DOMAIN branches'[new] = DOMAIN branches[Active]
    BY <2>1, <2>2
  <2>6. \A b \in DOMAIN branches : branches'[b] = branches[b]
    BY <1>4, <2>1
  <2>7. Copied(new)
    BY <1>4, <2>4, <2>5, <2>6 DEF Copied
  <2> HIDE DEF command
  <2> QED
    BY <1>1, <1>2, <2>1, <2>7 DEF Succeeded
<1> QED
  BY <1>3, <1>4

\* A merge overlays the target or does nothing.
LEMMA MergeEffect ==
    ASSUME BranchesInv, NEW source \in Names, NEW target \in Names, NEW strategy \in Strategies,
           Merge(source, target, strategy)
    PROVE  UNCHANGED attachments /\ (Refused \/ (Succeeded /\ Merged(source, target, strategy)))
<1> DEFINE src == branches[source].objects
           dst == branches[target].objects
           taken == Taken(src, dst, strategy)
           overlaid == Overlaid(src, dst, taken)
           ok == Conflicts(src, dst, strategy) = {}
           command == [op |-> "merge", source |-> source, target |-> target, strategy |-> strategy,
                       count |-> Cardinality(taken)]
<1>1. CASE ~(Known(source) /\ Known(target))
  <2>1. Commit([op |-> "merge", source |-> source, target |-> target], FALSE, branches)
    BY <1>1 DEF Merge
  <2> QED
    BY <2>1, CommitEffect DEF Merge, Refused, state
<1>2. CASE Known(source) /\ Known(target)
  <2>1. Commit(command, ok, [branches EXCEPT ![target].objects = overlaid])
    BY <1>2 DEF Merge, MergeKnown, Overlaid
  <2> ok \in BOOLEAN
    OBVIOUS
  <2> HIDE DEF overlaid, command
  <2>2. CASE ~ok
    <3> HIDE DEF ok
    <3> QED
      BY <2>1, <2>2, CommitEffect DEF Merge, Refused, state
  <2>3. CASE ok
    <3>1. branches' = [branches EXCEPT ![target].objects = overlaid] /\ Succeeded /\ did'.command = command
      <4> HIDE DEF ok
      <4> QED
        BY <2>1, <2>3, CommitEffect DEF Succeeded
    <3>2. target \in DOMAIN branches /\ DOMAIN branches[target] = {"name", "objects", "suppressions"}
      BY <1>2 DEF Known, BranchesInv, IsBranch
    <3>3. Others(target) /\ Becomes(target, overlaid, branches[target].suppressions)
      BY <3>1, <3>2 DEF Others, Becomes
    <3>4. /\ command.op = "merge" /\ command.target = target
          /\ command.strategy = strategy /\ command.count = Cardinality(taken)
      BY DEF command
    <3>5. Merged(source, target, strategy)
      BY <1>2, <3>1, <3>3, <3>4 DEF Merged, Known, overlaid
    <3> QED
      BY <3>1, <3>5 DEF Merge
  <2> QED
    BY <2>2, <2>3
<1> QED
  BY <1>1, <1>2

\* A suppression marks objects of the active branch and records their number.
LEMMA ForgetEffect ==
    ASSUME BranchesInv, NEW topic \in Topics, Forget(topic)
    PROVE  UNCHANGED attachments /\ Succeeded /\ Suppressed(topic)
<1> DEFINE marked == Marked(branches[Active].objects, Hit(topic))
           record == RecordOf(topic, Hit(topic))
           command == [op |-> "forget", about |-> topic, count |-> Cardinality(Hit(topic))]
           forgotten == [branches EXCEPT
                            ![Active].objects = [id \in DOMAIN @ |->
                                IF id \in Hit(topic) THEN [@[id] EXCEPT !.suppressed = TRUE] ELSE @[id]],
                            ![Active].suppressions = Append(@, record)]
<1>1. Commit(command, TRUE, forgotten) /\ UNCHANGED attachments
  BY DEF Forget, Hit
<1>2. branches' = forgotten /\ Succeeded /\ did'.command = command
  <2> HIDE DEF forgotten, command
  <2> QED
    BY <1>1, CommitEffect DEF Succeeded
<1>3. Active \in DOMAIN branches /\ DOMAIN branches[Active] = {"name", "objects", "suppressions"}
  <2>1. Active \in DOMAIN branches /\ IsBranch(branches[Active])
    BY DEF BranchesInv
  <2> QED
    BY <2>1 DEF IsBranch
<1>4. Others(Active)
  BY <1>2, <1>3, ZenonT(40) DEF Others
<1>5. branches'[Active].objects = marked
  BY <1>2, <1>3, ZenonT(40) DEF Marked
<1>6. /\ DOMAIN branches'[Active] = DOMAIN branches[Active]
      /\ branches'[Active].name = branches[Active].name
      /\ branches'[Active].suppressions = Append(branches[Active].suppressions, record)
  BY <1>2, <1>3
<1>7. command.op = "forget" /\ command.count = Cardinality(Hit(topic))
  OBVIOUS
<1> HIDE DEF command, forgotten
<1> QED
  BY <1>1, <1>2, <1>4, <1>5, <1>6, <1>7 DEF Suppressed, Becomes

\* Grants are no matter of the branches.
LEMMA GrantEffect ==
    ASSUME NEW agent \in Agents, NEW model \in Models \cup {AllModels},
           (model \in Models /\ Attach(agent, model)) \/ Detach(agent, model)
    PROVE  /\ UNCHANGED branches /\ Succeeded
           /\ did'.command.op \in {"attach", "detach"}
           /\ did'.command.op = "detach" => did'.command.count = Len(attachments) - Len(attachments')
<1> DEFINE attach == [op |-> "attach", agent |-> agent, model |-> model]
           detach == [op |-> "detach", agent |-> agent, model |-> model,
                      count |-> Len(attachments) - Len(attachments')]
<1>1. attach.op = "attach" /\ detach.op = "detach" /\ detach.count = Len(attachments) - Len(attachments')
  OBVIOUS
<1>2. Commit(attach, TRUE, branches) \/ Commit(detach, TRUE, branches)
  BY DEF Attach, Detach
<1> HIDE DEF attach, detach
<1> QED
  BY <1>1, <1>2, CommitEffect DEF Succeeded

-----------------------------------------------------------------------------
\* What branches hold

\* A step does nothing to the branches, or what one command does.
LEMMA BranchesCases ==
    ASSUME BranchesInv, [Next]_vars
    PROVE  \/ UNCHANGED branches
           \/ \E new \in Names : Copied(new)
           \/ \E source, target \in Names, strategy \in Strategies : Merged(source, target, strategy)
           \/ \E topic \in Topics : Suppressed(topic)
<1>1. ASSUME NEW new \in Names, Branch(new)
      PROVE  UNCHANGED branches \/ Copied(new)
  BY <1>1, BranchEffect DEF Refused, state
<1>2. ASSUME NEW source \in Names, NEW target \in Names, NEW strategy \in Strategies,
             Merge(source, target, strategy)
      PROVE  UNCHANGED branches \/ Merged(source, target, strategy)
  BY <1>2, MergeEffect DEF Refused, state
<1>3. ASSUME NEW topic \in Topics, Forget(topic)
      PROVE  Suppressed(topic)
  BY <1>3, ForgetEffect
<1>4. ASSUME NEW agent \in Agents, NEW model \in Models \cup {AllModels},
             (model \in Models /\ Attach(agent, model)) \/ Detach(agent, model)
      PROVE  UNCHANGED branches
  BY <1>4, GrantEffect
<1>5. CASE UNCHANGED vars
  BY <1>5 DEF vars
<1> QED
  BY <1>1, <1>2, <1>3, <1>4, <1>5 DEF Next, Finished

\* What a merge takes is the source's.
LEMMA TakenOfSource ==
    ASSUME NEW src, NEW dst, NEW strategy
    PROVE  Taken(src, dst, strategy) \subseteq DOMAIN src
  BY DEF Taken, Differing

\* A command leaves branches branches.
LEMMA NextBranches == BranchesInv /\ [Next]_vars => BranchesInv'
<1> SUFFICES ASSUME BranchesInv, [Next]_vars
             PROVE  BranchesInv'
  OBVIOUS
<1>1. CASE UNCHANGED branches
  BY <1>1 DEF BranchesInv
<1>2. ASSUME NEW new \in Names, Copied(new)
      PROVE  BranchesInv'
  BY <1>2 DEF BranchesInv, Copied, IsBranch
<1>3. ASSUME NEW source \in Names, NEW target \in Names, NEW strategy \in Strategies,
             Merged(source, target, strategy)
      PROVE  BranchesInv'
  <2> DEFINE src == branches[source].objects
             dst == branches[target].objects
             taken == Taken(src, dst, strategy)
             overlaid == Overlaid(src, dst, taken)
  <2>1. IsBranch(branches[source]) /\ IsBranch(branches[target]) /\ taken \subseteq DOMAIN src
    BY <1>3, TakenOfSource DEF Merged, BranchesInv
  <2>2. IsFiniteSet(DOMAIN dst \cup taken)
    <3>1. IsFiniteSet(taken)
      BY <2>1, FS_Subset DEF IsBranch
    <3> QED
      BY <2>1, <3>1, FS_Union DEF IsBranch
  <2>3. DOMAIN overlaid = DOMAIN dst \cup taken /\ \A id \in DOMAIN overlaid : overlaid[id] \in Objects
    BY <2>1 DEF IsBranch, Overlaid
  <2>4. Becomes(target, overlaid, branches[target].suppressions) /\ Others(target)
    BY <1>3 DEF Merged
  <2> HIDE DEF overlaid, taken
  <2>5. IsBranch(branches'[target]) /\ branches'[target].name = target
    BY <2>1, <2>2, <2>3, <2>4, <1>3 DEF IsBranch, Becomes, BranchesInv, Merged
  <2> QED
    BY <2>4, <2>5 DEF BranchesInv, Others
<1>4. ASSUME NEW topic \in Topics, Suppressed(topic)
      PROVE  BranchesInv'
  <2> DEFINE objects == branches[Active].objects
             marked == Marked(objects, Hit(topic))
             record == RecordOf(topic, Hit(topic))
  <2>1. IsBranch(branches[Active])
    BY DEF BranchesInv
  <2>2. record \in Records
    <3>1. IsFiniteSet(Hit(topic))
      BY <2>1, FS_Subset DEF IsBranch, Hit
    <3>2. Cardinality(Hit(topic)) \in Nat
      BY <3>1, FS_CardinalityType
    <3> QED
      BY <3>2 DEF RecordOf, Records
  <2>3. DOMAIN marked = DOMAIN objects /\ \A id \in DOMAIN marked : marked[id] \in Objects
    BY <2>1 DEF IsBranch, Marked, Objects
  <2>4. Becomes(Active, marked, Append(branches[Active].suppressions, record)) /\ Others(Active)
    BY <1>4 DEF Suppressed
  <2> HIDE DEF marked, record
  <2>5. IsBranch(branches'[Active]) /\ branches'[Active].name = Active
    BY <2>1, <2>2, <2>3, <2>4 DEF IsBranch, Becomes, BranchesInv
  <2> QED
    BY <2>4, <2>5 DEF BranchesInv, Others
<1> QED
  BY <1>1, <1>2, <1>3, <1>4, BranchesCases

\* A brain that was made or imported has branches.
LEMMA InitBranches == Init => BranchesInv
<1> SUFFICES ASSUME Init
             PROVE  BranchesInv
  OBVIOUS
<1>1. PICK package \in Imported :
          branches = [b \in DOMAIN package |-> [name |-> b, objects |-> package[b], suppressions |-> <<>>]]
  BY DEF Init
<1>2. <<>> \in Seq(Records)
  OBVIOUS
<1> QED
  BY <1>1, <1>2, BranchAssumption DEF BranchesInv, IsBranch

-----------------------------------------------------------------------------
\* Suppressions

\* What a sequence holds when an element is appended.
LEMMA RangeOfAppend ==
    ASSUME NEW S, NEW s \in Seq(S), NEW e \in S
    PROVE  Range(Append(s, e)) = Range(s) \cup {e}
<1>1. /\ DOMAIN Append(s, e) = DOMAIN s \cup {Len(s) + 1}
      /\ \A i \in DOMAIN s : Append(s, e)[i] = s[i]
      /\ Append(s, e)[Len(s) + 1] = e
  OBVIOUS
<1> QED
  BY <1>1 DEF Range

\* The active branch has a record of what was suppressed.
Recorded(object) ==
    object.suppressed =>
        \E record \in Range(branches[Active].suppressions) :
            record.about = object.about /\ record.count > 0

\* No step loses a record, and what it suppresses is recorded.
LEMMA NextRecorded == BranchesInv /\ SuppressionIsRecorded /\ [Next]_vars => SuppressionIsRecorded'
<1> SUFFICES ASSUME BranchesInv, SuppressionIsRecorded, [Next]_vars
             PROVE  SuppressionIsRecorded'
  OBVIOUS
<1>0. \A b \in DOMAIN branches : \A id \in DOMAIN branches[b].objects : Recorded(branches[b].objects[id])
  BY DEF SuppressionIsRecorded, Recorded
<1>1. CASE UNCHANGED branches
  BY <1>1 DEF SuppressionIsRecorded
<1>2. ASSUME NEW new \in Names, Copied(new)
      PROVE  SuppressionIsRecorded'
  <2>1. branches'[Active] = branches[Active]
    BY <1>2 DEF Copied, BranchesInv
  <2>2. ASSUME NEW b \in DOMAIN branches', NEW id \in DOMAIN branches'[b].objects
        PROVE  Recorded(branches'[b].objects[id])
    BY <1>2, <1>0 DEF Copied, BranchesInv
  <2> QED
    BY <2>1, <2>2 DEF SuppressionIsRecorded, Recorded
<1>3. ASSUME NEW source \in Names, NEW target \in Names, NEW strategy \in Strategies,
             Merged(source, target, strategy)
      PROVE  SuppressionIsRecorded'
  <2>1. branches'[Active].suppressions = branches[Active].suppressions
    BY <1>3 DEF Merged, Others, Becomes, BranchesInv
  <2>2. ASSUME NEW b \in DOMAIN branches', NEW id \in DOMAIN branches'[b].objects
        PROVE  Recorded(branches'[b].objects[id])
    <3>1. CASE b = target
      BY <1>0, <1>3, <2>2, <3>1, TakenOfSource DEF Merged, Becomes, Overlaid
    <3>2. CASE b # target
      BY <1>0, <1>3, <2>2, <3>2 DEF Merged, Others
    <3> QED
      BY <3>1, <3>2
  <2> QED
    BY <2>1, <2>2 DEF SuppressionIsRecorded, Recorded
<1>4. ASSUME NEW topic \in Topics, Suppressed(topic)
      PROVE  SuppressionIsRecorded'
  <2> DEFINE objects == branches[Active].objects
             hit == Hit(topic)
             record == RecordOf(topic, hit)
             before == branches[Active].suppressions
  <2>1. IsBranch(branches[Active]) /\ IsFiniteSet(hit)
    BY FS_Subset DEF BranchesInv, IsBranch, Hit
  <2>2. Cardinality(hit) \in Nat /\ (hit # {} => Cardinality(hit) > 0)
    BY <2>1, FS_CardinalityType, FS_EmptySet
  <2>3. record.about = topic /\ record.count = Cardinality(hit) /\ record \in Records
    BY <2>2 DEF RecordOf, Records
  <2>4. Range(branches'[Active].suppressions) = Range(before) \cup {record}
    <3>1. before \in Seq(Records)
      BY <2>1 DEF IsBranch
    <3>2. branches'[Active].suppressions = Append(before, record)
      BY <1>4 DEF Suppressed, Becomes
    <3> QED
      BY <2>3, <3>1, <3>2, RangeOfAppend
  <2>5. ASSUME NEW b \in DOMAIN branches', NEW id \in DOMAIN branches'[b].objects,
               branches'[b].objects[id].suppressed
        PROVE  \E r \in Range(before) \cup {record} :
                   r.about = branches'[b].objects[id].about /\ r.count > 0
    <3>1. CASE b = Active /\ id \in hit
      <4>1. id \in DOMAIN objects /\ objects[id].about = topic /\ objects[id] \in Objects
        BY <2>1, <3>1 DEF Hit, IsBranch
      <4>2. branches'[Active].objects[id] = [objects[id] EXCEPT !.suppressed = TRUE]
        BY <1>4, <3>1, <4>1 DEF Suppressed, Becomes, Marked
      <4>3. branches'[Active].objects[id].about = topic
        BY <4>1, <4>2 DEF Objects
      <4> QED
        BY <2>2, <2>3, <3>1, <4>3
    <3>2. CASE ~(b = Active /\ id \in hit)
      <4>1. b \in DOMAIN branches /\ id \in DOMAIN branches[b].objects
            /\ branches'[b].objects[id] = branches[b].objects[id]
        BY <1>4, <2>5, <3>2 DEF Suppressed, Becomes, Marked, Others
      <4> QED
        BY <1>0, <2>5, <4>1 DEF Recorded
    <3> QED
      BY <3>1, <3>2
  <2> QED
    BY <2>4, <2>5 DEF SuppressionIsRecorded
<1> QED
  BY <1>1, <1>2, <1>3, <1>4, BranchesCases

\* A new brain has nothing suppressed.
LEMMA InitRecorded == Init => SuppressionIsRecorded
<1> SUFFICES ASSUME Init
             PROVE  SuppressionIsRecorded
  OBVIOUS
<1>1. PICK package \in Imported :
          branches = [b \in DOMAIN package |-> [name |-> b, objects |-> package[b], suppressions |-> <<>>]]
  BY DEF Init
<1>2. \A b \in DOMAIN branches : branches[b].objects = package[b] /\ b \in DOMAIN package
  BY <1>1
<1> QED
  BY <1>2, BranchAssumption DEF SuppressionIsRecorded

\* For any brain and any commands: branches are branches, and what is
\* suppressed is recorded.
THEOREM BranchesCorrect == Spec => [](BranchesInv /\ SuppressionIsRecorded)
<1>1. Init => BranchesInv /\ SuppressionIsRecorded
  BY InitBranches, InitRecorded
<1>2. BranchesInv /\ SuppressionIsRecorded /\ [Next]_vars => (BranchesInv /\ SuppressionIsRecorded)'
  BY NextBranches, NextRecorded
<1> QED
  BY <1>1, <1>2, PTL DEF Spec

\* For any brain: wherever branches and merges carry a suppressed object, the
\* active branch has the record of the command that suppressed it.
THEOREM SuppressionTheorem == Spec => []SuppressionIsRecorded
  BY BranchesCorrect, PTL

-----------------------------------------------------------------------------
\* What a step may change

\* For any brain: objects never go, and only a merge of theirs overwrites, but
\* that a suppression marks.
THEOREM OverwriteTheorem == Spec => OverwrittenByTheirs
<1> DEFINE Kept(b, id) ==
               /\ b \in DOMAIN branches' /\ id \in DOMAIN branches'[b].objects
               /\ Before(b, id) # branches'[b].objects[id] =>
                     \/ /\ did'.command.op = "merge" /\ did'.command.strategy = "theirs"
                        /\ did'.command.target = b
                     \/ /\ did'.command.op = "forget" /\ b = Active
                        /\ branches'[b].objects[id] = [Before(b, id) EXCEPT !.suppressed = TRUE]
           Step == \A b \in DOMAIN branches : \A id \in DOMAIN branches[b].objects : Kept(b, id)
<1>1. BranchesInv /\ [Next]_vars => Step
  <2> SUFFICES ASSUME BranchesInv, [Next]_vars,
                      NEW b \in DOMAIN branches, NEW id \in DOMAIN branches[b].objects
               PROVE  Kept(b, id)
    OBVIOUS
  <2>1. CASE UNCHANGED branches
    BY <2>1 DEF Before
  <2>2. ASSUME NEW new \in Names, Copied(new)
        PROVE  Kept(b, id)
    BY <2>2 DEF Before, Copied
  <2>3. ASSUME NEW source \in Names, NEW target \in Names, NEW strategy \in Strategies,
               Merged(source, target, strategy)
        PROVE  Kept(b, id)
    <3>1. CASE b = target
      <4> DEFINE src == branches[source].objects
                 dst == branches[target].objects
                 taken == Taken(src, dst, strategy)
      <4>1. id \in taken => strategy = "theirs"
        BY <3>1 DEF Taken
      <4>2. branches'[b].objects = Overlaid(src, dst, taken)
        BY <2>3, <3>1 DEF Merged, Becomes
      <4>3. /\ id \in DOMAIN branches'[b].objects
            /\ id \notin taken => branches'[b].objects[id] = branches[b].objects[id]
        BY <3>1, <4>2 DEF Overlaid
      <4> QED
        BY <2>3, <3>1, <4>1, <4>3 DEF Merged, Others, Before
    <3>2. CASE b # target
      BY <2>3, <3>2 DEF Merged, Others, Before
    <3> QED
      BY <3>1, <3>2
  <2>4. ASSUME NEW topic \in Topics, Suppressed(topic)
        PROVE  Kept(b, id)
    <3>1. CASE b = Active
      <4>1. branches'[b].objects = Marked(branches[b].objects, Hit(topic)) /\ did'.command.op = "forget"
        BY <2>4, <3>1 DEF Suppressed, Becomes
      <4>2. /\ id \in DOMAIN branches'[b].objects
            /\ \/ branches'[b].objects[id] = [Before(b, id) EXCEPT !.suppressed = TRUE]
               \/ branches'[b].objects[id] = Before(b, id)
        BY <4>1 DEF Marked, Before
      <4> QED
        BY <2>4, <3>1, <4>1, <4>2 DEF Suppressed, Others
    <3>2. CASE b # Active
      BY <2>4, <3>2 DEF Suppressed, Others, Before
    <3> QED
      BY <3>1, <3>2
  <2> HIDE DEF Kept
  <2> QED
    BY <2>1, <2>2, <2>3, <2>4, BranchesCases
<1> QED
  BY <1>1, BranchesCorrect, PTL DEF OverwrittenByTheirs, Spec

\* A set of pairs with one first element is as large as that of the second.
LEMMA PairsWithOne ==
    ASSUME NEW b, NEW S, IsFiniteSet(S)
    PROVE  Cardinality({b} \X S) = Cardinality(S)
<1> DEFINE T == {b} \X S
           f == [x \in S |-> <<b, x>>]
<1>1. /\ f \in [S -> T]
      /\ \A x, y \in S : f[x] = f[y] => x = y
      /\ \A p \in T : \E x \in S : f[x] = p
  OBVIOUS
<1> HIDE DEF f, T
<1>2. f \in Bijection(S, T)
  BY <1>1, Fun_IsBij
<1>3. ExistsBijection(S, T)
  BY <1>2, Fun_ExistsBij
<1>4. Cardinality(T) = Cardinality(S)
  BY <1>3, FS_Bijection
<1> QED
  BY <1>4 DEF T

\* What changes when one branch does.
LEMMA ChangedHere ==
    ASSUME NEW b \in DOMAIN branches, Others(b)
    PROVE  Changed = {b} \X {id \in DOMAIN branches'[b].objects :
                                \/ id \notin DOMAIN branches[b].objects
                                \/ branches[b].objects[id] # branches'[b].objects[id]}
  BY DEF Changed, Pairs, Before, Others

\* A merge changes what it takes.
LEMMA MergeCount ==
    ASSUME BranchesInv, NEW source \in Names, NEW target \in Names, NEW strategy \in Strategies,
           Merged(source, target, strategy)
    PROVE  did'.command.count = Cardinality(Changed)
<1> DEFINE src == branches[source].objects
           dst == branches[target].objects
           taken == Taken(src, dst, strategy)
           new == branches'[target].objects
           changed == {id \in DOMAIN new : id \notin DOMAIN dst \/ dst[id] # new[id]}
<1>1. new = Overlaid(src, dst, taken) /\ target \in DOMAIN branches /\ Others(target)
  BY DEF Merged, Becomes
<1>2. taken \subseteq DOMAIN src /\ IsFiniteSet(taken)
  <2>1. IsFiniteSet(DOMAIN src) /\ taken \subseteq DOMAIN src
    BY TakenOfSource DEF Merged, BranchesInv, IsBranch
  <2> QED
    BY <2>1, FS_Subset
<1>3. changed = taken
  <2>1. \A id \in taken \cap DOMAIN dst : src[id] # dst[id]
    BY DEF Taken, Differing, Differs
  <2> QED
    BY <1>1, <2>1 DEF Overlaid
<1>4. Changed = {target} \X taken
  BY <1>1, <1>3, ChangedHere
<1> QED
  BY <1>2, <1>4, PairsWithOne DEF Merged

\* A suppression changes what it hits.
LEMMA ForgetCount ==
    ASSUME BranchesInv, NEW topic \in Topics, Suppressed(topic)
    PROVE  did'.command.count = Cardinality(Changed)
<1> DEFINE objects == branches[Active].objects
           new == branches'[Active].objects
           changed == {id \in DOMAIN new : id \notin DOMAIN objects \/ objects[id] # new[id]}
<1>1. new = Marked(objects, Hit(topic)) /\ Active \in DOMAIN branches /\ Others(Active)
  BY DEF Suppressed, Becomes, BranchesInv
<1>2. IsFiniteSet(Hit(topic)) /\ \A id \in DOMAIN objects : objects[id] \in Objects
  BY FS_Subset DEF BranchesInv, IsBranch, Hit
<1>3. \A id \in Hit(topic) : objects[id] # new[id]
  BY <1>1, <1>2 DEF Marked, Hit, Objects
<1>4. changed = Hit(topic)
  BY <1>1, <1>3 DEF Marked, Hit
<1>5. Changed = {Active} \X Hit(topic)
  BY <1>1, <1>4, ChangedHere
<1> QED
  BY <1>2, <1>5, PairsWithOne DEF Suppressed

\* For any brain and any commands: the trail has each command that succeeded,
\* with the number of what it changed, and one that failed changed nothing.
THEOREM TrailTheorem == Spec => TrailCountsChanges
<1> DEFINE Counted ==
               /\ audit' = Append(audit, did'.command)
               /\ did'.command.op \in {"merge", "forget"} => did'.command.count = Cardinality(Changed)
               /\ did'.command.op = "detach" => did'.command.count = Len(attachments) - Len(attachments')
           Step == IF did'.ok THEN Counted ELSE UNCHANGED state
<1>1. BranchesInv /\ [Next]_vars => Step \/ UNCHANGED vars
  <2> SUFFICES ASSUME BranchesInv, Next
               PROVE  Step \/ UNCHANGED vars
    OBVIOUS
  <2>1. ASSUME NEW new \in Names, Branch(new)
        PROVE  Step
    BY <2>1, BranchEffect DEF Refused, Succeeded
  <2>2. ASSUME NEW source \in Names, NEW target \in Names, NEW strategy \in Strategies,
               Merge(source, target, strategy)
        PROVE  Step
    <3>1. CASE Refused
      BY <3>1 DEF Refused
    <3>2. CASE Succeeded /\ Merged(source, target, strategy)
      BY <3>2, MergeCount DEF Succeeded, Merged
    <3> QED
      BY <2>2, <3>1, <3>2, MergeEffect
  <2>3. ASSUME NEW topic \in Topics, Forget(topic)
        PROVE  Step
    <3>1. Succeeded /\ Suppressed(topic)
      BY <2>3, ForgetEffect
    <3> QED
      BY <3>1, ForgetCount DEF Succeeded, Suppressed
  <2>4. ASSUME NEW agent \in Agents, NEW model \in Models \cup {AllModels},
               (model \in Models /\ Attach(agent, model)) \/ Detach(agent, model)
        PROVE  Step
    BY <2>4, GrantEffect DEF Succeeded
  <2> HIDE DEF Step
  <2> QED
    BY <2>1, <2>2, <2>3, <2>4 DEF Next, Finished
<1> QED
  BY <1>1, BranchesCorrect, PTL DEF TrailCountsChanges, Spec

-----------------------------------------------------------------------------
\* Grants

\* retain keeps what it is to keep, each once, in a sequence.
LEMMA RetainedFacts ==
    ASSUME NEW S, NEW vec \in Seq(S), NEW kept, kept \subseteq DOMAIN vec
    PROVE  /\ Retained(vec, kept) \in Seq(S)
           /\ Range(Retained(vec, kept)) = {vec[i] : i \in kept}
           /\ IsInjective(vec) => IsInjective(Retained(vec, kept))
<1> DEFINE Upto(i) == {j \in kept : j <= i}
           Place(i) == Cardinality(Upto(i))
           size == Cardinality(kept)
           At(n) == CHOOSE i \in kept : Place(i) = n
<1>1. kept \subseteq Nat /\ IsFiniteSet(kept) /\ size \in Nat
  <2>1. DOMAIN vec = 1..Len(vec) /\ Len(vec) \in Nat
    OBVIOUS
  <2>2. IsFiniteSet(1..Len(vec))
    BY <2>1, FS_Interval
  <2>3. IsFiniteSet(kept)
    BY <2>1, <2>2, FS_Subset
  <2> QED
    BY <2>1, <2>3, FS_CardinalityType
<1>2. ASSUME NEW i \in kept
      PROVE  IsFiniteSet(Upto(i)) /\ Place(i) \in 1..size
  <2>1. Upto(i) \in SUBSET kept /\ i \in Upto(i)
    BY <1>1
  <2> HIDE DEF Upto
  <2>2. IsFiniteSet(Upto(i)) /\ Place(i) <= size
    BY <1>1, <2>1, FS_Subset
  <2>3. Place(i) \in Nat /\ Place(i) # 0
    BY <2>1, <2>2, FS_CardinalityType, FS_EmptySet
  <2> QED
    BY <1>1, <2>2, <2>3
<1>3. ASSUME NEW i \in kept, NEW j \in kept, i < j
      PROVE  Place(i) # Place(j)
  <2>1. Upto(i) \in SUBSET Upto(j) /\ j \in Upto(j) /\ j \notin Upto(i)
    BY <1>1, <1>3
  <2> HIDE DEF Upto
  <2> QED
    BY <1>2, <2>1, FS_Subset
<1>4. ASSUME NEW i \in kept, NEW j \in kept, Place(i) = Place(j)
      PROVE  i = j
  <2> HIDE DEF Place
  <2>1. ~(i < j) /\ ~(j < i)
    BY <1>3, <1>4
  <2> QED
    BY <1>1, <2>1
<1>5. \A n \in 1..size : \E i \in kept : Place(i) = n
  <2> DEFINE f == [i \in kept |-> Place(i)]
  <2>1. f \in [kept -> 1..size] /\ \A i, j \in kept : f[i] = f[j] => i = j
    BY <1>2, <1>4
  <2>2. f \in Injection(kept, 1..size)
    <3> HIDE DEF f
    <3> QED
      BY <2>1 DEF Injection, IsInjective
  <2>3. IsFiniteSet(1..size) /\ Cardinality(1..size) = size
    BY <1>1, FS_Interval
  <2>4. f \in Surjection(kept, 1..size)
    <3> HIDE DEF f
    <3> QED
      BY <2>2, <2>3, FS_Injection
  <2> QED
    BY <2>4 DEF Surjection
<1> HIDE DEF Place
<1>6. \A n \in 1..size : At(n) \in kept /\ Place(At(n)) = n
  BY <1>5
<1>7. \A i \in kept : At(Place(i)) = i
  BY <1>2, <1>4, <1>6
<1> HIDE DEF At
<1>8. Retained(vec, kept) = [n \in 1..size |-> vec[At(n)]]
  BY DEF Retained, At, Place, Upto
<1> HIDE DEF size
<1>9. Retained(vec, kept) \in Seq(S)
  BY <1>1, <1>6, <1>8
<1>10. Range(Retained(vec, kept)) = {vec[i] : i \in kept}
  <2>1. \A i \in kept : Place(i) \in 1..size /\ vec[i] = Retained(vec, kept)[Place(i)]
    BY <1>2, <1>7, <1>8 DEF size
  <2>2. \A n \in 1..size : Retained(vec, kept)[n] = vec[At(n)]
    BY <1>8
  <2>3. DOMAIN Retained(vec, kept) = 1..size
    BY <1>8
  <2> QED
    BY <1>6, <2>1, <2>2, <2>3 DEF Range
<1>11. IsInjective(vec) => IsInjective(Retained(vec, kept))
  BY <1>6, <1>8 DEF IsInjective
<1> QED
  BY <1>9, <1>10, <1>11

Grants == [agent : Agents, model : Models]

GrantsInv ==
    /\ audit \in Seq({audit[i] : i \in DOMAIN audit})
    /\ attachments \in Seq(Grants) /\ GrantsAreAudited

\* An attach audits its own grant, and a detach ends what it hits; no other
\* command touches what is audited.
LEMMA AuditedAfter ==
    ASSUME audit \in Seq({audit[i] : i \in DOMAIN audit}), NEW entry, audit' = Append(audit, entry),
           NEW agent \in Agents, NEW model \in Models
    PROVE  /\ entry.op = "attach" => (Audited(agent, model)' <=>
                  (entry.agent = agent /\ entry.model = model) \/ Audited(agent, model))
           /\ entry.op = "detach" => (Audited(agent, model)' <=>
                  ~(entry.agent = agent /\ entry.model \in {model, AllModels}) /\ Audited(agent, model))
           /\ entry.op \notin {"attach", "detach"} => (Audited(agent, model)' <=> Audited(agent, model))
<1> DEFINE last == Len(audit) + 1
           Attaches(e) == e.op = "attach" /\ e.agent = agent /\ e.model = model
           Detaches(e) == e.op = "detach" /\ e.agent = agent /\ e.model \in {model, AllModels}
<1>1. /\ Len(audit) \in Nat /\ DOMAIN audit = 1..Len(audit)
      /\ Len(audit') = last /\ DOMAIN audit' = 1..last
      /\ \A i \in 1..Len(audit) : audit'[i] = audit[i]
      /\ audit'[last] = entry
  OBVIOUS
<1>2. Audited(agent, model) <=>
          \E i \in 1..Len(audit) : Attaches(audit[i]) /\ \A j \in (i + 1)..Len(audit) : ~Detaches(audit[j])
  BY <1>1 DEF Audited
<1>3. Audited(agent, model)' <=>
          \E i \in 1..last : Attaches(audit'[i]) /\ \A j \in (i + 1)..last : ~Detaches(audit'[j])
  BY <1>1 DEF Audited
<1>4. ~(Attaches(entry) /\ Detaches(entry))
  OBVIOUS
<1> HIDE DEF Attaches, Detaches
<1>5. Audited(agent, model)' <=> (Attaches(entry) \/ (~Detaches(entry) /\ Audited(agent, model)))
  <2>1. ASSUME Attaches(entry)
        PROVE  Audited(agent, model)'
    <3>1. last \in 1..last /\ (last + 1)..last = {}
      BY <1>1
    <3> QED
      BY <1>1, <1>3, <2>1, <3>1
  <2>2. ASSUME ~Detaches(entry), Audited(agent, model)
        PROVE  Audited(agent, model)'
    <3>1. PICK i \in 1..Len(audit) : Attaches(audit[i]) /\ \A j \in (i + 1)..Len(audit) : ~Detaches(audit[j])
      BY <1>2, <2>2
    <3>2. i \in 1..last /\ \A j \in (i + 1)..last : j \in (i + 1)..Len(audit) \/ j = last
      BY <1>1
    <3> QED
      BY <1>1, <1>3, <2>2, <3>1, <3>2
  <2>3. ASSUME Audited(agent, model)', ~Attaches(entry)
        PROVE  ~Detaches(entry) /\ Audited(agent, model)
    <3>1. PICK i \in 1..last : Attaches(audit'[i]) /\ \A j \in (i + 1)..last : ~Detaches(audit'[j])
      BY <1>3, <2>3
    <3>2. i # last
      BY <1>1, <2>3, <3>1
    <3>3. i \in 1..Len(audit) /\ last \in (i + 1)..last /\ (i + 1)..Len(audit) \subseteq (i + 1)..last
      BY <1>1, <3>2
    <3>4. \A j \in (i + 1)..Len(audit) : j \in 1..Len(audit)
      BY <1>1, <3>3
    <3> QED
      BY <1>1, <1>2, <3>1, <3>3, <3>4
  <2> QED
    BY <2>1, <2>2, <2>3
<1> QED
  BY <1>4, <1>5 DEF Attaches, Detaches

\* The trail grows by an entry.
LEMMA TrailGrows ==
    ASSUME audit \in Seq({audit[i] : i \in DOMAIN audit}), NEW entry, audit' = Append(audit, entry)
    PROVE  audit' \in Seq({audit'[i] : i \in DOMAIN audit'})
<1> DEFINE S == {audit[i] : i \in DOMAIN audit}
           T == {audit'[i] : i \in DOMAIN audit'}
<1>0. audit \in Seq(S)
  OBVIOUS
<1>1. audit \in Seq(S \cup {entry})
  <2> HIDE DEF S
  <2> QED
    BY <1>0, SeqMonotonic
<1>2. S \cup {entry} \subseteq T
  <2>1. /\ DOMAIN audit' = DOMAIN audit \cup {Len(audit) + 1} /\ audit'[Len(audit) + 1] = entry
        /\ \A i \in DOMAIN audit : audit'[i] = audit[i]
    OBVIOUS
  <2> QED
    BY <2>1
<1>3. audit' \in Seq(S \cup {entry})
  <2> HIDE DEF S
  <2> QED
    BY <1>1
<1> HIDE DEF S, T
<1>4. audit' \in Seq(T)
  BY <1>2, <1>3, SeqMonotonic
<1> QED
  BY <1>4 DEF T

\* What is left when the grants that a command hits go.
LEMMA WithoutFacts ==
    ASSUME attachments \in Seq(Grants), IsInjective(attachments), NEW agent, NEW model
    PROVE  /\ Without(agent, model) \in Seq(Grants) /\ IsInjective(Without(agent, model))
           /\ Range(Without(agent, model)) = {g \in Range(attachments) : ~Hits(g, agent, model)}
<1> DEFINE kept == {i \in DOMAIN attachments : ~Hits(attachments[i], agent, model)}
<1>1. kept \subseteq DOMAIN attachments /\ Without(agent, model) = Retained(attachments, kept)
  BY DEF Without
<1>2. {attachments[i] : i \in kept} = {g \in Range(attachments) : ~Hits(g, agent, model)}
  BY DEF Range
<1> HIDE DEF kept
<1> QED
  BY <1>1, <1>2, RetainedFacts

\* An attach puts its grant in the place of the one it replaces.
LEMMA AttachKeeps ==
    ASSUME GrantsInv, NEW agent \in Agents, NEW model \in Models, Attach(agent, model)
    PROVE  GrantsInv'
<1> DEFINE grant == [agent |-> agent, model |-> model]
           command == [op |-> "attach", agent |-> agent, model |-> model]
           left == Without(agent, model)
<1>1. attachments' = Append(left, grant) /\ audit' = Append(audit, command)
  BY CommitEffect DEF Attach
<1>2. grant \in Grants /\ grant.agent = agent /\ grant.model = model
  BY DEF Grants
<1>3. command.op = "attach" /\ command.agent = agent /\ command.model = model
  OBVIOUS
<1> HIDE DEF grant, command, left
<1>4. attachments \in Seq(Grants) /\ IsInjective(attachments) /\ audit \in Seq({audit[i] : i \in DOMAIN audit})
  BY DEF GrantsInv, GrantsAreAudited
<1>5. /\ left \in Seq(Grants) /\ IsInjective(left)
      /\ Range(left) = {g \in Range(attachments) : ~Hits(g, agent, model)}
  BY <1>4, WithoutFacts DEF left
<1>6. \A g \in Grants : Hits(g, agent, model) <=> g = grant
  <2>1. model # AllModels
    BY BranchAssumption
  <2> QED
    BY <1>2, <2>1 DEF Hits, Grants
<1>7. Range(attachments') = Range(left) \cup {grant} /\ attachments' \in Seq(Grants)
  BY <1>1, <1>2, <1>5, RangeOfAppend
<1>8. \A g \in Grants : Audited(g.agent, g.model)' <=> g = grant \/ Audited(g.agent, g.model)
  <2> TAKE g \in Grants
  <2>1. g.agent \in Agents /\ g.model \in Models /\ (g = grant <=> agent = g.agent /\ model = g.model)
    BY <1>2 DEF Grants
  <2> QED
    BY <1>1, <1>3, <1>4, <2>1, AuditedAfter
<1>9. Range(attachments) = {g \in Grants : Audited(g.agent, g.model)}
  BY DEF GrantsInv, GrantsAreAudited, Grants
<1>10. Range(attachments') = {g \in Grants : Audited(g.agent, g.model)'}
  BY <1>2, <1>5, <1>6, <1>7, <1>8, <1>9
<1>11. IsInjective(attachments')
  <2>1. grant \notin Range(left)
    BY <1>2, <1>5, <1>6
  <2>2. /\ DOMAIN attachments' = DOMAIN left \cup {Len(left) + 1}
        /\ \A i \in DOMAIN left : attachments'[i] = left[i] /\ attachments'[i] # grant
        /\ attachments'[Len(left) + 1] = grant
    BY <1>1, <1>5, <2>1 DEF Range
  <2> QED
    BY <1>5, <2>2 DEF IsInjective
<1> QED
  BY <1>1, <1>4, <1>7, <1>10, <1>11, TrailGrows DEF GrantsInv, GrantsAreAudited, Grants

\* A detach takes the grants it hits.
LEMMA DetachKeeps ==
    ASSUME GrantsInv, NEW agent \in Agents, NEW model \in Models \cup {AllModels}, Detach(agent, model)
    PROVE  GrantsInv'
<1> DEFINE left == Without(agent, model)
           command == [op |-> "detach", agent |-> agent, model |-> model,
                       count |-> Len(attachments) - Len(left)]
<1>1. attachments' = left /\ audit' = Append(audit, command)
  BY CommitEffect DEF Detach
<1>2. command.op = "detach" /\ command.agent = agent /\ command.model = model
  OBVIOUS
<1> HIDE DEF command, left
<1>3. attachments \in Seq(Grants) /\ IsInjective(attachments) /\ audit \in Seq({audit[i] : i \in DOMAIN audit})
  BY DEF GrantsInv, GrantsAreAudited
<1>4. /\ left \in Seq(Grants) /\ IsInjective(left)
      /\ Range(left) = {g \in Range(attachments) : ~Hits(g, agent, model)}
  BY <1>3, WithoutFacts DEF left
<1>5. \A g \in Grants : Audited(g.agent, g.model)' <=> ~Hits(g, agent, model) /\ Audited(g.agent, g.model)
  <2> TAKE g \in Grants
  <2>1. /\ g.agent \in Agents /\ g.model \in Models
        /\ Hits(g, agent, model) <=> agent = g.agent /\ model \in {g.model, AllModels}
    BY DEF Grants, Hits
  <2> QED
    BY <1>1, <1>2, <1>3, <2>1, AuditedAfter
<1>6. Range(attachments) = {g \in Grants : Audited(g.agent, g.model)}
  BY DEF GrantsInv, GrantsAreAudited, Grants
<1>7. Range(attachments') = {g \in Grants : Audited(g.agent, g.model)'}
  BY <1>1, <1>4, <1>5, <1>6
<1> QED
  BY <1>1, <1>3, <1>4, <1>7, TrailGrows DEF GrantsInv, GrantsAreAudited, Grants

\* A command of another kind leaves the grants, and what is audited.
LEMMA OthersKeep ==
    ASSUME GrantsInv, UNCHANGED attachments,
           \/ UNCHANGED audit
           \/ Succeeded /\ did'.command.op \notin {"attach", "detach"}
    PROVE  GrantsInv'
<1>1. CASE UNCHANGED audit
  <2>1. \A agent \in Agents, model \in Models : Audited(agent, model)' <=> Audited(agent, model)
    BY <1>1 DEF Audited
  <2> QED
    BY <1>1, <2>1 DEF GrantsInv, GrantsAreAudited
<1>2. CASE Succeeded /\ did'.command.op \notin {"attach", "detach"}
  <2>1. \A agent \in Agents, model \in Models : Audited(agent, model)' <=> Audited(agent, model)
    BY <1>2, AuditedAfter DEF GrantsInv, Succeeded
  <2>2. audit' \in Seq({audit'[i] : i \in DOMAIN audit'})
    BY <1>2, TrailGrows DEF GrantsInv, Succeeded
  <2> QED
    BY <2>1, <2>2 DEF GrantsInv, GrantsAreAudited
<1> QED
  BY <1>1, <1>2

\* No command parts the grants from the trail.
LEMMA NextGrants == BranchesInv /\ GrantsInv /\ [Next]_vars => GrantsInv'
<1> SUFFICES ASSUME BranchesInv, GrantsInv, [Next]_vars
             PROVE  GrantsInv'
  OBVIOUS
<1>1. ASSUME NEW new \in Names, Branch(new)
      PROVE  GrantsInv'
  BY <1>1, BranchEffect, OthersKeep DEF Refused, state
<1>2. ASSUME NEW source \in Names, NEW target \in Names, NEW strategy \in Strategies,
             Merge(source, target, strategy)
      PROVE  GrantsInv'
  BY <1>2, MergeEffect, OthersKeep DEF Refused, state, Merged
<1>3. ASSUME NEW topic \in Topics, Forget(topic)
      PROVE  GrantsInv'
  BY <1>3, ForgetEffect, OthersKeep DEF Suppressed
<1>4. ASSUME NEW agent \in Agents, NEW model \in Models, Attach(agent, model)
      PROVE  GrantsInv'
  BY <1>4, AttachKeeps
<1>5. ASSUME NEW agent \in Agents, NEW model \in Models \cup {AllModels}, Detach(agent, model)
      PROVE  GrantsInv'
  BY <1>5, DetachKeeps
<1>6. CASE UNCHANGED vars
  BY <1>6, OthersKeep DEF vars
<1> QED
  BY <1>1, <1>2, <1>3, <1>4, <1>5, <1>6 DEF Next, Finished

\* A new brain has no grants, and nothing in the trail.
LEMMA InitGrants == Init => GrantsInv
<1> SUFFICES ASSUME Init
             PROVE  GrantsInv
  OBVIOUS
<1>1. attachments = <<>> /\ audit = <<>>
  BY DEF Init
<1>2. \A agent \in Agents, model \in Models : ~Audited(agent, model)
  BY <1>1 DEF Audited
<1>3. Range(attachments) = {} /\ IsInjective(attachments)
  BY <1>1 DEF Range, IsInjective
<1>4. attachments \in Seq(Grants) /\ audit \in Seq({audit[i] : i \in DOMAIN audit})
  BY <1>1
<1> QED
  BY <1>2, <1>3, <1>4 DEF GrantsInv, GrantsAreAudited

\* For any number of agents and models, and any sequence of commands: who is
\* attached to what, once each, is what a replay of the trail gives.
THEOREM GrantsTheorem == Spec => []GrantsAreAudited
<1>1. BranchesInv /\ GrantsInv /\ [Next]_vars => (BranchesInv /\ GrantsInv)'
  BY NextBranches, NextGrants
<1>2. Init => BranchesInv /\ GrantsInv
  BY InitBranches, InitGrants
<1>3. GrantsInv => GrantsAreAudited
  BY DEF GrantsInv
<1> QED
  BY <1>1, <1>2, <1>3, PTL DEF Spec

\* For any brain and any commands the state is well typed, and a branch carries
\* its own name.
THEOREM TypeTheorem == Spec => []TypeOK
<1> DEFINE TypeInv == BranchesInv /\ GrantsInv /\ did.ok \in BOOLEAN
<1>1. Init => TypeInv
  BY InitBranches, InitGrants DEF Init
<1>2. TypeInv /\ [Next]_vars => TypeInv'
  <2>1. ASSUME BranchesInv, did.ok \in BOOLEAN, [Next]_vars
        PROVE  did'.ok \in BOOLEAN
    <3>1. ASSUME NEW new \in Names, Branch(new)
          PROVE  did'.ok \in BOOLEAN
      BY <3>1, CommitEffect DEF Branch
    <3>2. ASSUME NEW source \in Names, NEW target \in Names, NEW strategy \in Strategies,
                 Merge(source, target, strategy)
          PROVE  did'.ok \in BOOLEAN
      <4>1. PICK ok \in BOOLEAN : \E command, changed : Commit(command, ok, changed)
        BY <3>2 DEF Merge, MergeKnown
      <4> QED
        BY <4>1, CommitEffect
    <3>3. ASSUME NEW topic \in Topics, Forget(topic)
          PROVE  did'.ok \in BOOLEAN
      BY <3>3, CommitEffect DEF Forget
    <3>4. ASSUME NEW agent \in Agents, NEW model \in Models \cup {AllModels},
                 (model \in Models /\ Attach(agent, model)) \/ Detach(agent, model)
          PROVE  did'.ok \in BOOLEAN
      BY <3>4, CommitEffect DEF Attach, Detach
    <3> QED
      BY <2>1, <3>1, <3>2, <3>3, <3>4 DEF Next, Finished, vars
  <2> QED
    BY <2>1, NextBranches, NextGrants
<1>3. ASSUME TypeInv
      PROVE  TypeOK
  <2>1. /\ Active \in DOMAIN branches /\ DOMAIN branches \subseteq Names
        /\ \A b \in DOMAIN branches : branches[b].name = b /\ IsBranch(branches[b])
    BY <1>3 DEF BranchesInv
  <2>2. ASSUME NEW b \in DOMAIN branches
        PROVE  /\ Range(branches[b].objects) \subseteq Objects
               /\ branches[b].suppressions \in Seq([about : Topics, count : Nat])
    BY <2>1 DEF IsBranch, Range, Records
  <2>3. attachments \in Seq([agent : Agents, model : Models]) /\ did.ok \in BOOLEAN
    BY <1>3 DEF GrantsInv, Grants
  <2> QED
    BY <2>1, <2>2, <2>3 DEF TypeOK
<1> QED
  BY <1>1, <1>2, <1>3, PTL DEF Spec

=============================================================================
