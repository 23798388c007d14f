----------------------------- MODULE BranchMerge ----------------------------
(***************************************************************************)
(* What the commands on a brain do to its state (portable-brain-proxy/     *)
(* crates/brain-store): branches of memory objects, merges, suppressions,  *)
(* agents' grants and the audit trail.  BrainStore shows that a command's  *)
(* load and write act as one step when nobody interferes; here it is one.  *)
(*                                                                         *)
(* No command makes a memory object: they come with an imported package.   *)
(* An object is abstracted to what it is about (subject and predicate),    *)
(* its value and whether it is suppressed; a grant to whom it is for.      *)
(***************************************************************************)
EXTENDS Naturals, Sequences, FiniteSets, SequencesExt

CONSTANTS Names,      \* branches
          Imported,   \* the objects of each branch of the packages there are
          Topics,     \* what objects are about
          Agents, Models,
          MaxAudit    \* bound: commands that succeed

Active == "main"      \* active_branch is never assigned again

Objects == [about : Topics, value : Nat, suppressed : BOOLEAN]

\* "*" is detach without a model: no string, so no model has that name.
AllModels == "*"

ASSUME BranchAssumption ==
    /\ Active \in Names /\ MaxAudit \in Nat /\ AllModels \notin Models
    /\ \A package \in Imported :
          /\ Active \in DOMAIN package /\ DOMAIN package \subseteq Names
          /\ \A b \in DOMAIN package :
                /\ IsFiniteSet(DOMAIN package[b])
                /\ \A id \in DOMAIN package[b] :
                      package[b][id] \in Objects /\ ~package[b][id].suppressed

VARIABLES branches,     \* of names to [name, objects, suppressions]
          attachments,  \* a sequence of grants
          audit,        \* a sequence of entries
          did           \* history: the last command and whether it succeeded

state == <<branches, attachments, audit>>
vars == <<branches, attachments, audit, did>>

Strategies == {"ours", "theirs", "manual"}

-----------------------------------------------------------------------------
\* mutate_brain: a command changes a copy, which is written unless it fails.

\* Mutant: the copy is written in any case.
MutCommit(command, ok, changed) ==
    /\ did' = [command |-> command, ok |-> ok]
    /\ branches' = changed
    /\ audit' = IF ok THEN Append(audit, command) ELSE audit

Commit(command, ok, changed) ==
    /\ did' = [command |-> command, ok |-> ok]
    /\ branches' = IF ok THEN changed ELSE branches
    /\ audit' = IF ok THEN Append(audit, command) ELSE audit

MayCommit == Len(audit) < MaxAudit

\* Mutant: the copy keeps the name of its source.
MutForked(new) == branches[Active]

Forked(new) == [branches[Active] EXCEPT !.name = new]

Branch(new) ==
    /\ MayCommit
    /\ Commit([op |-> "branch", from |-> Active, to |-> new], new \notin DOMAIN branches,
              [b \in DOMAIN branches \cup {new} |->
                  IF b = new THEN Forked(new) ELSE branches[b]])
    /\ UNCHANGED attachments

-----------------------------------------------------------------------------
\* merge

Differs(x, y) == x.value # y.value \/ x.suppressed # y.suppressed

Differing(src, dst) == {id \in DOMAIN src \cap DOMAIN dst : Differs(src[id], dst[id])}

\* Mutant: ours and theirs are swapped.
MutTaken(src, dst, strategy) ==
    (DOMAIN src \ DOMAIN dst) \cup (IF strategy = "ours" THEN Differing(src, dst) ELSE {})

\* The objects that the source overwrites or adds.
Taken(src, dst, strategy) ==
    (DOMAIN src \ DOMAIN dst) \cup (IF strategy = "theirs" THEN Differing(src, dst) ELSE {})

Conflicts(src, dst, strategy) == IF strategy = "manual" THEN Differing(src, dst) ELSE {}

Known(b) == b \in DOMAIN branches

\* A manual merge adds what is new before it finds that it fails.
MergeKnown(source, target, strategy) ==
    LET src == branches[source].objects
        dst == branches[target].objects
        taken == Taken(src, dst, strategy)
    IN  Commit([op |-> "merge", source |-> source, target |-> target, strategy |-> strategy,
                count |-> Cardinality(taken)],
               Conflicts(src, dst, strategy) = {},
               [branches EXCEPT ![target].objects =
                   [id \in DOMAIN dst \cup taken |-> IF id \in taken THEN src[id] ELSE dst[id]]])

Merge(source, target, strategy) ==
    /\ MayCommit
    /\ IF Known(source) /\ Known(target)
       THEN MergeKnown(source, target, strategy)
       ELSE Commit([op |-> "merge", source |-> source, target |-> target], FALSE, branches)
    /\ UNCHANGED attachments

-----------------------------------------------------------------------------
\* forget_suppress

\* Mutant: the record is made before the objects are counted.
MutRecordOf(topic, hit) == [about |-> topic, count |-> 0]

RecordOf(topic, hit) == [about |-> topic, count |-> Cardinality(hit)]

Forget(topic) ==
    LET objects == branches[Active].objects
        hit == {id \in DOMAIN objects : objects[id].about = topic /\ ~objects[id].suppressed}
    IN  /\ MayCommit
        /\ Commit([op |-> "forget", about |-> topic, count |-> Cardinality(hit)], TRUE,
                  [branches EXCEPT
                      ![Active].objects =
                          [id \in DOMAIN @ |-> IF id \in hit THEN [@[id] EXCEPT !.suppressed = TRUE]
                                                             ELSE @[id]],
                      ![Active].suppressions = Append(@, RecordOf(topic, hit))])
        /\ UNCHANGED attachments

-----------------------------------------------------------------------------
\* attach and detach

\* Mutant: detach looks at the agent only.
MutHits(grant, agent, model) == grant.agent = agent

Hits(grant, agent, model) == grant.agent = agent /\ model \in {grant.model, AllModels}

\* Vec::retain: the elements at the places kept, in their order.
Retained(vec, kept) ==
    LET Place(i) == Cardinality({j \in kept : j <= i})
    IN  [n \in 1..Cardinality(kept) |-> vec[CHOOSE i \in kept : Place(i) = n]]

Without(agent, model) ==
    Retained(attachments, {i \in DOMAIN attachments : ~Hits(attachments[i], agent, model)})

\* A grant replaces the one the agent has for the model.
Attach(agent, model) ==
    /\ MayCommit
    /\ attachments' = Append(Without(agent, model), [agent |-> agent, model |-> model])
    /\ Commit([op |-> "attach", agent |-> agent, model |-> model], TRUE, branches)

Detach(agent, model) ==
    /\ MayCommit
    /\ attachments' = Without(agent, model)
    /\ Commit([op |-> "detach", agent |-> agent, model |-> model,
               count |-> Len(attachments) - Len(Without(agent, model))], TRUE, branches)

-----------------------------------------------------------------------------

\* create_brain makes the main branch, empty; import_brain adopts a package.
Init ==
    /\ \E package \in Imported :
          branches = [b \in DOMAIN package |-> [name |-> b, objects |-> package[b], suppressions |-> <<>>]]
    /\ attachments = <<>> /\ audit = <<>>
    /\ did = [command |-> [op |-> "create"], ok |-> TRUE]

Finished == ~MayCommit /\ UNCHANGED vars

Next ==
    \/ \E new \in Names : Branch(new)
    \/ \E source, target \in Names, strategy \in Strategies : Merge(source, target, strategy)
    \/ \E topic \in Topics : Forget(topic)
    \/ \E agent \in Agents, model \in Models : Attach(agent, model)
    \/ \E agent \in Agents, model \in Models \cup {AllModels} : Detach(agent, model)
    \/ Finished

Spec == Init /\ [][Next]_vars

-----------------------------------------------------------------------------
\* Properties

\* The one type invariant: a branch carries its own name.
TypeOK ==
    /\ Active \in DOMAIN branches /\ DOMAIN branches \subseteq Names
    /\ \A b \in DOMAIN branches :
          /\ branches[b].name = b
          /\ Range(branches[b].objects) \subseteq Objects
          /\ branches[b].suppressions \in Seq([about : Topics, count : Nat])
    /\ attachments \in Seq([agent : Agents, model : Models])
    /\ did.ok \in BOOLEAN

\* The last attach of the pair came after every detach that hits it.
Audited(agent, model) ==
    \E i \in DOMAIN audit :
        /\ audit[i].op = "attach" /\ audit[i].agent = agent /\ audit[i].model = model
        /\ \A j \in (i + 1)..Len(audit) :
              audit[j].op = "detach" /\ audit[j].agent = agent => audit[j].model \notin {model, AllModels}

\* Grants are auditable: who is attached to what, once each, is what a replay of
\* the trail gives.
GrantsAreAudited ==
    /\ Range(attachments) = {g \in [agent : Agents, model : Models] : Audited(g.agent, g.model)}
    /\ IsInjective(attachments)

\* Wherever branches and merges carry an object that is suppressed, the active
\* branch has the record of the command that suppressed it.
SuppressionIsRecorded ==
    \A b \in DOMAIN branches : \A id \in DOMAIN branches[b].objects :
        LET object == branches[b].objects[id] IN
        object.suppressed =>
            \E record \in Range(branches[Active].suppressions) :
                record.about = object.about /\ record.count > 0

Before(b, id) == branches[b].objects[id]
Pairs == UNION {{b} \X DOMAIN branches[b].objects : b \in DOMAIN branches}

\* Only a merge of theirs into a branch overwrites what the branch has: a
\* suppressed object, the active branch's too, comes back in no other way, and
\* objects never go.
OverwrittenByTheirs ==
    [][\A b \in DOMAIN branches : \A id \in DOMAIN branches[b].objects :
          /\ b \in DOMAIN branches' /\ id \in DOMAIN branches'[b].objects
          /\ Before(b, id) # branches'[b].objects[id] =>
                \/ /\ did'.command.op = "merge" /\ did'.command.strategy = "theirs"
                   /\ did'.command.target = b
                \/ /\ did'.command.op = "forget" /\ b = Active
                   /\ branches'[b].objects[id] = [Before(b, id) EXCEPT !.suppressed = TRUE]]_vars

\* Objects of the old branches that a step changes or adds, wherever.
Changed ==
    {p \in UNION {{b} \X DOMAIN branches'[b].objects : b \in DOMAIN branches} :
        p \notin Pairs \/ Before(p[1], p[2]) # branches'[p[1]].objects[p[2]]}

\* The trail is complete and tells the truth: a command that succeeds adds one
\* entry with the number of objects or grants it changed in all branches
\* together, and one that fails, a merge that had begun to add, changes nothing.
TrailCountsChanges ==
    [][IF did'.ok
       THEN /\ audit' = Append(audit, did'.command)
            /\ did'.command.op \in {"merge", "forget"} => did'.command.count = Cardinality(Changed)
            /\ did'.command.op = "detach" => did'.command.count = Len(attachments) - Len(attachments')
       ELSE UNCHANGED state]_vars

=============================================================================
