-------------------------- MODULE BrainPromisesProofs -----------------------
(***************************************************************************)
(* Proofs about BrainStore, for any number of brains and API keys: a brain *)
(* that no crash in the middle of a commit, no race and no import under    *)
(* another name has damaged loads with what was acknowledged, whatever the *)
(* number of processes, and is in the way of other brains only while its   *)
(* brain.json is written; and one process at a time sees brains that       *)
(* change atomically (AtomicBrains).                                       *)
(***************************************************************************)
EXTENDS BrainStoreProofs

-----------------------------------------------------------------------------
\* A brain that nothing damaged

Commits(j, b) == j.at = "write" /\ j.kind \in Committing /\ j.brain = b

Stable(b) ==
    /\ \A n \in 1..3 : disk[Files(b)[n]].is = "whole"
    /\ Good(b, Content(ManifestFile(b)), Content(StateFile(b)), Content(KeyFile(b)))
    /\ Content(StateFile(b)).log = expected[b]

\* No commit has begun: the brain is stable, or not made yet.
Settled(b) == IF b \in DOMAIN expected THEN Stable(b) ELSE disk[ManifestFile(b)] = Absent

\* What the n-th file will be when the commit of j is done.
Comes(j, n, value) ==
    LET done == Total(j.kind) - Len(j.queue)
    IN  IF n \in (done + 1)..Total(j.kind) THEN j.queue[n - done][2] = value
        ELSE disk[Files(j.brain)[n]] = Whole(value)

\* The log that the commit of j is to leave.
Leaves(j, log) ==
    /\ j.kind = "create" => log = {j.op}
    /\ j.kind = "mutate" => log = expected[j.brain] \cup {j.op}

CommitHolds(j) ==
    /\ j.kind = "mutate" <=> j.brain \in DOMAIN expected
    /\ ~(j.opened \/ Len(j.queue) < Total(j.kind)) => Settled(j.brain)
    /\ j.opened => disk[j.queue[1][1]] = Empty
    /\ \E m, blob, key :
          /\ Comes(j, 1, m) /\ Comes(j, 2, blob) /\ Comes(j, 3, key)
          /\ Good(j.brain, m, blob, key) /\ Leaves(j, blob.log)

BrainHolds(b) ==
    /\ \A p, q \in Procs : Commits(job[p], b) /\ Commits(job[q], b) => p = q
    /\ (\A p \in Procs : ~Commits(job[p], b)) => Settled(b)
    /\ \A p \in Procs : Commits(job[p], b) => CommitHolds(job[p])

BrainsInv == \A b \in BrainIds \ damaged : BrainHolds(b)

-----------------------------------------------------------------------------
\* A brain that a step does not touch

\* What a process that commits has left to write.
LEMMA CommitFacts ==
    ASSUME HoldsInv, NEW p \in Procs, NEW b, Commits(job[p], b)
    PROVE  /\ b \in dirs /\ job[p].brain = b /\ Total(job[p].kind) \in 1..3
           /\ Len(job[p].queue) \in 1..Total(job[p].kind)
           /\ Total(job[p].kind) - Len(job[p].queue) + 1 \in 1..3
           /\ job[p].queue[1][1] = Files(b)[Total(job[p].kind) - Len(job[p].queue) + 1]
<1>1. PICK logs : Holds(logs)
  BY DEF HoldsInv
<1>2. At(p, "write") /\ job[p].kind \in Committing /\ job[p].brain = b
  BY DEF Commits, At
<1>3. Total(job[p].kind) \in 1..3
  BY DEF Total
<1>4. /\ Len(job[p].queue) \in 1..Total(job[p].kind) /\ job[p].brain \in dirs
      /\ job[p].queue[1][1] = Files(job[p].brain)[Total(job[p].kind) - Len(job[p].queue) + 1]
  BY <1>1, <1>2, WriterFacts
<1>5. Total(job[p].kind) - Len(job[p].queue) + 1 \in 1..3
  BY <1>3, <1>4
<1> QED
  BY <1>2, <1>3, <1>4, <1>5

\* A commit stays what it is while others leave its brain alone.
LEMMA CommitStill ==
    ASSUME HoldsInv, NEW b \in BrainIds, NEW p \in Procs, Commits(job[p], b), CommitHolds(job[p]),
           job'[p] = job[p],
           \A n \in 1..3 : disk'[Files(b)[n]] = disk[Files(b)[n]],
           b \in DOMAIN expected' <=> b \in DOMAIN expected,
           b \in DOMAIN expected => expected'[b] = expected[b]
    PROVE  CommitHolds(job[p])'
<1>2. PICK j : j = job[p]
  OBVIOUS
<1>3. /\ Total(j.kind) \in 1..3 /\ Len(j.queue) \in 1..Total(j.kind) /\ j.brain = b
      /\ Total(j.kind) - Len(j.queue) + 1 \in 1..3
      /\ j.queue[1][1] = Files(b)[Total(j.kind) - Len(j.queue) + 1]
  BY <1>2, CommitFacts
<1>4. disk'[j.queue[1][1]] = disk[j.queue[1][1]]
  BY <1>3
<1>5. Settled(b)' <=> Settled(b)
  BY FilesFacts DEF Settled, Stable, Content
<1>6. \A n \in 1..3 : \A value : Comes(j, n, value) => Comes(j, n, value)'
  BY <1>3 DEF Comes
<1>7. PICK m, blob, key :
          /\ Comes(j, 1, m) /\ Comes(j, 2, blob) /\ Comes(j, 3, key)
          /\ Good(j.brain, m, blob, key) /\ Leaves(j, blob.log)
  BY <1>2 DEF CommitHolds
<1>8. Comes(j, 1, m)' /\ Comes(j, 2, blob)' /\ Comes(j, 3, key)'
  BY <1>6, <1>7
<1>9. Leaves(j, blob.log)'
  BY <1>2, <1>3, <1>7 DEF Leaves, CommitHolds
<1>10. CommitHolds(j)'
  BY <1>2, <1>3, <1>4, <1>5, <1>7, <1>8, <1>9 DEF CommitHolds
<1> QED
  BY <1>2, <1>10

\* A brain whose files, commits and promises a step leaves alone.
LEMMA FrameHolds ==
    ASSUME HoldsInv, NEW b \in BrainIds, BrainHolds(b),
           \A q \in Procs : Commits(job[q], b) \/ Commits(job'[q], b) => job'[q] = job[q],
           \A n \in 1..3 : disk'[Files(b)[n]] = disk[Files(b)[n]],
           b \in DOMAIN expected' <=> b \in DOMAIN expected,
           b \in DOMAIN expected => expected'[b] = expected[b]
    PROVE  BrainHolds(b)'
<1>1. \A q \in Procs : Commits(job[q], b)' <=> Commits(job[q], b)
  BY DEF Commits
<1>2. \A p, q \in Procs : Commits(job[p], b)' /\ Commits(job[q], b)' => p = q
  BY <1>1 DEF BrainHolds
<1>3. (\A q \in Procs : ~Commits(job[q], b)') => Settled(b)'
  <2>1. Settled(b)' <=> Settled(b)
    BY FilesFacts DEF Settled, Stable, Content
  <2> QED
    BY <1>1, <2>1 DEF BrainHolds
<1>4. ASSUME NEW q \in Procs, Commits(job[q], b)'
      PROVE  CommitHolds(job[q])'
  <2>1. Commits(job[q], b) /\ job'[q] = job[q]
    BY <1>1, <1>4
  <2>2. CommitHolds(job[q])
    BY <2>1 DEF BrainHolds
  <2> QED
    BY <2>1, <2>2, CommitStill
<1> QED
  BY <1>2, <1>3, <1>4 DEF BrainHolds

\* A step of a process that does not commit to b, before or after.
LEMMA OthersHold ==
    ASSUME HoldsInv, NEW b \in BrainIds, BrainHolds(b), NEW p \in Procs,
           \A q \in Procs \ {p} : job'[q] = job[q],
           ~Commits(job[p], b), ~Commits(job'[p], b),
           \A n \in 1..3 : disk'[Files(b)[n]] = disk[Files(b)[n]],
           b \in DOMAIN expected' <=> b \in DOMAIN expected,
           b \in DOMAIN expected => expected'[b] = expected[b]
    PROVE  BrainHolds(b)'
  BY FrameHolds

\* A step after which p is the one that commits to b.
LEMMA CommitterHolds ==
    ASSUME NEW b \in BrainIds, NEW p \in Procs, Commits(job'[p], b),
           \A q \in Procs \ {p} : ~Commits(job'[q], b),
           CommitHolds(job[p])'
    PROVE  BrainHolds(b)'
  BY DEF BrainHolds, Commits

-----------------------------------------------------------------------------
\* Steps that leave every brain alone

Quiet(p) ==
    /\ UNCHANGED <<disk, dirs, expected, damaged>>
    /\ \A q \in Procs \ {p} : job'[q] = job[q]
    /\ \A b \in BrainIds : ~Commits(job[p], b) /\ ~Commits(job'[p], b)

\* Quiet steps keep what every brain promises.
LEMMA QuietHolds ==
    ASSUME HoldsInv, BrainsInv, NEW p \in Procs, Quiet(p)
    PROVE  BrainsInv'
<1> SUFFICES ASSUME NEW b \in BrainIds \ damaged
             PROVE  BrainHolds(b)'
  BY DEF BrainsInv, Quiet
<1> QED
  BY OthersHold DEF BrainsInv, Quiet

\* An operation that fails before it writes.
LEMMA FailsQuietly ==
    ASSUME HoldsInv, NEW p \in Procs, ~At(p, "idle"), ~At(p, "write"), Fails(p)
    PROVE  Quiet(p)
<1>1. DOMAIN job = Procs
  BY DEF HoldsInv
<1>2. (\A q \in Procs \ {p} : job'[q] = job[q]) /\ job'[p] = Idle
  BY <1>1, EndsFacts DEF Fails
<1> QED
  BY <1>2 DEF Quiet, Fails, NothingWritten, Commits, At, Idle

\* An operation that goes on reading, or goes on to write a file of no brain.
LEMMA GoesQuietly ==
    ASSUME HoldsInv, NEW p \in Procs, ~At(p, "idle"), ~At(p, "write"), NothingWritten,
           NEW step, NEW fields, NEW name, DOMAIN fields = {name}, name \notin {"at", "kind"},
           Goes(p, step, fields), step # "write" \/ job[p].kind \notin Committing
    PROVE  Quiet(p)
<1>1. PICK logs : Holds(logs)
  BY DEF HoldsInv
<1>2. "kind" \in DOMAIN job[p]
  BY <1>1, BusyHolds DEF JobHolds
<1>3. /\ \A q \in Procs \ {p} : job'[q] = job[q]
      /\ job'[p].at = step /\ job'[p].kind = job[p].kind
  <2>1. name # "at" /\ "kind" \in DOMAIN job[p] \ {"at", name}
    BY <1>2
  <2>2. /\ \A q \in Procs \ {p} : job'[q] = job[q]
        /\ job'[p].at = step
        /\ \A f \in DOMAIN job[p] \ {"at", name} : job'[p][f] = job[p][f]
    BY <2>1, GoesWith, ZenonT(60)
  <2> QED
    BY <2>1, <2>2
<1>4. \A b : ~Commits(job[p], b) /\ ~Commits(job'[p], b)
  BY <1>3 DEF Commits, At
<1> QED
  BY <1>3, <1>4 DEF Quiet, NothingWritten

\* load_by_dir and export_brain read.
LEMMA ReadsQuietly ==
    ASSUME HoldsInv, NEW p \in Procs, ReadManifest(p) \/ ReadState(p) \/ ReadKey(p)
    PROVE  Quiet(p)
<1>1. PICK logs : Holds(logs)
  BY DEF HoldsInv
<1>2. ~At(p, "idle") /\ ~At(p, "write") /\ job[p].at \in Reading
  BY DEF ReadManifest, ReadState, ReadKey, At, Reading
<1>3. job[p].kind # "write"
  BY <1>1, <1>2, BusyHolds DEF JobHolds, KindAt
<1>4. CASE Fails(p)
  BY <1>2, <1>4, FailsQuietly
<1>5. CASE ~Fails(p)
  <2>1. \/ Goes(p, "state", [m |-> Content(ManifestFile(job[p].brain))]) /\ NothingWritten
        \/ Goes(p, "key", [blob |-> Content(StateFile(job[p].brain))]) /\ NothingWritten
        \/ Goes(p, job[p].kind, [key |-> Content(KeyFile(job[p].brain))]) /\ NothingWritten
    BY <1>5 DEF ReadManifest, ReadState, ReadKey
  <2>2. PICK step, fields, name :
           /\ Goes(p, step, fields) /\ NothingWritten /\ step # "write"
           /\ DOMAIN fields = {name} /\ name \notin {"at", "kind"}
    <3>1. \A x : DOMAIN [m |-> x] = {"m"} /\ DOMAIN [blob |-> x] = {"blob"} /\ DOMAIN [key |-> x] = {"key"}
      OBVIOUS
    <3>2. "m" \notin {"at", "kind"} /\ "blob" \notin {"at", "kind"} /\ "key" \notin {"at", "kind"}
          /\ "state" # "write" /\ "key" # "write"
      OBVIOUS
    <3> QED
      BY ONLY <1>3, <2>1, <3>1, <3>2, Zenon
  <2> QED
    BY <1>2, <2>2, GoesQuietly
<1> QED
  BY <1>4, <1>5

\* Operations on a file of no brain.
LEMMA WritesQuietly ==
    ASSUME HoldsInv, NEW p \in Procs, Export(p) \/ UseBrain(p) \/ \E k \in ApiKeys : MapKey(p, k)
    PROVE  Quiet(p)
<1>1. PICK logs : Holds(logs)
  BY DEF HoldsInv
<1>2. ~At(p, "idle") /\ ~At(p, "write") /\ job[p].at \in {"export", "config", "mappings"}
  BY DEF Export, UseBrain, MapKey, At
<1>3. job[p].kind \notin Committing
  BY <1>1, <1>2, BusyHolds DEF JobHolds, KindAt, Committing
<1>4. CASE Fails(p)
  BY <1>2, <1>4, FailsQuietly
<1>5. CASE ~Fails(p)
  <2>1. PICK queue : Writes(p, queue) /\ NothingWritten
    BY <1>5 DEF Export, UseBrain, MapKey
  <2>2. PICK fields : fields = [queue |-> queue]
    OBVIOUS
  <2>3. Goes(p, "write", fields) /\ DOMAIN fields = {"queue"}
    BY <2>1, <2>2 DEF Writes
  <2> QED
    BY <1>2, <1>3, <2>1, <2>3, GoesQuietly
<1> QED
  BY <1>4, <1>5

\* An operation that starts by looking around.
LEMMA StartsQuietly ==
    ASSUME HoldsInv, NEW p \in Procs, NEW b \in BrainIds,
           \/ \E kind \in Kinds : Resolve(p, kind, b)
           \/ \E rename \in BOOLEAN : OpenPackage(p, b, rename)
    PROVE  Quiet(p)
<1>1. PICK kind, step, queue : Starts(p, kind, b, step, queue) /\ step # "write"
  <2>1. CASE \E kind \in Kinds : Resolve(p, kind, b)
    BY <2>1 DEF Resolve
  <2>2. CASE \E rename \in BOOLEAN : OpenPackage(p, b, rename)
    <3>1. PICK rename \in BOOLEAN : OpenPackage(p, b, rename)
      BY <2>2
    <3>2. Starts(p, "import", b, "target",
                 BrainWrites(b, Adopted(Content(PackageFile).m, b, rename), Content(PackageFile).blob,
                             Content(PackageFile).key))
      BY <3>1 DEF OpenPackage
    <3> QED
      BY <3>2
  <2> QED
    BY <2>1, <2>2
<1>2. StartFacts(p, kind, b, step, queue)
  BY <1>1, StartJob
<1>3. UNCHANGED <<disk, dirs, expected, damaged>>
  BY DEF Resolve, OpenPackage
<1> QED
  BY <1>1, <1>2, <1>3 DEF Quiet, StartFacts, Commits, At

\* A process that lists the brains.
LEMMA ListsQuietly ==
    ASSUME HoldsInv, NEW p \in Procs, ReadDir(p) \/ \E b \in BrainIds : ListBrain(p, b)
    PROVE  Quiet(p)
<1>1. ~At(p, "idle") /\ ~At(p, "write")
  BY ListGoes
<1>2. CASE Fails(p)
  BY <1>1, <1>2, FailsQuietly
<1>3. CASE Lists(p)
  BY <1>1, <1>3 DEF Lists, Listing, Quiet, NothingWritten, Commits, At
<1> QED
  BY <1>2, <1>3, ListGoes

\* An operation without a brain to work on.
LEMMA NothingQuietly ==
    ASSUME NEW p \in Procs, NothingToDo(p)
    PROVE  Quiet(p)
  BY DEF Quiet, NothingToDo, Commits, At

\* The operations that do nothing to any brain in this step.
LEMMA MostAreQuiet ==
    ASSUME HoldsInv, NEW p \in Procs,
           \/ \E b \in BrainIds : \/ \E kind \in Kinds : Resolve(p, kind, b)
                                  \/ \E rename \in BOOLEAN : OpenPackage(p, b, rename)
                                  \/ ListBrain(p, b)
           \/ NothingToDo(p) \/ ReadDir(p) \/ ReadManifest(p) \/ ReadState(p) \/ ReadKey(p)
           \/ Audit(p) \/ Refuse(p) \/ Export(p) \/ UseBrain(p) \/ \E k \in ApiKeys : MapKey(p, k)
    PROVE  Quiet(p)
<1>1. CASE Audit(p) \/ Refuse(p)
  BY <1>1, FailsQuietly DEF Audit, Refuse, At
<1> QED
  BY <1>1, StartsQuietly, ListsQuietly, NothingQuietly, ReadsQuietly, WritesQuietly

-----------------------------------------------------------------------------
\* A commit begins

\* No process commits to a brain without a directory, and nothing was promised.
LEMMA NotMade ==
    ASSUME HoldsInv, NEW b \in BrainIds \ dirs
    PROVE  /\ \A q \in Procs : ~Commits(job[q], b)
           /\ b \notin DOMAIN expected /\ disk[ManifestFile(b)] = Absent
<1>1. \A q \in Procs : Commits(job[q], b) => b \in dirs
  BY CommitFacts
<1>2. disk[Files(b)[1]] = Absent
  BY DEF HoldsInv
<1> QED
  BY <1>1, <1>2, FilesFacts DEF HoldsInv

\* The three files of a new brain are about to be written.
LEMMA NewBrainHolds ==
    ASSUME HoldsInv, NEW p \in Procs, NEW b \in BrainIds \ dirs, UNCHANGED <<disk, expected>>,
           \A q \in Procs \ {p} : job'[q] = job[q],
           Commits(job'[p], b), job'[p].kind \in {"create", "import"}, job'[p].opened = FALSE,
           Len(job'[p].queue) = 3, NEW m, NEW blob, NEW key,
           job'[p].queue[1][2] = m, job'[p].queue[2][2] = blob, job'[p].queue[3][2] = key,
           Good(b, m, blob, key), job'[p].kind = "create" => blob.log = {job'[p].op}
    PROVE  BrainHolds(b)'
<1>1. PICK j : j = job'[p]
  OBVIOUS
<1>2. j.kind \in Committing /\ j.kind # "mutate" /\ j.brain = b /\ Total(j.kind) = 3
  BY <1>1 DEF Commits, Committing, Total
<1>3. Settled(b)'
  BY NotMade DEF Settled
<1>4. Comes(j, 1, m)' /\ Comes(j, 2, blob)' /\ Comes(j, 3, key)'
  <2>1. Total(j.kind) - Len(j.queue) = 0
    BY <1>1, <1>2
  <2>2. \A n \in 1..3 : \A value : j.queue[n][2] = value => Comes(j, n, value)'
    <3>1. \A n \in 1..3 : n \in (0 + 1)..3 /\ n - 0 = n
      OBVIOUS
    <3> QED
      BY <1>2, <2>1, <3>1 DEF Comes
  <2> QED
    BY <1>1, <2>2
<1>5. CommitHolds(j)'
  BY <1>1, <1>2, <1>3, <1>4, NotMade DEF CommitHolds, Leaves
<1>6. CommitHolds(job[p])'
  BY <1>1, <1>5
<1> QED
  BY <1>6, NotMade, CommitterHolds

\* A brain is created: nothing is promised until it is written.
LEMMA CreateKeeps ==
    ASSUME HoldsInv, BrainsInv, NEW p \in Procs, NEW b \in BrainIds, Create(p, b)
    PROVE  BrainsInv'
<1>1. PICK op : op = ops + 1 /\ op \in Nat
  BY DEF HoldsInv
<1>2. PICK m : m = Sign(b, op, op, op)
  OBVIOUS
<1>3. PICK blob : blob = Blob(op, b, {op})
  OBVIOUS
<1>4. PICK key : key = KeyBlob(op, b)
  OBVIOUS
<1>5. StartFacts(p, "create", b, "write", BrainWrites(b, m, blob, key))
  BY <1>1, <1>2, <1>3, <1>4, StartJob DEF Create
<1>6. b \notin dirs /\ UNCHANGED <<disk, expected, damaged>>
  BY DEF Create
<1>7. Good(b, m, blob, key) /\ blob.log = {op}
  BY <1>1, <1>2, <1>3, <1>4, SignFacts DEF Good, Blob, KeyBlob
<1>8. PICK queue : queue = BrainWrites(b, m, blob, key)
  OBVIOUS
<1>9. Len(queue) = 3 /\ queue[1][2] = m /\ queue[2][2] = blob /\ queue[3][2] = key
  BY <1>8 DEF BrainWrites
<1>10. /\ job'[p].queue = queue /\ job'[p].at = "write" /\ job'[p].kind = "create"
       /\ job'[p].brain = b /\ job'[p].opened = FALSE /\ job'[p].op = op
       /\ \A q \in Procs \ {p} : job'[q] = job[q]
  BY <1>1, <1>5, <1>8 DEF StartFacts
<1>11. BrainHolds(b)'
  BY <1>6, <1>7, <1>9, <1>10, NewBrainHolds DEF Commits, Committing
<1>12. ASSUME NEW c \in BrainIds \ damaged, c # b
       PROVE  BrainHolds(c)'
  BY <1>5, <1>6, <1>10, <1>12, OthersHold DEF BrainsInv, Commits, StartFacts, At
<1> QED
  BY <1>6, <1>11, <1>12 DEF BrainsInv

\* An import damages its target, unless it makes it and its manifest verifies.
LEMMA MakeTargetKeeps ==
    ASSUME HoldsInv, BrainsInv, NEW p \in Procs, MakeTarget(p)
    PROVE  BrainsInv'
<1>1. PICK logs : Holds(logs)
  BY DEF HoldsInv
<1>2. ~At(p, "idle") /\ At(p, "target")
  BY DEF MakeTarget, At
<1>3. JobHolds(logs, dirs, ops, job[p])
  BY <1>1, <1>2, BusyHolds
<1>4. PICK b : b = job[p].brain /\ b \in BrainIds
  BY <1>3 DEF JobHolds
<1>5. /\ \A q \in Procs \ {p} : job'[q] = job[q]
      /\ job'[p].at = "write" /\ job'[p].opened = FALSE /\ job'[p].kind = "import"
      /\ job'[p].brain = b /\ job'[p].queue = job[p].queue
  BY <1>4, TargetJob DEF TargetFacts
<1>6. /\ UNCHANGED <<disk, expected>>
      /\ damaged' = IF b \in dirs \/ ~Verified(job[p].queue[1][2]) THEN damaged \cup {b} ELSE damaged
  BY <1>4 DEF MakeTarget
<1>7. ASSUME b \notin damaged'
      PROVE  BrainHolds(b)'
  <2>1. b \notin dirs /\ Verified(job[p].queue[1][2])
    BY <1>6, <1>7
  <2>2. PICK m, blob, key : m = job[p].queue[1][2] /\ blob = job[p].queue[2][2] /\ key = job[p].queue[3][2]
    OBVIOUS
  <2>3. Good(b, m, blob, key) /\ Len(job[p].queue) = 3
    BY <1>2, <1>3, <1>4, <2>1, <2>2 DEF JobHolds, At
  <2> QED
    BY <1>4, <1>5, <1>6, <2>1, <2>2, <2>3, NewBrainHolds DEF Commits, Committing
<1>8. ASSUME NEW c \in BrainIds \ damaged, c # b
      PROVE  BrainHolds(c)'
  BY <1>2, <1>5, <1>6, <1>8, OthersHold DEF BrainsInv, Commits, At
<1> QED
  BY <1>6, <1>7, <1>8 DEF BrainsInv

\* A mutation that is not raced commits the log it has loaded with its own number.
LEMMA MutateKeeps ==
    ASSUME HoldsInv, BrainsInv, NEW p \in Procs, Mutate(p)
    PROVE  BrainsInv'
<1>1. PICK logs : Holds(logs)
  BY DEF HoldsInv
<1>2. ~At(p, "idle") /\ At(p, "mutate")
  BY DEF Mutate, At
<1>3. JobHolds(logs, dirs, ops, job[p])
  BY <1>1, <1>2, BusyHolds
<1>4. PICK b, op, l, x : b = job[p].brain /\ op = job[p].op /\ l = job[p].m /\ x = job[p].blob
  OBVIOUS
<1>5. /\ b \in BrainIds /\ op \in Nat /\ l \in Manifests /\ l.id = b /\ x \in Blobs(logs)
      /\ l.state = x.by /\ x.aad = b
  BY <1>2, <1>3, <1>4
     DEF JobHolds, KindAt, At, HasManifest, HasBlob, Loaders, ChecksumMatches, Decrypts
<1>6. PICK m : m = Resigned(l, op)
  OBVIOUS
<1>7. PICK blob : blob = Blob(op, b, x.log \cup {op})
  OBVIOUS
<1>8. PICK queue : queue = <<<<ManifestFile(b), m>>, <<StateFile(b), blob>>>>
  OBVIOUS
<1>9. Len(queue) = 2 /\ queue[1][2] = m /\ queue[2][2] = blob
  BY <1>8
<1>10. PICK j : j = job'[p]
  OBVIOUS
<1>11. /\ \A q \in Procs \ {p} : job'[q] = job[q]
       /\ j.at = "write" /\ j.queue = queue /\ j.kind = "mutate" /\ j.op = op /\ j.brain = b
       /\ j.opened = FALSE
  <2>1. j.queue = queue
    BY <1>4, <1>6, <1>7, <1>8, <1>10, MutateJob DEF MutateFacts, Recorded
  <2>2. job[p].opened \in BOOLEAN
    BY <1>3 DEF JobHolds
  <2> QED
    BY <1>4, <1>10, <2>1, <2>2, MutateJob DEF MutateFacts
<1>12. UNCHANGED <<disk, expected>> /\ damaged' = IF Raced(p, b) THEN damaged \cup {b} ELSE damaged
  BY <1>4 DEF Mutate
<1>13. ASSUME b \notin damaged'
       PROVE  BrainHolds(b)'
  <2>1. /\ b \notin damaged /\ disk[ManifestFile(b)] = Whole(l)
        /\ \A q \in Procs \ {p} : ~Commits(job[q], b)
    BY <1>4, <1>12, <1>13 DEF Raced, Commits, At
  <2>2. \A q \in Procs : ~Commits(job[q], b)
    BY <1>2, <2>1 DEF Commits, At
  <2>3. b \in DOMAIN expected /\ Stable(b)
    <3>1. Settled(b)
      BY <1>5, <2>1, <2>2 DEF BrainsInv, BrainHolds
    <3>2. disk[ManifestFile(b)] # Absent
      BY <2>1 DEF Whole, Absent
    <3> QED
      BY <3>1, <3>2 DEF Settled
  <2>4. PICK old, key : old = Content(StateFile(b)) /\ key = Content(KeyFile(b))
    OBVIOUS
  <2>5. Good(b, l, old, key) /\ old.log = expected[b]
    BY <2>1, <2>3, <2>4 DEF Stable, Content, Whole
  <2>6. old \in Blobs(logs) /\ disk[KeyFile(b)] = Whole(key)
    <3>1. StateFile(b) \in Paths /\ KeyFile(b) \in Paths /\ StateFile(b)[2] = "state.enc"
      BY <1>5 DEF Paths, StateFile, KeyFile
    <3>2. CanRead(StateFile(b)) /\ CanRead(KeyFile(b))
      BY <2>3, FilesFacts DEF Stable, CanRead
    <3>3. old \in Blobs(logs)
      BY <1>1, <2>4, <3>1, <3>2, ContentFits DEF Fits
    <3>4. FileHolds(logs, dirs, KeyFile(b), disk[KeyFile(b)])
      BY <1>1, <3>1 DEF Holds
    <3>5. disk[KeyFile(b)] = Whole(disk[KeyFile(b)].v)
      BY <3>2, <3>4 DEF FileHolds, CanRead, Absent, Empty, Garbled
    <3> QED
      BY <2>4, <3>3, <3>5 DEF Content
  <2>7. x.log = expected[b]
    BY <1>5, <2>5, <2>6 DEF Good, Blobs
  <2>8. Good(b, m, blob, key) /\ blob.log = expected[b] \cup {op}
    <3>1. l.pub \in Nat
      BY <1>5 DEF Manifests
    <3>2. Verified(m) /\ m.id = b /\ m.state = op
      BY <1>5, <1>6, <3>1, SignFacts DEF Resigned
    <3>3. blob.by = op /\ blob.aad = b /\ blob.log = x.log \cup {op}
      BY <1>7 DEF Blob
    <3> QED
      BY <2>5, <2>7, <3>2, <3>3 DEF Good
  <2>9. Comes(j, 1, m)' /\ Comes(j, 2, blob)' /\ Comes(j, 3, key)'
    <3>1. Total(j.kind) = 2 /\ Len(j.queue) = 2 /\ Total(j.kind) - Len(j.queue) = 0
      BY <1>9, <1>11 DEF Total
    <3>2. 3 \notin 1..2 /\ 1 \in 1..2 /\ 2 \in 1..2
      OBVIOUS
    <3> QED
      BY <1>9, <1>11, <1>12, <2>6, <3>1, <3>2, FilesFacts DEF Comes
  <2>10. Settled(b)'
    <3>1. Settled(b)' <=> Settled(b)
      BY <1>12 DEF Settled, Stable, Content
    <3> QED
      BY <2>3, <3>1 DEF Settled
  <2>11. CommitHolds(j)'
    BY <1>11, <1>12, <2>3, <2>8, <2>9, <2>10 DEF CommitHolds, Leaves
  <2>12. CommitHolds(job[p])'
    BY <1>10, <2>11
  <2>13. Commits(job'[p], b) /\ \A q \in Procs \ {p} : ~Commits(job'[q], b)
    BY <1>10, <1>11, <2>2 DEF Commits, Committing
  <2> QED
    BY <1>5, <2>12, <2>13, CommitterHolds
<1>14. ASSUME NEW c \in BrainIds \ damaged, c # b
       PROVE  BrainHolds(c)'
  BY <1>2, <1>10, <1>11, <1>12, <1>14, OthersHold DEF BrainsInv, Commits, At
<1> QED
  BY <1>12, <1>13, <1>14 DEF BrainsInv

-----------------------------------------------------------------------------
\* A commit goes on

\* The files of a brain are written by those that commit to it.
LEMMA NotWritten ==
    ASSUME HoldsInv, NEW p \in Procs, At(p, "write"), NEW b \in BrainIds, ~Commits(job[p], b),
           NEW content, disk' = [disk EXCEPT ![job[p].queue[1][1]] = content]
    PROVE  \A n \in 1..3 : disk'[Files(b)[n]] = disk[Files(b)[n]]
<1>1. PICK logs : Holds(logs)
  BY DEF HoldsInv
<1>2. \A n \in 1..3 : Files(b)[n] = job[p].queue[1][1] => b = job[p].brain /\ job[p].kind \in Committing
  BY <1>1, WriterFacts
<1>3. \A n \in 1..3 : Files(b)[n] # job[p].queue[1][1]
  BY <1>2 DEF Commits, At
<1> QED
  BY <1>3

\* A commit is at one file of its brain.
LEMMA AtFile ==
    ASSUME HoldsInv, NEW p \in Procs, NEW b \in BrainIds, Commits(job[p], b)
    PROVE  \E at \in 1..3 :
              /\ at = Total(job[p].kind) - Len(job[p].queue) + 1
              /\ job[p].queue[1][1] = Files(b)[at] /\ Files(b)[at] \in DOMAIN disk
              /\ \A n \in 1..3 \ {at} : Files(b)[n] # Files(b)[at]
<1>1. PICK logs : Holds(logs)
  BY DEF HoldsInv
<1>2. PICK at \in 1..3 : /\ at = Total(job[p].kind) - Len(job[p].queue) + 1
                         /\ job[p].queue[1][1] = Files(b)[at]
  BY CommitFacts
<1>3. Files(b)[at] \in DOMAIN disk
  BY <1>1, <1>2, WriterFacts DEF Commits, At, HoldsInv
<1>4. \A n \in 1..3 \ {at} : Files(b)[n] # Files(b)[at]
  BY FilesFacts
<1> QED
  BY <1>2, <1>3, <1>4

\* A file is opened: the commit under way has begun.
LEMMA TruncateKeeps ==
    ASSUME HoldsInv, BrainsInv, NEW p \in Procs, Truncate(p)
    PROVE  BrainsInv'
<1>1. At(p, "write") /\ disk' = [disk EXCEPT ![job[p].queue[1][1]] = Empty] /\ UNCHANGED <<expected, damaged>>
  BY DEF Truncate
<1>2. PICK j, k : j = job[p] /\ k = job'[p]
  OBVIOUS
<1>3. /\ \A q \in Procs \ {p} : job'[q] = job[q]
      /\ k.at = "write" /\ k.opened = TRUE
      /\ k.kind = j.kind /\ k.op = j.op /\ k.brain = j.brain /\ k.queue = j.queue
  BY <1>2, TruncateJob DEF TruncateFacts
<1>4. \A c : Commits(k, c) <=> Commits(j, c)
  BY <1>1, <1>2, <1>3 DEF Commits, At
<1>5. ASSUME NEW b \in BrainIds \ damaged, Commits(j, b)
      PROVE  BrainHolds(b)'
  <2>1. CommitHolds(j) /\ \A q \in Procs \ {p} : ~Commits(job[q], b)
    BY <1>2, <1>5 DEF BrainsInv, BrainHolds
  <2>2. PICK at \in 1..3 :
           /\ at = Total(job[p].kind) - Len(job[p].queue) + 1
           /\ job[p].queue[1][1] = Files(b)[at] /\ disk'[Files(b)[at]] = Empty
           /\ \A n \in 1..3 \ {at} : disk'[Files(b)[n]] = disk[Files(b)[n]]
    <3>1. Commits(job[p], b)
      BY <1>2, <1>5
    <3> QED
      BY <1>1, <3>1, AtFile
  <2>3. /\ at = Total(j.kind) - Len(j.queue) + 1
        /\ j.queue[1][1] = Files(b)[at] /\ disk'[Files(b)[at]] = Empty
        /\ \A n \in 1..3 \ {at} : disk'[Files(b)[n]] = disk[Files(b)[n]]
    BY <1>2, <2>2
  <2>4. PICK m, blob, key :
          /\ Comes(j, 1, m) /\ Comes(j, 2, blob) /\ Comes(j, 3, key)
          /\ Good(j.brain, m, blob, key) /\ Leaves(j, blob.log)
    BY <2>1 DEF CommitHolds
  <2>5. j.brain = b /\ Len(j.queue) \in 1..Total(j.kind) /\ Total(j.kind) \in 1..3
    BY <1>2, <1>5, CommitFacts
  <2>6. at \in (Total(j.kind) - Len(j.queue) + 1)..Total(j.kind)
    BY <2>3, <2>5
  <2>7. ASSUME NEW n \in 1..3, NEW value, Comes(j, n, value)
        PROVE  Comes(k, n, value)'
    <3>1. CASE n \in (Total(j.kind) - Len(j.queue) + 1)..Total(j.kind)
      BY <1>3, <2>7, <3>1 DEF Comes
    <3>2. CASE n \notin (Total(j.kind) - Len(j.queue) + 1)..Total(j.kind)
      <4>1. n # at
        BY <2>6, <3>2
      <4>2. disk'[Files(b)[n]] = disk[Files(b)[n]]
        BY <2>3, <4>1
      <4>3. disk[Files(b)[n]] = Whole(value)
        BY <2>5, <2>7, <3>2 DEF Comes
      <4> QED
        BY <1>3, <2>5, <3>2, <4>2, <4>3 DEF Comes
    <3> QED
      BY <3>1, <3>2
  <2>8. Comes(k, 1, m)' /\ Comes(k, 2, blob)' /\ Comes(k, 3, key)'
    BY <2>4, <2>7
  <2>9. CommitHolds(k)'
    BY <1>1, <1>3, <2>1, <2>3, <2>4, <2>8 DEF CommitHolds, Leaves
  <2>10. CommitHolds(job[p])'
    BY <1>2, <2>9
  <2> QED
    BY <1>2, <1>3, <1>4, <1>5, <2>1, <2>10, CommitterHolds
<1>6. ASSUME NEW b \in BrainIds \ damaged, ~Commits(j, b)
      PROVE  BrainHolds(b)'
  <2>1. \A n \in 1..3 : disk'[Files(b)[n]] = disk[Files(b)[n]]
    BY <1>1, <1>2, <1>6, NotWritten
  <2> QED
    BY <1>1, <1>2, <1>3, <1>4, <1>6, <2>1, OthersHold DEF BrainsInv
<1> QED
  BY <1>1, <1>5, <1>6 DEF BrainsInv

\* The last write of a commit leaves its brain stable, with what it acknowledges.
LEMMA LastWriteKeeps ==
    ASSUME HoldsInv, BrainsInv, NEW p \in Procs, Write(p), Len(job[p].queue) = 1,
           NEW b \in BrainIds \ damaged, Commits(job[p], b)
    PROVE  BrainHolds(b)'
<1>1. PICK logs : Holds(logs)
  BY DEF HoldsInv
<1>2. PICK j : j = job[p]
  OBVIOUS
<1>3. /\ \A q \in Procs \ {p} : job'[q] = job[q]
      /\ j.opened /\ job'[p] = Idle /\ expected' = Acknowledged(p)
  BY <1>2, WriteJob DEF WriteFacts
<1>4. CommitHolds(j) /\ \A q \in Procs \ {p} : ~Commits(job[q], b)
  BY <1>2 DEF BrainsInv, BrainHolds
<1>6. j.brain = b /\ Len(j.queue) = 1 /\ Total(j.kind) \in {2, 3}
  BY <1>2 DEF Commits, Total
<1>7. PICK value : value = j.queue[1][2]
  OBVIOUS
<1>8. disk' = [disk EXCEPT ![job[p].queue[1][1]] = Whole(value)]
  <2>1. PICK content \in Written(j.queue[1][1], value) :
            disk' = [disk EXCEPT ![job[p].queue[1][1]] = content]
    BY <1>2, <1>7, WriteJob DEF WriteFacts
  <2>2. disk[j.queue[1][1]] = Empty
    BY <1>3, <1>4 DEF CommitHolds
  <2> QED
    BY <2>1, <2>2 DEF Written
<1>9. PICK at \in 1..3 :
         /\ at = Total(job[p].kind) - Len(job[p].queue) + 1
         /\ job[p].queue[1][1] = Files(b)[at] /\ disk'[Files(b)[at]] = Whole(value)
         /\ \A n \in 1..3 \ {at} : disk'[Files(b)[n]] = disk[Files(b)[n]]
  <2>1. PICK at \in 1..3 :
           /\ at = Total(job[p].kind) - Len(job[p].queue) + 1
           /\ job[p].queue[1][1] = Files(b)[at] /\ Files(b)[at] \in DOMAIN disk
           /\ \A n \in 1..3 \ {at} : Files(b)[n] # Files(b)[at]
    BY AtFile
  <2>2. disk'[Files(b)[at]] = Whole(value) /\ \A n \in 1..3 \ {at} : disk'[Files(b)[n]] = disk[Files(b)[n]]
    BY <1>8, <2>1
  <2> QED
    BY <2>1, <2>2
<1>a. at = Total(j.kind)
  BY <1>2, <1>6, <1>9
<1>10. PICK m, blob, key :
          /\ Comes(j, 1, m) /\ Comes(j, 2, blob) /\ Comes(j, 3, key)
          /\ Good(j.brain, m, blob, key) /\ Leaves(j, blob.log)
  BY <1>4 DEF CommitHolds
<1>11. ASSUME NEW n \in 1..3, NEW x, Comes(j, n, x)
       PROVE  disk'[Files(b)[n]] = Whole(x) /\ (n # at => disk[Files(b)[n]] = Whole(x))
  <2>1. CASE n = at
    <3>1. n \in (Total(j.kind) - Len(j.queue) + 1)..Total(j.kind) /\ n - (Total(j.kind) - Len(j.queue)) = 1
      BY <1>6, <1>a, <2>1
    <3> QED
      BY <1>7, <1>9, <1>11, <2>1, <3>1 DEF Comes
  <2>2. CASE n # at
    <3>1. n \notin (Total(j.kind) - Len(j.queue) + 1)..Total(j.kind)
      BY <1>6, <1>a, <2>2
    <3> QED
      BY <1>6, <1>9, <1>11, <2>2, <3>1 DEF Comes
  <2> QED
    BY <2>1, <2>2
<1>12. disk'[Files(b)[1]] = Whole(m) /\ disk'[Files(b)[2]] = Whole(blob) /\ disk'[Files(b)[3]] = Whole(key)
  BY <1>10, <1>11
<1>13. b \in DOMAIN expected' /\ expected'[b] = blob.log
  <2>1. j.kind \in Committing /\ j.brain = b
    BY <1>2, <1>6 DEF Commits
  <2>2. expected' = With(expected, b, IF j.kind = "create" THEN {j.op}
                           ELSE IF j.kind = "import" THEN Content(StateFile(b)).log
                           ELSE expected[b] \cup {j.op})
    BY <1>2, <1>3, <2>1 DEF Acknowledged
  <2>3. /\ b \in DOMAIN expected'
        /\ expected'[b] = IF j.kind = "create" THEN {j.op}
                          ELSE IF j.kind = "import" THEN Content(StateFile(b)).log
                          ELSE expected[b] \cup {j.op}
    BY <2>2 DEF With
  <2>4. j.kind = "import" => Content(StateFile(b)).log = blob.log
    <3>1. ASSUME j.kind = "import"
          PROVE  disk[Files(b)[2]] = Whole(blob)
      <4>1. at = 3
        BY <1>6, <1>a, <3>1 DEF Total, Committing
      <4> QED
        BY <1>10, <1>11, <4>1
    <3> QED
      BY <3>1, FilesFacts DEF Content, Whole
  <2> QED
    BY <1>6, <1>10, <2>1, <2>3, <2>4 DEF Leaves, Committing
<1>14. Settled(b)'
  <2>1. \A n \in 1..3 : disk'[Files(b)[n]].is = "whole"
    <3>1. \A n \in 1..3 : n = 1 \/ n = 2 \/ n = 3
      OBVIOUS
    <3> QED
      BY <1>12, <3>1 DEF Whole
  <2>2. /\ disk'[ManifestFile(b)].v = m /\ disk'[StateFile(b)].v = blob
        /\ disk'[KeyFile(b)].v = key
    BY <1>12, FilesFacts DEF Whole
  <2> QED
    BY <1>6, <1>10, <1>13, <2>1, <2>2 DEF Settled, Stable, Content
<1>15. \A q \in Procs : ~Commits(job[q], b)'
  BY <1>3, <1>4 DEF Commits, Idle
<1> QED
  BY <1>14, <1>15 DEF BrainHolds

\* A write of a commit that is not its last.
LEMMA MidWriteKeeps ==
    ASSUME HoldsInv, BrainsInv, NEW p \in Procs, Write(p), Len(job[p].queue) # 1,
           NEW b \in BrainIds \ damaged, Commits(job[p], b)
    PROVE  BrainHolds(b)'
<1>1. PICK logs : Holds(logs)
  BY DEF HoldsInv
<1>2. PICK j, k : j = job[p] /\ k = job'[p]
  OBVIOUS
<1>3. /\ \A q \in Procs \ {p} : job'[q] = job[q]
      /\ j.opened /\ UNCHANGED expected
      /\ k.at = "write" /\ k.opened = FALSE /\ k.queue = Tail(j.queue)
      /\ k.kind = j.kind /\ k.op = j.op /\ k.brain = j.brain
  BY <1>2, WriteJob DEF WriteFacts
<1>4. CommitHolds(j) /\ \A q \in Procs \ {p} : ~Commits(job[q], b)
  BY <1>2 DEF BrainsInv, BrainHolds
<1>6. /\ j.brain = b /\ Len(j.queue) # 1
      /\ Total(j.kind) \in 1..3 /\ Len(j.queue) \in 1..Total(j.kind)
  BY <1>2, CommitFacts
<1>7. Len(k.queue) = Len(j.queue) - 1 /\ \A i \in 1..Len(k.queue) : k.queue[i] = j.queue[i + 1]
  <2>1. QueueHolds(logs, dirs, j)
    BY <1>1, <1>2, BusyHolds DEF JobHolds, Commits, At
  <2> QED
    BY <1>3, <1>6, <2>1, TailHolds
<1>8. PICK value : value = j.queue[1][2]
  OBVIOUS
<1>9. disk' = [disk EXCEPT ![job[p].queue[1][1]] = Whole(value)]
  <2>1. PICK content \in Written(j.queue[1][1], value) :
            disk' = [disk EXCEPT ![job[p].queue[1][1]] = content]
    BY <1>2, <1>8, WriteJob DEF WriteFacts
  <2>2. disk[j.queue[1][1]] = Empty
    BY <1>3, <1>4 DEF CommitHolds
  <2> QED
    BY <2>1, <2>2 DEF Written
<1>10. PICK at \in 1..3 :
          /\ at = Total(job[p].kind) - Len(job[p].queue) + 1
          /\ job[p].queue[1][1] = Files(b)[at] /\ disk'[Files(b)[at]] = Whole(value)
          /\ \A n \in 1..3 \ {at} : disk'[Files(b)[n]] = disk[Files(b)[n]]
  BY <1>9, AtFile
<1>11. PICK m, blob, key :
          /\ Comes(j, 1, m) /\ Comes(j, 2, blob) /\ Comes(j, 3, key)
          /\ Good(j.brain, m, blob, key) /\ Leaves(j, blob.log)
  BY <1>4 DEF CommitHolds
<1>12. PICK total, left : total = Total(j.kind) /\ left = Len(j.queue)
  OBVIOUS
<1>13. total \in 1..3 /\ left \in 2..total /\ at = total - left + 1 /\ Len(k.queue) = left - 1
  <2>1. total \in 1..3 /\ left \in 1..total /\ left # 1 /\ Len(k.queue) = left - 1
    BY <1>6, <1>7, <1>12
  <2>2. at = total - left + 1
    BY <1>2, <1>10, <1>12
  <2> QED
    BY <2>1, <2>2
<1>14. ASSUME NEW n \in 1..3, NEW x, Comes(j, n, x)
       PROVE  Comes(k, n, x)'
  <2>1. IF n \in (total - left + 1)..total THEN j.queue[n - (total - left)][2] = x
        ELSE disk[Files(b)[n]] = Whole(x)
    BY <1>6, <1>12, <1>14 DEF Comes
  <2>2. IF n \in (total - (left - 1) + 1)..total THEN k.queue[n - (total - (left - 1))][2] = x
        ELSE disk'[Files(b)[n]] = Whole(x)
    <3>1. CASE n = at
      <4>1. n \in (total - left + 1)..total /\ n - (total - left) = 1 /\ n \notin (total - (left - 1) + 1)..total
        BY <1>13, <3>1
      <4> QED
        BY <1>8, <1>10, <2>1, <3>1, <4>1
    <3>2. CASE n \in (total - (left - 1) + 1)..total
      <4>1. /\ n \in (total - left + 1)..total /\ n - (total - (left - 1)) \in 1..(left - 1)
            /\ n - (total - (left - 1)) + 1 = n - (total - left)
        BY <1>13, <3>2
      <4>2. k.queue[n - (total - (left - 1))] = j.queue[n - (total - left)]
        BY <1>7, <1>13, <4>1
      <4> QED
        BY <2>1, <3>2, <4>1, <4>2
    <3>3. CASE n # at /\ n \notin (total - (left - 1) + 1)..total
      <4>1. n \notin (total - left + 1)..total
        BY <1>13, <3>3
      <4> QED
        BY <1>10, <2>1, <3>3, <4>1
    <3> QED
      BY <3>1, <3>2, <3>3
  <2> QED
    BY <1>3, <1>6, <1>12, <1>13, <2>2 DEF Comes
<1>15. Comes(k, 1, m)' /\ Comes(k, 2, blob)' /\ Comes(k, 3, key)'
  BY <1>11, <1>14
<1>16. CommitHolds(k)'
  <2>1. Len(k.queue) < Total(k.kind)
    BY <1>3, <1>12, <1>13
  <2>2. Leaves(k, blob.log)'
    BY <1>3, <1>11 DEF Leaves
  <2> QED
    BY <1>3, <1>4, <1>11, <1>15, <2>1, <2>2 DEF CommitHolds
<1>17. CommitHolds(job[p])'
  BY <1>2, <1>16
<1>18. Commits(job'[p], b) /\ \A q \in Procs \ {p} : ~Commits(job'[q], b)
  BY <1>2, <1>3, <1>4, <1>6 DEF Commits
<1> QED
  BY <1>17, <1>18, CommitterHolds

\* A file is written, the last of its commit or not.
LEMMA WriteKeeps ==
    ASSUME HoldsInv, BrainsInv, NEW p \in Procs, Write(p)
    PROVE  BrainsInv'
<1>1. At(p, "write") /\ UNCHANGED damaged
  BY DEF Write
<1>2. PICK content : disk' = [disk EXCEPT ![job[p].queue[1][1]] = content]
  BY DEF Write
<1>3. ASSUME NEW b \in BrainIds \ damaged, Commits(job[p], b)
      PROVE  BrainHolds(b)'
  BY <1>3, LastWriteKeeps, MidWriteKeeps
<1>4. ASSUME NEW b \in BrainIds \ damaged, ~Commits(job[p], b)
      PROVE  BrainHolds(b)'
  <2>1. \A n \in 1..3 : disk'[Files(b)[n]] = disk[Files(b)[n]]
    BY <1>1, <1>2, <1>4, NotWritten
  <2>2. (\A q \in Procs \ {p} : job'[q] = job[q]) /\ ~Commits(job'[p], b)
    <3>1. /\ \A q \in Procs \ {p} : job'[q] = job[q]
          /\ \/ job'[p] = Idle
             \/ job'[p].kind = job[p].kind /\ job'[p].brain = job[p].brain
      BY WriteJob DEF WriteFacts
    <3> QED
      BY <1>1, <1>4, <3>1 DEF Commits, Idle, At
  <2>3. /\ b \in DOMAIN expected' <=> b \in DOMAIN expected
        /\ b \in DOMAIN expected => expected'[b] = expected[b]
    <3>1. CASE expected' = expected
      BY <3>1
    <3>2. CASE expected' = Acknowledged(p) /\ expected' # expected
      <4>1. job[p].kind \in Committing /\ job[p].brain # b
        BY <1>1, <1>4, <3>2 DEF Acknowledged, Commits, At
      <4>2. PICK log : expected' = With(expected, job[p].brain, log)
        BY <3>2 DEF Acknowledged
      <4> QED
        BY <4>1, <4>2 DEF With
    <3> QED
      BY <3>1, <3>2, WriteJob DEF WriteFacts
  <2> QED
    BY <1>4, <2>1, <2>2, <2>3, OthersHold DEF BrainsInv
<1> QED
  BY <1>1, <1>3, <1>4 DEF BrainsInv

\* A process that dies in a commit that has begun damages its brain.
LEMMA CrashKeeps ==
    ASSUME HoldsInv, BrainsInv, NEW p \in Procs, Crash(p)
    PROVE  BrainsInv'
<1>1. /\ UNCHANGED <<disk, expected>>
      /\ damaged' = IF At(p, "write") /\ job[p].kind \in Committing /\ Begun(p)
                    THEN damaged \cup {job[p].brain} ELSE damaged
  BY DEF Crash
<1>2. (\A q \in Procs \ {p} : job'[q] = job[q]) /\ job'[p] = Idle
  BY EndsFacts DEF Crash, HoldsInv
<1>3. ASSUME NEW b \in BrainIds \ damaged', ~Commits(job[p], b)
      PROVE  BrainHolds(b)'
  BY <1>1, <1>2, <1>3, OthersHold DEF BrainsInv, Commits, Idle
<1>4. ASSUME NEW b \in BrainIds \ damaged', Commits(job[p], b)
      PROVE  BrainHolds(b)'
  <2>1. ~Begun(p) /\ b \notin damaged
    BY <1>1, <1>4 DEF Commits, At
  <2>2. CommitHolds(job[p]) /\ \A q \in Procs \ {p} : ~Commits(job[q], b)
    BY <1>4, <2>1 DEF BrainsInv, BrainHolds
  <2>3. ~(job[p].opened \/ Len(job[p].queue) < Total(job[p].kind))
    BY <1>4, <2>1 DEF Begun, Total, Commits
  <2>4. Settled(b)
    BY <1>4, <2>2, <2>3 DEF CommitHolds, Commits
  <2>5. Settled(b)'
    BY <1>1, <2>4 DEF Settled, Stable, Content
  <2>6. \A q \in Procs : ~Commits(job[q], b)'
    BY <1>2, <2>2 DEF Commits, Idle
  <2> QED
    BY <2>5, <2>6 DEF BrainHolds
<1> QED
  BY <1>1, <1>3, <1>4 DEF BrainsInv

-----------------------------------------------------------------------------
\* The invariant, and what it means for a load

\* Every step keeps what undamaged brains promise.
LEMMA NextKeeps == HoldsInv /\ BrainsInv /\ [Next]_vars => BrainsInv'
<1> SUFFICES ASSUME HoldsInv, BrainsInv, [Next]_vars
             PROVE  BrainsInv'
  OBVIOUS
<1>1. CASE UNCHANGED vars
  BY <1>1, FrameHolds DEF vars, BrainsInv
<1> QED
  BY <1>1, MostAreQuiet, QuietHolds, CreateKeeps, MutateKeeps, MakeTargetKeeps, TruncateKeeps,
     WriteKeeps, CrashKeeps
     DEF Next, Finished

\* The brain that is there at the start loads.
LEMMA InitKeeps == Init => BrainsInv
<1> SUFFICES ASSUME Init, NEW b \in BrainIds
             PROVE  BrainHolds(b)
  BY DEF BrainsInv
<1>1. PICK homes \in SUBSET BrainIds, away \in BrainIds \cup {"nowhere"} :
              /\ dirs = homes /\ expected = [c \in homes |-> {0}] /\ DOMAIN disk = Paths
              /\ disk[PackageFile] = IF away = "nowhere" THEN Absent ELSE PackageOf(away)
              /\ \A path \in Paths \ {PackageFile} :
                    disk[path] = IF path[1] \in homes THEN BrainOn(path[1], path) ELSE Absent
  BY InitDisk
<1>2. \A q \in Procs : ~Commits(job[q], b)
  BY DEF Init, Commits, Idle
<1>3. \A n \in 1..3 : Files(b)[n] \in Paths \ {PackageFile} /\ Files(b)[n][1] = b
  <2>1. /\ ManifestFile(b) \in Paths \ {PackageFile} /\ StateFile(b) \in Paths \ {PackageFile}
        /\ KeyFile(b) \in Paths \ {PackageFile}
    BY DEF Paths, ManifestFile, StateFile, KeyFile, PackageFile
  <2>2. \A n \in 1..3 : n = 1 \/ n = 2 \/ n = 3
    OBVIOUS
  <2> QED
    BY <2>1, <2>2, FilesFacts
<1>4. CASE b \in homes
  <2>1. /\ disk[ManifestFile(b)] = Whole(Sign(b, 0, 0, 0)) /\ disk[StateFile(b)] = Whole(Blob(0, b, {0}))
        /\ disk[KeyFile(b)] = Whole(KeyBlob(0, b))
    <3>1. \A n \in 1..3 : disk[Files(b)[n]] = BrainOn(b, Files(b)[n])
      BY <1>1, <1>3, <1>4
    <3>2. /\ disk[ManifestFile(b)] = BrainOn(b, ManifestFile(b)) /\ disk[StateFile(b)] = BrainOn(b, StateFile(b))
          /\ disk[KeyFile(b)] = BrainOn(b, KeyFile(b))
      BY <3>1, FilesFacts
    <3>3. ManifestFile(b) # StateFile(b) /\ ManifestFile(b) # KeyFile(b) /\ StateFile(b) # KeyFile(b)
      BY DEF ManifestFile, StateFile, KeyFile
    <3> QED
      BY <3>2, <3>3 DEF BrainOn
  <2>2. Good(b, Sign(b, 0, 0, 0), Blob(0, b, {0}), KeyBlob(0, b))
    BY SignFacts DEF Good, Blob, KeyBlob
  <2>3. Stable(b)
    <3>1. Content(StateFile(b)).log = {0}
      BY <2>1 DEF Content, Whole, Blob
    <3>2. \A n \in 1..3 : disk[Files(b)[n]].is = "whole"
      <4>1. \A n \in 1..3 : n = 1 \/ n = 2 \/ n = 3
        OBVIOUS
      <4> QED
        BY <2>1, <4>1, FilesFacts DEF Whole
    <3>3. /\ Content(ManifestFile(b)) = Sign(b, 0, 0, 0) /\ Content(StateFile(b)) = Blob(0, b, {0})
          /\ Content(KeyFile(b)) = KeyBlob(0, b)
      BY <2>1 DEF Content, Whole
    <3> QED
      BY <1>1, <1>4, <2>2, <3>1, <3>2, <3>3 DEF Stable
  <2> QED
    BY <1>1, <1>2, <1>4, <2>3 DEF BrainHolds, Settled
<1>5. CASE b \notin homes
  <2>1. disk[ManifestFile(b)] = Absent
    BY <1>1, <1>3, <1>5, FilesFacts
  <2> QED
    BY <1>1, <1>2, <1>5, <2>1 DEF BrainHolds, Settled
<1> QED
  BY <1>4, <1>5

\* Whatever processes do to the other brains, and to this one one after the
\* other, a brain that nothing damaged loads whenever no commit to it is under
\* way, with exactly the operations that were acknowledged.
THEOREM UndamagedTheorem == Spec => []UndamagedLoads
<1>1. HoldsInv /\ BrainsInv => UndamagedLoads
  <2> SUFFICES ASSUME HoldsInv, BrainsInv, NEW b \in DOMAIN expected \ damaged, ~CommittingOn(b)
               PROVE  Loads(b) /\ Content(StateFile(b)).log = expected[b]
    BY DEF UndamagedLoads
  <2>1. b \in BrainIds /\ \A q \in Procs : ~Commits(job[q], b)
    BY DEF HoldsInv, CommittingOn, Commits, At
  <2>2. Stable(b)
    BY <2>1 DEF BrainsInv, BrainHolds, Settled
  <2>3. CanRead(ManifestFile(b)) /\ CanRead(StateFile(b)) /\ CanRead(KeyFile(b))
    BY <2>2, FilesFacts DEF Stable, CanRead
  <2> QED
    BY <2>2, <2>3 DEF Stable, Good, Loads, ChecksumMatches, Decrypts
<1>2. Spec => [](HoldsInv /\ BrainsInv)
  BY InitHolds, InitKeeps, NextHolds, NextKeeps, PTL DEF Spec
<1> QED
  BY <1>1, <1>2, PTL

\* Listing brains fails only because of a brain whose brain.json is being written
\* at that moment, or one that was damaged: a commit that has begun has either
\* truncated brain.json, and is about to write it, or has written it.
THEOREM ListingTheorem == Spec => []ListsUnlessTorn
<1>1. HoldsInv /\ BrainsInv => ListsUnlessTorn
  <2> SUFFICES ASSUME HoldsInv, BrainsInv, NEW b \in Listed \ damaged, ~CanRead(ManifestFile(b))
               PROVE  \E p \in Procs : /\ At(p, "write") /\ job[p].opened
                                       /\ job[p].queue[1][1] = ManifestFile(b)
    BY DEF ListsUnlessTorn
  <2>1. b \in BrainIds /\ disk[ManifestFile(b)].is # "absent"
    BY DEF HoldsInv, Listed
  <2>2. BrainHolds(b)
    BY <2>1 DEF BrainsInv
  <2>3. ~Settled(b)
    <3>1. ~Stable(b)
      BY FilesFacts DEF Stable, CanRead
    <3> QED
      BY <2>1, <3>1 DEF Settled, Absent
  <2>4. PICK p \in Procs : Commits(job[p], b)
    BY <2>2, <2>3 DEF BrainHolds
  <2>5. CommitHolds(job[p])
    BY <2>2, <2>4 DEF BrainHolds
  <2>6. /\ job[p].brain = b /\ Total(job[p].kind) \in 1..3
        /\ Len(job[p].queue) \in 1..Total(job[p].kind)
        /\ job[p].queue[1][1] = Files(b)[Total(job[p].kind) - Len(job[p].queue) + 1]
    BY <2>4, CommitFacts
  <2>7. PICK m : Comes(job[p], 1, m)
    BY <2>5 DEF CommitHolds
  <2>8. Total(job[p].kind) - Len(job[p].queue) = 0
    <3>1. disk[Files(b)[1]] # Whole(m)
      BY FilesFacts DEF CanRead, Whole
    <3>2. 1 \in (Total(job[p].kind) - Len(job[p].queue) + 1)..Total(job[p].kind)
      BY <2>6, <2>7, <3>1 DEF Comes
    <3> QED
      BY <2>6, <3>2
  <2>9. job[p].opened
    <3>1. ~(Len(job[p].queue) < Total(job[p].kind))
      BY <2>6, <2>8
    <3>2. ~Settled(job[p].brain)
      BY <2>3, <2>6
    <3> QED
      BY <2>5, <3>1, <3>2 DEF CommitHolds
  <2> QED
    BY <2>4, <2>6, <2>8, <2>9, FilesFacts DEF Commits, At
<1>2. Spec => [](HoldsInv /\ BrainsInv)
  BY InitHolds, InitKeeps, NextHolds, NextKeeps, PTL DEF Spec
<1> QED
  BY <1>1, <1>2, PTL

-----------------------------------------------------------------------------
\* One process at a time

OneProcess == \A p, q \in Procs : p = q

\* The states of other operations were encrypted before this one.
Older(op, blob) == blob.by < op /\ op \notin blob.log

\* What an operation has read is still there.
ReadsHold(j) ==
    /\ j.at \in HasManifest => disk[ManifestFile(j.brain)] = Whole(j.m)
    /\ j.at \in HasBlob => disk[StateFile(j.brain)] = Whole(j.blob)
    /\ j.at = "mutate" => CanRead(KeyFile(j.brain)) /\ Decrypts(j.m, Content(KeyFile(j.brain)))

\* What a mutation writes.
NewManifest(j) == Resigned(j.m, j.op)
NewBlob(j) == Blob(j.op, j.brain, Recorded(j.blob.log, j.op))

\* A mutation that is being committed, by what it has written.
MutationHolds(j) ==
    /\ {"m", "blob"} \subseteq DOMAIN j
    /\ j.m \in Manifests /\ Verified(j.m) /\ j.m.id = j.brain /\ Older(j.op, j.blob)
    /\ ChecksumMatches(j.m, j.blob) /\ Decrypts(j.m, j.blob)
    /\ CanRead(KeyFile(j.brain)) /\ Content(KeyFile(j.brain)).aad = j.brain
    /\ j.queue[Len(j.queue)][2] = NewBlob(j)
    /\ Len(j.queue) = 2 => j.queue[1][2] = NewManifest(j)
    /\ disk[ManifestFile(j.brain)] = IF Len(j.queue) = 1 THEN Whole(NewManifest(j))
                                     ELSE IF j.opened THEN Empty ELSE Whole(j.m)
    /\ disk[StateFile(j.brain)] = IF Len(j.queue) = 1 /\ j.opened THEN Empty ELSE Whole(j.blob)

SerialJob(j) ==
    /\ j.op = ops
    /\ j.at = "target" => j.brain \notin dirs
    /\ \A b \in BrainIds : CanRead(StateFile(b)) =>
          Older(ops, Content(StateFile(b))) \/ (Commits(j, b) /\ j.kind # "mutate")
    /\ ReadsHold(j)
    /\ j.at = "write" /\ j.kind = "mutate" => MutationHolds(j)

SerialInv ==
    /\ ops <= MaxOps
    /\ \A p \in Procs : job[p] # Idle => SerialJob(job[p])

\* It is enough to show what the only process holds.
LEMMA SerialStep ==
    ASSUME OneProcess, NEW p \in Procs, ops' <= MaxOps, job'[p] = Idle \/ SerialJob(job[p])'
    PROVE  SerialInv'
<1>1. \A q \in Procs : q = p
  BY DEF OneProcess
<1> QED
  BY <1>1 DEF SerialInv

\* A process that ends, or fails, has nothing left to hold.
LEMMA SerialEnds ==
    ASSUME OneProcess, HoldsInv, SerialInv, NEW p \in Procs, UNCHANGED ops, job'[p] = Idle
    PROVE  SerialInv'
  BY SerialStep DEF SerialInv

\* Every state on disk is of an operation that has started.
LEMMA AllOlder ==
    ASSUME HoldsInv, NEW b \in BrainIds, CanRead(StateFile(b))
    PROVE  Older(ops + 1, Content(StateFile(b)))
<1>1. PICK logs : Holds(logs)
  BY DEF HoldsInv
<1>2. PICK blob : blob = Content(StateFile(b))
  OBVIOUS
<1>3. StateFile(b) \in Paths /\ StateFile(b)[2] = "state.enc"
  BY DEF Paths, StateFile
<1>4. blob \in Blobs(logs)
  BY <1>1, <1>2, <1>3, ContentFits DEF Fits
<1>5. blob.by \in 0..ops /\ blob.log \subseteq 0..ops
  BY <1>1, <1>4 DEF Holds, History, Blobs
<1>6. ops + 1 \notin 0..ops /\ \A n \in 0..ops : n < ops + 1
  BY DEF HoldsInv
<1> QED
  BY <1>2, <1>5, <1>6 DEF Older

\* An operation that starts is newer than all that is on disk.
LEMMA SerialStarts ==
    ASSUME OneProcess, HoldsInv, SerialInv, NEW p \in Procs, NEW kind, NEW b, NEW step, NEW queue,
           Starts(p, kind, b, step, queue), UNCHANGED disk,
           step \in Listing \cup {"target", "write"}, kind # "mutate" \/ step # "write",
           step = "target" => b \notin dirs'
    PROVE  SerialInv'
<1>1. StartFacts(p, kind, b, step, queue)
  BY StartJob
<1>2. ops' = ops + 1 /\ ops' <= MaxOps
  BY StoreAssumption DEF Starts, HoldsInv
<1>3. SerialJob(job[p])'
  <2>1. ASSUME NEW c \in BrainIds, CanRead(StateFile(c))'
        PROVE  Older(ops, Content(StateFile(c)))'
    <3>1. CanRead(StateFile(c)) /\ Content(StateFile(c))' = Content(StateFile(c))
      BY <2>1 DEF CanRead, Content
    <3>2. Older(ops + 1, Content(StateFile(c)))
      BY <3>1, AllOlder
    <3> QED
      BY <1>2, <3>1, <3>2 DEF Older
  <2>2. ReadsHold(job[p])'
    BY <1>1 DEF StartFacts, ReadsHold, HasManifest, HasBlob, Listing
  <2> QED
    BY <1>1, <2>1, <2>2 DEF StartFacts, SerialJob
<1> QED
  BY <1>2, <1>3, SerialStep

\* A step that leaves the files, of a process that does not commit.
LEMMA SerialGoes ==
    ASSUME OneProcess, HoldsInv, SerialInv, NEW p \in Procs, ~At(p, "idle"), ~At(p, "write"),
           UNCHANGED <<disk, ops>>, job'[p].op = job[p].op, job'[p].at # "target",
           ReadsHold(job[p])', job'[p].at = "write" /\ job'[p].kind = "mutate" => MutationHolds(job[p])'
    PROVE  SerialInv'
<1>1. SerialJob(job[p])
  BY DEF SerialInv, At, Idle
<1>2. ASSUME NEW b \in BrainIds, CanRead(StateFile(b))'
      PROVE  Older(ops, Content(StateFile(b)))'
  <2>1. CanRead(StateFile(b)) /\ Content(StateFile(b))' = Content(StateFile(b))
    BY <1>2 DEF CanRead, Content
  <2>2. Older(ops, Content(StateFile(b)))
    BY <1>1, <2>1 DEF SerialJob, Commits, At
  <2> QED
    BY <2>1, <2>2 DEF Older
<1>3. SerialJob(job[p])'
  BY <1>1, <1>2 DEF SerialJob
<1> QED
  BY <1>3, SerialStep DEF SerialInv

\* What the only process reads stays as it read it.
LEMMA SerialReads ==
    ASSUME OneProcess, HoldsInv, SerialInv, NEW p \in Procs, ReadManifest(p) \/ ReadState(p) \/ ReadKey(p)
    PROVE  SerialInv'
<1>1. PICK logs : Holds(logs)
  BY DEF HoldsInv
<1>2. ~At(p, "idle") /\ ~At(p, "write") /\ job[p].at \in Reading /\ DOMAIN job = Procs
  BY DEF ReadManifest, ReadState, ReadKey, At, Reading, HoldsInv
<1>3. JobHolds(logs, dirs, ops, job[p]) /\ SerialJob(job[p])
  BY <1>1, <1>2, BusyHolds DEF SerialInv
<1>4. CASE Fails(p)
  BY <1>2, <1>4, EndsFacts, SerialEnds DEF Fails, NothingWritten
<1>5. CASE ~Fails(p)
  <2>1. PICK step, name, x, fields :
           /\ Goes(p, step, fields) /\ DOMAIN fields = {name} /\ fields[name] = x
           /\ NothingWritten
           /\ \/ /\ At(p, "manifest") /\ step = "state" /\ name = "m"
                 /\ CanRead(ManifestFile(job[p].brain)) /\ x = Content(ManifestFile(job[p].brain))
              \/ /\ At(p, "state") /\ step = "key" /\ name = "blob"
                 /\ CanRead(StateFile(job[p].brain)) /\ x = Content(StateFile(job[p].brain))
              \/ /\ At(p, "key") /\ step = job[p].kind /\ name = "key"
                 /\ CanRead(KeyFile(job[p].brain))
                 /\ job[p].kind = "mutate" => Decrypts(job[p].m, Content(KeyFile(job[p].brain)))
    <3>1. PICK x : x = IF At(p, "manifest") THEN Content(ManifestFile(job[p].brain))
                       ELSE IF At(p, "state") THEN Content(StateFile(job[p].brain))
                       ELSE Content(KeyFile(job[p].brain))
      OBVIOUS
    <3>2. PICK fields : fields = IF At(p, "manifest") THEN [m |-> x]
                                 ELSE IF At(p, "state") THEN [blob |-> x] ELSE [key |-> x]
      OBVIOUS
    <3>3. CASE ReadManifest(p)
      <4>1. /\ Goes(p, "state", fields) /\ NothingWritten /\ At(p, "manifest")
            /\ CanRead(ManifestFile(job[p].brain)) /\ x = Content(ManifestFile(job[p].brain))
        BY <1>5, <3>1, <3>2, <3>3 DEF ReadManifest
      <4>2. DOMAIN fields = {"m"} /\ fields["m"] = x
        BY <3>2, <4>1
      <4> QED
        BY <4>1, <4>2
    <3>4. CASE ReadState(p)
      <4>1. /\ Goes(p, "key", fields) /\ NothingWritten /\ At(p, "state")
            /\ CanRead(StateFile(job[p].brain)) /\ x = Content(StateFile(job[p].brain))
        BY <1>5, <3>1, <3>2, <3>4 DEF ReadState, At
      <4>2. DOMAIN fields = {"blob"} /\ fields["blob"] = x
        BY <3>2, <4>1 DEF At
      <4> QED
        BY <4>1, <4>2
    <3>5. CASE ReadKey(p)
      <4>1. /\ Goes(p, job[p].kind, fields) /\ NothingWritten /\ At(p, "key")
            /\ CanRead(KeyFile(job[p].brain))
            /\ job[p].kind = "mutate" => Decrypts(job[p].m, Content(KeyFile(job[p].brain)))
        BY <1>5, <3>1, <3>2, <3>5 DEF ReadKey, At, Loading
      <4>2. DOMAIN fields = {"key"} /\ fields["key"] = x
        BY <3>2, <4>1 DEF At
      <4> QED
        BY <4>1, <4>2
    <3> QED
      BY <3>3, <3>4, <3>5
  <2>3. name # "at" /\ name \in {"m", "blob", "key"}
    BY <2>1
  <2>4. /\ DOMAIN job'[p] = DOMAIN job[p] \cup {name}
        /\ job'[p].at = step /\ job'[p][name] = fields[name]
        /\ \A f \in DOMAIN job[p] \ {"at", name} : job'[p][f] = job[p][f]
    BY <1>2, <2>1, <2>3, GoesWith
  <2>5. \A f \in {"kind", "op", "brain"} : job'[p][f] = job[p][f]
    BY <1>3, <2>3, <2>4 DEF JobHolds
  <2>6. \A path \in {ManifestFile(job[p].brain), StateFile(job[p].brain)} :
            CanRead(path) => disk[path] = Whole(Content(path))
    <3>1. ManifestFile(job[p].brain) \in Paths /\ StateFile(job[p].brain) \in Paths
      BY <1>3 DEF JobHolds, Paths, ManifestFile, StateFile
    <3> QED
      BY <1>1, <3>1 DEF Holds, FileHolds, CanRead, Content, Absent, Empty, Garbled
  <2>7. ReadsHold(job[p])'
    <3>1. UNCHANGED disk
      BY <2>1 DEF NothingWritten
    <3>2. CASE At(p, "manifest")
      BY <2>1, <2>4, <2>5, <2>6, <3>1, <3>2 DEF ReadsHold, At, HasManifest, HasBlob
    <3>3. CASE At(p, "state")
      <4>1. "m" \in DOMAIN job[p] /\ disk[ManifestFile(job[p].brain)] = Whole(job[p].m)
        BY <1>3, <3>3 DEF JobHolds, SerialJob, ReadsHold, At, HasManifest
      <4> QED
        BY <2>1, <2>4, <2>5, <2>6, <3>1, <3>3, <4>1 DEF ReadsHold, At, HasManifest, HasBlob
    <3>4. CASE At(p, "key")
      <4>1. /\ "m" \in DOMAIN job[p] /\ disk[ManifestFile(job[p].brain)] = Whole(job[p].m)
            /\ "blob" \in DOMAIN job[p] /\ disk[StateFile(job[p].brain)] = Whole(job[p].blob)
        BY <1>3, <3>4 DEF JobHolds, SerialJob, ReadsHold, At, HasManifest, HasBlob
      <4>2. step = job[p].kind /\ name = "key" /\ job'[p].m = job[p].m /\ job'[p].blob = job[p].blob
        BY <2>1, <2>4, <3>4, <4>1 DEF At
      <4> QED
        BY <2>1, <2>4, <2>5, <3>1, <3>4, <4>1, <4>2 DEF ReadsHold, At, CanRead, Content, Decrypts
    <3> QED
      BY <2>1, <3>2, <3>3, <3>4
  <2>8. job'[p].at \notin {"target", "write"}
    BY <1>2, <1>3, <2>1, <2>4 DEF JobHolds, KindAt
  <2> QED
    BY <1>2, <2>1, <2>5, <2>7, <2>8, SerialGoes DEF NothingWritten
<1> QED
  BY <1>4, <1>5

\* An operation goes on to write a file of no brain.
LEMMA SerialWrites ==
    ASSUME OneProcess, HoldsInv, SerialInv, NEW p \in Procs,
           Export(p) \/ UseBrain(p) \/ \E k \in ApiKeys : MapKey(p, k)
    PROVE  SerialInv'
<1>1. PICK logs : Holds(logs)
  BY DEF HoldsInv
<1>2. ~At(p, "idle") /\ ~At(p, "write") /\ job[p].at \in {"export", "config", "mappings"} /\ DOMAIN job = Procs
  BY DEF Export, UseBrain, MapKey, At, HoldsInv
<1>3. job[p].kind # "mutate" /\ {"kind", "op"} \subseteq DOMAIN job[p]
  BY <1>1, <1>2, BusyHolds DEF JobHolds, KindAt
<1>4. CASE Fails(p)
  BY <1>2, <1>4, EndsFacts, SerialEnds DEF Fails, NothingWritten
<1>5. CASE ~Fails(p)
  <2>1. PICK queue : Writes(p, queue) /\ NothingWritten
    BY <1>5 DEF Export, UseBrain, MapKey
  <2>2. PICK fields : fields = [queue |-> queue]
    OBVIOUS
  <2>3. Goes(p, "write", fields) /\ DOMAIN fields = {"queue"} /\ fields["queue"] = queue
    BY <2>1, <2>2 DEF Writes
  <2>4. /\ DOMAIN job'[p] = DOMAIN job[p] \cup {"queue"}
        /\ job'[p].at = "write" /\ job'[p].queue = queue
        /\ \A f \in DOMAIN job[p] \ {"at", "queue"} : job'[p][f] = job[p][f]
    BY <1>2, <2>3, GoesWith
  <2>5. job'[p].kind = job[p].kind /\ job'[p].op = job[p].op
    BY <1>3, <2>4
  <2>6. ReadsHold(job[p])'
    BY <2>4 DEF ReadsHold, HasManifest, HasBlob
  <2> QED
    BY <1>2, <1>3, <2>1, <2>4, <2>5, <2>6, SerialGoes DEF NothingWritten
<1> QED
  BY <1>4, <1>5

\* An operation starts.
LEMMA SerialBegins ==
    ASSUME OneProcess, HoldsInv, SerialInv, NEW p \in Procs, NEW b \in BrainIds,
           \/ Create(p, b)
           \/ \E kind \in Kinds : Resolve(p, kind, b)
           \/ \E rename \in BOOLEAN : OpenPackage(p, b, rename)
    PROVE  SerialInv'
<1>1. CASE Create(p, b)
  <2>1. PICK queue : Starts(p, "create", b, "write", queue)
    BY <1>1 DEF Create
  <2> QED
    BY <1>1, <2>1, SerialStarts DEF Create
<1>2. CASE \E kind \in Kinds : Resolve(p, kind, b)
  <2>1. PICK kind \in Kinds : Resolve(p, kind, b)
    BY <1>2
  <2>2. PICK step \in Listing : Starts(p, kind, b, step, <<>>)
    BY <2>1 DEF Resolve, Listing
  <2> QED
    BY <2>1, <2>2, SerialStarts DEF Resolve, Listing
<1>3. CASE \E rename \in BOOLEAN : OpenPackage(p, b, rename)
  <2>1. PICK rename \in BOOLEAN : OpenPackage(p, b, rename)
    BY <1>3
  <2>2. PICK queue : queue = BrainWrites(b, Adopted(Content(PackageFile).m, b, rename),
                                         Content(PackageFile).blob, Content(PackageFile).key)
    OBVIOUS
  <2>3. Starts(p, "import", b, "target", queue) /\ UNCHANGED <<disk, dirs>>
    BY <2>1, <2>2 DEF OpenPackage
  <2>4. b \notin dirs
    <3>1. b \in Targets(Content(PackageFile).m)
      BY <2>1 DEF OpenPackage
    <3> QED
      BY <3>1 DEF Targets
  <2> QED
    BY <2>3, <2>4, SerialStarts
<1> QED
  BY <1>1, <1>2, <1>3

\* An operation looks for its brain.
LEMMA SerialLists ==
    ASSUME OneProcess, HoldsInv, SerialInv, NEW p \in Procs,
           ReadDir(p) \/ \E b \in BrainIds : ListBrain(p, b)
    PROVE  SerialInv'
<1>1. ~At(p, "idle") /\ ~At(p, "write") /\ DOMAIN job = Procs
  BY ListGoes DEF HoldsInv
<1>2. CASE Fails(p)
  BY <1>1, <1>2, EndsFacts, SerialEnds DEF Fails, NothingWritten
<1>3. CASE Lists(p)
  <2>1. PICK logs : Holds(logs)
    BY DEF HoldsInv
  <2>2. "op" \in DOMAIN job[p] \ {"at", "left"}
    BY <1>1, <2>1, BusyHolds DEF JobHolds
  <2>3. job'[p].op = job[p].op
    BY <1>3, <2>2 DEF Lists
  <2>4. ReadsHold(job[p])' /\ job'[p].at \notin {"target", "write"}
    BY <1>3 DEF Lists, ReadsHold, HasManifest, HasBlob, Listing
  <2> QED
    BY <1>1, <1>3, <2>3, <2>4, SerialGoes DEF Lists, NothingWritten
<1> QED
  BY <1>2, <1>3, ListGoes

\* The directory of an imported brain is made.
LEMMA SerialTarget ==
    ASSUME OneProcess, HoldsInv, SerialInv, NEW p \in Procs, MakeTarget(p)
    PROVE  SerialInv'
<1>1. TargetFacts(p)
  BY TargetJob
<1>2. ~At(p, "idle") /\ ~At(p, "write") /\ UNCHANGED <<disk, ops>>
  BY DEF MakeTarget, At
<1>3. ReadsHold(job[p])'
  BY <1>1 DEF TargetFacts, ReadsHold, HasManifest, HasBlob
<1> QED
  BY <1>1, <1>2, <1>3, SerialGoes DEF TargetFacts

\* A mutation goes on to write, with what it read still there.
LEMMA SerialMutate ==
    ASSUME OneProcess, HoldsInv, SerialInv, NEW p \in Procs, Mutate(p)
    PROVE  SerialInv'
<1>1. PICK logs : Holds(logs)
  BY DEF HoldsInv
<1>2. ~At(p, "idle") /\ ~At(p, "write") /\ At(p, "mutate") /\ UNCHANGED <<disk, ops>>
  BY DEF Mutate, At
<1>3. JobHolds(logs, dirs, ops, job[p]) /\ SerialJob(job[p])
  BY <1>1, <1>2, BusyHolds DEF SerialInv
<1>4. PICK j, k : j = job[p] /\ k = job'[p]
  OBVIOUS
<1>5. PICK m : m = Resigned(j.m, j.op)
  OBVIOUS
<1>6. PICK blob : blob = Blob(j.op, j.brain, Recorded(j.blob.log, j.op))
  OBVIOUS
<1>7. PICK queue : queue = <<<<ManifestFile(j.brain), m>>, <<StateFile(j.brain), blob>>>>
  OBVIOUS
<1>8. Len(queue) = 2 /\ queue[1][2] = m /\ queue[2][2] = blob
  BY <1>7
<1>9. /\ DOMAIN k = DOMAIN j \cup {"queue"} /\ k.at = "write" /\ k.queue = queue
      /\ k.kind = "mutate" /\ k.op = j.op /\ k.brain = j.brain /\ k.opened = FALSE
      /\ k.m = j.m /\ k.blob = j.blob
  <2>1. k.queue = queue
    BY <1>4, <1>5, <1>6, <1>7, MutateJob DEF MutateFacts
  <2>2. job[p].opened \in BOOLEAN
    BY <1>3 DEF JobHolds
  <2> QED
    BY <1>4, <2>1, <2>2, MutateJob DEF MutateFacts
<1>10. /\ {"m", "blob"} \subseteq DOMAIN j /\ j.m \in Manifests /\ j.m.id = j.brain /\ j.brain \in BrainIds
       /\ Verified(j.m) /\ ChecksumMatches(j.m, j.blob) /\ Decrypts(j.m, j.blob)
  BY <1>2, <1>3, <1>4 DEF JobHolds, KindAt, HasManifest, HasBlob, Loaders, At
<1>11. /\ disk[ManifestFile(j.brain)] = Whole(j.m) /\ disk[StateFile(j.brain)] = Whole(j.blob)
       /\ CanRead(KeyFile(j.brain)) /\ Content(KeyFile(j.brain)).aad = j.brain
  BY <1>2, <1>3, <1>4, <1>10 DEF SerialJob, ReadsHold, HasManifest, HasBlob, At, Decrypts
<1>12. Older(j.op, j.blob)
  <2>1. CanRead(StateFile(j.brain)) /\ Content(StateFile(j.brain)) = j.blob
    BY <1>11 DEF CanRead, Content, Whole
  <2> QED
    BY <1>2, <1>3, <1>4, <1>10, <2>1 DEF SerialJob, Commits, At
<1>13. MutationHolds(k)'
  <2>1. NewManifest(k) = m /\ NewBlob(k) = blob
    BY <1>5, <1>6, <1>9 DEF NewManifest, NewBlob
  <2>2. Len(k.queue) = 2 /\ k.queue[2][2] = blob /\ k.queue[1][2] = m
    BY <1>8, <1>9
  <2>3. CanRead(KeyFile(k.brain))' /\ Content(KeyFile(k.brain))'.aad = k.brain
    BY <1>2, <1>9, <1>11 DEF CanRead, Content
  <2>4. disk'[ManifestFile(k.brain)] = Whole(k.m) /\ disk'[StateFile(k.brain)] = Whole(k.blob)
    BY <1>2, <1>9, <1>11
  <2> QED
    BY <1>9, <1>10, <1>12, <2>1, <2>2, <2>3, <2>4 DEF MutationHolds
<1>14. MutationHolds(job[p])'
  BY <1>4, <1>13
<1>15. ReadsHold(job[p])'
  BY <1>4, <1>9 DEF ReadsHold, HasManifest, HasBlob
<1> QED
  BY <1>2, <1>4, <1>9, <1>14, <1>15, SerialGoes

\* A file is opened or written: what other operations have encrypted is as old.
LEMMA SerialOlder ==
    ASSUME HoldsInv, NEW p \in Procs, At(p, "write"), SerialJob(job[p]), UNCHANGED ops,
           NEW content, disk' = [disk EXCEPT ![job[p].queue[1][1]] = content],
           job'[p].at = "write", job'[p].kind = job[p].kind, job'[p].brain = job[p].brain,
           \/ content = Empty
           \/ job[p].kind = "mutate" => job[p].queue[1][1] # StateFile(job[p].brain)
    PROVE  \A b \in BrainIds : CanRead(StateFile(b))' =>
              Older(ops, Content(StateFile(b)))' \/ (Commits(job'[p], b) /\ job'[p].kind # "mutate")
<1> SUFFICES ASSUME NEW b \in BrainIds, CanRead(StateFile(b))', ~(Commits(job'[p], b) /\ job'[p].kind # "mutate")
             PROVE  Older(ops, Content(StateFile(b)))'
  OBVIOUS
<1>1. disk'[StateFile(b)] = disk[StateFile(b)]
  <2>1. CASE ~Commits(job[p], b)
    <3>1. \A n \in 1..3 : disk'[Files(b)[n]] = disk[Files(b)[n]]
      BY <2>1, NotWritten
    <3> QED
      BY <3>1, FilesFacts
  <2>2. CASE Commits(job[p], b)
    <3>1. job[p].kind = "mutate" /\ job[p].brain = b
      BY <2>2 DEF Commits, At
    <3>2. CASE content = Empty
      BY <3>2 DEF CanRead, Empty
    <3>3. CASE job[p].queue[1][1] # StateFile(b)
      BY <3>3
    <3> QED
      BY <3>1, <3>2, <3>3
  <2> QED
    BY <2>1, <2>2
<1>2. Older(ops, Content(StateFile(b)))
  BY <1>1 DEF SerialJob, CanRead, Commits, At
<1> QED
  BY <1>1, <1>2 DEF Older, Content

\* What a commit of two files is at.
LEMMA MutationAt ==
    ASSUME HoldsInv, NEW p \in Procs, At(p, "write"), job[p].kind = "mutate"
    PROVE  /\ job[p].brain \in BrainIds /\ Commits(job[p], job[p].brain)
           /\ \/ Len(job[p].queue) = 2 /\ job[p].queue[1][1] = ManifestFile(job[p].brain)
              \/ Len(job[p].queue) = 1 /\ job[p].queue[1][1] = StateFile(job[p].brain)
           /\ job[p].queue[1][1] \in DOMAIN disk
<1>1. PICK logs : Holds(logs)
  BY DEF HoldsInv
<1>2. Commits(job[p], job[p].brain) /\ job[p].brain \in BrainIds
  BY <1>1, BusyHolds DEF Commits, Committing, At, JobHolds
<1>3. PICK at \in 1..3 : /\ at = Total(job[p].kind) - Len(job[p].queue) + 1
                         /\ job[p].queue[1][1] = Files(job[p].brain)[at]
                         /\ Files(job[p].brain)[at] \in DOMAIN disk
  BY <1>2, AtFile
<1>4. Total(job[p].kind) = 2 /\ Len(job[p].queue) \in 1..2
  BY <1>2, CommitFacts DEF Total
<1>5. (Len(job[p].queue) = 2 /\ at = 1) \/ (Len(job[p].queue) = 1 /\ at = 2)
  <2>1. PICK n : n = Len(job[p].queue)
    OBVIOUS
  <2>2. at = 2 - n + 1 /\ n \in 1..2
    BY <1>3, <1>4, <2>1
  <2>3. (n = 2 /\ at = 1) \/ (n = 1 /\ at = 2)
    BY ONLY <2>2
  <2> QED
    BY <2>1, <2>3
<1> QED
  BY <1>2, <1>3, <1>5, FilesFacts

\* A file is opened: a mutation has one file that is empty.
LEMMA SerialTruncate ==
    ASSUME OneProcess, HoldsInv, SerialInv, NEW p \in Procs, Truncate(p)
    PROVE  SerialInv'
<1>1. /\ ~At(p, "idle") /\ At(p, "write") /\ ~job[p].opened /\ UNCHANGED ops
      /\ disk' = [disk EXCEPT ![job[p].queue[1][1]] = Empty]
  BY DEF Truncate, At
<1>2. SerialJob(job[p])
  BY <1>1 DEF SerialInv, At, Idle
<1>3. PICK j, k : j = job[p] /\ k = job'[p]
  OBVIOUS
<1>4. /\ DOMAIN k = DOMAIN j /\ k.at = "write" /\ k.opened = TRUE
      /\ k.kind = j.kind /\ k.op = j.op /\ k.brain = j.brain /\ k.queue = j.queue
      /\ \A f \in {"m", "blob"} \cap DOMAIN j : k[f] = j[f]
  BY <1>3, TruncateJob DEF TruncateFacts
<1>5. ASSUME k.kind = "mutate"
      PROVE  MutationHolds(k)'
  <2>1. MutationHolds(j) /\ j.kind = "mutate"
    BY <1>1, <1>2, <1>3, <1>4, <1>5 DEF SerialJob, At
  <2>2. PICK b : b = j.brain
    OBVIOUS
  <2>3. /\ \/ Len(j.queue) = 2 /\ j.queue[1][1] = ManifestFile(b)
           \/ Len(j.queue) = 1 /\ j.queue[1][1] = StateFile(b)
        /\ j.queue[1][1] \in DOMAIN disk
    BY <1>1, <1>3, <2>1, <2>2, MutationAt
  <2>4. k.m = j.m /\ k.blob = j.blob
    BY <1>4, <2>1 DEF MutationHolds
  <2>5. ManifestFile(b) # StateFile(b) /\ ManifestFile(b) # KeyFile(b) /\ StateFile(b) # KeyFile(b)
    BY DEF ManifestFile, StateFile, KeyFile
  <2>6. CanRead(KeyFile(b))' /\ Content(KeyFile(b))'.aad = b
    BY <1>1, <1>3, <2>1, <2>2, <2>3, <2>5 DEF MutationHolds, CanRead, Content
  <2>7. CASE Len(j.queue) = 2
    <3>1. /\ disk'[ManifestFile(b)] = Empty /\ disk'[StateFile(b)] = disk[StateFile(b)]
          /\ disk[StateFile(b)] = Whole(j.blob)
      BY <1>1, <1>3, <2>1, <2>2, <2>3, <2>5, <2>7 DEF MutationHolds
    <3> QED
      BY <1>4, <2>1, <2>2, <2>4, <2>6, <2>7, <3>1 DEF MutationHolds, NewManifest, NewBlob
  <2>8. CASE Len(j.queue) = 1
    <3>1. /\ disk'[StateFile(b)] = Empty /\ disk'[ManifestFile(b)] = disk[ManifestFile(b)]
          /\ disk[ManifestFile(b)] = Whole(NewManifest(j))
      BY <1>1, <1>3, <2>1, <2>2, <2>3, <2>5, <2>8 DEF MutationHolds
    <3> QED
      BY <1>4, <2>1, <2>2, <2>4, <2>6, <2>8, <3>1 DEF MutationHolds, NewManifest, NewBlob
  <2> QED
    BY <2>3, <2>7, <2>8
<1>6. \A b \in BrainIds : CanRead(StateFile(b))' =>
              Older(ops, Content(StateFile(b)))' \/ (Commits(job'[p], b) /\ job'[p].kind # "mutate")
  BY <1>1, <1>2, <1>3, <1>4, SerialOlder
<1>7. ReadsHold(job[p])'
  BY <1>3, <1>4 DEF ReadsHold, HasManifest, HasBlob
<1>8. MutationHolds(job[p])' \/ job'[p].kind # "mutate"
  BY <1>3, <1>5
<1>9. SerialJob(job[p])'
  BY <1>1, <1>2, <1>3, <1>4, <1>6, <1>7, <1>8 DEF SerialJob, Commits
<1> QED
  BY <1>1, <1>9, SerialStep DEF SerialInv

\* The file that a mutation opened was empty and is now what it wrote.
LEMMA SerialWritten ==
    ASSUME HoldsInv, NEW p \in Procs, Write(p), job[p].kind = "mutate", MutationHolds(job[p])
    PROVE  /\ Len(job[p].queue) = 2 =>
                 /\ disk'[ManifestFile(job[p].brain)] = Whole(job[p].queue[1][2])
                 /\ disk'[StateFile(job[p].brain)] = disk[StateFile(job[p].brain)]
           /\ Len(job[p].queue) = 1 =>
                 /\ disk'[ManifestFile(job[p].brain)] = disk[ManifestFile(job[p].brain)]
                 /\ disk'[StateFile(job[p].brain)] = Whole(job[p].queue[1][2])
           /\ disk'[KeyFile(job[p].brain)] = disk[KeyFile(job[p].brain)]
           /\ Len(job[p].queue) \in 1..2
<1>1. PICK j, b : j = job[p] /\ b = j.brain
  OBVIOUS
<1>2. At(p, "write") /\ j.opened
  BY <1>1 DEF Write
<1>3. /\ \/ Len(j.queue) = 2 /\ j.queue[1][1] = ManifestFile(b)
         \/ Len(j.queue) = 1 /\ j.queue[1][1] = StateFile(b)
      /\ j.queue[1][1] \in DOMAIN disk
  BY <1>1, <1>2, MutationAt
<1>4. disk[j.queue[1][1]] = Empty
  <2>1. CASE Len(j.queue) = 2 /\ j.queue[1][1] = ManifestFile(b)
    BY <1>1, <1>2, <2>1 DEF MutationHolds
  <2>2. CASE Len(j.queue) = 1 /\ j.queue[1][1] = StateFile(b)
    BY <1>1, <1>2, <2>2 DEF MutationHolds
  <2> QED
    BY <1>3, <2>1, <2>2
<1>5. disk' = [disk EXCEPT ![j.queue[1][1]] = Whole(j.queue[1][2])]
  <2>1. PICK content \in Written(j.queue[1][1], j.queue[1][2]) : disk' = [disk EXCEPT ![j.queue[1][1]] = content]
    BY <1>1 DEF Write
  <2> QED
    BY <1>4, <2>1 DEF Written
<1>6. ManifestFile(b) # StateFile(b) /\ ManifestFile(b) # KeyFile(b) /\ StateFile(b) # KeyFile(b)
  BY DEF ManifestFile, StateFile, KeyFile
<1>7. /\ Len(j.queue) = 2 =>
            disk'[ManifestFile(b)] = Whole(j.queue[1][2]) /\ disk'[StateFile(b)] = disk[StateFile(b)]
      /\ Len(j.queue) = 1 =>
            disk'[ManifestFile(b)] = disk[ManifestFile(b)] /\ disk'[StateFile(b)] = Whole(j.queue[1][2])
      /\ disk'[KeyFile(b)] = disk[KeyFile(b)] /\ Len(j.queue) \in 1..2
  BY <1>3, <1>5, <1>6
<1> QED
  BY <1>1, <1>7

\* A file is written: a mutation has one file less to write.
LEMMA SerialWrite ==
    ASSUME OneProcess, HoldsInv, SerialInv, NEW p \in Procs, Write(p)
    PROVE  SerialInv'
<1>1. /\ ~At(p, "idle") /\ At(p, "write") /\ UNCHANGED ops
      /\ \E content : disk' = [disk EXCEPT ![job[p].queue[1][1]] = content]
  BY DEF Write, At
<1>2. SerialJob(job[p])
  BY <1>1 DEF SerialInv, At, Idle
<1>3. CASE Len(job[p].queue) = 1
  BY <1>1, <1>3, WriteJob, SerialEnds DEF WriteFacts
<1>4. CASE Len(job[p].queue) # 1
  <2>1. PICK j, k : j = job[p] /\ k = job'[p]
    OBVIOUS
  <2>2. /\ DOMAIN k = DOMAIN j /\ k.at = "write" /\ k.opened = FALSE /\ k.queue = Tail(j.queue)
        /\ k.kind = j.kind /\ k.op = j.op /\ k.brain = j.brain
        /\ \A f \in {"m", "blob"} \cap DOMAIN j : k[f] = j[f]
    BY <1>4, <2>1, WriteJob DEF WriteFacts
  <2>3. j.kind = "mutate" => j.queue[1][1] # StateFile(j.brain)
    BY <1>1, <1>4, <2>1, MutationAt DEF ManifestFile, StateFile
  <2>4. \A b \in BrainIds : CanRead(StateFile(b))' =>
              Older(ops, Content(StateFile(b)))' \/ (Commits(job'[p], b) /\ job'[p].kind # "mutate")
    BY <1>1, <1>2, <2>1, <2>2, <2>3, SerialOlder
  <2>5. ASSUME k.kind = "mutate"
        PROVE  MutationHolds(k)'
    <3>1. MutationHolds(j)
      BY <1>1, <1>2, <2>1, <2>2, <2>5 DEF SerialJob, At
    <3>2. PICK b : b = j.brain
      OBVIOUS
    <3>3. /\ Len(j.queue) = 2
          /\ disk'[ManifestFile(b)] = Whole(j.queue[1][2]) /\ disk'[StateFile(b)] = disk[StateFile(b)]
          /\ disk'[KeyFile(b)] = disk[KeyFile(b)]
      <4>1. job[p].kind = "mutate" /\ MutationHolds(job[p])
        BY <2>1, <2>2, <2>5, <3>1
      <4>2. Len(job[p].queue) = 2
        BY <1>4, <4>1, SerialWritten
      <4>3. /\ disk'[ManifestFile(job[p].brain)] = Whole(job[p].queue[1][2])
            /\ disk'[StateFile(job[p].brain)] = disk[StateFile(job[p].brain)]
            /\ disk'[KeyFile(job[p].brain)] = disk[KeyFile(job[p].brain)]
        BY <4>1, <4>2, SerialWritten
      <4> QED
        BY <2>1, <3>2, <4>2, <4>3
    <3>4. Len(k.queue) = 1 /\ k.queue[1] = j.queue[2]
      <4>1. PICK logs : Holds(logs)
        BY DEF HoldsInv
      <4>2. QueueHolds(logs, dirs, j) /\ Total(j.kind) \in 1..3
        BY <1>1, <2>1, <4>1, BusyHolds DEF JobHolds, At, Total
      <4>3. Len(k.queue) = Len(j.queue) - 1 /\ \A i \in 1..Len(k.queue) : k.queue[i] = j.queue[i + 1]
        <5>1. Len(j.queue) # 1 /\ k.queue = Tail(j.queue) /\ k.kind = j.kind /\ k.brain = j.brain
          BY <1>4, <2>1, <2>2
        <5>2. PICK d : QueueHolds(logs, d, j)
          BY <4>2
        <5>3. Len(j.queue) \in 1..Total(j.kind)
          BY <4>2 DEF QueueHolds
        <5> QED
          BY <4>2, <5>1, <5>2, <5>3, TailHolds
      <4> QED
        BY <3>3, <4>3
    <3>5. k.m = j.m /\ k.blob = j.blob
      BY <2>2, <3>1 DEF MutationHolds
    <3>6. disk'[ManifestFile(b)] = Whole(NewManifest(k)) /\ disk'[StateFile(b)] = Whole(k.blob)
      BY <2>2, <3>1, <3>2, <3>3, <3>5 DEF MutationHolds, NewManifest
    <3>7. CanRead(KeyFile(b))' /\ Content(KeyFile(b))'.aad = b
      BY <3>1, <3>2, <3>3 DEF MutationHolds, CanRead, Content
    <3>8. k.queue[Len(k.queue)][2] = NewBlob(k)
      BY <2>2, <3>1, <3>2, <3>3, <3>4, <3>5 DEF MutationHolds, NewBlob
    <3>9. /\ {"m", "blob"} \subseteq DOMAIN k
          /\ k.m \in Manifests /\ Verified(k.m) /\ k.m.id = k.brain /\ Older(k.op, k.blob)
          /\ ChecksumMatches(k.m, k.blob) /\ Decrypts(k.m, k.blob)
      BY <2>2, <3>1, <3>5 DEF MutationHolds
    <3>10. k.brain = b /\ Len(k.queue) = 1 /\ k.opened = FALSE
      BY <2>2, <3>2, <3>4
    <3> QED
      BY <3>6, <3>7, <3>8, <3>9, <3>10 DEF MutationHolds
  <2>6. ReadsHold(job[p])'
    BY <2>1, <2>2 DEF ReadsHold, HasManifest, HasBlob
  <2>7. MutationHolds(job[p])' \/ job'[p].kind # "mutate"
    BY <2>1, <2>5
  <2>8. SerialJob(job[p])'
    BY <1>1, <1>2, <2>1, <2>2, <2>4, <2>6, <2>7 DEF SerialJob, Commits
  <2> QED
    BY <1>1, <2>8, SerialStep DEF SerialInv
<1> QED
  BY <1>3, <1>4

\* Every step of the only process keeps the invariant.
LEMMA SerialNext == OneProcess /\ HoldsInv /\ SerialInv /\ [Next]_vars => SerialInv'
<1> SUFFICES ASSUME OneProcess, HoldsInv, SerialInv, [Next]_vars
             PROVE  SerialInv'
  OBVIOUS
<1>1. CASE UNCHANGED vars
  BY <1>1 DEF vars, SerialInv, SerialJob, ReadsHold, MutationHolds, CanRead, Content
<1>2. ASSUME NEW p \in Procs, NothingToDo(p)
      PROVE  SerialInv'
  <2>1. job[p] = Idle
    BY <1>2, BusyHolds DEF NothingToDo, At, HoldsInv, Holds, JobHolds
  <2>2. ops' <= MaxOps /\ job'[p] = Idle
    BY <1>2, <2>1, StoreAssumption DEF NothingToDo, HoldsInv
  <2> QED
    BY <2>2, SerialStep
<1>3. ASSUME NEW p \in Procs, Audit(p) \/ Refuse(p) \/ Crash(p)
      PROVE  SerialInv'
  <2>1. Ends(p) /\ UNCHANGED ops /\ DOMAIN job = Procs
    BY <1>3 DEF Audit, Refuse, Crash, Fails, NothingWritten, HoldsInv
  <2> QED
    BY <2>1, EndsFacts, SerialEnds
<1> QED
  BY <1>1, <1>2, <1>3, SerialBegins, SerialLists, SerialReads, SerialWrites, SerialMutate, SerialTarget,
     SerialTruncate, SerialWrite
     DEF Next, Finished

\* No process works at the start.
LEMMA SerialInit == Init => SerialInv
  BY StoreAssumption DEF Init, SerialInv

-----------------------------------------------------------------------------
\* What one process at a time sees

\* A brain that is being created or imported is not there yet.
Hidden(j, b) == Commits(j, b) /\ j.kind # "mutate"
Shown(j, d) == {b \in d : ~Hidden(j, b)}

Sees(j, b) ==
    IF Commits(j, b) THEN {j.blob.log} ELSE IF Loads(b) THEN {Content(StateFile(b)).log} ELSE {}

\* What is visible, by the only process.
LEMMA OneSees ==
    ASSUME OneProcess, NEW p \in Procs
    PROVE  /\ VisibleBrains = [b \in Shown(job[p], dirs) |-> Sees(job[p], b)]
           /\ VisibleBrains' = [b \in Shown(job'[p], dirs') |-> Sees(job[p], b)']
<1>1. Procs = {p}
  BY DEF OneProcess
<1>2. \A b : Visible(b) = Sees(job[p], b)
  <2> SUFFICES ASSUME NEW b
               PROVE  Visible(b) = Sees(job[p], b)
    OBVIOUS
  <2>1. CommittingOn(b) <=> Commits(job[p], b)
    BY <1>1 DEF CommittingOn, Commits, At
  <2>2. Commits(job[p], b) =>
            {job[r].blob.log : r \in {q \in Procs : At(q, "write") /\ job[q].brain = b}} = {job[p].blob.log}
    BY <1>1 DEF Commits, At
  <2> QED
    BY <2>1, <2>2 DEF Visible, Sees
<1>3. \A b : Visible(b)' = Sees(job[p], b)'
  <2> SUFFICES ASSUME NEW b
               PROVE  Visible(b)' = Sees(job[p], b)'
    OBVIOUS
  <2>1. CommittingOn(b)' <=> Commits(job[p], b)'
    BY <1>1 DEF CommittingOn, Commits, At
  <2>2. Commits(job[p], b)' =>
            {job'[r].blob.log : r \in {q \in Procs : At(q, "write")' /\ job'[q].brain = b}} = {job'[p].blob.log}
    BY <1>1 DEF Commits, At
  <2> QED
    BY <2>1, <2>2 DEF Visible, Sees
<1>4. {x \in dirs : ~\E q \in Procs : /\ At(q, "write") /\ job[q].brain = x
                                      /\ job[q].kind \in {"create", "import"}} = Shown(job[p], dirs)
  BY <1>1 DEF Shown, Hidden, Commits, Committing, At
<1>5. {x \in dirs : ~\E q \in Procs : /\ At(q, "write") /\ job[q].brain = x
                                      /\ job[q].kind \in {"create", "import"}}' = Shown(job'[p], dirs')
  BY <1>1 DEF Shown, Hidden, Commits, Committing, At
<1>6. VisibleBrains = [b \in Shown(job[p], dirs) |-> Sees(job[p], b)]
  BY <1>2, <1>4 DEF VisibleBrains
<1>7. VisibleBrains' = [b \in Shown(job'[p], dirs') |-> Sees(job[p], b)']
  BY <1>3, <1>5 DEF VisibleBrains
<1> QED
  BY <1>6, <1>7

\* A brain of which no file is written, and that p does not commit to.
LEMMA SeesStill ==
    ASSUME NEW p \in Procs, NEW b, ~Commits(job[p], b), ~Commits(job'[p], b),
           \A n \in 1..3 : disk'[Files(b)[n]] = disk[Files(b)[n]]
    PROVE  Sees(job[p], b)' = Sees(job[p], b)
<1>1. /\ disk'[ManifestFile(b)] = disk[ManifestFile(b)] /\ disk'[StateFile(b)] = disk[StateFile(b)]
      /\ disk'[KeyFile(b)] = disk[KeyFile(b)]
  BY FilesFacts
<1>2. Loads(b)' <=> Loads(b)
  BY <1>1 DEF Loads, CanRead, Content
<1> QED
  BY <1>1, <1>2 DEF Sees, Commits, Content

\* Nothing changes that is seen.
LEMMA SameSeen ==
    ASSUME OneProcess, NEW p \in Procs, Shown(job'[p], dirs') = Shown(job[p], dirs),
           \A b \in Shown(job[p], dirs) : Sees(job[p], b)' = Sees(job[p], b)
    PROVE  VisibleBrains' = VisibleBrains
  BY OneSees

\* One brain is seen with something else.
LEMMA OneSeen ==
    ASSUME OneProcess, NEW p \in Procs, NEW b \in Shown(job[p], dirs),
           Shown(job'[p], dirs') = Shown(job[p], dirs), NEW content, Sees(job[p], b)' = content,
           \A x \in Shown(job[p], dirs) \ {b} : Sees(job[p], x)' = Sees(job[p], x)
    PROVE  /\ b \in DOMAIN VisibleBrains
           /\ VisibleBrains' = [VisibleBrains EXCEPT ![b] = content]
<1>1. /\ VisibleBrains = [x \in Shown(job[p], dirs) |-> Sees(job[p], x)]
      /\ VisibleBrains' = [x \in Shown(job[p], dirs) |-> Sees(job[p], x)']
  BY OneSees
<1> QED
  BY <1>1

\* A brain is seen that was not there.
LEMMA NewSeen ==
    ASSUME OneProcess, HoldsInv, SerialInv, NEW p \in Procs, NEW b \in BrainIds, b \notin Shown(job[p], dirs),
           Shown(job'[p], dirs') = Shown(job[p], dirs) \cup {b}, ~Commits(job'[p], b),
           disk'[StateFile(b)] = disk[StateFile(b)],
           \A x \in Shown(job[p], dirs) : Sees(job[p], x)' = Sees(job[p], x)
    PROVE  Atomic!Next
<1>1. PICK content : content = Sees(job[p], b)'
  OBVIOUS
<1>2. content \in Atomic!Contents
  <2>1. CASE Loads(b)'
    <3>1. content = {Content(StateFile(b)).log} /\ CanRead(StateFile(b))
      BY <1>1, <2>1 DEF Sees, Commits, Content, Loads, CanRead
    <3>2. Content(StateFile(b)).log \subseteq 0..MaxOps
      <4>1. PICK logs : Holds(logs)
        BY DEF HoldsInv
      <4>2. PICK blob : blob = Content(StateFile(b))
        OBVIOUS
      <4>3. blob \in Blobs(logs)
        BY <3>1, <4>1, <4>2, ContentFits DEF Fits, Paths, StateFile
      <4>4. blob.log \subseteq 0..ops
        BY <4>1, <4>3 DEF Blobs, Holds, History
      <4>5. 0..ops \subseteq 0..MaxOps
        BY StoreAssumption DEF HoldsInv, SerialInv
      <4> QED
        BY <4>2, <4>4, <4>5
    <3> QED
      BY <3>1, <3>2 DEF Atomic!Contents
  <2>2. CASE ~Loads(b)'
    <3>1. content = {}
      BY <1>1, <2>2 DEF Sees, Commits
    <3> QED
      BY <3>1 DEF Atomic!Contents
  <2> QED
    BY <2>1, <2>2
<1>3. /\ VisibleBrains = [x \in Shown(job[p], dirs) |-> Sees(job[p], x)]
      /\ VisibleBrains' = [x \in Shown(job[p], dirs) \cup {b} |-> Sees(job[p], x)']
  BY OneSees
<1>4. b \notin DOMAIN VisibleBrains
  BY <1>3
<1>5. VisibleBrains' = [x \in DOMAIN VisibleBrains \cup {b} |-> IF x = b THEN content ELSE VisibleBrains[x]]
  BY <1>1, <1>3
<1>6. Atomic!Appear(b)
  BY <1>2, <1>4, <1>5 DEF Atomic!Appear
<1> QED
  BY <1>6 DEF Atomic!Next

\* Quiet steps are not seen.
LEMMA QuietSeen ==
    ASSUME OneProcess, HoldsInv, NEW p \in Procs, Quiet(p)
    PROVE  VisibleBrains' = VisibleBrains
<1>1. \A b \in dirs : ~Commits(job[p], b) /\ ~Commits(job'[p], b)
  BY DEF Quiet, HoldsInv
<1>2. Shown(job'[p], dirs') = Shown(job[p], dirs)
  BY <1>1 DEF Shown, Hidden, Quiet
<1>3. \A b \in Shown(job[p], dirs) : Sees(job[p], b)' = Sees(job[p], b)
  BY <1>1, SeesStill DEF Shown, Quiet
<1> QED
  BY <1>2, <1>3, SameSeen

\* A directory is made for a brain to be written.
LEMMA MadeSeen ==
    ASSUME OneProcess, HoldsInv, NEW p \in Procs, NEW b \in BrainIds \ dirs, dirs' = dirs \cup {b},
           UNCHANGED disk, \A x : ~Commits(job[p], x), Commits(job'[p], b), job'[p].kind # "mutate"
    PROVE  VisibleBrains' = VisibleBrains
<1>1. \A x : Commits(job'[p], x) => x = b
  BY DEF Commits
<1>2. Shown(job'[p], dirs') = Shown(job[p], dirs)
  BY <1>1 DEF Shown, Hidden
<1>3. \A x \in Shown(job[p], dirs) : Sees(job[p], x)' = Sees(job[p], x)
  BY <1>1, SeesStill DEF Shown
<1> QED
  BY <1>2, <1>3, SameSeen

\* A creation is not seen before it ends.
LEMMA CreateSeen ==
    ASSUME OneProcess, HoldsInv, NEW p \in Procs, NEW b \in BrainIds, Create(p, b)
    PROVE  VisibleBrains' = VisibleBrains
<1>1. PICK queue : Starts(p, "create", b, "write", queue)
  BY DEF Create
<1>2. StartFacts(p, "create", b, "write", queue)
  BY <1>1, StartJob
<1>3. /\ Commits(job'[p], b) /\ job'[p].kind # "mutate" /\ \A x : ~Commits(job[p], x)
      /\ b \in BrainIds \ dirs /\ dirs' = dirs \cup {b} /\ UNCHANGED disk
  BY <1>2 DEF StartFacts, Commits, Committing, At, Create
<1> QED
  BY <1>3, MadeSeen

\* Neither is an import.
LEMMA TargetSeen ==
    ASSUME OneProcess, HoldsInv, SerialInv, NEW p \in Procs, MakeTarget(p)
    PROVE  VisibleBrains' = VisibleBrains
<1>1. PICK logs : Holds(logs)
  BY DEF HoldsInv
<1>2. At(p, "target") /\ ~At(p, "idle")
  BY DEF MakeTarget, At
<1>3. PICK b : b = job[p].brain
  OBVIOUS
<1>4. b \in BrainIds \ dirs
  BY <1>1, <1>2, <1>3, BusyHolds DEF SerialInv, SerialJob, JobHolds, At
<1>5. Commits(job'[p], b) /\ job'[p].kind # "mutate"
  BY <1>3, TargetJob DEF TargetFacts, Commits, Committing
<1>6. (\A x : ~Commits(job[p], x)) /\ dirs' = dirs \cup {b} /\ UNCHANGED disk
  BY <1>2, <1>3 DEF Commits, At, MakeTarget
<1> QED
  BY <1>4, <1>5, <1>6, MadeSeen

\* While a mutation is being written, the brain is what it loaded.
LEMMA MutateSeen ==
    ASSUME OneProcess, HoldsInv, SerialInv, NEW p \in Procs, Mutate(p)
    PROVE  VisibleBrains' = VisibleBrains
<1>1. PICK logs : Holds(logs)
  BY DEF HoldsInv
<1>2. At(p, "mutate") /\ ~At(p, "idle") /\ UNCHANGED <<disk, dirs>>
  BY DEF Mutate, At
<1>3. JobHolds(logs, dirs, ops, job[p]) /\ SerialJob(job[p])
  BY <1>1, <1>2, BusyHolds DEF SerialInv
<1>4. PICK j, k, b : j = job[p] /\ k = job'[p] /\ b = j.brain
  OBVIOUS
<1>5. k.at = "write" /\ k.kind = "mutate" /\ k.brain = b /\ k.blob = j.blob
  BY <1>4, MutateJob DEF MutateFacts
<1>6. (\A x : ~Commits(j, x)) /\ \A x : Commits(k, x) <=> x = b
  BY <1>2, <1>4, <1>5 DEF Commits, Committing, At
<1>7. Shown(k, dirs) = Shown(j, dirs)
  BY <1>5, <1>6 DEF Shown, Hidden
<1>8. Loads(b) /\ Content(StateFile(b)).log = j.blob.log
  <2>1. disk[ManifestFile(b)] = Whole(j.m) /\ disk[StateFile(b)] = Whole(j.blob)
    BY <1>2, <1>3, <1>4 DEF SerialJob, ReadsHold, At, HasManifest, HasBlob
  <2>2. Verified(j.m) /\ ChecksumMatches(j.m, j.blob) /\ Decrypts(j.m, j.blob)
    BY <1>2, <1>3, <1>4 DEF JobHolds, KindAt, At, HasManifest, HasBlob, Loaders
  <2>3. CanRead(KeyFile(b)) /\ Decrypts(j.m, Content(KeyFile(b)))
    BY <1>2, <1>3, <1>4 DEF SerialJob, ReadsHold, At
  <2>4. /\ CanRead(ManifestFile(b)) /\ Content(ManifestFile(b)) = j.m
        /\ CanRead(StateFile(b)) /\ Content(StateFile(b)) = j.blob
    BY <2>1 DEF CanRead, Content, Whole
  <2> QED
    BY <2>2, <2>3, <2>4 DEF Loads
<1>9. Sees(job[p], b)' = {j.blob.log} /\ Sees(job[p], b) = {j.blob.log}
  <2>1. Commits(job[p], b)' /\ job'[p].blob = j.blob
    BY <1>4, <1>5, <1>6
  <2>2. ~Commits(job[p], b)
    BY <1>4, <1>6
  <2> QED
    BY <1>8, <2>1, <2>2 DEF Sees
<1>10. \A x \in Shown(job[p], dirs) : Sees(job[p], x)' = Sees(job[p], x)
  <2> SUFFICES ASSUME NEW x, x # b
               PROVE  Sees(job[p], x)' = Sees(job[p], x)
    BY <1>9
  <2> QED
    BY <1>2, <1>4, <1>6, SeesStill
<1> QED
  BY <1>2, <1>4, <1>7, <1>10, SameSeen

\* A commit that goes on: a mutation shows what it loaded, a new brain nothing.
LEMMA GoOnSeen ==
    ASSUME OneProcess, HoldsInv, SerialInv, NEW p \in Procs, At(p, "write"), dirs' = dirs,
           NEW content, disk' = [disk EXCEPT ![job[p].queue[1][1]] = content],
           job'[p].at = "write", job'[p].kind = job[p].kind, job'[p].brain = job[p].brain,
           \A f \in {"m", "blob"} \cap DOMAIN job[p] : job'[p][f] = job[p][f]
    PROVE  VisibleBrains' = VisibleBrains
<1>1. \A x : Commits(job'[p], x) <=> Commits(job[p], x)
  BY DEF Commits, At
<1>2. Shown(job'[p], dirs') = Shown(job[p], dirs)
  BY <1>1 DEF Shown, Hidden
<1>3. ASSUME NEW x \in Shown(job[p], dirs)
      PROVE  Sees(job[p], x)' = Sees(job[p], x)
  <2>1. x \in BrainIds
    BY DEF Shown, HoldsInv
  <2>2. CASE Commits(job[p], x)
    <3>1. job[p].kind = "mutate"
      BY <1>3, <2>2 DEF Shown, Hidden
    <3>2. "blob" \in DOMAIN job[p]
      BY <3>1 DEF SerialInv, SerialJob, MutationHolds, At, Idle
    <3>3. job'[p].blob = job[p].blob /\ Commits(job'[p], x)
      BY <1>1, <2>2, <3>2
    <3> QED
      BY <2>2, <3>3 DEF Sees
  <2>3. CASE ~Commits(job[p], x)
    <3>1. \A n \in 1..3 : disk'[Files(x)[n]] = disk[Files(x)[n]]
      BY <2>1, <2>3, NotWritten
    <3> QED
      BY <1>1, <2>3, <3>1, SeesStill
  <2> QED
    BY <2>2, <2>3
<1> QED
  BY <1>2, <1>3, SameSeen

\* Opening a file is not seen.
LEMMA TruncateSeen ==
    ASSUME OneProcess, HoldsInv, SerialInv, NEW p \in Procs, Truncate(p)
    PROVE  VisibleBrains' = VisibleBrains
<1>1. At(p, "write") /\ dirs' = dirs
  BY DEF Truncate
<1>2. TruncateFacts(p)
  BY TruncateJob
<1>3. /\ disk' = [disk EXCEPT ![job[p].queue[1][1]] = Empty]
      /\ job'[p].at = "write" /\ job'[p].kind = job[p].kind /\ job'[p].brain = job[p].brain
      /\ \A f \in {"m", "blob"} \cap DOMAIN job[p] : job'[p][f] = job[p][f]
  BY <1>2 DEF TruncateFacts
<1>4. PICK content : disk' = [disk EXCEPT ![job[p].queue[1][1]] = content]
  BY <1>3
<1> QED
  BY <1>1, <1>3, <1>4, GoOnSeen

\* A process that ends and was not committing.
LEMMA EndSeen ==
    ASSUME OneProcess, HoldsInv, NEW p \in Procs, dirs' = dirs, job'[p] = Idle,
           \A x : ~Commits(job[p], x),
           \/ UNCHANGED disk
           \/ At(p, "write") /\ \E content : disk' = [disk EXCEPT ![job[p].queue[1][1]] = content]
    PROVE  VisibleBrains' = VisibleBrains
<1>1. \A x : ~Commits(job'[p], x)
  BY DEF Commits, Idle
<1>2. Shown(job'[p], dirs') = Shown(job[p], dirs)
  BY <1>1 DEF Shown, Hidden
<1>3. ASSUME NEW x \in Shown(job[p], dirs)
      PROVE  Sees(job[p], x)' = Sees(job[p], x)
  <2>1. x \in BrainIds /\ ~Commits(job[p], x) /\ ~Commits(job'[p], x)
    BY <1>1 DEF Shown, HoldsInv
  <2>2. \A n \in 1..3 : disk'[Files(x)[n]] = disk[Files(x)[n]]
    <3>1. CASE UNCHANGED disk
      BY <3>1
    <3>2. ASSUME At(p, "write"), NEW content, disk' = [disk EXCEPT ![job[p].queue[1][1]] = content]
          PROVE  \A n \in 1..3 : disk'[Files(x)[n]] = disk[Files(x)[n]]
      BY <2>1, <3>2, NotWritten
    <3> QED
      BY <3>1, <3>2
  <2> QED
    BY <2>1, <2>2, SeesStill
<1> QED
  BY <1>2, <1>3, SameSeen

\* A process that commits to b ends: the other brains are what they were.
LEMMA OthersSeen ==
    ASSUME HoldsInv, NEW p \in Procs, NEW b, Commits(job[p], b), job'[p] = Idle,
           \/ UNCHANGED disk
           \/ \E content : disk' = [disk EXCEPT ![job[p].queue[1][1]] = content]
    PROVE  \A x \in dirs \ {b} : Sees(job[p], x)' = Sees(job[p], x)
<1> SUFFICES ASSUME NEW x \in dirs \ {b}
             PROVE  Sees(job[p], x)' = Sees(job[p], x)
  OBVIOUS
<1>1. ~Commits(job[p], x) /\ ~Commits(job'[p], x) /\ At(p, "write")
  BY DEF Commits, Idle, At
<1>2. x \in BrainIds
  BY DEF HoldsInv
<1>3. \A n \in 1..3 : disk'[Files(x)[n]] = disk[Files(x)[n]]
  <2>1. CASE UNCHANGED disk
    BY <2>1
  <2>2. ASSUME NEW content, disk' = [disk EXCEPT ![job[p].queue[1][1]] = content]
        PROVE  \A n \in 1..3 : disk'[Files(x)[n]] = disk[Files(x)[n]]
    BY <1>1, <1>2, <2>2, NotWritten
  <2> QED
    BY <2>1, <2>2
<1> QED
  BY <1>1, <1>3, SeesStill

\* A creation or an import ends: the brain is there, whatever it is.
LEMMA MadeAppears ==
    ASSUME OneProcess, HoldsInv, SerialInv, NEW p \in Procs, NEW b, Commits(job[p], b),
           job[p].kind # "mutate", dirs' = dirs, job'[p] = Idle,
           \/ UNCHANGED disk
           \/ /\ Len(job[p].queue) = 1
              /\ \E content : disk' = [disk EXCEPT ![job[p].queue[1][1]] = content]
    PROVE  Atomic!Next
<1>1. b \in BrainIds /\ b \in dirs /\ job[p].brain = b
  BY CommitFacts DEF HoldsInv
<1>2. \A x : (Commits(job[p], x) <=> x = b) /\ ~Commits(job'[p], x)
  BY DEF Commits, Idle
<1>3. Shown(job[p], dirs) = dirs \ {b} /\ Shown(job'[p], dirs') = dirs
  BY <1>2 DEF Shown, Hidden
<1>4. disk'[StateFile(b)] = disk[StateFile(b)]
  <2>1. CASE Len(job[p].queue) = 1 /\ \E content : disk' = [disk EXCEPT ![job[p].queue[1][1]] = content]
    <3>1. PICK at \in 1..3 : /\ at = Total(job[p].kind) - Len(job[p].queue) + 1
                             /\ job[p].queue[1][1] = Files(b)[at]
                             /\ \A n \in 1..3 \ {at} : Files(b)[n] # Files(b)[at]
      BY <1>1, AtFile
    <3>2. Total(job[p].kind) = 3
      BY DEF Total, Commits
    <3>3. at = 3
      BY <2>1, <3>1, <3>2
    <3>4. Files(b)[2] # job[p].queue[1][1]
      BY <3>1, <3>3
    <3> QED
      BY <2>1, <3>4, FilesFacts
  <2> QED
    BY <2>1
<1>5. \A x \in Shown(job[p], dirs) : Sees(job[p], x)' = Sees(job[p], x)
  BY <1>3, OthersSeen
<1> QED
  BY <1>1, <1>2, <1>3, <1>4, <1>5, NewSeen

\* The last write of a mutation: the brain gains the operation, new to all.
LEMMA RecordSeen ==
    ASSUME OneProcess, HoldsInv, SerialInv, NEW p \in Procs, Write(p), Len(job[p].queue) = 1,
           job[p].kind = "mutate"
    PROVE  Atomic!Next
<1>1. At(p, "write") /\ dirs' = dirs /\ job'[p] = Idle
      /\ \E content : disk' = [disk EXCEPT ![job[p].queue[1][1]] = content]
  BY WriteJob DEF Write, WriteFacts
<1>2. PICK j, b : j = job[p] /\ b = j.brain
  OBVIOUS
<1>3. b \in BrainIds /\ Commits(j, b) /\ b \in dirs
  BY <1>1, <1>2, MutationAt, CommitFacts
<1>4. SerialJob(j) /\ MutationHolds(j)
  BY <1>1, <1>2 DEF SerialInv, SerialJob, At, Idle
<1>5. /\ disk'[ManifestFile(b)] = Whole(NewManifest(j)) /\ disk'[StateFile(b)] = Whole(NewBlob(j))
      /\ disk'[KeyFile(b)] = disk[KeyFile(b)]
  <2>1. /\ disk'[ManifestFile(b)] = disk[ManifestFile(b)] /\ disk'[StateFile(b)] = Whole(j.queue[1][2])
        /\ disk'[KeyFile(b)] = disk[KeyFile(b)]
    BY <1>2, <1>4, SerialWritten
  <2> QED
    BY <1>2, <1>4, <2>1 DEF MutationHolds
<1>6. /\ NewManifest(j).id = b /\ NewManifest(j).state = j.op /\ Verified(NewManifest(j))
      /\ NewBlob(j).by = j.op /\ NewBlob(j).aad = b /\ NewBlob(j).log = j.blob.log \cup {j.op}
  <2>1. j.op \in Nat /\ j.m.pub \in Nat /\ j.m.id = b
    BY <1>2, <1>4 DEF SerialJob, HoldsInv, MutationHolds, Manifests
  <2> QED
    BY <1>2, <1>3, <2>1, SignFacts DEF NewManifest, NewBlob, Resigned, Blob, Recorded
<1>7. Loads(b)' /\ Content(StateFile(b))'.log = j.blob.log \cup {j.op}
  <2>1. /\ CanRead(ManifestFile(b))' /\ Content(ManifestFile(b))' = NewManifest(j)
        /\ CanRead(StateFile(b))' /\ Content(StateFile(b))' = NewBlob(j)
    BY <1>5 DEF CanRead, Content, Whole
  <2>2. CanRead(KeyFile(b))' /\ Content(KeyFile(b))'.aad = b
    BY <1>2, <1>4, <1>5 DEF MutationHolds, CanRead, Content
  <2> QED
    BY <1>6, <2>1, <2>2 DEF Loads, ChecksumMatches, Decrypts
<1>8. \A x : (Commits(job[p], x) <=> x = b) /\ ~Commits(job'[p], x)
  BY <1>1, <1>2, <1>3 DEF Commits, Idle
<1>9. Shown(job[p], dirs) = dirs /\ Shown(job'[p], dirs') = dirs
  BY <1>1, <1>8 DEF Shown, Hidden
<1>10. Sees(job[p], b) = {j.blob.log} /\ Sees(job[p], b)' = {j.blob.log \cup {j.op}}
  BY <1>2, <1>7, <1>8 DEF Sees
<1>11. \A x \in dirs \ {b} : Sees(job[p], x)' = Sees(job[p], x)
  BY <1>1, <1>2, <1>3, OthersSeen
<1>12. b \in DOMAIN VisibleBrains /\ VisibleBrains' = [VisibleBrains EXCEPT ![b] = {j.blob.log \cup {j.op}}]
  BY <1>3, <1>9, <1>10, <1>11, OneSeen
<1>13. VisibleBrains = [x \in dirs |-> Sees(job[p], x)]
  BY <1>9, OneSees
<1>14. ASSUME NEW x \in dirs, NEW other \in Sees(job[p], x)
       PROVE  j.op \notin other
  <2>1. CASE x = b
    BY <1>4, <1>10, <1>14, <2>1 DEF MutationHolds, Older
  <2>2. CASE x # b
    <3>1. other = Content(StateFile(x)).log /\ Loads(x) /\ x \in BrainIds
      BY <1>8, <1>14, <2>2 DEF Sees, HoldsInv
    <3>2. CanRead(StateFile(x))
      BY <3>1 DEF Loads
    <3>3. Older(ops, Content(StateFile(x))) /\ j.op = ops
      BY <1>2, <1>4, <3>1, <3>2 DEF SerialJob
    <3> QED
      BY <3>1, <3>3 DEF Older
  <2> QED
    BY <2>1, <2>2
<1>15. j.op \in 0..MaxOps
  BY <1>4, StoreAssumption DEF SerialJob, SerialInv, HoldsInv
<1>16. Atomic!Record(b)
  <2>1. j.blob.log \in VisibleBrains[b]
    BY <1>3, <1>10, <1>13
  <2>2. \A x \in DOMAIN VisibleBrains : \A other \in VisibleBrains[x] : j.op \notin other
    BY <1>13, <1>14
  <2> QED
    BY <1>12, <1>15, <2>1, <2>2 DEF Atomic!Record
<1> QED
  BY <1>12, <1>16 DEF Atomic!Next

\* A process dies in a mutation: nothing was written, or the brain is lost.
LEMMA LoseSeen ==
    ASSUME OneProcess, HoldsInv, SerialInv, NEW p \in Procs, Crash(p), At(p, "write"),
           job[p].kind = "mutate"
    PROVE  VisibleBrains' = VisibleBrains \/ Atomic!Next
<1>1. dirs' = dirs /\ job'[p] = Idle /\ UNCHANGED disk
  BY EndsFacts DEF Crash, HoldsInv
<1>2. PICK j, b : j = job[p] /\ b = j.brain
  OBVIOUS
<1>3. b \in BrainIds /\ Commits(j, b) /\ b \in dirs /\ Len(j.queue) \in 1..2
  BY <1>2, MutationAt, CommitFacts DEF Total
<1>4. SerialJob(j) /\ MutationHolds(j)
  BY <1>2 DEF SerialInv, SerialJob, At, Idle
<1>5. \A x : (Commits(job[p], x) <=> x = b) /\ ~Commits(job'[p], x)
  BY <1>1, <1>2, <1>3 DEF Commits, Idle
<1>6. Shown(job[p], dirs) = dirs /\ Shown(job'[p], dirs') = dirs
  BY <1>1, <1>2, <1>5 DEF Shown, Hidden
<1>7. Loads(b)' <=> Loads(b)
  BY <1>1 DEF Loads, CanRead, Content
<1>8. Sees(job[p], b) = {j.blob.log}
      /\ Sees(job[p], b)' = IF Loads(b) THEN {Content(StateFile(b)).log} ELSE {}
  BY <1>1, <1>2, <1>5, <1>7 DEF Sees, Content
<1>9. \A x \in dirs \ {b} : Sees(job[p], x)' = Sees(job[p], x)
  BY <1>1, <1>2, <1>3, OthersSeen
<1>10. CASE Loads(b)
  <2>1. CanRead(ManifestFile(b)) /\ CanRead(StateFile(b))
        /\ ChecksumMatches(Content(ManifestFile(b)), Content(StateFile(b)))
    BY <1>10 DEF Loads
  <2>2. disk[StateFile(b)] = Whole(j.blob)
    BY <1>2, <1>4, <2>1 DEF MutationHolds, CanRead, Empty
  <2>3. Content(StateFile(b)).log = j.blob.log
    BY <2>2 DEF Content, Whole
  <2> QED
    BY <1>1, <1>6, <1>8, <1>9, <1>10, <2>3, SameSeen
<1>11. CASE ~Loads(b)
  <2>1. Sees(job[p], b)' = {}
    BY <1>8, <1>11
  <2>2. b \in DOMAIN VisibleBrains /\ VisibleBrains' = [VisibleBrains EXCEPT ![b] = {}]
    BY <1>3, <1>6, <1>9, <2>1, OneSeen
  <2> QED
    BY <2>2 DEF Atomic!Next, Atomic!Lose
<1> QED
  BY <1>10, <1>11

\* A write is not seen unless it is the last of a commit.
LEMMA WriteSeen ==
    ASSUME OneProcess, HoldsInv, SerialInv, NEW p \in Procs, Write(p)
    PROVE  VisibleBrains' = VisibleBrains \/ Atomic!Next
<1>1. At(p, "write") /\ dirs' = dirs /\ WriteFacts(p)
  BY WriteJob DEF Write
<1>2. PICK content : disk' = [disk EXCEPT ![job[p].queue[1][1]] = content]
  BY <1>1 DEF WriteFacts
<1>3. CASE Len(job[p].queue) # 1
  <2>1. /\ job'[p].at = "write" /\ job'[p].kind = job[p].kind /\ job'[p].brain = job[p].brain
        /\ \A f \in {"m", "blob"} \cap DOMAIN job[p] : job'[p][f] = job[p][f]
    BY <1>1, <1>3 DEF WriteFacts
  <2> QED
    BY <1>1, <1>2, <2>1, GoOnSeen
<1>4. CASE Len(job[p].queue) = 1
  <2>1. job'[p] = Idle
    BY <1>1, <1>4 DEF WriteFacts
  <2>2. CASE job[p].kind = "mutate"
    BY <1>4, <2>2, RecordSeen
  <2>3. CASE job[p].kind # "mutate" /\ job[p].kind \in Committing
    <3>1. PICK b : Commits(job[p], b)
      BY <1>1, <2>3 DEF Commits, At
    <3> QED
      BY <1>1, <1>2, <1>4, <2>1, <2>3, <3>1, MadeAppears
  <2>4. CASE job[p].kind \notin Committing
    BY <1>1, <1>2, <2>1, <2>4, EndSeen DEF Commits
  <2> QED
    BY <2>2, <2>3, <2>4
<1> QED
  BY <1>3, <1>4

\* A process dies: nothing is seen, or a brain is lost or there at last.
LEMMA CrashSeen ==
    ASSUME OneProcess, HoldsInv, SerialInv, NEW p \in Procs, Crash(p)
    PROVE  VisibleBrains' = VisibleBrains \/ Atomic!Next
<1>1. dirs' = dirs /\ job'[p] = Idle /\ UNCHANGED disk
  BY EndsFacts DEF Crash, HoldsInv
<1>2. CASE \A x : ~Commits(job[p], x)
  BY <1>1, <1>2, EndSeen
<1>3. CASE \E x : Commits(job[p], x)
  <2>1. PICK b : Commits(job[p], b)
    BY <1>3
  <2>2. CASE job[p].kind = "mutate"
    BY <2>1, <2>2, LoseSeen DEF Commits, At
  <2>3. CASE job[p].kind # "mutate"
    BY <1>1, <2>1, <2>3, MadeAppears
  <2> QED
    BY <2>2, <2>3
<1> QED
  BY <1>2, <1>3

-----------------------------------------------------------------------------
\* The store implements the atomic brains

\* The initial states map to initial states.
LEMMA AtomicInit == OneProcess /\ Init => Atomic!Init
<1> SUFFICES ASSUME OneProcess, Init
             PROVE  Atomic!Init
  OBVIOUS
<1>1. HoldsInv /\ \A b : \A p \in Procs : ~Commits(job[p], b)
  BY InitHolds DEF Init, Commits, Idle
<1>2. dirs \in SUBSET BrainIds
  BY <1>1 DEF HoldsInv
<1>3. VisibleBrains = [b \in dirs |-> IF Loads(b) THEN {Content(StateFile(b)).log} ELSE {}]
  <2>1. {x \in dirs : ~\E p \in Procs : /\ At(p, "write") /\ job[p].brain = x
                                        /\ job[p].kind \in {"create", "import"}} = dirs
    BY DEF Init, At, Idle
  <2>2. \A b : ~CommittingOn(b)
    BY DEF Init, CommittingOn, At, Idle
  <2> QED
    BY <2>1, <2>2 DEF VisibleBrains, Visible
<1>4. ASSUME NEW b \in dirs
      PROVE  (IF Loads(b) THEN {Content(StateFile(b)).log} ELSE {}) \in Atomic!Contents
  <2>1. ASSUME Loads(b)
        PROVE  Content(StateFile(b)).log \subseteq 0..MaxOps
    <3>1. PICK logs : Holds(logs)
      BY <1>1 DEF HoldsInv
    <3>2. CanRead(StateFile(b)) /\ StateFile(b) \in Paths /\ StateFile(b)[2] = "state.enc"
      BY <1>2, <1>4, <2>1 DEF Loads, Paths, StateFile
    <3>3. Content(StateFile(b)) \in Blobs(logs)
      BY <3>1, <3>2, ContentFits DEF Fits
    <3>4. Content(StateFile(b)).log \subseteq 0..ops
      BY <3>1, <3>3 DEF Blobs, Holds, History
    <3>5. 0..ops \subseteq 0..MaxOps
      BY StoreAssumption DEF Init
    <3> QED
      BY <3>4, <3>5
  <2> QED
    BY <2>1 DEF Atomic!Contents
<1>5. VisibleBrains \in [dirs -> Atomic!Contents]
  BY <1>3, <1>4
<1> QED
  BY <1>2, <1>5 DEF Atomic!Init

\* Every step maps to a step or to a stutter.
LEMMA AtomicStep == OneProcess /\ HoldsInv /\ SerialInv /\ [Next]_vars => [Atomic!Next]_VisibleBrains
<1> SUFFICES ASSUME OneProcess, HoldsInv, SerialInv, [Next]_vars
             PROVE  Atomic!Next \/ VisibleBrains' = VisibleBrains
  OBVIOUS
<1>1. CASE UNCHANGED vars
  <2>1. \A b : Visible(b)' = Visible(b)
    BY <1>1 DEF vars, Visible, CommittingOn, At, Loads, CanRead, Content
  <2>2. UNCHANGED <<dirs, job>>
    BY <1>1 DEF vars
  <2> QED
    BY <2>1, <2>2 DEF VisibleBrains, At
<1> QED
  BY <1>1, MostAreQuiet, QuietSeen, CreateSeen, MutateSeen, TargetSeen, TruncateSeen, WriteSeen,
     CrashSeen
     DEF Next, Finished

\* One process at a time, crashes included: the store is a map of brains to
\* logs in which a brain appears, gains one operation or is lost for good, and
\* what one operation does to a brain leaves the others alone.
THEOREM AtomicTheorem == OneProcess => (Spec => ImplementsAtomicBrains)
<1> SUFFICES ASSUME OneProcess
             PROVE  Spec => ImplementsAtomicBrains
  OBVIOUS
<1>1. Init => HoldsInv /\ SerialInv /\ Atomic!Init
  BY InitHolds, SerialInit, AtomicInit
<1>2. HoldsInv /\ SerialInv /\ [Next]_vars => HoldsInv' /\ SerialInv' /\ [Atomic!Next]_VisibleBrains
  BY NextHolds, SerialNext, AtomicStep
<1> QED
  BY <1>1, <1>2, PTL DEF Spec, ImplementsAtomicBrains, Atomic!Spec

=============================================================================
