--------------------------- MODULE BrainStoreProofs -------------------------
(***************************************************************************)
(* Proofs about BrainStore, for any number of processes, brains and API    *)
(* keys: what the files and the processes hold, whatever crashes and races *)
(* there were.  BrainPromisesProofs goes on from here.                     *)
(***************************************************************************)
EXTENDS BrainStore, SequenceTheorems, TLAPS

-----------------------------------------------------------------------------
\* What files and processes hold.  The parameter logs gives each operation that
\* has encrypted a state the log it encrypted; d are the directories.

\* Whoever signs takes the number of one operation for the time and the state.
Manifests ==
    {m \in [id : BrainIds, updated : Nat, state : Nat, pub : Nat, sig : BrainIds \X Nat \X Nat \X Nat] :
        m.sig[2] = m.sig[3]}

Blobs(logs) ==
    {x \in [by : DOMAIN logs, aad : BrainIds, log : SUBSET (DOMAIN logs)] : x.log = logs[x.by]}

Keys == [pub : Nat, aad : BrainIds]

\* A package of a brain that is not here was not made of files that were raced.
Packages(logs, d) ==
    {x \in [m : Manifests, blob : Blobs(logs), key : Keys] :
        x.m.id \in d \/ (x.blob.aad = x.m.id /\ x.key.aad = x.m.id)}

Functional(mappings) == \A m, n \in mappings : m[1] = n[1] => m = n

Fits(logs, d, path, value) ==
    /\ path[2] = "brain.json" => value \in Manifests /\ value.id = path[1]
    /\ path[2] = "state.enc" => value \in Blobs(logs)
    /\ path[2] = "signing_key.enc" => value \in Keys
    /\ path[2] = "api_keys.json" => Functional(value)
    /\ path[2] = "brain.cbrain" => value \in Packages(logs, d)

FileHolds(logs, d, path, file) ==
    \/ file \in {Absent, Empty, Garbled}
    \/ file = Whole(file.v) /\ Fits(logs, d, path, file.v)

\* What makes a brain load.
Good(b, m, blob, key) ==
    Verified(m) /\ m.id = b /\ m.state = blob.by /\ blob.aad = b /\ key.aad = b

-----------------------------------------------------------------------------
\* Processes

Files(b) == <<ManifestFile(b), StateFile(b), KeyFile(b)>>

\* The files that an operation writes.
Total(kind) == IF kind = "mutate" THEN 2 ELSE IF kind \in Committing THEN 3 ELSE 1

Path(kind, b, n) ==
    IF kind \in Committing THEN Files(b)[n]
    ELSE IF kind = "use" THEN ConfigFile ELSE IF kind = "map" THEN MappingFile ELSE PackageFile

\* What is left to write are the last files of the operation.
QueueHolds(logs, d, j) ==
    /\ j.queue \in Seq({j.queue[i] : i \in DOMAIN j.queue})
    /\ Len(j.queue) \in 1..Total(j.kind)
    /\ \A i \in 1..Len(j.queue) :
          /\ j.queue[i][1] = Path(j.kind, j.brain, Total(j.kind) - Len(j.queue) + i)
          /\ Fits(logs, d, j.queue[i][1], j.queue[i][2])

Reading == {"manifest", "state", "key"}
HasManifest == {"state", "key", "mutate", "audit", "export"}
HasBlob == {"key", "mutate", "audit", "export"}
Loaders == {"mutate", "audit"}

KindAt(j) ==
    /\ j.at = "resolve" => j.kind \in OrActive
    /\ j.at = "list" => j.kind \in Resolving \ {"map"}
    /\ j.at \in Reading => j.kind \in {"mutate", "audit", "export"}
    /\ j.at \in {"mutate", "audit", "export"} => j.kind = j.at
    /\ j.at = "target" => j.kind = "import"
    /\ j.at = "config" => j.kind = "use"
    /\ j.at = "mappings" => j.kind = "map"
    /\ j.at = "write" => j.kind # "audit"

JobHolds(logs, d, n, j) ==
    /\ {"at", "kind", "op", "brain", "queue", "opened"} \subseteq DOMAIN j
    /\ j.at \in Steps \ {"idle"} /\ j.kind \in AllKinds /\ j.op \in 1..n
    /\ j.brain \in BrainIds /\ j.opened \in BOOLEAN
    /\ KindAt(j)
    /\ j.at \notin {"target"} => j.brain \in d
    /\ j.at \in HasManifest =>
          /\ "m" \in DOMAIN j /\ j.m \in Manifests /\ j.m.id = j.brain
          /\ j.kind \in Loaders => Verified(j.m)
    /\ j.at \in HasBlob =>
          /\ "blob" \in DOMAIN j /\ j.blob \in Blobs(logs)
          /\ j.kind \in Loaders => ChecksumMatches(j.m, j.blob) /\ Decrypts(j.m, j.blob)
    /\ j.at = "export" => "key" \in DOMAIN j /\ j.key \in Keys
    /\ j.at # "write" /\ j.kind = "mutate" => j.op \notin DOMAIN logs
    /\ j.at \in {"target", "write"} => QueueHolds(logs, d, j)
    /\ j.at # "write" => ~j.opened
    /\ j.at = "target" =>
          /\ Len(j.queue) = 3
          /\ Verified(j.queue[1][2]) /\ j.brain \notin d =>
                Good(j.brain, j.queue[1][2], j.queue[2][2], j.queue[3][2])

\* A log has operations that have encrypted a state.
History(logs) ==
    /\ DOMAIN logs \subseteq 0..ops
    /\ \A n \in DOMAIN logs : logs[n] \subseteq DOMAIN logs

Holds(logs) ==
    /\ History(logs)
    /\ \A path \in Paths : FileHolds(logs, dirs, path, disk[path])
    /\ \A p \in Procs : job[p] = Idle \/ JobHolds(logs, dirs, ops, job[p])

HoldsInv ==
    /\ DOMAIN disk = Paths /\ DOMAIN job = Procs /\ ops \in Nat /\ crashes \in Nat
    /\ dirs \subseteq BrainIds /\ damaged \subseteq BrainIds /\ DOMAIN expected \subseteq dirs
    /\ \A b \in BrainIds \ dirs : \A n \in 1..3 : disk[Files(b)[n]] = Absent
    /\ \A p, q \in Procs : job[p] # Idle /\ job[q] # Idle /\ job[p].op = job[q].op => p = q
    /\ \E logs : Holds(logs)

-----------------------------------------------------------------------------
\* What holds still does when more has been encrypted and there are more brains

Extends(logs, more) == DOMAIN logs \subseteq DOMAIN more /\ \A n \in DOMAIN logs : more[n] = logs[n]

\* A file still holds what it should.
LEMMA FitsStill ==
    ASSUME NEW logs, NEW more, Extends(logs, more), NEW d, NEW e, d \subseteq e,
           NEW path, NEW value, Fits(logs, d, path, value)
    PROVE  Fits(more, e, path, value)
<1>1. Blobs(logs) \subseteq Blobs(more)
  BY DEF Blobs, Extends
<1>2. Packages(logs, d) \subseteq Packages(more, e)
  BY <1>1 DEF Packages
<1> QED
  BY <1>1, <1>2 DEF Fits

\* So does a file that may be empty or garbled.
LEMMA FileStill ==
    ASSUME NEW logs, NEW more, Extends(logs, more), NEW d, NEW e, d \subseteq e,
           NEW path, NEW file, FileHolds(logs, d, path, file)
    PROVE  FileHolds(more, e, path, file)
  BY FitsStill DEF FileHolds

\* A process still holds what it should.
LEMMA JobStill ==
    ASSUME NEW logs, NEW more, Extends(logs, more), NEW d, NEW e, d \subseteq e,
           NEW n \in Nat, NEW m \in Nat, n <= m, NEW j, JobHolds(logs, d, n, j),
           j.op \in DOMAIN more => j.op \in DOMAIN logs
    PROVE  JobHolds(more, e, m, j)
<1>1. j.blob \in Blobs(logs) => j.blob \in Blobs(more)
  BY DEF Blobs, Extends
<1>2. QueueHolds(logs, d, j) => QueueHolds(more, e, j)
  BY FitsStill DEF QueueHolds
<1>3. j.op \in 1..n => j.op \in 1..m
  OBVIOUS
<1> QED
  BY <1>1, <1>2, <1>3 DEF JobHolds

\* A step of one process, with what it is to show.
LEMMA StepHolds ==
    ASSUME HoldsInv, NEW logs, Holds(logs), NEW more, Extends(logs, more), History(more)',
           NEW p \in Procs,
           ops' \in Nat, ops <= ops', crashes' \in Nat,
           dirs \subseteq dirs', dirs' \subseteq BrainIds, damaged' \subseteq BrainIds,
           DOMAIN expected' \subseteq dirs',
           DOMAIN disk' = Paths,
           \A path \in Paths : disk'[path] = disk[path] \/ FileHolds(more, dirs', path, disk'[path]),
           \A b \in BrainIds \ dirs' : \A n \in 1..3 : disk'[Files(b)[n]] = disk[Files(b)[n]],
           DOMAIN job' = Procs, \A q \in Procs \ {p} : job'[q] = job[q],
           \/ job'[p] = Idle
           \/ /\ JobHolds(more, dirs', ops', job'[p])
              /\ \A q \in Procs \ {p} : job[q] # Idle => job[q].op # job'[p].op,
           \A q \in Procs \ {p} : job[q] # Idle /\ job[q].op \in DOMAIN more => job[q].op \in DOMAIN logs
    PROVE  HoldsInv'
<1>1. Holds(more)'
  <2>1. ASSUME NEW path \in Paths
        PROVE  FileHolds(more, dirs', path, disk'[path])
    BY FileStill DEF Holds
  <2>2. ASSUME NEW q \in Procs
        PROVE  job'[q] = Idle \/ JobHolds(more, dirs', ops', job'[q])
    <3>1. CASE q = p
      BY <3>1
    <3>2. CASE q # p /\ job[q] # Idle
      <4>1. job'[q] = job[q] /\ JobHolds(logs, dirs, ops, job[q])
        BY <3>2 DEF Holds
      <4> QED
        BY <3>2, <4>1, JobStill DEF HoldsInv
    <3> QED
      BY <3>1, <3>2
  <2> QED
    BY <2>1, <2>2 DEF Holds
<1>2. \A b \in BrainIds \ dirs' : \A n \in 1..3 : disk'[Files(b)[n]] = Absent
  BY DEF HoldsInv
<1>3. ASSUME NEW q \in Procs, NEW r \in Procs, job'[q] # Idle, job'[r] # Idle, job'[q].op = job'[r].op
      PROVE  q = r
  BY <1>3 DEF HoldsInv
<1> QED
  BY <1>1, <1>2, <1>3 DEF HoldsInv

\* A process at work holds what it should.
LEMMA BusyHolds ==
    ASSUME HoldsInv, NEW logs, Holds(logs), NEW p \in Procs, ~At(p, "idle")
    PROVE  /\ job[p] # Idle /\ JobHolds(logs, dirs, ops, job[p])
           /\ \A q \in Procs \ {p} : job[q] # Idle => job[q].op # job[p].op
  BY DEF Holds, HoldsInv, At, Idle

\* A step that only takes one process further.
LEMMA OnlyJob ==
    ASSUME HoldsInv, NEW logs, Holds(logs), NEW p \in Procs, ~At(p, "idle"),
           UNCHANGED <<disk, dirs, ops>>, crashes' \in Nat, damaged' \subseteq BrainIds,
           DOMAIN expected' \subseteq dirs,
           DOMAIN job' = Procs, \A q \in Procs \ {p} : job'[q] = job[q],
           job'[p] = Idle \/ (JobHolds(logs, dirs, ops, job'[p]) /\ job'[p].op = job[p].op)
    PROVE  HoldsInv'
<1>1. Extends(logs, logs) /\ History(logs)'
  BY DEF Extends, Holds, History
<1>2. DOMAIN disk' = Paths /\ ops' \in Nat /\ ops <= ops' /\ dirs' \subseteq BrainIds
  BY DEF HoldsInv
<1> QED
  BY <1>1, <1>2, BusyHolds, StepHolds

\* A process that ends is idle, and the others are what they were.
LEMMA EndsFacts ==
    ASSUME DOMAIN job = Procs, NEW p \in Procs, Ends(p)
    PROVE  DOMAIN job' = Procs /\ (\A q \in Procs \ {p} : job'[q] = job[q]) /\ job'[p] = Idle
  BY DEF Ends

\* What a step of an operation leaves in its process.
LEMMA GoesFacts ==
    ASSUME DOMAIN job = Procs, NEW p \in Procs, NEW step, NEW fields, Goes(p, step, fields),
           "at" \in DOMAIN job[p], "at" \notin DOMAIN fields
    PROVE  /\ DOMAIN job' = Procs /\ \A q \in Procs \ {p} : job'[q] = job[q]
           /\ DOMAIN job'[p] = DOMAIN job[p] \cup DOMAIN fields
           /\ job'[p].at = step
           /\ \A f \in DOMAIN fields : job'[p][f] = fields[f]
           /\ \A f \in DOMAIN job[p] \ (DOMAIN fields \cup {"at"}) : job'[p][f] = job[p][f]
<1>1. job'[p] = [f \in DOMAIN job[p] \cup DOMAIN fields |->
                   IF f \in DOMAIN fields THEN fields[f] ELSE IF f = "at" THEN step ELSE job[p][f]]
  BY DEF Goes
<1>2. DOMAIN job' = Procs /\ \A q \in Procs \ {p} : job'[q] = job[q]
  BY DEF Goes
<1> QED
  BY <1>1, <1>2

\* An operation that fails leaves everything but its process.
LEMMA FailsHolds ==
    ASSUME HoldsInv, NEW p \in Procs, ~At(p, "idle"), Fails(p)
    PROVE  HoldsInv'
<1>1. PICK logs : Holds(logs)
  BY DEF HoldsInv
<1>2. /\ UNCHANGED <<disk, dirs, ops>> /\ crashes' \in Nat /\ damaged' \subseteq BrainIds
      /\ DOMAIN expected' \subseteq dirs /\ DOMAIN job = Procs
  BY DEF Fails, NothingWritten, HoldsInv
<1>3. DOMAIN job' = Procs /\ (\A q \in Procs \ {p} : job'[q] = job[q]) /\ job'[p] = Idle
  BY <1>2, EndsFacts DEF Fails
<1> QED
  BY <1>1, <1>2, <1>3, OnlyJob

\* A file that can be read holds what it should.
LEMMA ContentFits ==
    ASSUME NEW logs, Holds(logs), NEW path \in Paths, CanRead(path)
    PROVE  Fits(logs, dirs, path, Content(path))
<1>1. FileHolds(logs, dirs, path, disk[path]) /\ disk[path].is = "whole"
  BY DEF Holds, CanRead
<1> QED
  BY <1>1 DEF FileHolds, Absent, Empty, Garbled, Content

\* One field more.
LEMMA GoesWith ==
    ASSUME HoldsInv, NEW p \in Procs, ~At(p, "idle"), NEW step, NEW fields, NEW name,
           DOMAIN fields = {name}, name # "at", Goes(p, step, fields)
    PROVE  /\ DOMAIN job' = Procs /\ \A q \in Procs \ {p} : job'[q] = job[q]
           /\ DOMAIN job'[p] = DOMAIN job[p] \cup {name}
           /\ job'[p].at = step /\ job'[p][name] = fields[name]
           /\ \A f \in DOMAIN job[p] \ {"at", name} : job'[p][f] = job[p][f]
<1>1. "at" \in DOMAIN job[p] /\ DOMAIN job = Procs
  BY BusyHolds DEF JobHolds, HoldsInv
<1> QED
  BY <1>1, GoesFacts

\* A load remembers what it has read and checked.
LEMMA ReadManifestHolds ==
    ASSUME HoldsInv, NEW p \in Procs, ReadManifest(p)
    PROVE  HoldsInv'
<1> DEFINE file == ManifestFile(job[p].brain)
           m == Content(file)
<1>1. PICK logs : Holds(logs)
  BY DEF HoldsInv
<1>2. ~At(p, "idle") /\ DOMAIN job = Procs /\ At(p, "manifest")
  BY DEF ReadManifest, At, HoldsInv
<1>3. JobHolds(logs, dirs, ops, job[p])
  BY <1>1, <1>2, BusyHolds
<1>4. CASE ~CanRead(file) \/ (Loading(p) /\ ~Verified(m))
  BY <1>2, <1>4, FailsHolds DEF ReadManifest
<1>5. CASE ~(~CanRead(file) \/ (Loading(p) /\ ~Verified(m)))
  <2>1. Goes(p, "state", [m |-> m]) /\ NothingWritten
    BY <1>5 DEF ReadManifest
  <2>2. file \in Paths /\ file[2] = "brain.json" /\ file[1] = job[p].brain
    BY <1>3 DEF JobHolds, ManifestFile, Paths
  <2>3. m \in Manifests /\ m.id = job[p].brain
    <3>1. Fits(logs, dirs, file, m)
      BY <1>1, <1>5, <2>2, ContentFits
    <3> QED
      BY <2>2, <3>1 DEF Fits
  <2>4. job[p].kind \in Loaders => Verified(m)
    BY <1>5 DEF Loading, Loaders
  <2>5. /\ DOMAIN job' = Procs /\ \A q \in Procs \ {p} : job'[q] = job[q]
        /\ DOMAIN job'[p] = DOMAIN job[p] \cup {"m"}
        /\ job'[p].at = "state" /\ job'[p].m = m
        /\ \A f \in DOMAIN job[p] \ {"at", "m"} : job'[p][f] = job[p][f]
    <3> DEFINE fields == [m |-> m]
    <3>1. DOMAIN fields = {"m"} /\ fields["m"] = m
      OBVIOUS
    <3> HIDE DEF fields, m
    <3>2. Goes(p, "state", fields)
      BY <2>1 DEF fields
    <3> QED
      BY <1>2, <3>1, <3>2, GoesWith
  <2> HIDE DEF m, file
  <2>6. JobHolds(logs, dirs, ops, job'[p]) /\ job'[p].op = job[p].op
    BY <1>2, <1>3, <2>3, <2>4, <2>5
       DEF JobHolds, At, Steps, KindAt, Reading, HasManifest, HasBlob
  <2> QED
    BY <1>1, <1>2, <2>1, <2>5, <2>6, OnlyJob DEF NothingWritten, HoldsInv
<1> QED
  BY <1>4, <1>5


\* Reading state.enc: a loader has a state of the manifest it read.
LEMMA ReadStateHolds ==
    ASSUME HoldsInv, NEW p \in Procs, ReadState(p)
    PROVE  HoldsInv'
<1> DEFINE file == StateFile(job[p].brain)
           blob == Content(file)
           bad == ~CanRead(file) \/ (Loading(p) /\ (~ChecksumMatches(job[p].m, blob) \/ ~Decrypts(job[p].m, blob)))
<1>1. PICK logs : Holds(logs)
  BY DEF HoldsInv
<1>2. ~At(p, "idle") /\ At(p, "state")
  BY DEF ReadState, At
<1>3. JobHolds(logs, dirs, ops, job[p])
  BY <1>1, <1>2, BusyHolds
<1>4. CASE bad
  BY <1>2, <1>4, FailsHolds DEF ReadState
<1>5. CASE ~bad
  <2>1. Goes(p, "key", [blob |-> blob]) /\ NothingWritten
    BY <1>5 DEF ReadState
  <2>2. file \in Paths /\ file[2] = "state.enc"
    BY <1>3 DEF JobHolds, StateFile, Paths
  <2>3. blob \in Blobs(logs)
    <3>1. Fits(logs, dirs, file, blob)
      BY <1>1, <1>5, <2>2, ContentFits
    <3> QED
      BY <2>2, <3>1 DEF Fits
  <2>4. job[p].kind \in Loaders => ChecksumMatches(job[p].m, blob) /\ Decrypts(job[p].m, blob)
    BY <1>5 DEF Loading, Loaders
  <2>5. /\ DOMAIN job' = Procs /\ \A q \in Procs \ {p} : job'[q] = job[q]
        /\ DOMAIN job'[p] = DOMAIN job[p] \cup {"blob"}
        /\ job'[p].at = "key" /\ job'[p].blob = blob
        /\ \A f \in DOMAIN job[p] \ {"at", "blob"} : job'[p][f] = job[p][f]
    <3> DEFINE fields == [blob |-> blob]
    <3>1. DOMAIN fields = {"blob"} /\ fields["blob"] = blob
      OBVIOUS
    <3> HIDE DEF fields, blob
    <3>2. Goes(p, "key", fields)
      BY <2>1 DEF fields
    <3> QED
      BY <1>2, <3>1, <3>2, GoesWith
  <2> HIDE DEF blob, file
  <2>6. JobHolds(logs, dirs, ops, job'[p]) /\ job'[p].op = job[p].op
    BY <1>2, <1>3, <2>3, <2>4, <2>5
       DEF JobHolds, At, Steps, KindAt, Reading, HasManifest, HasBlob
  <2> QED
    BY <1>1, <1>2, <2>1, <2>5, <2>6, OnlyJob DEF NothingWritten, HoldsInv
<1> QED
  BY <1>4, <1>5

\* Reading the signing key: the operation goes on to what it is for.
LEMMA ReadKeyHolds ==
    ASSUME HoldsInv, NEW p \in Procs, ReadKey(p)
    PROVE  HoldsInv'
<1> DEFINE file == KeyFile(job[p].brain)
           key == Content(file)
           bad == ~CanRead(file) \/ (Loading(p) /\ ~Decrypts(job[p].m, key))
<1>1. PICK logs : Holds(logs)
  BY DEF HoldsInv
<1>2. ~At(p, "idle") /\ At(p, "key")
  BY DEF ReadKey, At
<1>3. JobHolds(logs, dirs, ops, job[p])
  BY <1>1, <1>2, BusyHolds
<1>4. CASE bad
  BY <1>2, <1>4, FailsHolds DEF ReadKey
<1>5. CASE ~bad
  <2>1. Goes(p, job[p].kind, [key |-> key]) /\ NothingWritten
    BY <1>5 DEF ReadKey
  <2>2. file \in Paths /\ file[2] = "signing_key.enc"
    BY <1>3 DEF JobHolds, KeyFile, Paths
  <2>3. key \in Keys
    <3>1. Fits(logs, dirs, file, key)
      BY <1>1, <1>5, <2>2, ContentFits
    <3> QED
      BY <2>2, <3>1 DEF Fits
  <2>4. TRUE
    BY <1>5 DEF Loading, Loaders
  <2>5. /\ DOMAIN job' = Procs /\ \A q \in Procs \ {p} : job'[q] = job[q]
        /\ DOMAIN job'[p] = DOMAIN job[p] \cup {"key"}
        /\ job'[p].at = job[p].kind /\ job'[p].key = key
        /\ \A f \in DOMAIN job[p] \ {"at", "key"} : job'[p][f] = job[p][f]
    <3> DEFINE fields == [key |-> key]
    <3>1. DOMAIN fields = {"key"} /\ fields["key"] = key
      OBVIOUS
    <3> HIDE DEF fields, key
    <3>2. Goes(p, job[p].kind, fields)
      BY <2>1 DEF fields
    <3> QED
      BY <1>2, <3>1, <3>2, GoesWith
  <2> HIDE DEF key, file
  <2>6. JobHolds(logs, dirs, ops, job'[p]) /\ job'[p].op = job[p].op
    BY <1>2, <1>3, <2>3, <2>4, <2>5
       DEF JobHolds, At, Steps, KindAt, Reading, HasManifest, HasBlob
  <2> QED
    BY <1>1, <1>2, <2>1, <2>5, <2>6, OnlyJob DEF NothingWritten, HoldsInv
<1> QED
  BY <1>4, <1>5

\* A queue that holds before a job has it, holds in the job.
LEMMA QueueOfJob ==
    ASSUME NEW logs, NEW d, NEW j, NEW queue, j.queue = queue,
           queue \in Seq({queue[i] : i \in DOMAIN queue}), Len(queue) \in 1..Total(j.kind),
           \A i \in 1..Len(queue) :
              /\ queue[i][1] = Path(j.kind, j.brain, Total(j.kind) - Len(queue) + i)
              /\ Fits(logs, d, queue[i][1], queue[i][2])
    PROVE  QueueHolds(logs, d, j)
  BY DEF QueueHolds

\* An operation on one file goes on to write it.
LEMMA WritesOne ==
    ASSUME HoldsInv, NEW logs, Holds(logs), NEW p \in Procs, ~At(p, "idle"), ~job[p].opened,
           job[p].kind \in {"use", "map", "export"}, job[p].brain \in dirs, NEW path, NEW value,
           path = Path(job[p].kind, job[p].brain, 1), Fits(logs, dirs, path, value),
           Writes(p, <<<<path, value>>>>), NothingWritten
    PROVE  HoldsInv'
<1> DEFINE queue == <<<<path, value>>>>
           fields == [queue |-> queue]
<1>1. DOMAIN fields = {"queue"} /\ fields["queue"] = queue
  OBVIOUS
<1>2. /\ Len(queue) = 1 /\ queue[1][1] = path /\ queue[1][2] = value
      /\ queue \in Seq({queue[i] : i \in DOMAIN queue})
  <2>1. queue \in Seq({<<path, value>>}) /\ DOMAIN queue = {1} /\ queue[1] = <<path, value>>
    OBVIOUS
  <2>2. {queue[i] : i \in DOMAIN queue} = {<<path, value>>}
    BY <2>1
  <2> QED
    BY <2>1, <2>2
<1>3. JobHolds(logs, dirs, ops, job[p])
  BY BusyHolds
<1> HIDE DEF fields
<1>4. Goes(p, "write", fields)
  BY DEF Writes, fields
<1> HIDE DEF queue
<1>5. /\ DOMAIN job' = Procs /\ \A q \in Procs \ {p} : job'[q] = job[q]
      /\ DOMAIN job'[p] = DOMAIN job[p] \cup {"queue"}
      /\ job'[p].at = "write" /\ job'[p].queue = queue
      /\ \A f \in DOMAIN job[p] \ {"at", "queue"} : job'[p][f] = job[p][f]
  BY <1>1, <1>4, GoesWith
<1>6. \A f \in {"kind", "op", "brain", "opened"} : f \in DOMAIN job'[p] /\ job'[p][f] = job[p][f]
  BY <1>3, <1>5 DEF JobHolds
<1>7. QueueHolds(logs, dirs, job'[p])
  <2>1. Total(job'[p].kind) = 1
    BY <1>6 DEF Total, Committing
  <2>2. ASSUME NEW i \in 1..Len(queue)
        PROVE  /\ queue[i][1] = Path(job'[p].kind, job'[p].brain, Total(job'[p].kind) - Len(queue) + i)
               /\ Fits(logs, dirs, queue[i][1], queue[i][2])
    <3>1. i = 1 /\ Total(job'[p].kind) - Len(queue) + i = 1
      BY <1>2, <2>1
    <3> QED
      BY <1>2, <1>6, <3>1
  <2>3. Len(queue) \in 1..Total(job'[p].kind)
    BY <1>2, <2>1
  <2> QED
    BY <1>2, <1>5, <2>2, <2>3, QueueOfJob, SMTT(30)
<1>8. JobHolds(logs, dirs, ops, job'[p]) /\ job'[p].op = job[p].op
  <2>1. /\ {"at", "kind", "op", "brain", "queue", "opened"} \subseteq DOMAIN job'[p]
        /\ job'[p].kind \in AllKinds /\ job'[p].op \in 1..ops /\ job'[p].brain \in BrainIds
        /\ job'[p].brain \in dirs /\ ~job'[p].opened /\ job'[p].opened \in BOOLEAN
    BY <1>3, <1>5, <1>6 DEF JobHolds
  <2>2. /\ job'[p].at \in Steps \ {"idle"} /\ job'[p].at = "write"
        /\ job'[p].at \notin HasManifest \cup HasBlob \cup {"export", "target"}
    BY <1>5 DEF Steps, HasManifest, HasBlob, Reading
  <2>3. KindAt(job'[p])
    BY <1>6, <2>2 DEF KindAt, Reading
  <2> QED
    BY <1>6, <1>7, <2>1, <2>2, <2>3 DEF JobHolds
<1> QED
  BY <1>5, <1>8, OnlyJob DEF NothingWritten, HoldsInv

\* export_brain makes its package of the files of a brain that is here.
LEMMA ExportHolds ==
    ASSUME HoldsInv, NEW p \in Procs, Export(p)
    PROVE  HoldsInv'
<1> DEFINE package == [m |-> job[p].m, blob |-> job[p].blob, key |-> job[p].key]
<1>1. PICK logs : Holds(logs)
  BY DEF HoldsInv
<1>2. ~At(p, "idle") /\ At(p, "export")
  BY DEF Export, At
<1>3. JobHolds(logs, dirs, ops, job[p])
  BY <1>1, <1>2, BusyHolds
<1>4. CASE ~Verified(job[p].m)
  BY <1>2, <1>4, FailsHolds DEF Export
<1>5. CASE Verified(job[p].m)
  <2>1. package \in Packages(logs, dirs)
    BY <1>2, <1>3 DEF JobHolds, At, HasManifest, HasBlob, Packages
  <2>2. PackageFile[2] = "brain.cbrain" /\ PackageFile = Path(job[p].kind, job[p].brain, 1)
    BY <1>2, <1>3 DEF PackageFile, Path, JobHolds, KindAt, At, Committing
  <2>3. Fits(logs, dirs, PackageFile, package)
    BY <2>1, <2>2 DEF Fits
  <2>4. Writes(p, <<<<PackageFile, package>>>>) /\ NothingWritten
    BY <1>5 DEF Export
  <2>5. job[p].kind = "export" /\ job[p].brain \in dirs /\ ~job[p].opened
    BY <1>2, <1>3 DEF JobHolds, KindAt, At
  <2> HIDE DEF package
  <2> QED
    BY <1>1, <1>2, <2>2, <2>3, <2>4, <2>5, WritesOne
<1> QED
  BY <1>4, <1>5

\* set_active_brain
LEMMA UseBrainHolds ==
    ASSUME HoldsInv, NEW p \in Procs, UseBrain(p)
    PROVE  HoldsInv'
<1>1. PICK logs : Holds(logs)
  BY DEF HoldsInv
<1>2. ~At(p, "idle") /\ At(p, "config")
  BY DEF UseBrain, At
<1>3. JobHolds(logs, dirs, ops, job[p])
  BY <1>1, <1>2, BusyHolds
<1>4. CASE Fails(p)
  BY <1>2, <1>4, FailsHolds
<1>5. CASE Writes(p, <<<<ConfigFile, job[p].brain>>>>) /\ NothingWritten
  <2>1. job[p].kind = "use" /\ job[p].brain \in dirs /\ ~job[p].opened
    BY <1>2, <1>3 DEF JobHolds, KindAt, At
  <2>2. ConfigFile = Path(job[p].kind, job[p].brain, 1) /\ Fits(logs, dirs, ConfigFile, job[p].brain)
    BY <2>1 DEF ConfigFile, Path, Committing, Fits
  <2> QED
    BY <1>1, <1>2, <1>5, <2>1, <2>2, WritesOne
<1> QED
  BY <1>4, <1>5 DEF UseBrain

\* map_api_key replaces what the key was mapped to.
LEMMA MapKeyHolds ==
    ASSUME HoldsInv, NEW p \in Procs, NEW k \in ApiKeys, MapKey(p, k)
    PROVE  HoldsInv'
<1> DEFINE mappings == Remapped(Mappings, k, job[p].brain)
<1>1. PICK logs : Holds(logs)
  BY DEF HoldsInv
<1>2. ~At(p, "idle") /\ At(p, "mappings")
  BY DEF MapKey, At
<1>3. JobHolds(logs, dirs, ops, job[p])
  BY <1>1, <1>2, BusyHolds
<1>4. CASE Fails(p)
  BY <1>2, <1>4, FailsHolds
<1>5. CASE disk[MappingFile].is \in {"absent", "whole"} /\ ~Fails(p)
  <2>1. job[p].kind = "map" /\ job[p].brain \in dirs /\ ~job[p].opened
    BY <1>2, <1>3 DEF JobHolds, KindAt, At
  <2>2. Functional(Mappings)
    <3>1. CASE disk[MappingFile].is = "absent"
      BY <3>1 DEF Mappings, Functional
    <3>2. CASE disk[MappingFile].is = "whole"
      <4>1. MappingFile \in Paths /\ MappingFile[2] = "api_keys.json" /\ CanRead(MappingFile)
        BY <3>2 DEF Paths, MappingFile, CanRead
      <4>2. Fits(logs, dirs, MappingFile, Content(MappingFile))
        BY <1>1, <4>1, ContentFits
      <4> QED
        BY <3>2, <4>1, <4>2 DEF Fits, Mappings
    <3> QED
      BY <1>5, <3>1, <3>2
  <2>3. Functional(mappings)
    <3>1. \A b : <<k, b>>[1] = k
      OBVIOUS
    <3> QED
      BY <2>2, <3>1 DEF Functional, Remapped
  <2>4. MappingFile = Path(job[p].kind, job[p].brain, 1) /\ Fits(logs, dirs, MappingFile, mappings)
    BY <2>1, <2>3 DEF MappingFile, Path, Committing, Fits
  <2>5. Writes(p, <<<<MappingFile, mappings>>>>) /\ NothingWritten
    BY <1>5 DEF MapKey
  <2> HIDE DEF mappings
  <2> QED
    BY <1>1, <1>2, <2>1, <2>4, <2>5, WritesOne
<1> QED
  BY <1>4, <1>5 DEF MapKey

\* What is signed at once verifies.
LEMMA SignFacts ==
    ASSUME NEW id \in BrainIds, NEW op \in Nat, NEW pub \in Nat
    PROVE  /\ Sign(id, op, op, pub) \in Manifests /\ Verified(Sign(id, op, op, pub))
           /\ Sign(id, op, op, pub).id = id /\ Sign(id, op, op, pub).state = op
  BY DEF Sign, Manifests, Verified

\* The sequence of two writes.
LEMMA SeqOfTwo ==
    ASSUME NEW x, NEW y
    PROVE  LET queue == <<x, y>> IN
           /\ queue \in Seq({queue[i] : i \in DOMAIN queue})
           /\ Len(queue) = 2 /\ queue[1] = x /\ queue[2] = y
<1> DEFINE queue == <<x, y>>
<1>1. queue \in Seq({x, y}) /\ DOMAIN queue = {1, 2} /\ queue[1] = x /\ queue[2] = y /\ Len(queue) = 2
  OBVIOUS
<1> HIDE DEF queue
<1>2. {queue[i] : i \in DOMAIN queue} = {x, y}
  BY <1>1
<1>3. queue \in Seq({queue[i] : i \in DOMAIN queue})
  BY <1>1, <1>2
<1> QED
  BY <1>1, <1>3 DEF queue

\* The sequence of three writes.
LEMMA SeqOfThree ==
    ASSUME NEW x, NEW y, NEW z
    PROVE  LET queue == <<x, y, z>> IN
           /\ queue \in Seq({queue[i] : i \in DOMAIN queue})
           /\ Len(queue) = 3 /\ queue[1] = x /\ queue[2] = y /\ queue[3] = z
<1> DEFINE queue == <<x, y, z>>
<1>1. /\ queue \in Seq({x, y, z}) /\ DOMAIN queue = {1, 2, 3} /\ Len(queue) = 3
      /\ queue[1] = x /\ queue[2] = y /\ queue[3] = z
  OBVIOUS
<1> HIDE DEF queue
<1>2. {queue[i] : i \in DOMAIN queue} = {x, y, z}
  BY <1>1
<1>3. queue \in Seq({queue[i] : i \in DOMAIN queue})
  BY <1>1, <1>2
<1> QED
  BY <1>1, <1>3 DEF queue

\* The writes of a commit are those of its kind, in their order.
LEMMA PathFacts ==
    ASSUME NEW kind, NEW b
    PROVE  kind \in Committing =>
               /\ Path(kind, b, 1) = ManifestFile(b) /\ Path(kind, b, 2) = StateFile(b)
               /\ Path(kind, b, 3) = KeyFile(b)
  BY DEF Path, Files

\* What a mutation is about to write, and what it leaves in its process.
MutateFacts(p) ==
    LET op == job[p].op  b == job[p].brain
        queue == <<<<ManifestFile(b), Resigned(job[p].m, op)>>,
                   <<StateFile(b), Blob(op, b, Recorded(job[p].blob.log, op))>>>>
    IN  /\ DOMAIN job' = Procs /\ \A q \in Procs \ {p} : job'[q] = job[q]
        /\ DOMAIN job'[p] = DOMAIN job[p] \cup {"queue"}
        /\ job'[p].at = "write" /\ job'[p].queue = queue
        /\ \A f \in {"kind", "op", "brain", "opened", "m", "blob"} : job'[p][f] = job[p][f]
        /\ job[p].kind = "mutate" /\ ~job[p].opened

\* What a process holds when it has decided what to write.
LEMMA MutateJob ==
    ASSUME HoldsInv, NEW p \in Procs, Mutate(p)
    PROVE  MutateFacts(p)
<1> DEFINE op == job[p].op
           b == job[p].brain
           queue == <<<<ManifestFile(b), Resigned(job[p].m, op)>>,
                      <<StateFile(b), Blob(op, b, Recorded(job[p].blob.log, op))>>>>
           fields == [queue |-> queue]
<1>1. PICK logs : Holds(logs)
  BY DEF HoldsInv
<1>2. ~At(p, "idle") /\ At(p, "mutate")
  BY DEF Mutate, At
<1>3. JobHolds(logs, dirs, ops, job[p])
  BY <1>1, <1>2, BusyHolds
<1>4. DOMAIN fields = {"queue"} /\ fields["queue"] = queue
  OBVIOUS
<1> HIDE DEF fields
<1>5. Goes(p, "write", fields)
  BY DEF Mutate, Writes, fields
<1> HIDE DEF queue
<1>6. /\ DOMAIN job' = Procs /\ \A q \in Procs \ {p} : job'[q] = job[q]
      /\ DOMAIN job'[p] = DOMAIN job[p] \cup {"queue"}
      /\ job'[p].at = "write" /\ job'[p].queue = queue
      /\ \A f \in DOMAIN job[p] \ {"at", "queue"} : job'[p][f] = job[p][f]
  BY <1>2, <1>4, <1>5, GoesWith
<1>7. /\ {"kind", "op", "brain", "opened", "m", "blob"} \subseteq DOMAIN job[p]
      /\ job[p].kind = "mutate" /\ ~job[p].opened
  BY <1>2, <1>3 DEF JobHolds, KindAt, At, HasManifest, HasBlob
<1> QED
  BY <1>6, <1>7 DEF MutateFacts, queue

\* A mutation encrypts, once for its number.
LEMMA MutateHolds ==
    ASSUME HoldsInv, NEW p \in Procs, Mutate(p)
    PROVE  HoldsInv'
<1> DEFINE op == job[p].op
           b == job[p].brain
           log == Recorded(job[p].blob.log, op)
           m == Resigned(job[p].m, op)
           blob == Blob(op, b, log)
           queue == <<<<ManifestFile(b), m>>, <<StateFile(b), blob>>>>
<1>1. PICK logs : Holds(logs)
  BY DEF HoldsInv
<1>2. ~At(p, "idle") /\ At(p, "mutate")
  BY DEF Mutate, At
<1>3. JobHolds(logs, dirs, ops, job[p]) /\ \A q \in Procs \ {p} : job[q] # Idle => job[q].op # op
  BY <1>1, <1>2, BusyHolds
<1>4. /\ op \in 1..ops /\ op \notin DOMAIN logs /\ b \in BrainIds /\ b \in dirs
      /\ job[p].m \in Manifests /\ job[p].m.id = b /\ job[p].blob \in Blobs(logs)
  BY <1>2, <1>3 DEF JobHolds, KindAt, At, HasManifest, HasBlob
<1>m. PICK more : more = [n \in DOMAIN logs \cup {op} |-> IF n = op THEN log ELSE logs[n]]
  OBVIOUS
<1>5. Extends(logs, more) /\ DOMAIN more = DOMAIN logs \cup {op} /\ more[op] = log
  <2> HIDE DEF log
  <2> QED
    BY <1>4, <1>m DEF Extends
<1>6. History(more)' /\ log \subseteq DOMAIN more
  <2>1. ops' = ops
    BY DEF Mutate
  <2>2. log \subseteq DOMAIN logs \cup {op}
    BY <1>4 DEF Recorded, Blobs
  <2> HIDE DEF log
  <2> QED
    BY <1>1, <1>4, <1>5, <2>1, <2>2 DEF Holds, History, HoldsInv, Extends
<1>7. Fits(more, dirs, ManifestFile(b), m)
  <2>1. op \in Nat /\ job[p].m.pub \in Nat
    BY <1>4 DEF Manifests
  <2>2. m \in Manifests /\ m.id = b
    BY <1>4, <2>1, SignFacts DEF Resigned
  <2> QED
    BY <2>2 DEF Fits, ManifestFile
<1>8. Fits(more, dirs, StateFile(b), blob)
  <2>1. blob \in Blobs(more)
    <3> HIDE DEF log
    <3> QED
      BY <1>4, <1>5, <1>6 DEF Blobs, Blob
  <2> QED
    BY <2>1 DEF Fits, StateFile
<1> HIDE DEF log, m, blob
<1>9. /\ queue \in Seq({queue[i] : i \in DOMAIN queue}) /\ Len(queue) = 2
      /\ queue[1] = <<ManifestFile(b), m>> /\ queue[2] = <<StateFile(b), blob>>
  BY SeqOfTwo
<1>10. /\ DOMAIN job' = Procs /\ \A q \in Procs \ {p} : job'[q] = job[q]
       /\ DOMAIN job'[p] = DOMAIN job[p] \cup {"queue"}
       /\ job'[p].at = "write" /\ job'[p].queue = queue
       /\ job'[p].kind = "mutate" /\ job'[p].op = op /\ job'[p].brain = b /\ job'[p].opened = job[p].opened
  BY MutateJob DEF MutateFacts, m, blob, log
<1> HIDE DEF queue
<1>11. QueueHolds(more, dirs, job'[p])
  <2>1. Total(job'[p].kind) = 2
    BY <1>10 DEF Total
  <2>2. ASSUME NEW i \in 1..2
        PROVE  /\ queue[i][1] = Path("mutate", b, 2 - Len(queue) + i)
               /\ Fits(more, dirs, queue[i][1], queue[i][2])
    <3>1. (i = 1 \/ i = 2) /\ 2 - Len(queue) + i = i
      BY <1>9
    <3>2. Path("mutate", b, 1) = ManifestFile(b) /\ Path("mutate", b, 2) = StateFile(b)
      BY PathFacts DEF Committing
    <3>3. <<ManifestFile(b), m>>[1] = ManifestFile(b) /\ <<ManifestFile(b), m>>[2] = m
          /\ <<StateFile(b), blob>>[1] = StateFile(b) /\ <<StateFile(b), blob>>[2] = blob
      OBVIOUS
    <3> QED
      BY <1>7, <1>8, <1>9, <3>1, <3>2, <3>3
  <2>3. Len(queue) \in 1..2 /\ 1..Len(queue) = 1..2
    BY <1>9
  <2>4. \A i \in 1..Len(queue) :
           /\ queue[i][1] = Path(job'[p].kind, job'[p].brain, Total(job'[p].kind) - Len(queue) + i)
           /\ Fits(more, dirs, queue[i][1], queue[i][2])
    BY <1>10, <2>1, <2>2, <2>3
  <2>5. Len(queue) \in 1..Total(job'[p].kind)
    BY <2>1, <2>3
  <2>6. job'[p].queue = queue /\ queue \in Seq({queue[i] : i \in DOMAIN queue})
    BY <1>9, <1>10
  <2> QED
    BY <2>4, <2>5, <2>6, QueueOfJob, SMTT(40)
<1>12. JobHolds(more, dirs, ops, job'[p])
  <2>1. /\ {"at", "kind", "op", "brain", "queue", "opened"} \subseteq DOMAIN job'[p]
        /\ job'[p].op \in 1..ops /\ job'[p].brain \in BrainIds
        /\ job'[p].brain \in dirs /\ job'[p].opened \in BOOLEAN
    <3>1. {"at", "kind", "op", "brain", "opened"} \subseteq DOMAIN job[p] /\ job[p].opened \in BOOLEAN
      BY <1>3 DEF JobHolds
    <3> QED
      BY <1>4, <1>10, <3>1
  <2>2. /\ job'[p].at \in Steps \ {"idle"} /\ job'[p].at = "write"
        /\ job'[p].at \notin HasManifest \cup HasBlob \cup {"export", "target"}
    BY <1>10 DEF Steps, HasManifest, HasBlob, Reading
  <2>3. KindAt(job'[p]) /\ job'[p].kind \in AllKinds
    BY <1>10, <2>2 DEF KindAt, Reading, AllKinds
  <2> QED
    BY <1>11, <2>1, <2>2, <2>3 DEF JobHolds
<1>13. damaged' \subseteq BrainIds /\ UNCHANGED <<disk, dirs, ops, crashes, expected>>
  BY <1>4 DEF Mutate, HoldsInv
<1>14. \A q \in Procs \ {p} : job[q] # Idle /\ job[q].op \in DOMAIN more => job[q].op \in DOMAIN logs
  BY <1>3, <1>5
<1> QED
  BY <1>1, <1>3, <1>5, <1>6, <1>10, <1>12, <1>13, <1>14, StepHolds DEF HoldsInv

\* The import goes on to write, with a directory.
TargetFacts(p) ==
    /\ DOMAIN job' = Procs /\ \A q \in Procs \ {p} : job'[q] = job[q]
    /\ DOMAIN job'[p] = DOMAIN job[p] \cup {"opened"}
    /\ job'[p].at = "write" /\ job'[p].opened = FALSE
    /\ \A f \in {"kind", "op", "brain", "queue"} : job'[p][f] = job[p][f]
    /\ job[p].kind = "import"

\* What a process holds when its target is made.
LEMMA TargetJob ==
    ASSUME HoldsInv, NEW p \in Procs, MakeTarget(p)
    PROVE  TargetFacts(p)
<1> DEFINE fields == [opened |-> FALSE]
<1>1. PICK logs : Holds(logs)
  BY DEF HoldsInv
<1>2. ~At(p, "idle") /\ At(p, "target")
  BY DEF MakeTarget, At
<1>3. JobHolds(logs, dirs, ops, job[p])
  BY <1>1, <1>2, BusyHolds
<1>4. DOMAIN fields = {"opened"} /\ fields["opened"] = FALSE
  OBVIOUS
<1> HIDE DEF fields
<1>5. Goes(p, "write", fields)
  BY DEF MakeTarget, fields
<1>6. /\ DOMAIN job' = Procs /\ \A q \in Procs \ {p} : job'[q] = job[q]
      /\ DOMAIN job'[p] = DOMAIN job[p] \cup {"opened"}
      /\ job'[p].at = "write" /\ job'[p].opened = FALSE
      /\ \A f \in DOMAIN job[p] \ {"at", "opened"} : job'[p][f] = job[p][f]
  BY <1>2, <1>4, <1>5, GoesWith
<1>7. {"kind", "op", "brain", "queue"} \subseteq DOMAIN job[p] /\ job[p].kind = "import"
  BY <1>2, <1>3 DEF JobHolds, KindAt, At
<1> QED
  BY <1>6, <1>7 DEF TargetFacts

\* The directory of an imported brain is made.
LEMMA MakeTargetHolds ==
    ASSUME HoldsInv, NEW p \in Procs, MakeTarget(p)
    PROVE  HoldsInv'
<1> DEFINE b == job[p].brain
<1>1. PICK logs : Holds(logs)
  BY DEF HoldsInv
<1>2. ~At(p, "idle") /\ At(p, "target")
  BY DEF MakeTarget, At
<1>3. JobHolds(logs, dirs, ops, job[p]) /\ \A q \in Procs \ {p} : job[q] # Idle => job[q].op # job[p].op
  BY <1>1, <1>2, BusyHolds
<1>4. Extends(logs, logs) /\ ops \in Nat /\ dirs \subseteq dirs \cup {b}
  BY DEF Extends, HoldsInv
<1>5. UNCHANGED <<disk, ops, crashes, expected>> /\ dirs' = dirs \cup {b}
  BY DEF MakeTarget
<1>6. JobHolds(logs, dirs', ops, job[p])
  BY <1>3, <1>4, <1>5, JobStill
<1>7. TargetFacts(p)
  BY TargetJob
<1>8. QueueHolds(logs, dirs', job'[p])
  BY <1>2, <1>6, <1>7 DEF JobHolds, QueueHolds, TargetFacts, At
<1>9. JobHolds(logs, dirs', ops', job'[p]) /\ job'[p].op = job[p].op
  BY <1>5, <1>6, <1>7, <1>8
     DEF JobHolds, TargetFacts, Steps, KindAt, Reading, HasManifest, HasBlob, AllKinds
<1>10. b \in BrainIds
  BY <1>3 DEF JobHolds
<1>11. History(logs)' /\ damaged' \subseteq BrainIds
  BY <1>1, <1>5, <1>10 DEF Holds, History, MakeTarget, HoldsInv
<1>12. /\ ops' \in Nat /\ ops <= ops' /\ crashes' \in Nat /\ dirs \subseteq dirs' /\ dirs' \subseteq BrainIds
       /\ DOMAIN expected' \subseteq dirs' /\ DOMAIN disk' = Paths /\ UNCHANGED disk
  BY <1>5, <1>10 DEF HoldsInv
<1>13. \A q \in Procs \ {p} : job[q] # Idle => job[q].op # job'[p].op
  BY <1>3, <1>9
<1> HIDE DEF b
<1> QED
  BY <1>1, <1>4, <1>7, <1>9, <1>11, <1>12, <1>13, StepHolds DEF TargetFacts

\* What an operation starts with.
StartFacts(p, kind, b, step, queue) ==
    /\ DOMAIN job' = Procs /\ \A q \in Procs \ {p} : job'[q] = job[q]
    /\ DOMAIN job'[p] = {"at", "kind", "op", "brain", "left", "queue", "opened"}
    /\ job'[p].at = step /\ job'[p].kind = kind /\ job'[p].op = ops + 1
    /\ job'[p].brain = b /\ job'[p].queue = queue /\ job'[p].opened = FALSE
    /\ ops' = ops + 1 /\ kind \in AllKinds /\ At(p, "idle")

\* What a process holds when it starts.
LEMMA StartJob ==
    ASSUME HoldsInv, NEW p \in Procs, NEW kind, NEW b, NEW step, NEW queue, Starts(p, kind, b, step, queue)
    PROVE  StartFacts(p, kind, b, step, queue)
  BY StoreAssumption DEF HoldsInv, Starts, StartFacts

\* A process that starts, with what it is to show.
LEMMA StartHolds ==
    ASSUME HoldsInv, NEW logs, Holds(logs), NEW more, Extends(logs, more),
           DOMAIN more \subseteq DOMAIN logs \cup {ops + 1},
           \A n \in DOMAIN more : more[n] \subseteq DOMAIN more,
           NEW p \in Procs, NEW kind, NEW b, NEW step, NEW queue, StartFacts(p, kind, b, step, queue),
           UNCHANGED <<disk, crashes, expected, damaged>>,
           dirs \subseteq dirs', dirs' \subseteq BrainIds, JobHolds(more, dirs', ops', job'[p])
    PROVE  HoldsInv'
<1>1. ops \in Nat /\ ops' = ops + 1 /\ ops' \in Nat /\ ops <= ops'
  BY DEF HoldsInv, StartFacts
<1>2. \A q \in Procs : job[q] # Idle => job[q].op \in 1..ops
  BY DEF Holds, JobHolds
<1>3. \A q \in Procs \ {p} : job[q] # Idle => job[q].op # job'[p].op
  BY <1>1, <1>2 DEF StartFacts
<1>4. \A q \in Procs \ {p} : job[q] # Idle /\ job[q].op \in DOMAIN more => job[q].op \in DOMAIN logs
  BY <1>1, <1>2
<1>5. History(more)'
  BY <1>1 DEF Holds, History
<1> QED
  BY <1>1, <1>3, <1>4, <1>5, StepHolds DEF HoldsInv, StartFacts

\* An operation looks for its brain.
LEMMA ResolveHolds ==
    ASSUME HoldsInv, NEW p \in Procs, NEW kind \in Kinds, NEW b \in BrainIds, Resolve(p, kind, b)
    PROVE  HoldsInv'
<1>1. PICK logs : Holds(logs)
  BY DEF HoldsInv
<1>2. Extends(logs, logs) /\ \A n \in DOMAIN logs : logs[n] \subseteq DOMAIN logs
  BY <1>1 DEF Extends, Holds, History
<1> DEFINE step == IF kind \in OrActive THEN "resolve" ELSE "list"
<1>3. StartFacts(p, kind, b, step, <<>>)
  BY StartJob DEF Resolve
<1>4. b \in dirs /\ kind \in Resolving /\ UNCHANGED <<disk, dirs, crashes, expected, damaged>>
  BY DEF Resolve
<1>5. step \in Listing /\ "map" \in OrActive
  BY DEF Listing, OrActive
<1>6. ops + 1 \in 1..(ops + 1) /\ ops + 1 \notin DOMAIN logs
  BY <1>1 DEF Holds, History, HoldsInv
<1>7. KindAt(job'[p])
  BY <1>3, <1>4, <1>5 DEF StartFacts, KindAt, Reading
<1> HIDE DEF step
<1>8. JobHolds(logs, dirs', ops', job'[p])
  BY <1>3, <1>4, <1>5, <1>6, <1>7 DEF StartFacts, JobHolds, Steps, Listing, HasManifest, HasBlob
<1>9. dirs \subseteq dirs' /\ dirs' \subseteq BrainIds
  BY <1>4 DEF HoldsInv
<1> QED
  BY <1>1, <1>2, <1>3, <1>4, <1>8, <1>9, StartHolds

\* What a process that lists the brains has become when it goes on.
Lists(p) ==
    /\ NothingWritten
    /\ DOMAIN job' = Procs /\ \A q \in Procs \ {p} : job'[q] = job[q]
    /\ DOMAIN job'[p] = DOMAIN job[p] \cup {"left"}
    /\ job'[p].at \in Listing \cup {"manifest", "config", "mappings"}
    /\ \A f \in DOMAIN job[p] \ {"at", "left"} : job'[p][f] = job[p][f]
    /\ KindAt(job'[p])

\* It goes on with what is left.
LEMMA GoesListing ==
    ASSUME HoldsInv, NEW p \in Procs, ~At(p, "idle"), NothingWritten, NEW step, NEW left,
           Goes(p, step, [left |-> left]), step \in Listing \cup {"manifest", "config", "mappings"},
           KindAt([at |-> step, kind |-> job[p].kind])
    PROVE  Lists(p)
<1> DEFINE fields == [left |-> left]
<1>1. DOMAIN fields = {"left"}
  OBVIOUS
<1> HIDE DEF fields
<1>2. Goes(p, step, fields)
  BY DEF fields
<1>3. /\ DOMAIN job' = Procs /\ \A q \in Procs \ {p} : job'[q] = job[q]
      /\ DOMAIN job'[p] = DOMAIN job[p] \cup {"left"}
      /\ job'[p].at = step
      /\ \A f \in DOMAIN job[p] \ {"at", "left"} : job'[p][f] = job[p][f]
  BY <1>1, <1>2, GoesWith
<1>4. "kind" \in DOMAIN job[p]
  BY BusyHolds DEF HoldsInv, JobHolds
<1>5. job'[p].kind = job[p].kind
  BY <1>3, <1>4
<1>6. KindAt(job'[p])
  BY <1>3, <1>5 DEF KindAt
<1> QED
  BY <1>3, <1>6 DEF Lists

\* A process that lists the brains gives up, goes on, or has found its brain.
LEMMA ListGoes ==
    ASSUME HoldsInv, NEW p \in Procs, ReadDir(p) \/ \E b \in BrainIds : ListBrain(p, b)
    PROVE  /\ ~At(p, "idle") /\ ~At(p, "write") /\ job[p].at \in Listing
           /\ Fails(p) \/ Lists(p)
<1>1. PICK logs : Holds(logs)
  BY DEF HoldsInv
<1>2. job[p].at \in Listing /\ ~At(p, "idle") /\ ~At(p, "write")
  BY DEF ReadDir, ListBrain, Listing, At
<1>3. KindAt(job[p])
  BY <1>1, <1>2, BusyHolds DEF JobHolds
<1>4. KindAt([at |-> job[p].at, kind |-> job[p].kind])
  BY <1>2, <1>3 DEF KindAt, Listing
<1>5. /\ AfterListing(p) \in Listing \cup {"manifest", "config", "mappings"}
      /\ KindAt([at |-> AfterListing(p), kind |-> job[p].kind])
  BY <1>2, <1>3
     DEF AfterListing, FirstStep, KindAt, Listing, Resolving, OrActive, Reading, At
<1>6. CASE ReadDir(p)
  <2>1. Goes(p, job[p].at, [left |-> dirs]) /\ NothingWritten
    BY <1>6 DEF ReadDir
  <2> QED
    BY <1>2, <1>4, <2>1, GoesListing
<1>7. ASSUME NEW b \in BrainIds, ListBrain(p, b), ~Fails(p)
      PROVE  Lists(p)
  <2> DEFINE left == job[p].left \ {b}
             step == IF left = {} THEN AfterListing(p) ELSE job[p].at
  <2>1. Goes(p, step, [left |-> left]) /\ NothingWritten
    BY <1>7 DEF ListBrain
  <2>2. step \in Listing \cup {"manifest", "config", "mappings"}
    BY <1>2, <1>5
  <2>3. KindAt([at |-> step, kind |-> job[p].kind])
    BY <1>4, <1>5
  <2> HIDE DEF step, left
  <2> QED
    BY <1>2, <2>1, <2>2, <2>3, GoesListing
<1> QED
  BY <1>2, <1>6, <1>7

\* A listing remembers what is left of it.
LEMMA ListHolds ==
    ASSUME HoldsInv, NEW p \in Procs, ReadDir(p) \/ \E b \in BrainIds : ListBrain(p, b)
    PROVE  HoldsInv'
<1>1. PICK logs : Holds(logs)
  BY DEF HoldsInv
<1>2. ~At(p, "idle") /\ ~At(p, "write") /\ job[p].at \in Listing
  BY ListGoes
<1>3. JobHolds(logs, dirs, ops, job[p])
  BY <1>1, <1>2, BusyHolds
<1>4. CASE Fails(p)
  BY <1>2, <1>4, FailsHolds
<1>5. CASE Lists(p)
  <2>1. /\ job'[p].kind = job[p].kind /\ job'[p].op = job[p].op /\ job'[p].brain = job[p].brain
        /\ job'[p].opened = job[p].opened
    BY <1>3, <1>5 DEF JobHolds, Lists
  <2>2. JobHolds(logs, dirs, ops, job'[p])
    BY <1>2, <1>3, <1>5, <2>1
       DEF JobHolds, Lists, At, Steps, Listing, HasManifest, HasBlob
  <2> QED
    BY <1>1, <1>2, <1>5, <2>1, <2>2, OnlyJob DEF Lists, NothingWritten, HoldsInv
<1> QED
  BY <1>4, <1>5, ListGoes

\* An operation finds nothing to work on.
LEMMA NothingToDoHolds ==
    ASSUME HoldsInv, NEW p \in Procs, NothingToDo(p)
    PROVE  HoldsInv'
<1>1. PICK logs : Holds(logs)
  BY DEF HoldsInv
<1>2. ops \in Nat /\ ops' = ops + 1 /\ UNCHANGED <<disk, dirs, job, crashes, expected, damaged>>
  BY DEF NothingToDo, HoldsInv
<1>3. Extends(logs, logs) /\ ops' \in Nat /\ ops <= ops'
  BY <1>2 DEF Extends
<1>4. \A q \in Procs : job[q] = Idle \/ JobHolds(logs, dirs, ops', job[q])
  BY <1>1, <1>2, <1>3, JobStill DEF Holds
<1>5. Holds(logs)'
  BY <1>1, <1>2, <1>4 DEF Holds, History
<1> QED
  BY <1>2, <1>5 DEF HoldsInv

\* A new brain's writes fit.
LEMMA QueueOfThree ==
    ASSUME NEW logs, NEW d, NEW j, NEW b, NEW m, NEW blob, NEW key,
           j.queue = BrainWrites(b, m, blob, key), j.kind \in {"create", "import"}, j.brain = b,
           m \in Manifests, m.id = b, blob \in Blobs(logs), key \in Keys
    PROVE  /\ QueueHolds(logs, d, j) /\ Len(j.queue) = 3
           /\ j.queue[1][2] = m /\ j.queue[2][2] = blob /\ j.queue[3][2] = key
<1> DEFINE x == <<ManifestFile(b), m>>
           y == <<StateFile(b), blob>>
           z == <<KeyFile(b), key>>
           queue == <<x, y, z>>
<1>1. /\ x[1] = ManifestFile(b) /\ x[2] = m /\ y[1] = StateFile(b) /\ y[2] = blob
      /\ z[1] = KeyFile(b) /\ z[2] = key
  OBVIOUS
<1>2. /\ Fits(logs, d, ManifestFile(b), m) /\ Fits(logs, d, StateFile(b), blob)
      /\ Fits(logs, d, KeyFile(b), key)
  BY DEF Fits, ManifestFile, StateFile, KeyFile
<1>3. j.queue = queue
  BY DEF BrainWrites
<1> HIDE DEF x, y, z
<1>4. /\ queue \in Seq({queue[i] : i \in DOMAIN queue}) /\ Len(queue) = 3
      /\ queue[1] = x /\ queue[2] = y /\ queue[3] = z
  BY SeqOfThree
<1> HIDE DEF queue
<1>5. Total(j.kind) = 3 /\ j.kind \in Committing
  BY DEF Total, Committing
<1>6. ASSUME NEW i \in 1..3
      PROVE  queue[i][1] = Path(j.kind, b, 3 - Len(queue) + i) /\ Fits(logs, d, queue[i][1], queue[i][2])
  <2>1. (i = 1 \/ i = 2 \/ i = 3) /\ 3 - Len(queue) + i = i
    BY <1>4
  <2> QED
    BY <1>1, <1>2, <1>4, <1>5, <2>1, PathFacts
<1>7. Len(queue) \in 1..3 /\ 1..Len(queue) = 1..3
  BY <1>4
<1> QED
  BY <1>1, <1>3, <1>4, <1>5, <1>6, <1>7 DEF QueueHolds

\* create_brain encrypts an empty state.
LEMMA CreateHolds ==
    ASSUME HoldsInv, NEW p \in Procs, NEW b \in BrainIds, Create(p, b)
    PROVE  HoldsInv'
<1>1. PICK logs : Holds(logs)
  BY DEF HoldsInv
<1>2. PICK op : op = ops + 1
  OBVIOUS
<1>3. PICK m : m = Sign(b, op, op, op)
  OBVIOUS
<1>4. PICK blob : blob = Blob(op, b, {op})
  OBVIOUS
<1>5. PICK key : key = KeyBlob(op, b)
  OBVIOUS
<1>6. PICK more : more = [n \in DOMAIN logs \cup {op} |-> IF n = op THEN {op} ELSE logs[n]]
  OBVIOUS
<1>7. op \in Nat /\ op \notin DOMAIN logs
  BY <1>1, <1>2 DEF Holds, History, HoldsInv
<1>8. /\ DOMAIN more = DOMAIN logs \cup {op} /\ more[op] = {op} /\ Extends(logs, more)
      /\ \A n \in DOMAIN more : more[n] \subseteq DOMAIN more
  BY <1>1, <1>6, <1>7 DEF Extends, Holds, History
<1>9. m \in Manifests /\ m.id = b
  BY <1>3, <1>7, SignFacts
<1>10. blob \in Blobs(more) /\ key \in Keys
  BY <1>4, <1>5, <1>7, <1>8 DEF Blobs, Blob, Keys, KeyBlob
<1>11. StartFacts(p, "create", b, "write", BrainWrites(b, m, blob, key))
  BY <1>2, <1>3, <1>4, <1>5, StartJob DEF Create
<1>12. QueueHolds(more, dirs', job'[p])
  BY <1>9, <1>10, <1>11, QueueOfThree DEF StartFacts
<1>13. dirs' = dirs \cup {b} /\ UNCHANGED <<disk, crashes, expected, damaged>>
  BY DEF Create
<1>14. ops + 1 \in 1..(ops + 1)
  BY DEF HoldsInv
<1>15. JobHolds(more, dirs', ops', job'[p])
  BY <1>11, <1>12, <1>13, <1>14
     DEF StartFacts, JobHolds, KindAt, Steps, HasManifest, HasBlob, Reading
<1>16. dirs \subseteq dirs' /\ dirs' \subseteq BrainIds
  BY <1>13 DEF HoldsInv
<1> QED
  BY <1>1, <1>2, <1>8, <1>11, <1>13, <1>15, <1>16, StartHolds

\* import_brain takes from a package that is not of a brain here what will load,
\* if it is signed for the target.
LEMMA OpenPackageHolds ==
    ASSUME HoldsInv, NEW p \in Procs, NEW b \in BrainIds, NEW rename \in BOOLEAN, OpenPackage(p, b, rename)
    PROVE  HoldsInv'
<1> DEFINE package == Content(PackageFile)
           m == Adopted(package.m, b, rename)
           queue == BrainWrites(b, m, package.blob, package.key)
<1>1. PICK logs : Holds(logs)
  BY DEF HoldsInv
<1>2. CanRead(PackageFile) /\ PackageVerifies(package) /\ b \in Targets(package.m)
  BY DEF OpenPackage
<1>3. package \in Packages(logs, dirs)
  <2>1. PackageFile \in Paths /\ PackageFile[2] = "brain.cbrain"
    BY DEF PackageFile, Paths
  <2> QED
    BY <1>1, <1>2, <2>1, ContentFits DEF Fits
<1>4. Starts(p, "import", b, "target", queue) /\ UNCHANGED <<disk, dirs, crashes, expected, damaged>>
  BY DEF OpenPackage
<1>5. /\ package.m \in Manifests /\ package.blob \in Blobs(logs) /\ package.key \in Keys
      /\ package.m.id \in dirs \/ (package.blob.aad = package.m.id /\ package.key.aad = package.m.id)
  <2> HIDE DEF package
  <2> QED
    BY <1>3 DEF Packages
<1>6. ops + 1 \in Nat /\ ops + 1 \in 1..(ops + 1)
  BY DEF HoldsInv
<1> HIDE DEF package
<1>7. m \in Manifests /\ m.id = b /\ m.state = package.m.state /\ m.sig = package.m.sig
  BY <1>5, <1>6 DEF Adopted, Manifests
<1>8. Verified(m) /\ b \notin dirs => Good(b, m, package.blob, package.key)
  <2>1. ASSUME Verified(m), b \notin dirs
        PROVE  Good(b, m, package.blob, package.key)
    <3>1. m.sig[1] = b /\ package.m.sig[1] = package.m.id
      BY <1>2, <1>7, <2>1 DEF Verified, PackageVerifies
    <3>2. package.m.id = b
      BY <1>7, <3>1
    <3>3. package.m.state = package.blob.by
      BY <1>2 DEF PackageVerifies, ChecksumMatches
    <3> QED
      BY <1>5, <1>7, <2>1, <3>2, <3>3 DEF Good
  <2> QED
    BY <2>1
<1> HIDE DEF m
<1>9. StartFacts(p, "import", b, "target", queue)
  BY <1>4, StartJob
<1>10. /\ QueueHolds(logs, dirs', job'[p]) /\ Len(job'[p].queue) = 3
       /\ job'[p].queue[1][2] = m /\ job'[p].queue[2][2] = package.blob /\ job'[p].queue[3][2] = package.key
  BY <1>5, <1>7, <1>9, QueueOfThree DEF StartFacts
<1> HIDE DEF queue
<1>11. JobHolds(logs, dirs', ops', job'[p])
  BY <1>4, <1>6, <1>8, <1>9, <1>10
     DEF StartFacts, JobHolds, KindAt, Steps, HasManifest, HasBlob, Reading
<1>12. Extends(logs, logs) /\ \A n \in DOMAIN logs : logs[n] \subseteq DOMAIN logs
  BY <1>1 DEF Extends, Holds, History
<1> QED
  BY <1>1, <1>4, <1>9, <1>11, <1>12, StartHolds DEF HoldsInv

\* The three files of a brain are different files of that brain.
LEMMA FilesFacts ==
    ASSUME NEW b
    PROVE  /\ Files(b)[1] = ManifestFile(b) /\ Files(b)[2] = StateFile(b) /\ Files(b)[3] = KeyFile(b)
           /\ \A n \in 1..3 : Files(b)[n][1] = b
                 /\ Files(b)[n][2] \in {"brain.json", "state.enc", "signing_key.enc"}
           /\ \A n, m \in 1..3 : Files(b)[n] = Files(b)[m] => n = m
<1>1. Files(b)[1] = ManifestFile(b) /\ Files(b)[2] = StateFile(b) /\ Files(b)[3] = KeyFile(b)
  BY DEF Files
<1>2. \A n \in 1..3 : n = 1 \/ n = 2 \/ n = 3
  OBVIOUS
<1> QED
  BY <1>1, <1>2 DEF ManifestFile, StateFile, KeyFile

\* A process writes files of its own brain, or none of any brain.
LEMMA WriterFacts ==
    ASSUME HoldsInv, NEW logs, Holds(logs), NEW p \in Procs, At(p, "write")
    PROVE  /\ job[p].queue[1][1] \in Paths
           /\ Fits(logs, dirs, job[p].queue[1][1], job[p].queue[1][2])
           /\ job[p].brain \in dirs /\ Len(job[p].queue) \in 1..Total(job[p].kind)
           /\ job[p].kind \in Committing =>
                 job[p].queue[1][1] = Files(job[p].brain)[Total(job[p].kind) - Len(job[p].queue) + 1]
           /\ \A b \in BrainIds : \A n \in 1..3 :
                 Files(b)[n] = job[p].queue[1][1] => b = job[p].brain /\ job[p].kind \in Committing
<1> DEFINE j == job[p]
           k == Total(j.kind) - Len(j.queue) + 1
<1>1. JobHolds(logs, dirs, ops, j)
  BY BusyHolds DEF At
<1>2. /\ QueueHolds(logs, dirs, j) /\ j.brain \in dirs /\ j.brain \in BrainIds /\ j.kind \in AllKinds
      /\ j.kind # "audit"
  BY <1>1 DEF JobHolds, KindAt, At
<1> HIDE DEF j
<1>3. Total(j.kind) \in 1..3 /\ (j.kind \notin Committing => Total(j.kind) = 1)
  BY DEF Total, Committing
<1>4. Len(j.queue) \in 1..Total(j.kind) /\ k \in 1..3
  BY <1>2, <1>3 DEF QueueHolds
<1>5. j.queue[1][1] = Path(j.kind, j.brain, k) /\ Fits(logs, dirs, j.queue[1][1], j.queue[1][2])
  BY <1>2, <1>4 DEF QueueHolds
<1>6. CASE j.kind \in Committing
  <2>1. j.queue[1][1] = Files(j.brain)[k]
    BY <1>5, <1>6 DEF Path
  <2>2. Files(j.brain)[k] \in Paths
    <3>1. k = 1 \/ k = 2 \/ k = 3
      BY <1>4
    <3>2. j.brain \in BrainIds
      BY <1>2
    <3>3. ManifestFile(j.brain) \in Paths /\ StateFile(j.brain) \in Paths /\ KeyFile(j.brain) \in Paths
      BY <3>2 DEF Paths, ManifestFile, StateFile, KeyFile
    <3> QED
      BY <3>1, <3>3, FilesFacts
  <2>3. \A b \in BrainIds : \A n \in 1..3 : Files(b)[n] = Files(j.brain)[k] => b = j.brain
    BY <1>4, FilesFacts
  <2> QED
    BY <1>2, <1>4, <1>5, <1>6, <2>1, <2>2, <2>3 DEF j
<1>7. CASE j.kind \notin Committing
  <2>1. j.queue[1][1] \in {ConfigFile, MappingFile, PackageFile}
    BY <1>5, <1>7 DEF Path
  <2>2. j.queue[1][1] \in Paths /\ j.queue[1][1][2] \in {"config.json", "api_keys.json", "brain.cbrain"}
    BY <2>1 DEF Paths, ConfigFile, MappingFile, PackageFile
  <2>3. \A b \in BrainIds : \A n \in 1..3 : Files(b)[n] # j.queue[1][1]
    BY <2>2, FilesFacts
  <2> QED
    BY <1>2, <1>4, <1>5, <1>7, <2>2, <2>3 DEF j
<1> QED
  BY <1>6, <1>7

\* fs::write opens the file.
TruncateFacts(p) ==
    /\ disk' = [disk EXCEPT ![job[p].queue[1][1]] = Empty]
    /\ DOMAIN job' = Procs /\ \A q \in Procs \ {p} : job'[q] = job[q]
    /\ DOMAIN job'[p] = DOMAIN job[p]
    /\ job'[p].at = "write" /\ job'[p].opened = TRUE
    /\ \A f \in {"kind", "op", "brain", "queue"} : job'[p][f] = job[p][f]
    /\ \A f \in {"m", "blob"} \cap DOMAIN job[p] : job'[p][f] = job[p][f]

\* What a process holds when it has opened a file.
LEMMA TruncateJob ==
    ASSUME HoldsInv, NEW p \in Procs, Truncate(p)
    PROVE  TruncateFacts(p)
<1> DEFINE fields == [opened |-> TRUE]
<1>1. PICK logs : Holds(logs)
  BY DEF HoldsInv
<1>2. ~At(p, "idle") /\ At(p, "write")
  BY DEF Truncate, At
<1>3. JobHolds(logs, dirs, ops, job[p])
  BY <1>1, <1>2, BusyHolds
<1>4. DOMAIN fields = {"opened"} /\ fields["opened"] = TRUE
  OBVIOUS
<1> HIDE DEF fields
<1>5. Goes(p, "write", fields)
  BY DEF Truncate, fields
<1>6. /\ DOMAIN job' = Procs /\ \A q \in Procs \ {p} : job'[q] = job[q]
      /\ DOMAIN job'[p] = DOMAIN job[p] \cup {"opened"}
      /\ job'[p].at = "write" /\ job'[p].opened = TRUE
      /\ \A f \in DOMAIN job[p] \ {"at", "opened"} : job'[p][f] = job[p][f]
  BY <1>2, <1>4, <1>5, GoesWith
<1>7. {"kind", "op", "brain", "queue", "opened"} \subseteq DOMAIN job[p]
  BY <1>2, <1>3 DEF JobHolds, KindAt, At
<1>8. disk' = [disk EXCEPT ![job[p].queue[1][1]] = Empty]
  BY DEF Truncate
<1> QED
  BY <1>6, <1>7, <1>8 DEF TruncateFacts

\* A file is opened and truncated.
LEMMA TruncateHolds ==
    ASSUME HoldsInv, NEW p \in Procs, Truncate(p)
    PROVE  HoldsInv'
<1>1. PICK logs : Holds(logs)
  BY DEF HoldsInv
<1>2. ~At(p, "idle") /\ At(p, "write")
  BY DEF Truncate, At
<1>3. JobHolds(logs, dirs, ops, job[p]) /\ \A q \in Procs \ {p} : job[q] # Idle => job[q].op # job[p].op
  BY <1>1, <1>2, BusyHolds
<1>4. TruncateFacts(p)
  BY TruncateJob
<1>5. UNCHANGED <<dirs, ops, crashes, expected, damaged>>
  BY DEF Truncate
<1>6. QueueHolds(logs, dirs, job'[p])
  BY <1>2, <1>3, <1>4 DEF JobHolds, QueueHolds, TruncateFacts, At
<1>7. JobHolds(logs, dirs', ops', job'[p]) /\ job'[p].op = job[p].op
  BY <1>2, <1>3, <1>4, <1>5, <1>6
     DEF JobHolds, TruncateFacts, At, Steps, KindAt, Reading, HasManifest, HasBlob, AllKinds
<1>8. DOMAIN disk' = Paths /\ \A path \in Paths : disk'[path] = disk[path] \/ FileHolds(logs, dirs', path, disk'[path])
  BY <1>1, <1>2, <1>4, WriterFacts DEF TruncateFacts, HoldsInv, FileHolds
<1>9. \A b \in BrainIds \ dirs' : \A n \in 1..3 : disk'[Files(b)[n]] = disk[Files(b)[n]]
  <2>1. ASSUME NEW b \in BrainIds \ dirs, NEW n \in 1..3
        PROVE  Files(b)[n] # job[p].queue[1][1]
    BY <1>1, <1>2, WriterFacts
  <2> QED
    BY <1>4, <1>5, <2>1 DEF TruncateFacts
<1>10. /\ Extends(logs, logs) /\ History(logs)' /\ ops' \in Nat /\ ops <= ops' /\ crashes' \in Nat
       /\ dirs \subseteq dirs' /\ dirs' \subseteq BrainIds /\ damaged' \subseteq BrainIds
       /\ DOMAIN expected' \subseteq dirs'
  BY <1>1, <1>5 DEF Extends, Holds, History, HoldsInv
<1>11. \A q \in Procs \ {p} : job[q] # Idle => job[q].op # job'[p].op
  BY <1>3, <1>7
<1> QED
  BY <1>1, <1>4, <1>7, <1>8, <1>9, <1>10, <1>11, StepHolds DEF TruncateFacts

\* fs::write writes, and the operation goes on or ends.
WriteFacts(p) ==
    LET j == job[p] IN
    /\ \E content \in Written(j.queue[1][1], j.queue[1][2]) :
          disk' = [disk EXCEPT ![j.queue[1][1]] = content]
    /\ DOMAIN job' = Procs /\ \A q \in Procs \ {p} : job'[q] = job[q]
    /\ j.opened /\ At(p, "write")
    /\ \/ Len(j.queue) = 1 /\ job'[p] = Idle /\ expected' = Acknowledged(p)
       \/ /\ Len(j.queue) # 1 /\ UNCHANGED expected
          /\ DOMAIN job'[p] = DOMAIN j
          /\ job'[p].at = "write" /\ job'[p].opened = FALSE /\ job'[p].queue = Tail(j.queue)
          /\ \A f \in {"kind", "op", "brain"} : job'[p][f] = j[f]
          /\ \A f \in {"m", "blob"} \cap DOMAIN j : job'[p][f] = j[f]

\* What a process holds when it has written a file.
LEMMA WriteJob ==
    ASSUME HoldsInv, NEW p \in Procs, Write(p)
    PROVE  WriteFacts(p)
<1> DEFINE fields == [opened |-> FALSE, queue |-> Tail(job[p].queue)]
<1>1. PICK logs : Holds(logs)
  BY DEF HoldsInv
<1>2. ~At(p, "idle") /\ At(p, "write") /\ job[p].opened /\ DOMAIN job = Procs
  BY DEF Write, At, HoldsInv
<1>3. JobHolds(logs, dirs, ops, job[p])
  BY <1>1, <1>2, BusyHolds
<1>4. \E content \in Written(job[p].queue[1][1], job[p].queue[1][2]) :
          disk' = [disk EXCEPT ![job[p].queue[1][1]] = content]
  BY DEF Write
<1>5. CASE Len(job[p].queue) = 1
  <2>1. Ends(p) /\ expected' = Acknowledged(p)
    BY <1>5 DEF Write
  <2>2. DOMAIN job' = Procs /\ (\A q \in Procs \ {p} : job'[q] = job[q]) /\ job'[p] = Idle
    BY <1>2, <2>1, EndsFacts
  <2> QED
    BY <1>2, <1>4, <1>5, <2>1, <2>2 DEF WriteFacts
<1>6. CASE Len(job[p].queue) # 1
  <2>1. DOMAIN fields = {"opened", "queue"} /\ fields["opened"] = FALSE /\ fields["queue"] = Tail(job[p].queue)
    OBVIOUS
  <2> HIDE DEF fields
  <2>2. Goes(p, "write", fields) /\ UNCHANGED expected
    BY <1>6 DEF Write, fields
  <2>3. {"at", "kind", "op", "brain", "queue", "opened"} \subseteq DOMAIN job[p]
    BY <1>3 DEF JobHolds
  <2>4. /\ DOMAIN job' = Procs /\ \A q \in Procs \ {p} : job'[q] = job[q]
        /\ DOMAIN job'[p] = DOMAIN job[p] \cup {"opened", "queue"}
        /\ job'[p].at = "write"
        /\ \A f \in {"opened", "queue"} : job'[p][f] = fields[f]
        /\ \A f \in DOMAIN job[p] \ {"at", "opened", "queue"} : job'[p][f] = job[p][f]
    BY <1>2, <2>1, <2>2, <2>3, GoesFacts
  <2>5. job'[p].opened = FALSE /\ job'[p].queue = Tail(job[p].queue)
    BY <2>1, <2>4
  <2>6. DOMAIN job'[p] = DOMAIN job[p] /\ \A f \in {"kind", "op", "brain"} : job'[p][f] = job[p][f]
    BY <2>3, <2>4
  <2>7. \A f \in {"m", "blob"} \cap DOMAIN job[p] : job'[p][f] = job[p][f]
    BY <2>4
  <2> QED
    BY <1>2, <1>4, <1>6, <2>2, <2>4, <2>5, <2>6, <2>7 DEF WriteFacts
<1> QED
  BY <1>5, <1>6

\* What is left to write is what was, without its first.
LEMMA TailHolds ==
    ASSUME NEW logs, NEW d, NEW j, NEW k, QueueHolds(logs, d, j), Len(j.queue) # 1,
           k.queue = Tail(j.queue), k.kind = j.kind, k.brain = j.brain, Total(j.kind) \in 1..3
    PROVE  /\ QueueHolds(logs, d, k) /\ Len(k.queue) = Len(j.queue) - 1
           /\ \A i \in 1..Len(k.queue) : k.queue[i] = j.queue[i + 1]
<1> DEFINE S == {j.queue[i] : i \in DOMAIN j.queue}
           T == {k.queue[i] : i \in DOMAIN k.queue}
           q == j.queue
           r == k.queue
<1>1. q \in Seq(S) /\ Len(q) \in 2..Total(j.kind) /\ Len(q) \in Nat
  <2>1. q \in Seq(S) /\ Len(q) \in 1..Total(j.kind) /\ Len(q) # 1
    BY DEF QueueHolds
  <2>2. \A n, t : n \in 1..t /\ n # 1 /\ t \in 1..3 => n \in 2..t /\ n \in Nat
    OBVIOUS
  <2> HIDE DEF S, q
  <2> QED
    BY <2>1, <2>2
<1> HIDE DEF S
<1>2. r \in Seq(S) /\ Len(r) = Len(q) - 1 /\ \A i \in 1..Len(r) : r[i] = q[i + 1]
  BY <1>1
<1>3. r \in Seq(T)
  <2>1. Len(r) \in Nat /\ DOMAIN r = 1..Len(r) /\ r = [i \in 1..Len(r) |-> r[i]]
    BY <1>2
  <2>2. \A i \in 1..Len(r) : r[i] \in T
    BY <2>1
  <2> HIDE DEF T, r
  <2>3. r \in [1..Len(r) -> T]
    BY <2>1, <2>2
  <2> QED
    BY <2>1, <2>3
<1>4. Len(r) \in 1..Total(k.kind)
  BY <1>1, <1>2
<1>5. ASSUME NEW i \in 1..Len(r)
      PROVE  /\ r[i][1] = Path(k.kind, k.brain, Total(k.kind) - Len(r) + i)
             /\ Fits(logs, d, r[i][1], r[i][2])
  <2>1. i + 1 \in 1..Len(q) /\ Total(k.kind) - Len(r) + i = Total(j.kind) - Len(q) + (i + 1)
    BY <1>1, <1>2, <1>4
  <2> QED
    BY <1>2, <2>1 DEF QueueHolds
<1> QED
  BY <1>2, <1>3, <1>4, <1>5 DEF QueueHolds

\* A file is written: it holds what it should, or is garbled.
LEMMA WriteHolds ==
    ASSUME HoldsInv, NEW p \in Procs, Write(p)
    PROVE  HoldsInv'
<1> DEFINE path == job[p].queue[1][1]
           value == job[p].queue[1][2]
<1>1. PICK logs : Holds(logs)
  BY DEF HoldsInv
<1>2. ~At(p, "idle") /\ At(p, "write")
  BY DEF Write, At
<1>3. JobHolds(logs, dirs, ops, job[p]) /\ \A q \in Procs \ {p} : job[q] # Idle => job[q].op # job[p].op
  BY <1>1, <1>2, BusyHolds
<1>4. WriteFacts(p)
  BY WriteJob
<1>5. UNCHANGED <<dirs, ops, crashes, damaged>>
  BY DEF Write
<1>6. /\ path \in Paths /\ Fits(logs, dirs, path, value) /\ job[p].brain \in dirs
      /\ \A b \in BrainIds : \A n \in 1..3 : Files(b)[n] = path => b = job[p].brain
  BY <1>1, <1>2, WriterFacts
<1>7. PICK content \in Written(path, value) : disk' = [disk EXCEPT ![path] = content]
  BY <1>4 DEF WriteFacts
<1>8. FileHolds(logs, dirs, path, content)
  <2>1. content = Garbled \/ content = Whole(value)
    BY DEF Written
  <2>2. Whole(value).v = value
    BY DEF Whole
  <2> QED
    BY <1>6, <2>1, <2>2 DEF FileHolds
<1>9. \/ job'[p] = Idle
      \/ JobHolds(logs, dirs', ops', job'[p]) /\ job'[p].op = job[p].op
  <2>1. CASE Len(job[p].queue) = 1
    BY <1>4, <2>1 DEF WriteFacts
  <2>2. CASE Len(job[p].queue) # 1
    <3>1. /\ DOMAIN job'[p] = DOMAIN job[p]
          /\ job'[p].at = "write" /\ job'[p].opened = FALSE /\ job'[p].queue = Tail(job[p].queue)
          /\ \A f \in {"kind", "op", "brain"} : job'[p][f] = job[p][f]
      BY <1>4, <2>2 DEF WriteFacts
    <3>2. QueueHolds(logs, dirs, job[p]) /\ Total(job[p].kind) \in 1..3
      BY <1>2, <1>3 DEF JobHolds, At, Total
    <3>3. QueueHolds(logs, dirs, job'[p])
      BY <2>2, <3>1, <3>2, TailHolds
    <3> QED
      BY <1>2, <1>3, <1>5, <3>1, <3>3
         DEF JobHolds, At, Steps, KindAt, Reading, HasManifest, HasBlob, AllKinds
  <2> QED
    BY <2>1, <2>2
<1>10. DOMAIN expected' \subseteq dirs'
  <2>1. DOMAIN expected \subseteq dirs /\ expected' \in {expected, Acknowledged(p)}
    BY <1>4 DEF HoldsInv, WriteFacts
  <2>2. DOMAIN Acknowledged(p) \subseteq DOMAIN expected \cup {job[p].brain}
    BY DEF Acknowledged, With
  <2> QED
    BY <1>5, <1>6, <2>1, <2>2
<1>11. DOMAIN disk' = Paths /\ \A x \in Paths : disk'[x] = disk[x] \/ FileHolds(logs, dirs', x, disk'[x])
  BY <1>5, <1>7, <1>8 DEF HoldsInv
<1>12. \A b \in BrainIds \ dirs' : \A n \in 1..3 : disk'[Files(b)[n]] = disk[Files(b)[n]]
  BY <1>5, <1>6, <1>7
<1>13. /\ Extends(logs, logs) /\ History(logs)' /\ ops' \in Nat /\ ops <= ops' /\ crashes' \in Nat
       /\ dirs \subseteq dirs' /\ dirs' \subseteq BrainIds /\ damaged' \subseteq BrainIds
  BY <1>1, <1>5 DEF Extends, Holds, History, HoldsInv
<1>14. DOMAIN job' = Procs /\ \A q \in Procs \ {p} : job'[q] = job[q]
  BY <1>4 DEF WriteFacts
<1>15. job'[p] # Idle => \A q \in Procs \ {p} : job[q] # Idle => job[q].op # job'[p].op
  BY <1>3, <1>9
<1> HIDE DEF path, value
<1> QED
  BY <1>1, <1>9, <1>10, <1>11, <1>12, <1>13, <1>14, <1>15, StepHolds

\* A process that dies leaves the files.
LEMMA CrashHolds ==
    ASSUME HoldsInv, NEW p \in Procs, Crash(p)
    PROVE  HoldsInv'
<1>1. PICK logs : Holds(logs)
  BY DEF HoldsInv
<1>2. ~At(p, "idle") /\ Ends(p) /\ DOMAIN job = Procs
  BY DEF Crash, HoldsInv
<1>3. JobHolds(logs, dirs, ops, job[p])
  BY <1>1, <1>2, BusyHolds
<1>4. DOMAIN job' = Procs /\ (\A q \in Procs \ {p} : job'[q] = job[q]) /\ job'[p] = Idle
  BY <1>2, EndsFacts
<1>5. crashes' \in Nat /\ damaged' \subseteq BrainIds /\ UNCHANGED <<disk, dirs, ops, expected>>
  BY <1>3 DEF Crash, HoldsInv, JobHolds
<1> QED
  BY <1>1, <1>2, <1>4, <1>5, OnlyJob DEF HoldsInv

\* No step lets go of what files and processes hold.
LEMMA NextHolds == HoldsInv /\ [Next]_vars => HoldsInv'
<1> SUFFICES ASSUME HoldsInv, [Next]_vars
             PROVE  HoldsInv'
  OBVIOUS
<1>1. CASE UNCHANGED vars
  BY <1>1 DEF vars, HoldsInv, Holds, History
<1>2. ASSUME NEW p \in Procs, Audit(p) \/ Refuse(p)
      PROVE  HoldsInv'
  BY <1>2, FailsHolds DEF Audit, Refuse, At
<1> QED
  BY <1>1, <1>2, CreateHolds, ResolveHolds, ListHolds, OpenPackageHolds, NothingToDoHolds, ReadManifestHolds,
     ReadStateHolds, ReadKeyHolds, MutateHolds, ExportHolds, MakeTargetHolds, UseBrainHolds,
     MapKeyHolds, TruncateHolds, WriteHolds, CrashHolds
     DEF Next, Finished

-----------------------------------------------------------------------------
\* The invariant holds from the start

\* A brain that is at home, or lies packed beside it, was made by one process.
LEMMA FirstBrain ==
    ASSUME NEW logs, logs = [n \in {0} |-> {0}], NEW b \in BrainIds
    PROVE  /\ Sign(b, 0, 0, 0) \in Manifests /\ Sign(b, 0, 0, 0).id = b /\ Verified(Sign(b, 0, 0, 0))
           /\ Sign(b, 0, 0, 0).state = 0
           /\ Blob(0, b, {0}) \in Blobs(logs) /\ KeyBlob(0, b) \in Keys
<1>1. Sign(b, 0, 0, 0) \in Manifests /\ Verified(Sign(b, 0, 0, 0)) /\ Sign(b, 0, 0, 0).id = b
      /\ Sign(b, 0, 0, 0).state = 0
  BY SignFacts
<1>2. DOMAIN logs = {0} /\ logs[0] = {0}
  OBVIOUS
<1> QED
  BY <1>1, <1>2 DEF Blobs, Blob, Keys, KeyBlob

\* A package from another home is of one brain.
LEMMA FirstPackage ==
    ASSUME NEW logs, logs = [n \in {0} |-> {0}], NEW d, NEW b \in BrainIds
    PROVE  FileHolds(logs, d, PackageFile, PackageOf(b))
<1> DEFINE package == [m |-> Sign(b, 0, 0, 0), blob |-> Blob(0, b, {0}), key |-> KeyBlob(0, b)]
<1>1. Blob(0, b, {0}).aad = b /\ KeyBlob(0, b).aad = b
  BY DEF Blob, KeyBlob
<1>2. package \in Packages(logs, d)
  BY <1>1, FirstBrain DEF Packages
<1> HIDE DEF package
<1>3. Fits(logs, d, PackageFile, package)
  BY <1>2 DEF Fits, PackageFile
<1>4. PackageOf(b) = Whole(package)
  BY DEF PackageOf, package
<1> QED
  BY <1>3, <1>4 DEF FileHolds, Whole

\* A file of a brain that is at home.
LEMMA FirstFile ==
    ASSUME NEW logs, logs = [n \in {0} |-> {0}], NEW d, NEW path \in Paths, path # PackageFile,
           path[1] \in BrainIds
    PROVE  FileHolds(logs, d, path, BrainOn(path[1], path))
<1> DEFINE b == path[1]
<1>1. CASE path = ManifestFile(b)
  <2>1. Fits(logs, d, path, Sign(b, 0, 0, 0))
    BY <1>1, FirstBrain DEF Fits, ManifestFile
  <2>2. BrainOn(b, path) = Whole(Sign(b, 0, 0, 0))
    BY <1>1 DEF BrainOn
  <2> QED
    BY <2>1, <2>2 DEF FileHolds, Whole
<1>2. CASE path = StateFile(b) /\ path # ManifestFile(b)
  <2>1. Fits(logs, d, path, Blob(0, b, {0}))
    BY <1>2, FirstBrain DEF Fits, StateFile
  <2>2. BrainOn(b, path) = Whole(Blob(0, b, {0}))
    BY <1>2 DEF BrainOn
  <2> QED
    BY <2>1, <2>2 DEF FileHolds, Whole
<1>3. CASE path = KeyFile(b) /\ path # StateFile(b) /\ path # ManifestFile(b)
  <2>1. Fits(logs, d, path, KeyBlob(0, b))
    BY <1>3, FirstBrain DEF Fits, KeyFile
  <2>2. BrainOn(b, path) = Whole(KeyBlob(0, b))
    BY <1>3 DEF BrainOn
  <2> QED
    BY <2>1, <2>2 DEF FileHolds, Whole
<1>4. CASE path # ManifestFile(b) /\ path # StateFile(b) /\ path # KeyFile(b)
  BY <1>4 DEF BrainOn, FileHolds
<1> QED
  BY <1>1, <1>2, <1>3, <1>4

\* What the disk is at the start, by its files.
LEMMA InitDisk ==
    ASSUME Init
    PROVE  \E homes \in SUBSET BrainIds, away \in BrainIds \cup {"nowhere"} :
              /\ dirs = homes /\ expected = [b \in homes |-> {0}] /\ DOMAIN disk = Paths
              /\ disk[PackageFile] = IF away = "nowhere" THEN Absent ELSE PackageOf(away)
              /\ \A path \in Paths \ {PackageFile} :
                    disk[path] = IF path[1] \in homes THEN BrainOn(path[1], path) ELSE Absent
<1>1. PICK homes \in {{}} \cup {{b} : b \in BrainIds} :
         /\ \E away \in BrainIds \cup {"nowhere"} :
               disk = [path \in Paths |->
                   IF path = PackageFile THEN IF away = "nowhere" THEN Absent ELSE PackageOf(away)
                   ELSE IF path[1] \in homes THEN BrainOn(path[1], path)
                   ELSE Absent]
         /\ dirs = homes
         /\ expected = [b \in homes |-> {0}]
  BY DEF Init
<1>2. PICK away \in BrainIds \cup {"nowhere"} :
               disk = [path \in Paths |->
                   IF path = PackageFile THEN IF away = "nowhere" THEN Absent ELSE PackageOf(away)
                   ELSE IF path[1] \in homes THEN BrainOn(path[1], path)
                   ELSE Absent]
  BY <1>1
<1>3. homes \in SUBSET BrainIds
  BY <1>1
<1>4. PackageFile \in Paths
  BY DEF Paths
<1> QED
  BY <1>1, <1>2, <1>3, <1>4

\* The invariant at the start: the log that is there was encrypted by no
\* operation of ours, number 0.
LEMMA InitHolds == Init => HoldsInv
<1> SUFFICES ASSUME Init
             PROVE  HoldsInv
  OBVIOUS
<1>1. PICK homes \in SUBSET BrainIds, away \in BrainIds \cup {"nowhere"} :
              /\ dirs = homes /\ expected = [b \in homes |-> {0}] /\ DOMAIN disk = Paths
              /\ disk[PackageFile] = IF away = "nowhere" THEN Absent ELSE PackageOf(away)
              /\ \A path \in Paths \ {PackageFile} :
                    disk[path] = IF path[1] \in homes THEN BrainOn(path[1], path) ELSE Absent
  BY InitDisk
<1>2. PICK logs : logs = [n \in {0} |-> {0}]
  OBVIOUS
<1>3. job = [p \in Procs |-> Idle] /\ ops = 0 /\ crashes = 0 /\ damaged = {}
  BY DEF Init
<1>4. History(logs)
  BY <1>2, <1>3 DEF History
<1>5. ASSUME NEW path \in Paths
      PROVE  FileHolds(logs, dirs, path, disk[path])
  <2>1. CASE path = PackageFile
    BY <1>1, <1>2, <2>1, FirstPackage DEF FileHolds
  <2>2. CASE path # PackageFile
    BY <1>1, <1>2, <2>2, FirstFile DEF FileHolds
  <2> QED
    BY <2>1, <2>2
<1>6. Holds(logs)
  BY <1>3, <1>4, <1>5 DEF Holds
<1>7. ASSUME NEW b \in BrainIds \ dirs, NEW n \in 1..3
      PROVE  disk[Files(b)[n]] = Absent
  <2>1. Files(b)[n][1] = b /\ Files(b)[n][2] \in {"brain.json", "state.enc", "signing_key.enc"}
    BY FilesFacts
  <2>2. Files(b)[n] \in Paths
    <3>1. n = 1 \/ n = 2 \/ n = 3
      OBVIOUS
    <3>2. ManifestFile(b) \in Paths /\ StateFile(b) \in Paths /\ KeyFile(b) \in Paths
      BY DEF Paths, ManifestFile, StateFile, KeyFile
    <3> QED
      BY <3>1, <3>2, FilesFacts
  <2>3. Files(b)[n] # PackageFile
    BY <2>1 DEF PackageFile
  <2> QED
    BY <1>1, <2>1, <2>2, <2>3
<1> QED
  BY <1>1, <1>3, <1>6, <1>7 DEF HoldsInv

-----------------------------------------------------------------------------
\* What follows for every run of the store

\* The inductive invariant: whatever crashes and races there were, a file is
\* absent, empty, garbled or holds what one operation wrote to it, and a process
\* holds what it read.
THEOREM HoldsTheorem == Spec => []HoldsInv
<1> QED
  BY InitHolds, NextHolds, PTL DEF Spec

\* The store's files and processes are what the type invariant says: a brain
\* without a directory has no file, whatever crashes, and a process that writes
\* has something left to write.
THEOREM TypeTheorem == Spec => []TypeOK
<1>1. HoldsInv => TypeOK
  <2> SUFFICES ASSUME HoldsInv
               PROVE  TypeOK
    OBVIOUS
  <2>1. PICK logs : Holds(logs)
    BY DEF HoldsInv
  <2>2. ASSUME NEW path \in Paths
        PROVE  disk[path].is \in {"absent", "empty", "garbled", "whole"}
    <3>1. FileHolds(logs, dirs, path, disk[path])
      BY <2>1 DEF Holds
    <3> QED
      BY <3>1 DEF FileHolds, Absent, Empty, Garbled, Whole
  <2>3. ASSUME NEW b \in BrainIds, b \notin dirs
        PROVE  \A f \in {ManifestFile(b), StateFile(b), KeyFile(b)} : disk[f] = Absent
    BY <2>3, FilesFacts DEF HoldsInv
  <2>4. ASSUME NEW p \in Procs
        PROVE  job[p].at \in Steps /\ (At(p, "write") => job[p].queue # <<>>)
    <3>1. CASE job[p] = Idle
      BY <3>1 DEF Idle, Steps, At
    <3>2. CASE JobHolds(logs, dirs, ops, job[p])
      <4>1. job[p].at \in Steps
        BY <3>2 DEF JobHolds
      <4>2. ASSUME At(p, "write")
            PROVE  job[p].queue # <<>>
        <5>1. Len(job[p].queue) \in 1..Total(job[p].kind) /\ Total(job[p].kind) \in 1..3
          BY <3>2, <4>2 DEF JobHolds, QueueHolds, At, Total
        <5>2. Len(<<>>) = 0
          OBVIOUS
        <5> QED
          BY <5>1, <5>2
      <4> QED
        BY <4>1, <4>2
    <3> QED
      BY <2>1, <3>1, <3>2 DEF Holds
  <2>5. DOMAIN disk = Paths /\ dirs \subseteq BrainIds /\ damaged \subseteq BrainIds /\ DOMAIN expected \subseteq BrainIds
    BY DEF HoldsInv
  <2> QED
    BY <2>2, <2>3, <2>4, <2>5 DEF TypeOK
<1> QED
  BY <1>1, HoldsTheorem, PTL

\* However many processes map API keys at once, the file maps a key to one brain.
THEOREM KeyTheorem == Spec => []KeyMappedOnce
<1>1. HoldsInv => KeyMappedOnce
  <2> SUFFICES ASSUME HoldsInv, CanRead(MappingFile)
               PROVE  Functional(Content(MappingFile))
    BY DEF KeyMappedOnce, Functional
  <2>1. PICK logs : Holds(logs)
    BY DEF HoldsInv
  <2>2. MappingFile \in Paths /\ MappingFile[2] = "api_keys.json"
    BY DEF Paths, MappingFile
  <2> QED
    BY <2>1, <2>2, ContentFits DEF Fits
<1> QED
  BY <1>1, HoldsTheorem, PTL

\* A load that succeeds has read a manifest and a state of one commit, whatever
\* was written between its reads: the checksum names the commit, and a manifest
\* that verifies was signed with the time of its state.
THEOREM SnapshotTheorem == Spec => []SnapshotRead
<1>1. HoldsInv => SnapshotRead
  <2> SUFFICES ASSUME HoldsInv, NEW p \in Procs, At(p, "mutate") \/ At(p, "audit")
               PROVE  job[p].m.updated = job[p].blob.by
    BY DEF SnapshotRead
  <2>1. PICK logs : Holds(logs)
    BY DEF HoldsInv
  <2>2. JobHolds(logs, dirs, ops, job[p]) /\ job[p].at \in {"mutate", "audit"}
    BY <2>1, BusyHolds DEF At
  <2>3. job[p].m \in Manifests /\ Verified(job[p].m) /\ job[p].m.state = job[p].blob.by
    BY <2>2 DEF JobHolds, KindAt, HasManifest, HasBlob, Loaders, ChecksumMatches
  <2>4. job[p].m.sig[2] = job[p].m.sig[3]
    BY <2>3 DEF Manifests
  <2>5. job[p].m.sig[2] = job[p].m.updated /\ job[p].m.sig[3] = job[p].m.state
    BY <2>3 DEF Verified
  <2> QED
    BY <2>3, <2>4, <2>5
<1> QED
  BY <1>1, HoldsTheorem, PTL

=============================================================================
