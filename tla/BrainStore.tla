----------------------------- MODULE BrainStore -----------------------------
(***************************************************************************)
(* The portable brain store (portable-brain-proxy/crates/brain-store):     *)
(* every CLI command is a process of its own that works on the files of a  *)
(* home directory, without locks.  A brain is three files: brain.json (the *)
(* signed manifest, with the checksum of the state), state.enc and the     *)
(* signing key.  write_json is fs::write: it truncates, then writes.       *)
(*                                                                         *)
(* The content of a brain is abstracted to its audit log, the set of the   *)
(* operations recorded in it; an operation's number also stands for what   *)
(* it draws afresh (nonce, uuid, key pair, time).  The checksum of a blob  *)
(* is the number of the operation that encrypted it.                       *)
(***************************************************************************)
EXTENDS Naturals, Sequences

CONSTANTS Procs,       \* the CLI processes that run at the same time
          BrainIds,    \* brain directories
          ApiKeys,     \* hashes of API keys
          Kinds,       \* the operations of this instance
          MaxOps,      \* bound: operations started
          MaxCrashes   \* bound: processes that die, or whose write fails

AllKinds == {"create", "mutate", "audit", "export", "import", "use", "map"}

ASSUME StoreAssumption ==
    /\ Kinds \subseteq AllKinds
    /\ MaxOps \in Nat /\ MaxCrashes \in Nat

VARIABLES disk,      \* path -> content
          dirs,      \* the brain directories that exist
          job,       \* what each process is doing
          ops,       \* operations started so far
          crashes,   \* processes that died so far
          expected,  \* history: the log each acknowledged brain should have
          damaged    \* history: brains hit by a crash, a race or an unsigned import

vars == <<disk, dirs, job, ops, crashes, expected, damaged>>

-----------------------------------------------------------------------------
\* Files

Absent == [is |-> "absent"]
Empty == [is |-> "empty"]      \* truncated, not yet written
Garbled == [is |-> "garbled"]  \* two writes on top of each other
Whole(value) == [is |-> "whole", v |-> value]

ManifestFile(b) == <<b, "brain.json">>
StateFile(b) == <<b, "state.enc">>
KeyFile(b) == <<b, "signing_key.enc">>
ConfigFile == <<"home", "config.json">>
MappingFile == <<"auth", "api_keys.json">>
PackageFile == <<"out", "brain.cbrain">>

Paths == {<<b, f>> : b \in BrainIds, f \in {"brain.json", "state.enc", "signing_key.enc"}}
         \cup {ConfigFile, MappingFile, PackageFile}

CanRead(path) == disk[path].is = "whole"
Content(path) == disk[path].v

-----------------------------------------------------------------------------
\* Manifests, blobs and keys

\* The signature covers every other field of the manifest.
Sign(id, updated, state, pub) ==
    [id |-> id, updated |-> updated, state |-> state, pub |-> pub,
     sig |-> <<id, updated, state, pub>>]

Verified(m) == m.sig = <<m.id, m.updated, m.state, m.pub>>

Blob(op, b, log) == [by |-> op, aad |-> b, log |-> log]
KeyBlob(op, b) == [pub |-> op, aad |-> b]

\* Mutant: any blob of the same brain will do.
MutChecksumMatches(m, blob) == m.id = blob.aad

\* state_sha256 is taken of the encrypted state.
ChecksumMatches(m, blob) == m.state = blob.by

\* The brain's id is authenticated with everything that is encrypted.
Decrypts(m, sealed) == sealed.aad = m.id

\* What load_by_dir accepts.
Loads(b) ==
    /\ \A f \in {ManifestFile(b), StateFile(b), KeyFile(b)} : CanRead(f)
    /\ Verified(Content(ManifestFile(b)))
    /\ ChecksumMatches(Content(ManifestFile(b)), Content(StateFile(b)))
    /\ Decrypts(Content(ManifestFile(b)), Content(StateFile(b)))
    /\ Decrypts(Content(ManifestFile(b)), Content(KeyFile(b)))

-----------------------------------------------------------------------------
\* Processes

Idle == [at |-> "idle"]
Committing == {"create", "mutate", "import"}

With(f, key, value) ==
    [k \in DOMAIN f \cup {key} |-> IF k = key THEN value ELSE f[k]]

At(p, step) == job[p].at = step

\* A process that starts an operation on a brain.
Starts(p, kind, b, step, queue) ==
    /\ At(p, "idle") /\ kind \in Kinds /\ ops < MaxOps
    /\ ops' = ops + 1
    /\ job' = [job EXCEPT ![p] = [at |-> step, kind |-> kind, op |-> ops + 1, brain |-> b,
                                 left |-> {}, queue |-> queue, opened |-> FALSE]]

\* The operation goes on with what it has read (fields of job).
Goes(p, step, fields) ==
    job' = [job EXCEPT ![p] =
        [f \in DOMAIN @ \cup DOMAIN fields |->
            IF f \in DOMAIN fields THEN fields[f] ELSE IF f = "at" THEN step ELSE @[f]]]

Ends(p) == job' = [job EXCEPT ![p] = Idle]

NothingWritten == UNCHANGED <<disk, dirs, ops, crashes, expected, damaged>>

\* An operation that returns an error before its first write.
Fails(p) == Ends(p) /\ NothingWritten

\* The writes of an operation, in order; the last one acknowledges it.
Writes(p, writes) == Goes(p, "write", [queue |-> writes])

BrainWrites(b, m, blob, key) ==
    <<<<ManifestFile(b), m>>, <<StateFile(b), blob>>, <<KeyFile(b), key>>>>

-----------------------------------------------------------------------------
\* create_brain

Create(p, b) ==
    LET op == ops + 1 IN
    /\ b \notin dirs
    /\ Starts(p, "create", b, "write",
              BrainWrites(b, Sign(b, op, op, op), Blob(op, b, {op}), KeyBlob(op, b)))
    /\ dirs' = dirs \cup {b}
    /\ UNCHANGED <<disk, crashes, expected, damaged>>

-----------------------------------------------------------------------------
\* resolve_brain: list_brains reads one brain.json after the other and gives up on
\* the first that is not whole.  The brain that is looked for, here any, is named by
\* its id, by a name, or as the active one of config.json, which is read before
\* anything else; a name that nothing has is NothingToDo.

\* Mutant: a directory without a brain.json is read too.
MutListed == dirs

Listed == {b \in dirs : disk[ManifestFile(b)].is # "absent"}

FirstStep(kind) ==
    IF kind = "use" THEN "config" ELSE IF kind = "map" THEN "mappings" ELSE "manifest"

Resolving == {"mutate", "audit", "export", "use", "map"}

\* A command resolves its brain ("resolve"), and most operations then do so again
\* for themselves ("list").
OrActive == {"mutate", "audit", "map"}
Listing == {"resolve", "list"}

Resolve(p, kind, b) ==
    /\ kind \in Resolving /\ b \in dirs
    /\ Starts(p, kind, b, IF kind \in OrActive THEN "resolve" ELSE "list", <<>>)
    /\ UNCHANGED <<disk, dirs, crashes, expected, damaged>>

ReadDir(p) ==
    /\ job[p].at \in Listing /\ job[p].left = {}
    /\ Goes(p, job[p].at, [left |-> dirs])
    /\ NothingWritten

AfterListing(p) == IF At(p, "resolve") /\ job[p].kind # "map" THEN "list" ELSE FirstStep(job[p].kind)

\* One entry of the directory.  A brain without a brain.json is not found, whatever
\* the other entries are.
ListBrain(p, b) ==
    LET left == job[p].left \ {b} IN
    /\ job[p].at \in Listing /\ b \in job[p].left
    /\ IF IF b \in Listed THEN ~CanRead(ManifestFile(b)) ELSE b = job[p].brain
       THEN Fails(p)
       ELSE /\ Goes(p, IF left = {} THEN AfterListing(p) ELSE job[p].at, [left |-> left])
            /\ NothingWritten

-----------------------------------------------------------------------------
\* load_by_dir and the reads of export_brain, one file at a time.  Only
\* load_by_dir checks as it reads.

Loading(p) == job[p].kind \in {"mutate", "audit"}

ReadManifest(p) ==
    LET file == ManifestFile(job[p].brain) IN
    /\ At(p, "manifest")
    /\ IF ~CanRead(file) \/ (Loading(p) /\ ~Verified(Content(file))) THEN Fails(p)
       ELSE Goes(p, "state", [m |-> Content(file)]) /\ NothingWritten

ReadState(p) ==
    LET file == StateFile(job[p].brain) IN
    /\ At(p, "state")
    /\ IF \/ ~CanRead(file)
          \/ /\ Loading(p)
             /\ ~ChecksumMatches(job[p].m, Content(file)) \/ ~Decrypts(job[p].m, Content(file))
       THEN Fails(p)
       ELSE Goes(p, "key", [blob |-> Content(file)]) /\ NothingWritten

ReadKey(p) ==
    LET file == KeyFile(job[p].brain) IN
    /\ At(p, "key")
    /\ IF ~CanRead(file) \/ (Loading(p) /\ ~Decrypts(job[p].m, Content(file))) THEN Fails(p)
       ELSE Goes(p, job[p].kind, [key |-> Content(file)]) /\ NothingWritten

\* audit_trace returns what was loaded.
Audit(p) == At(p, "audit") /\ Fails(p)

-----------------------------------------------------------------------------
\* mutate_brain: branch, merge, forget, attach and detach change the state and
\* record themselves in its audit log, or refuse.

Raced(p, b) ==
    \/ disk[ManifestFile(b)] # Whole(job[p].m)
    \/ \E q \in Procs \ {p} : At(q, "write") /\ job[q].brain = b /\ job[q].kind \in Committing

\* Mutant: the manifest keeps the checksum of the state that was loaded.
MutResigned(m, op) == Sign(m.id, op, m.state, m.pub)
Resigned(m, op) == Sign(m.id, op, op, m.pub)

\* Mutant: the state is written from scratch.
MutRecorded(log, op) == {op}
Recorded(log, op) == log \cup {op}

Mutate(p) ==
    LET b == job[p].brain  op == job[p].op IN
    /\ At(p, "mutate")
    /\ Writes(p, <<<<ManifestFile(b), Resigned(job[p].m, op)>>,
                   <<StateFile(b), Blob(op, b, Recorded(job[p].blob.log, op))>>>>)
    /\ damaged' = IF Raced(p, b) THEN damaged \cup {b} ELSE damaged
    /\ UNCHANGED <<disk, dirs, ops, crashes, expected>>

Refuse(p) == At(p, "mutate") /\ Fails(p)

-----------------------------------------------------------------------------
\* export_brain and import_brain

Export(p) ==
    /\ At(p, "export")
    /\ IF ~Verified(job[p].m) THEN Fails(p)
       ELSE /\ Writes(p, <<<<PackageFile,
                   [m |-> job[p].m, blob |-> job[p].blob, key |-> job[p].key]>>>>)
            /\ NothingWritten

\* The manifest takes the target's id; a new name also sets updated_at.
Adopted(m, b, rename) ==
    IF rename THEN [m EXCEPT !.id = b, !.updated = ops + 1] ELSE [m EXCEPT !.id = b]

PackageVerifies(package) ==
    Verified(package.m) /\ ChecksumMatches(package.m, package.blob)

\* Mutant: an import does not look whether its target exists.
MutTargets(m) == {m.id}

Targets(m) == IF m.id \notin dirs THEN {m.id} ELSE BrainIds \ dirs

\* The package is checked and the target chosen; --verify-only stops here.
OpenPackage(p, b, rename) ==
    /\ CanRead(PackageFile)
    /\ LET package == Content(PackageFile) IN
       /\ PackageVerifies(package)
       /\ b \in Targets(package.m)
       /\ Starts(p, "import", b, "target",
                 BrainWrites(b, Adopted(package.m, b, rename), package.blob, package.key))
    /\ UNCHANGED <<disk, dirs, crashes, expected, damaged>>

\* Mutant: the target's directory is not made.
MutMakeTarget(p) ==
    /\ At(p, "target")
    /\ Goes(p, "write", [opened |-> FALSE])
    /\ UNCHANGED <<disk, dirs, ops, crashes, expected, damaged>>

\* An operation that finds no brain of that name (or, without a name, none in
\* config.json), or no package to work on.
NothingToDo(p) ==
    /\ At(p, "idle") /\ ops < MaxOps
    /\ \/ Kinds \cap Resolving # {}
       \/ "import" \in Kinds /\ ~(CanRead(PackageFile) /\ PackageVerifies(Content(PackageFile)))
    /\ ops' = ops + 1
    /\ UNCHANGED <<disk, dirs, job, crashes, expected, damaged>>

MakeTarget(p) ==
    LET b == job[p].brain IN
    /\ At(p, "target")
    /\ Goes(p, "write", [opened |-> FALSE])
    /\ dirs' = dirs \cup {b}
    /\ damaged' = IF b \in dirs \/ ~Verified(job[p].queue[1][2]) THEN damaged \cup {b} ELSE damaged
    /\ UNCHANGED <<disk, ops, crashes, expected>>

-----------------------------------------------------------------------------
\* set_active_brain and map_api_key: read, change and write one file

UseBrain(p) ==
    /\ At(p, "config")
    /\ IF disk[ConfigFile].is \in {"absent", "whole"}
       THEN Writes(p, <<<<ConfigFile, job[p].brain>>>>) /\ NothingWritten
       ELSE Fails(p)

Mappings == IF disk[MappingFile].is = "absent" THEN {} ELSE Content(MappingFile)

\* Mutant: a key that is mapped again keeps its old mapping.
MutRemapped(mappings, k, b) == mappings \cup {<<k, b>>}
Remapped(mappings, k, b) == {m \in mappings : m[1] # k} \cup {<<k, b>>}

MapKey(p, k) ==
    /\ At(p, "mappings")
    /\ IF disk[MappingFile].is \in {"absent", "whole"}
       THEN /\ Writes(p, <<<<MappingFile, Remapped(Mappings, k, job[p].brain)>>>>)
            /\ NothingWritten
       ELSE Fails(p)

-----------------------------------------------------------------------------
\* fs::write: open and truncate, then write

Truncate(p) ==
    /\ At(p, "write") /\ ~job[p].opened
    /\ disk' = [disk EXCEPT ![job[p].queue[1][1]] = Empty]
    /\ Goes(p, "write", [opened |-> TRUE])
    /\ UNCHANGED <<dirs, ops, crashes, expected, damaged>>

\* A file that is not empty when it is written was truncated and written by
\* another process meanwhile: the longer of the two contents shows.
Written(path, value) ==
    IF disk[path] = Empty THEN {Whole(value)} ELSE {Whole(value), Garbled}

\* What the last write of an operation tells its user.  A damaged brain promises
\* nothing more.
Acknowledged(p) ==
    LET b == job[p].brain  kind == job[p].kind IN
    IF kind \notin Committing \/ b \in damaged THEN expected
    ELSE With(expected, b, IF kind = "create" THEN {job[p].op}
                           ELSE IF kind = "import" THEN Content(StateFile(b)).log
                           ELSE expected[b] \cup {job[p].op})

Write(p) ==
    LET path == job[p].queue[1][1]  value == job[p].queue[1][2] IN
    /\ At(p, "write") /\ job[p].opened
    /\ \E content \in Written(path, value) : disk' = [disk EXCEPT ![path] = content]
    /\ IF Len(job[p].queue) = 1
       THEN Ends(p) /\ expected' = Acknowledged(p)
       ELSE /\ Goes(p, "write", [opened |-> FALSE, queue |-> Tail(job[p].queue)])
            /\ UNCHANGED expected
    /\ UNCHANGED <<dirs, ops, crashes, damaged>>

-----------------------------------------------------------------------------
\* A process dies, or a write returns an error; the files stay as they are.

Begun(p) == job[p].opened \/ Len(job[p].queue) < IF job[p].kind = "mutate" THEN 2 ELSE 3

Crash(p) ==
    /\ crashes < MaxCrashes
    /\ ~At(p, "idle")
    /\ Ends(p)
    /\ crashes' = crashes + 1
    /\ damaged' = IF At(p, "write") /\ job[p].kind \in Committing /\ Begun(p)
                  THEN damaged \cup {job[p].brain} ELSE damaged
    /\ UNCHANGED <<disk, dirs, ops, expected>>

-----------------------------------------------------------------------------
\* A home directory is empty or holds one brain; a package from another home
\* may lie beside it.

BrainOn(b, path) ==
    IF path = ManifestFile(b) THEN Whole(Sign(b, 0, 0, 0))
    ELSE IF path = StateFile(b) THEN Whole(Blob(0, b, {0}))
    ELSE IF path = KeyFile(b) THEN Whole(KeyBlob(0, b))
    ELSE Absent

PackageOf(b) ==
    Whole([m |-> Sign(b, 0, 0, 0), blob |-> Blob(0, b, {0}), key |-> KeyBlob(0, b)])

Init ==
    /\ \E homes \in {{}} \cup {{b} : b \in BrainIds} :
          /\ \E away \in BrainIds \cup {"nowhere"} :
                disk = [path \in Paths |->
                    IF path = PackageFile THEN IF away = "nowhere" THEN Absent ELSE PackageOf(away)
                    ELSE IF path[1] \in homes THEN BrainOn(path[1], path)
                    ELSE Absent]
          /\ dirs = homes
          /\ expected = [b \in homes |-> {0}]
    /\ job = [p \in Procs |-> Idle]
    /\ ops = 0 /\ crashes = 0 /\ damaged = {}

\* All that was asked for has been done.
Finished ==
    /\ ops = MaxOps /\ \A p \in Procs : At(p, "idle")
    /\ UNCHANGED vars

Next ==
    \/ \E p \in Procs :
          \/ \E b \in BrainIds :
                \/ Create(p, b)
                \/ \E kind \in Kinds : Resolve(p, kind, b)
                \/ \E rename \in BOOLEAN : OpenPackage(p, b, rename)
                \/ ListBrain(p, b)
          \/ NothingToDo(p) \/ ReadDir(p)
          \/ ReadManifest(p) \/ ReadState(p) \/ ReadKey(p)
          \/ Audit(p) \/ Mutate(p) \/ Refuse(p) \/ Export(p) \/ MakeTarget(p) \/ UseBrain(p)
          \/ \E k \in ApiKeys : MapKey(p, k)
          \/ Truncate(p) \/ Write(p) \/ Crash(p)
    \/ Finished

Spec == Init /\ [][Next]_vars

-----------------------------------------------------------------------------
\* Properties

Steps == {"idle", "resolve", "list", "manifest", "state", "key", "mutate", "audit", "export", "target",
          "config", "mappings", "write"}

\* The one type invariant: files hold what was written to them, a brain with
\* files has a directory, and a writing process has something left to write.
TypeOK ==
    /\ DOMAIN disk = Paths
    /\ \A path \in Paths : disk[path].is \in {"absent", "empty", "garbled", "whole"}
    /\ \A b \in BrainIds : b \notin dirs =>
          \A f \in {ManifestFile(b), StateFile(b), KeyFile(b)} : disk[f] = Absent
    /\ \A p \in Procs : job[p].at \in Steps
    /\ \A p \in Procs : At(p, "write") => job[p].queue # <<>>
    /\ dirs \subseteq BrainIds /\ damaged \subseteq BrainIds /\ DOMAIN expected \subseteq BrainIds

CommittingOn(b) == \E p \in Procs : At(p, "write") /\ job[p].kind \in Committing /\ job[p].brain = b

\* Whatever processes do to the other brains, and to this one one after the
\* other: a brain loads whenever no commit is under way, with exactly the
\* operations that were acknowledged, unless a crash in the middle of a commit,
\* two commits that overlap or an import under another name damaged it.
UndamagedLoads ==
    \A b \in DOMAIN expected \ damaged :
        ~CommittingOn(b) => Loads(b) /\ Content(StateFile(b)).log = expected[b]

\* The files are read one after the other while others write them: a load that
\* succeeds has a manifest and a state of the same commit.
SnapshotRead ==
    \A p \in Procs : At(p, "mutate") \/ At(p, "audit") => job[p].m.updated = job[p].blob.by

\* One brain.json that cannot be read makes list_brains fail, and with it most
\* operations on every other brain.  It is there only while a process is between
\* the two halves of its fs::write to that file, or when a crash or a race
\* damaged the brain for good: no other step of any operation is in the way of
\* the other brains, and directories without a brain.json never are.
ListsUnlessTorn ==
    \A b \in Listed \ damaged :
        \/ CanRead(ManifestFile(b))
        \/ \E p \in Procs : At(p, "write") /\ job[p].opened /\ job[p].queue[1][1] = ManifestFile(b)

\* However processes race on the mapping file, a key is mapped to one brain.
KeyMappedOnce ==
    CanRead(MappingFile) =>
        \A m, n \in Content(MappingFile) : m[1] = n[1] => m = n

\* What a load of b would return if a commit were atomic, nothing if it would
\* fail: a commit that is under way has not happened.
Visible(b) ==
    IF CommittingOn(b)
    THEN {job[p].blob.log : p \in {q \in Procs : At(q, "write") /\ job[q].brain = b}}
    ELSE IF Loads(b) THEN {Content(StateFile(b)).log} ELSE {}

\* A brain that is still being created or imported is not there yet.
VisibleBrains ==
    [b \in {x \in dirs : ~\E p \in Procs : /\ At(p, "write") /\ job[p].brain = x
                                          /\ job[p].kind \in {"create", "import"}} |-> Visible(b)]

Atomic == INSTANCE AtomicBrains WITH brains <- VisibleBrains, Ops <- 0..MaxOps

\* For one process at a time, crashes included, the store is a map of brains to
\* logs that change atomically: a brain appears, gains one operation or is lost
\* for good, and what one operation does to a brain leaves the others alone.
ImplementsAtomicBrains == Atomic!Spec

-----------------------------------------------------------------------------
\* What the documents say and the code does not do

\* "signature over canonical manifest payload" (portable brain format): every
\* whole brain.json carries a signature that verifies.
ManifestsAreSigned ==
    \A b \in BrainIds : CanRead(ManifestFile(b)) => Verified(Content(ManifestFile(b)))

\* "Signed/auditable operation trail in brain state": an operation that was
\* acknowledged is in the audit log that a load returns.
AcknowledgedInTrail ==
    \A b \in DOMAIN expected : Loads(b) => expected[b] \subseteq Content(StateFile(b)).log

=============================================================================
