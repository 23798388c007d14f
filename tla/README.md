# Cortex v3.1 RMVM in TLA+

This directory holds a verification development of the repository: TLA+ modules
of the RMVM kernel and of what checks plans before it, of the portable brain
store, and of the gRPC memory service with the proxy and the SDKs as its
clients; TLC runs that check them on small instances; and TLAPS proofs, for
every value of the constants, of all but one of the properties those runs
check, the liveness property. Every definition of the model is translated from
the source; `PROJECT.json` ("map") names the lines.

## The system

| Part | State | Operations | Interacts with |
|---|---|---|---|
| **RMVM kernel** `crates/rmvm-kernel` | per request: registers, assertions, budget | static check, FETCH, APPLY_SELECTOR, RESOLVE, FILTER, JOIN, PROJECT, ASSERT, rendering, proof | called by the service; a pure function of the request and the options |
| **gRPC service** `crates/rmvm-grpc` | event and handle counters, handles, behind one mutex | AppendEvent, GetManifest, Execute, Forget | calls the kernel; in memory only |
| **Proxy** `cortex-app/src/proxy.rs` | none between requests | one chat completion: AppendEvent, GetManifest, plan, Execute | service (adapter), planner (HTTP), planner guard, brain store |
| **Planner guard** `planner-guard` | none | parse a plan, validate it against a manifest, the fallback plan | proxy |
| **Adapter** `adapter-rmvm` | none | connect and call | service |
| **Brain store** `brain-store` | files of a home directory | create, list, use, export, import, branch, merge, forget, attach, detach, audit, map and resolve API keys | command line, proxy |
| **Command line** `cortex-app/src/cli.rs` | none | one store operation per process, or the proxy | brain store |
| **SDKs** `sdk/typescript`, `sdk/python` | none | forward the four calls, validate plans; examples that retry after a STALL | service |
| **Protocol** `crates/rmvm-proto` | none | messages, enums, canonical encoding | all |
| **Conformance harness** `crates/rmvm-tests` | none | vectors and determinism tests | kernel |

What is hard about each, and what makes it correct:

- *Kernel*: it is sequential, and its difficulty is in long chains. Content
  moves from register to register through seven operations while a summary of
  it (provenance, taint, lowest tier) is carried beside it by other code, and
  the gates of ASSERT look at the summary only. The static check computes
  depth, cost and definedness a first time and execution relies on it.
  Correct: the summary covers the content; the gates hold for the content; the
  limits hold; registers are written once; an answer is whole or empty.
- *Brain store*: several processes without locks, three files per brain, a
  write that truncates first, a process killed at any point. Correct: a load
  never mixes two commits; a brain that nothing has damaged loads with all that
  was acknowledged; what is done to one brain leaves the others alone, and is in
  their way only while its `brain.json` is being written.
  What commands do to branches, suppressions and grants must agree with the
  audit trail.
- *Planner guard and SDK validators*: four readings of one rule book. Correct:
  what they let through never names what the manifest lacks, they refuse
  nothing that the kernel would have answered (SDKs) or executed (guard), and a
  fallback plan is answered.
- *Service and its clients*: calls interleave with other calls, with Forget, with
  lost responses, repeated chats and restarts; a manifest is used after it was
  read. Correct: the memory is what was appended and not forgotten, under the
  right user; an attempt stores once; a call sees its own write and fetches
  only what was there when it looked; no step sends it back; every call ends.

Each hazard, with its line and the properties about it, is listed in
`PROJECT.json` ("hazards").

## Modules

| Module | Content |
|---|---|
| `RmvmKernel` | the kernel: `Accept`, one `Check…` action per group of operations, `FinishCheck`, one `Exec…` action per operation, `Render` |
| `MCRmvmKernel` | requests for TLC: three handles, pipelines of up to six steps, malformed plans, options |
| `RmvmKernelProofs` | lineage (`LineageInv`), and what the static check buys execution: types and single assignment |
| `RmvmKernelLimitsProofs` | depth, fan-out, answers that are whole or empty, readiness and citations |
| `InclusionProofs` | the Merkle tree for any number of assertions |
| `PlanGuardProofs` | what the validators and the kernel say of each other; the fallback plan |
| `MemoryCallsProofs` | the service's memory against its log, the order of refs, what calls read, fetch and come to, for any number of calls |
| `BrainStoreProofs` | what files and processes hold, whatever crashes and races there were |
| `BrainPromisesProofs` | undamaged brains load; one process at a time refines `AtomicBrains` |
| `BranchMergeProofs` | suppressions, grants and the audit trail |
| `PlanGuard` | the proxy's plan parser, validator and fallback plan, and the SDKs' validators, as predicates on the kernel's requests |
| `AssertionProof` | the Merkle tree of an answer's assertions and its inclusion proofs |
| `BrainStore` | the store: processes, files, crashes |
| `AtomicBrains` | the abstract store: a map of brains to logs |
| `MCBrainStore` | one process, or two |
| `BranchMerge` | a brain's state: branches, merges, suppressions, grants, audit trail |
| `MCBranchMerge` | a new brain, and an imported one with two branches |
| `MemoryService` | the service's handlers and restarts, and the state of a call |
| `ProxyChat` | a chat completion: intake, user, planner modes, failures, asking again |
| `SdkClient` | the SDKs' example: append, plan, stall, retry |
| `MemoryCalls` | composition of the three, fairness and properties |
| `MCMemoryCalls` | two calls with four or six kinds of request |

### RmvmKernel

`execute` is one behaviour: `Init` chooses a request, `pc` goes from `accept`
to `check` (the loop of `validate_static`, one step of the plan per action) to
`execute` (the loop of `execute_inner`) to `done`. `depth` is both `declared`
and `join_depth`; `regs` holds `RegValue`s. For each operation `XFaults` gives
the error code the code returns first, and `XResult` the register it inserts.

Abstractions. A value is where it came from: its tag (a field of a handle, a
set's count, the manifest's count, a parameter of the plan) and the handles
whose content it carries; hashes, text and trace roots are left out
(`AssertionProof` has the Merkle proof). Refs are numbers in the order of the refs' strings, because ties are
broken by ref. A manifest lists a ref once, and handles carry their metadata.
Parameters and bindings are sequences in the order of their names, as the
code's `BTreeMap`s iterate. Costs are integers in units of 10^-4 and
`RowCost[n]` is n^1.2 in hundredths. A filter's `args` is empty when the
argument is missing or of another type. A template is whether it follows the
grammar, and the sequence of what it binds; `TooLong` is an index of more digits
than a `usize` has. A request may lack its manifest or its plan (`sent`). A
verified block is what it prints (`Printed`): the refs of a register of handles,
the values of the fields of a struct or of an assertion.

### BrainStore and AtomicBrains

A process is a job: it resolves a brain, reads files one at a time, checks as
`load_by_dir` checks, and then writes a queue of files, each in two steps
(truncate, write) as `fs::write` does. `Crash` ends a job between any two
steps; a write that returns an error is the same. If two processes have one
file open at once, it ends as either content or as a mixture that does not
parse. To resolve a brain is to list them all: `ReadDir` opens the directory and
fixes its entries, and `ListBrain` reads the `brain.json` of one of them, in any
order; one that does not parse fails the operation, whichever brain it belongs
to. Commands that take the active brain by default list twice, once for
themselves (`resolve`) and once in the operation (`list`).

Abstractions. A brain's content is its audit log, the set of the operations it
records; branch, merge, forget, attach and detach are `Mutate` (or `Refuse`). The
number of an operation stands for everything it draws afresh: nonce, uuid, key
pair and time. A signature is the tuple it signs. The checksum of an encrypted
state is the operation that encrypted it. Wrong passphrases and a tenant that
does not match are refusals without an effect (`Refuse`, `NothingToDo`). Names are
dropped: the brain that the command or `config.json` names is any one of the
directory, or none (`NothingToDo`), and it is found if it has a `brain.json` when
its turn comes. The read of `config.json` that names it is part of that choice.

`expected` and `damaged` are history variables. `damaged` holds the brains to
which one of three things has happened: a process died in the middle of a
commit, two commits overlapped (`Raced`), or an import wrote a manifest its
signature does not cover. What then happens to the brain is modelled, but
`UndamagedLoads` promises nothing about it; that these three do damage a brain
is what `store_import`, `store_trail` and the first comment below show.

`AtomicBrains` is what one user at a time is promised. The refinement mapping
(`VisibleBrains`) shows a commit under way as not yet done, a new brain as not
yet there, and a brain that does not load as lost.

### PlanGuard

`Parsed`, `GuardAdmits` and `SdkAdmits` are what the proxy's `parse_plan_json`
and `validate_plan_against_manifest` and the SDKs' validators accept; the module
extends `RmvmKernel`, so its properties compare their verdict on the request
with what the kernel does with it. `FallbackPlans` are the plans of
`deterministic_plan_from_manifest`, `ServedManifest` the manifests of the
service's `get_manifest`. The two SDKs decide alike, and are one predicate. The
differences between the readings are in the model: the guard and the kernel's
check insert a step's register before they look up its inputs, the SDKs
afterwards; a name of spaces is a name to the SDKs; only the kernel checks
budgets, ids, parameters and outputs.

### AssertionProof

The tree of `merkle_root_and_inclusion` level by level, over symbolic digests: a
digest is what was hashed. `Recomputed` is what a client computes from a leaf,
its index and its siblings; the repository has no verifier. An odd level pairs
its last node with itself, so that a list and the same list with its last
assertion repeated have the same root: `InclusionProves` is about the
assertions of one answer. `RootDeterminesAnswer`, a theorem without a run, is
about two lists of one length.

### BranchMerge

A command of `cortex brain` changes a copy of the state, which `Commit` writes
if the command succeeds; `BrainStore` models the files behind this. No command
makes a memory object, so the objects are those of an imported package (or
none). A suppressed object keeps its value; an object's subject and predicate
are one topic. `SuppressionRecord`s carry the topic and the count. `did` is a
history variable, the last command and whether it succeeded.

### MemoryService, ProxyChat, SdkClient, MemoryCalls

Each handler takes the mutex once and does not wait while it holds it, so it is
one action. A call goes `append`, `manifest`, `plan`, `execute`, may be
`stalled`, and is then `answered` or `refused` with a code. `Replies` either
delivers a response or loses it after the work was done; `Fail` is a connection
that breaks before. `Restart` loses everything, as the service keeps nothing on
disk. `log` is a history variable: what this server has done, in order.

A chat of the proxy (`Receive`) is refused at once or speaks for the owner of
its key, for its `user` field, or for `user:local`; whether the store can be
opened then, and read, is a choice (`StoreStates`). Its plan comes from a header, from the planner or
from the fallback, according to the header and the mode. A client may ask again
after HTTP 502 (`ChatAgain`), which is a new attempt with a new request id. The
SDK example marks a handle OFFLINE in the manifest it sends, is told STALL, and
sends the same plan again.

Abstractions. A message either states a preference or does not. A plan is what
it fetches and whether it is sound, that is, keeps the kernel's rules and names
no other request: `RmvmKernel` has the rest, and `KernelStatus` its verdict. A
plan fetches at most one handle. The service's handles are ready, confirmed and
tainted as user content only, so no gate of the kernel stops a sound plan, and
a chat of the proxy, which sends the manifest as it was read, never stalls.
Refs are the numbers of "H1", "H2", …, and `Precedes` orders them as those
strings, by their decimal digits. The codes of HTTP 502 are one, `BadGateway`. A request that the server
receives after its client gave up is not modelled, except as one whose response
is lost.

## Runs

| Run | Instance | Question |
|---|---|---|
| `kernel_pipelines` | `MCRequests`, plans of 1 to 6 steps | every safety property of the kernel, of what checks plans before it, and of its proofs |
| `kernel_literal`, `kernel_ready`, `kernel_citations`, `kernel_blocks` | short plans | what the documents say and the code does not do |
| `store_serial` | 1 process, 2 brains, `MaxOps` 4, `MaxCrashes` 1 | refinement of `AtomicBrains` |
| `store_races` | 2 processes, 2 brains, 1 key, `MaxOps` 3, `MaxCrashes` 1 | safety under races and a crash |
| `store_import`, `store_trail` | 1 and 2 processes, `MaxOps` 2, no crash | what the documents say and the code does not do |
| `service_memory` | 2 calls, 4 kinds of request, `Already` 8, `MaxTries` 2, `MaxEvents` 1 | memory, users, reads, fallback, and every call ends |
| `service_forget` | 2 calls, 6 kinds of request, `MaxTries` 1, `MaxEvents` 1 | Forget against a manifest that was read before |
| `branch_merge` | 3 branch names, 3 objects, 1 agent, 2 models, `MaxAudit` 4 | branches, suppressions and grants against the trail |

What they show:

- `kernel_pipelines` passes. The three handles differ in readiness, tier,
  taint, subject, type, group and signature, so each edge, filter and gate goes
  both ways; depth, fanout, cost and operation count are each at, below and
  above their limit (`Tight`, `Wide`). The six options are with and without
  broken-lineage handles, partial and degraded mode, and templates that render,
  that break the grammar, and whose second binding has an index too long. Six
  steps are enough for two joins or a join and a choice before a projection and
  an ASSERT: a longer chain applies the same operations to registers of the
  same kinds, and the proofs below are for plans of every length.
  `UnreadyWasSelected` and `CitesItsLineage` are what does hold beside two of
  the disagreements below: content that is not ready comes in through a selector
  and in no other way, and an assertion without citations of its own cites every
  handle its content came from.
  The run also carries the properties of `PlanGuard` and
  `AssertionProof`: every request of the instance is looked at by the parser,
  the guard and the SDKs' validators too, the fallback plans over the service's
  manifests of up to three handles are among the requests, and the answers have
  none to six assertions, some of them equal.
- `store_serial` passes: with one process at a time, the store implements the
  atomic one, where a crash may lose the brain it hits for good and nothing
  else. Four operations are enough for create, commit, export and import of one
  brain, with a crash among them.
- `store_races` passes: whatever two processes do, a load never mixes two
  commits, an API key has at most one mapping, only the three events above
  damage a brain, and a brain that they did not damage makes `list_brains` fail
  only between the two halves of a write to its `brain.json`
  (`ListsUnlessTorn`). Two processes and three operations are enough for two commits
  to cross while a third operation reads, and for an export to meet a commit;
  with `MaxOps` 4 and no crash (5.5 million states) nothing new appears.
- `service_memory` passes. `Already` = 8 preferences were appended and forgotten
  before, so that the refs handed out pass from H9 to H10, where the order of
  strings and that of numbers part. Two calls with a second attempt each give up
  to four appends, enough for a Forget or a restart (`MaxEvents` counts both)
  between any two of them; with two such events (2.3 million states, safety
  only) nothing new appears. Plans come from headers, planners, the fallback and
  the SDKs, and with a stall in between: `FetchesFromMemory` says of all of them
  that what they fetch was in the memory. Every call that reached the service
  ends (`CallsEnd`), and `CallsNeverGoBack` says why: each of its at most seven
  steps per attempt brings it further.
- `branch_merge` passes: four commands that succeed are enough to branch,
  suppress, and merge both ways, or to grant, revoke and grant again; commands
  that fail do not count.

Disagreements (each run is expected to find a violation; the documents are
quoted in `PROJECT.json`, "findings"):

- `kernel_literal`: a selector that returns a struct copies the plan's
  parameters, so a plan can assert a literal of its own, here a subject that no
  handle has.
- `kernel_ready`: a selector returns handles that are not ready, where FETCH
  stalls.
- `kernel_citations`: a cited handle need not be in the manifest.
- `kernel_blocks`: without an ASSERT, output registers are shown as verified
  blocks without the lineage gate: the fields of a struct with their values, of
  a broken-lineage handle too. A register of handles shows only their refs, and
  `BlocksKeepLineage` does not count it.
- `store_import`: an import under a new name or id writes a manifest its
  signature does not cover; the copy never loads.
- `store_trail`: of two overlapping commits one is lost although both were
  acknowledged.
- `service_forget`: a manifest read before a Forget still answers after it.

Two behaviours the model has and no document speaks of: a process that dies
between `brain.json` and `state.enc` loses the brain for good (the abstract
store's `Lose`), and one unreadable `brain.json` makes every operation on every
other brain fail (`ListBrain`), for a moment or, if the brain was damaged, until
somebody removes it.

### Fairness

Only `MemoryCalls` assumes any, for `CallsEnd`: `FairSpec` is weak fairness of
each call's next step (`Goon(c)`). The handlers never wait while they hold the
mutex, tokio runs every task that can go on, and the server's request timeout
turns a slow handler into an error, which is a failure the call ends with; the
planner's HTTP client has a timeout of its own (`build_state`). Neither the
adapter nor the SDKs set one: that a connection to the service delivers a
response or breaks is assumed. Nobody need ask, ask again, forget, restart or
fail. `service_forget` checks an action property and does not depend on
fairness. Safety needs none.

### Deadlock

TLC checks for deadlock in every run; the steps `Answered` and `Finished` are
the ends the system may reach: an answered request, all operations or commands
done, all calls ended. So the runs also show that no request, process or call gets stuck
before such an end.

## Proofs

TLAPS checks the eight `…Proofs` modules. Their theorems are about `Spec` and
every value of the constants that meets the named assumptions; TLC evaluates
each assumption on every run.

| Assumption | Says | Because |
|---|---|---|
| `RefsAssumption` | refs are natural numbers | they stand for their place in the order of strings |
| `RequestsAssumption` | a manifest is finite, its refs are refs, its tiers and taints are those of the enums, its limits are unsigned; plans, bindings and citations are sequences | they are protocol messages |
| `RowCostAssumption` | one row costs one unit | 1^1.2 = 1 |
| `ServiceAssumption` | finitely many calls, tries and earlier events, filters of the protocol, at least one try | protocol messages; the numbers are bounds of the model |
| `ProxyAssumption` | requests of the proxy are well formed; an API key is mapped to a subject, which may be blank | `api_keys.json` is not checked for blanks |
| `BranchAssumption` | an imported package has the active branch, finite branches and nothing suppressed yet; no model is named `*` | what these commands suppressed before an export is a state the model reaches without it; `*` stands for all models |
| `StoreAssumption` | the operations are known ones, the bounds are natural numbers | bounds of the model |

### The kernel

`RmvmKernelProofs` proves that `ProvenanceCoversData`, `TaintPersists`,
`TrustNeverRises`, `PolicyGate` and `LineageGate` are invariants: plans of any
length over any number of handles. None of the five is inductive. An assertion
is gated by the summary of the registers it binds, so the invariant
`LineageInv` says of every register that it is `Sound`: its content is within
its provenance, its taint is exactly that of the provenance, and its tier is at
most that of any handle of the provenance. The equality for taint is what the
induction needs: a join's taint is then that of the joined provenance. Of every
assertion it says that it is `Gated`: what it carries passed the gates. The
proof has a lemma per operation (`FetchSound`, …, `AssertGated`),
`BoundSummary` for what ASSERT sums up over its bindings, and `NextLineage`,
with a case per action.

The same module proves `TypeOK`, `ReadsDefined` and `WriteOnce`.
`LineageInv` already types the registers and the assertions; `ControlOK` types
the rest, from lemmas that every check answers with a code of `Codes`. For the
other two, what the check did must be remembered while the plan runs: `SsaInv`
says that `DOMAIN depth` is the set of registers the checked steps declare
(`Outs`), that each of those steps declared a register no earlier one had and
reads only declared ones (`CheckedTo`), and that during execution `DOMAIN regs`
is the outputs of the steps that ran. `regs.insert` therefore never overwrites.

`RmvmKernelLimitsProofs` goes on from there. `DepthInv`: each checked step has
recorded the depth its operation will compute, from registers that no later
step changes (`SsaInv`), so `DepthAgrees`. `FanoutBounded` is proved operation
by operation: a selector's rows are within its estimate, a resolution and a
filter keep a subset, a join and a projection check. `AnswerInv` counts the
ASSERT steps done so far, in order, and that no FETCH among them met a handle
that was not ready; at the end it is `CompleteOrNothing`. `ReadyInv` says that
what a register carries is ready or was matched by a selector step of the plan
that has run: FETCH stalls on anything else, and every other operation takes its
content from registers before it (`ResultProvenance`). `AssertCites` says what
`canonicalize_citations` makes of an assertion without citations, its
provenance, which covers its content (`LineageInv`): `CitesItsLineage`.

### The proof in an answer

`InclusionProofs` proves `EveryProofProves`, for lists of every length, and from
it `InclusionProves`. The provers cannot instantiate the library's induction
theorems, but they can prove what those say about one *set*: a set of naturals
that has 0, and n + 1 whenever it has n, has them all (`SetInduction`, from the
least number not in it). Each induction defines the set of the numbers for which
the fact holds. `LevelsDef`, `AncestorsDef` and `RecomputedDef` show so that the
recursive functions exist and do what their definitions say; `LevelLengths` and
`HeightFacts` that the loop ends at a level of one node; `AncestorOnLevel` and
`OneLevelUp` that a node and its sibling hash to the node above, the odd last
node included. Then `RecomputedFromOwnLeaf` climbs from the leaf at an index to
the root, and `OnePathOneLeaf` says that two leaves that lead to one root along
one path are equal. `RootDeterminesAnswer` goes the other way, from the root down
(`SameHeight`, `ParentsInjective`): two answers of as many assertions with one
`semantic_root` are the same answer. All of it takes SHA-256 to be injective.

### What checks plans

`PlanGuardProofs` proves all six properties of `PlanGuard`.
`ExecutedIsGuarded`: `GuardInv` says of the steps that the kernel's check has
passed that the guard admits them. `SdkRefusesNoAnswer` needs the execution as
well (`SdkInv`), since a step that reads its own register passes the check and
fails there. `ValidatedRefsAreKnown` and `ParsedLacksNothing` go through every
fault of every operation. `FallbackIsAnswered` follows the three steps of the
fallback plan through the check and the execution (`FallbackInv`), over any
number of handles.

### The service and its clients

`MemoryCallsProofs` proves every safety property of `MemoryCalls`. The
invariant `Inv` has seven parts: the calls are well formed (`CallsInv`); events
are no more than the attempts that have sent one (`CountInv`), which is what
bounds the numbers of refs; an entry of the log belongs to an attempt that is
past its append, and refs are not handed out twice (`LogInv`); the handles are
those of the appends that were not forgotten (`MemoryInv`); what a call wrote
is in the log at the place it remembers, and in the manifest it read unless
forgotten (`OwnInv`); a plan to be executed fetches from its manifest, and a
fallback chat has a sound one (`ChatInv`); and all that a manifest lists was in
the memory when it was read (`SourceInv`). The last two together are
`FetchesFromMemory`. `NextCases` first reduces every step to one of six kinds,
of which only three touch the service; the sixth, `Quiet`, also says where a call
may go, from which `CallsNeverGoBack` follows.

That the fallback and the SDKs fetch a handle of the manifest needs that the
manifest has a first one, in the order of the strings of the refs: `DigitsType`
and the lemmas `AtMost…` prove that order total and transitive, and
`FirstRefListed` that a finite set has a first ref, again by induction as a fact
about a set (`NumbersByInduction`). There is no bound on the refs.

### The store

`HoldsInv` (`BrainStoreProofs`) is what holds of files and jobs whatever
crashes and races there were: a file is absent, empty, garbled, or whole with
what one operation wrote to it; a job holds what it read and has left to write
the last files of its operation. It carries the log that each operation
encrypted (`logs`), which is how two blobs with one checksum are the same. From
it follow `TypeOK`, `KeyMappedOnce`, and `SnapshotRead`: a loader compares the
checksum in the manifest with the state, and every signed manifest has the time
of its state.

`BrainsInv` (`BrainPromisesProofs`) is about the brains that nothing damaged:
at most one process commits to such a brain; if none does, or its commit has
not begun, the brain is `Settled`; and a commit that has begun leaves, with
what is on disk and what is left to write together, a brain that loads with the
log that will be acknowledged (`CommitHolds`). Every step keeps it, or puts the
brain in `damaged`, whatever the number of processes. `UndamagedLoads` follows,
and `ListsUnlessTorn`: a commit that has begun has truncated `brain.json` and is
about to write it, or has written it.

The refinement is proved for one process at a time (`OneProcess`; for two it is
false: the entry that `store_trail` loses was recorded), crashes included:
`AtomicTheorem`. `SerialInv`
says that what the process has read is still there, that a mutation has written
exactly the files it has come to, and that every state on disk is older than
the operation under way; so an operation that is recorded is new to every
brain, and a mutation that dies half-way leaves a brain that loads as before or
not at all. Each step is then a step of `AtomicBrains` or a stutter
(`QuietSeen`, `CreateSeen`, …, `RecordSeen`, `LoseSeen`).

`BranchMergeProofs` proves all of `BranchMerge`. `BranchesInv` with
`SuppressionIsRecorded` is inductive; `OverwrittenByTheirs` and
`TrailCountsChanges` are about each command's effect, stated once per command.
`GrantsAreAudited` is inductive once the trail and the grants are typed
(`GrantsInv`); its steps rest on what `Retained` leaves of a sequence and on what
one more entry means for a replay (`AuditedAfter`).

### Only model-checked

- `CallsEnd`, liveness under fairness, which this prover does not reach. Its
  safety half is proved: `CallsNeverGoBack` gives each call a measure that every
  one of its steps raises.
- The properties of the runs that find a violation, of course.

## Not modelled

- Cryptography and hashing (symbolic where they matter), the trace root, the
  canonical encoding, generated code.
- JSON and template text, the conversion of JSON values to parameters, the
  prompt for the planner.
- HTTP and gRPC framing, the bodies and headers of the proxy's responses, its
  health check and start-up. `docs/proxy_mode.md` gives the error codes as
  `cortex_stall` and `cortex_rejected_<ERROR_CODE>` where the code sends the bare
  name of the error; that is wording, and no run is about it.
- Command line parsing and printing; the SDKs' conversion of plans to messages.
- The conformance harness and the fixtures: test code, whose requests are
  inputs of the kernel.

## Plan

Done: the kernel with its runs and proofs, what stands before it (`PlanGuard`)
and the proof it returns (`AssertionProof`), the store with its refinement and
its state (`BranchMerge`), the service with its clients, and the proofs of every
safety property the passing runs check. What could follow:

1. What `UndamagedLoads` leaves open: a brain that a crash damaged may load
   again only as what it was before the crash.
2. The refinement of `AtomicBrains` for processes that overlap in time but not
   on one brain: `BrainsInv` is already about any number of processes.
3. The trace root, if something comes to rely on it.
