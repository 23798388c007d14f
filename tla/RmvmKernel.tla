----------------------------- MODULE RmvmKernel -----------------------------
(***************************************************************************)
(* The RMVM kernel (crates/rmvm-kernel/src/kernel.rs): one ExecuteRequest, *)
(* a manifest of handles and selectors with a plan of SSA steps, is first  *)
(* checked statically, step by step, and then executed, step by step, over *)
(* registers that carry provenance, taint and trust.                       *)
(*                                                                         *)
(* A value is abstracted to where it came from: its tag says what kind of  *)
(* value it is and "of" names the handles whose content it carries.        *)
(* Text, hashes and layout are left out.  Handle refs are numbered in the  *)
(* order of their strings, because the code breaks ties and sorts by ref.  *)
(* A manifest lists each ref once and every handle carries its metadata.   *)
(***************************************************************************)
EXTENDS Integers, Sequences, FiniteSets, FiniteSetsExt

CONSTANTS Refs,      \* the handle refs a manifest, a plan or an option may name
          Requests,  \* the requests: [manifest, plan, opts, sent], where sent says which of
                     \* manifest and plan the request really holds
          RowCost    \* RowCost[n]: n^1.2 in hundredths

Tiers == 0..5                      \* TRUST_TIER_UNSPECIFIED .. TIER_4_POLICY_SIGNED
Tier2 == 3                         \* TIER_2_VERIFIED
TaintClasses == {"USER", "TOOL", "WEB_UNTRUSTED", "WEB_TRUSTED", "MIXED"}
UntrustedTaint == {"WEB_UNTRUSTED", "MIXED"}
PolicyTypes == {"USER_PREFERENCE", "DECISION", "PROCEDURE"}
TooLong == 0                       \* for an index no usize holds; indices count from 1
Unit == 10000                      \* the cost of a simple step, in units of 10^-4

ASSUME RefsAssumption == Refs \subseteq Nat

\* What the proofs need of a request: refs are known, tiers and taints are
\* those of the enums, the manifest is finite and its limits are unsigned, plans
\* and the bindings and citations of an ASSERT are sequences, and a citation is one of
\* the variants of the protocol or none.
ASSUME RequestsAssumption ==
    \A q \in Requests :
        /\ DOMAIN q.manifest.handles \subseteq Refs /\ IsFiniteSet(DOMAIN q.manifest.handles)
        /\ \A h \in DOMAIN q.manifest.handles :
              /\ q.manifest.handles[h].trust \in Tiers
              /\ q.manifest.handles[h].taint \subseteq TaintClasses
        /\ {q.manifest.budget.max_join_depth, q.manifest.budget.max_fanout} \subseteq Nat
        /\ q.plan.steps \in Seq(Range(q.plan.steps))
        /\ \A i \in DOMAIN q.plan.steps :
              q.plan.steps[i].op = "ASSERT" =>
                  /\ q.plan.steps[i].binds \in Seq(Range(q.plan.steps[i].binds))
                  /\ q.plan.steps[i].cites \in Seq(Range(q.plan.steps[i].cites))
                  /\ \A c \in Range(q.plan.steps[i].cites) : c.variant \in {"handle", "anchor", "none"}

\* One row costs one unit.
ASSUME RowCostAssumption == RowCost[1] = 100

VARIABLES req,         \* the request
          pc,          \* accept, check, execute or done
          idx,         \* the step being checked or executed
          depth,       \* the static join depth of each declared register
          cost,        \* the static cost of the steps checked so far
          regs,        \* the registers written so far
          assertions,  \* the verified assertions built so far
          response     \* the answer

vars == <<req, pc, idx, depth, cost, regs, assertions, response>>

-----------------------------------------------------------------------------
\* The request and the budget

Handles == req.manifest.handles
Listed == DOMAIN Handles
Selectors == req.manifest.selectors
Steps == req.plan.steps
Step == Steps[idx]
Opts == req.opts

OrDefault(value, default) == IF value <= 0 THEN default ELSE value

Budget ==
    [max_ops        |-> OrDefault(req.manifest.budget.max_ops, 128),
     max_join_depth |-> OrDefault(req.manifest.budget.max_join_depth, 3),
     max_fanout     |-> OrDefault(req.manifest.budget.max_fanout, 64),
     max_total_cost |-> OrDefault(req.manifest.budget.max_total_cost, 512 * Unit)]

-----------------------------------------------------------------------------
\* Helpers

With(f, key, value) ==
    [k \in DOMAIN f \cup {key} |-> IF k = key THEN value ELSE f[k]]

Larger(a, b) == IF a >= b THEN a ELSE b
\* Mutant: min_tier keeps the higher tier.
MutLowerTier(a, b) == IF a >= b THEN a ELSE b

LowerTier(a, b) == IF a <= b THEN a ELSE b

\* The fold of min_tier over the tiers met, Unspecified when there are none.
LowestTier(tiers) == IF tiers = {} THEN 0 ELSE Min(tiers)

\* The error codes a check can answer with: none when the check passes.
Fault(condition, code) == IF condition THEN {code} ELSE {}

\* A loop over a list stops at the first item with a fault.
FirstFault(items, FaultsOf(_)) ==
    LET bad == {i \in DOMAIN items : FaultsOf(items[i]) # {}}
    IN  IF bad = {} THEN {} ELSE FaultsOf(items[Min(bad)])

TaintOf(hs) == UNION {Handles[h].taint : h \in hs}
TrustOf(hs) == LowestTier({Handles[h].trust : h \in hs})

\* Registers that a step reads.
Reads(s) ==
    CASE s.op \in {"RESOLVE", "FILTER", "PROJECT"} -> {s.in}
      [] s.op = "JOIN" -> {s.left, s.right}
      [] s.op = "ASSERT" -> {s.binds[i].reg : i \in DOMAIN s.binds}
      [] OTHER -> {}

-----------------------------------------------------------------------------
\* Values, registers and assertions

Value == [tag : {"field", "set_count", "matched_count", "param"}, of : SUBSET Refs]
FieldOf(h) == [tag |-> "field", of |-> {h}]
CountOf(hs) == [tag |-> "set_count", of |-> hs]
MatchedCount == [tag |-> "matched_count", of |-> Listed]
ParamLiteral == [tag |-> "param", of |-> {}]

NoFields == [n \in {} |-> ParamLiteral]

\* The handles whose content a set of fields carries.
Carried(fields) ==
    UNION {fields[n].of : n \in {m \in DOMAIN fields : fields[m].tag \in {"field", "set_count"}}}

RegOfHandles(kind, hs, lineage, source) ==
    [kind |-> kind, handles |-> hs, fields |-> NoFields, prov |-> lineage,
     taint |-> TaintOf(lineage), trust |-> TrustOf(lineage), depth |-> 0, source |-> source]

-----------------------------------------------------------------------------
\* Selector templates and filters

TypeMatches(param, spec) ==
    /\ param.type = IF spec.type = "SCOPE" THEN "ENUM" ELSE spec.type
    /\ param.type = "ENUM" => spec.enum = {} \/ param.v \in spec.enum

ParamFaults(sel, param) ==
    IF param.name \notin DOMAIN sel.params
    THEN {"SCHEMA_VIOLATION"}
    ELSE Fault(~TypeMatches(param, sel.params[param.name]), "TYPE_MISMATCH")

SelectorFaults(s) ==
    IF s.sel \notin DOMAIN Selectors
    THEN {"UNKNOWN_SELECTOR_REF"}
    ELSE FirstFault(s.params, LAMBDA p : ParamFaults(Selectors[s.sel], p))

\* scope and availability also match an enum literal, the others only a string.
ParamMatches(h, param) ==
    \/ param.name \notin {"subject", "type_id", "scope", "availability"}
    \/ /\ param.type = "STRING" \/ (param.type = "ENUM" /\ param.name \in {"scope", "availability"})
       /\ Handles[h][param.name] = param.v

Matched(s) == {h \in Listed : \A i \in DOMAIN s.params : ParamMatches(h, s.params[i])}

EstimatedRows(sel) ==
    IF sel.return_type = "HANDLE_SET"
    THEN Larger(1, IF Cardinality(Listed) <= Budget.max_fanout
                   THEN Cardinality(Listed) ELSE Budget.max_fanout)
    ELSE 1

SelectorCost(sel) ==
    (IF sel.cost_weight <= 0 THEN 100 ELSE sel.cost_weight) * RowCost[EstimatedRows(sel)]

\* args holds the filter's argument, or nothing when it is absent or of
\* another type.
KnownFilter(filter) ==
    \/ filter.ref = "identity"
    \/ filter.ref \in {"by_subject", "by_type", "by_scope", "trust_at_least"} /\ filter.args # {}

PassesFilter(h, filter) ==
    CASE filter.ref = "by_subject" -> Handles[h].subject \in filter.args
      [] filter.ref = "by_type" -> Handles[h].type_id \in filter.args
      [] filter.ref = "by_scope" -> Handles[h].scope \in filter.args
      [] filter.ref = "trust_at_least" -> \A tier \in filter.args : Handles[h].trust >= tier
      [] OTHER -> TRUE

Edge(edge, l, r) ==
    CASE edge = "CONFLICTS_WITH" ->
            Handles[l].group # "" /\ Handles[l].group = Handles[r].group /\ l # r
      [] edge = "SUPERSEDES" -> Handles[l].type_id = Handles[r].type_id /\ l # r
      [] edge = "PROVENANCE" -> Handles[l].signature = Handles[r].signature
      [] edge = "SAME_ENTITY" -> Handles[l].subject = Handles[r].subject
      [] OTHER -> FALSE

-----------------------------------------------------------------------------
\* What each operation does to the registers: the codes it can fail with, in
\* the order the code tests them, and the register it produces.

\* A set-valued input; a missing register is SCHEMA_VIOLATION, a struct TYPE_MISMATCH.
HandleInputFaults(inputs) ==
    IF ~(inputs \subseteq DOMAIN regs)
    THEN {"SCHEMA_VIOLATION"}
    ELSE Fault(\E r \in inputs : regs[r].kind = "STRUCT", "TYPE_MISMATCH")

\* Mutant: the fanout test is off by one.
MutTooMany(hs) == Fault(Cardinality(hs) > Budget.max_fanout + 1, "GRAPH_TRAVERSAL_LIMIT")

TooMany(hs) == Fault(Cardinality(hs) > Budget.max_fanout, "GRAPH_TRAVERSAL_LIMIT")

FetchedRegister(h) == RegOfHandles("HANDLE", {h}, {h}, "FETCH")
EmptyFetch == RegOfHandles("HANDLE_SET", {}, {}, "FETCH")

SelectFaults(s) ==
    LET return == Selectors[s.sel].return_type IN
    IF SelectorFaults(s) # {} THEN SelectorFaults(s)
    ELSE IF TooMany(Matched(s)) # {} THEN TooMany(Matched(s))
    ELSE Fault(return = "HANDLE" /\ Matched(s) = {}, "TYPE_MISMATCH")
         \cup Fault(return = "UNSPECIFIED", "SCHEMA_VIOLATION")

\* matched_count is taken from the whole manifest, and the parameters of the
\* plan are copied beside it.
SelectResult(s) ==
    LET return == Selectors[s.sel].return_type
        of(kind, hs) == RegOfHandles(kind, hs, Matched(s), "APPLY_SELECTOR")
    IN  CASE return = "HANDLE" -> of("HANDLE", {Min(Matched(s))})
          [] return = "HANDLE_SET" -> of("HANDLE_SET", Matched(s))
          [] OTHER -> [of("STRUCT", {}) EXCEPT !.fields =
                [n \in {s.params[i].name : i \in DOMAIN s.params} \cup {"matched_count"} |->
                    IF \E i \in DOMAIN s.params : s.params[i].name = n
                    THEN ParamLiteral ELSE MatchedCount]]

\* The conflict policy: higher tier first, then later valid_from.
Beats(g, h) ==
    \/ Handles[g].trust > Handles[h].trust
    \/ Handles[g].trust = Handles[h].trust /\ Handles[g].valid_from > Handles[h].valid_from

Winners(hs) == {h \in hs : \A g \in hs : ~Beats(g, h)}

ResolveFaults(s) ==
    IF HandleInputFaults({s.in}) # {} THEN HandleInputFaults({s.in})
    ELSE Fault(Cardinality(Winners(regs[s.in].handles)) # 1, "AMBIGUOUS_CONFLICT")

ResolveResult(s) ==
    [regs[s.in] EXCEPT !.kind = "HANDLE", !.source = "RESOLVE",
                       !.handles = Winners(regs[s.in].handles)]

Kept(s) == {h \in regs[s.in].handles : PassesFilter(h, s.filter)}

\* The filter's name and argument are looked at once per handle: never when
\* there is none.
FilterFaults(s) ==
    IF HandleInputFaults({s.in}) # {} THEN HandleInputFaults({s.in})
    ELSE IF regs[s.in].handles # {} /\ ~KnownFilter(s.filter) THEN {"SCHEMA_VIOLATION"}
    ELSE TooMany(Kept(s))

\* Mutant: a filter labels what it kept, perhaps nothing, as a single handle.
MutFilterResult(s) ==
    [regs[s.in] EXCEPT !.kind = "HANDLE", !.source = "FILTER", !.handles = Kept(s)]

FilterResult(s) ==
    [regs[s.in] EXCEPT !.kind = "HANDLE_SET", !.source = "FILTER", !.handles = Kept(s)]

Joined(s) ==
    LET pairs == {p \in regs[s.left].handles \X regs[s.right].handles : Edge(s.edge, p[1], p[2])}
    IN  {p[1] : p \in pairs} \cup {p[2] : p \in pairs}

JoinFaults(s) ==
    IF ~({s.left, s.right} \subseteq DOMAIN regs) \/ s.edge = "UNSPECIFIED"
    THEN {"SCHEMA_VIOLATION"}
    ELSE IF HandleInputFaults({s.left, s.right}) # {} THEN HandleInputFaults({s.left, s.right})
    ELSE TooMany(Joined(s))

\* Mutants: a join that keeps the provenance of its left side only, and one
\* that keeps the taints both sides share.
MutJoinLeft(s) ==
    LET l == regs[s.left]  r == regs[s.right] IN
    [kind |-> "HANDLE_SET", handles |-> Joined(s), fields |-> NoFields,
     prov |-> l.prov, taint |-> l.taint \cup r.taint,
     trust |-> LowerTier(l.trust, r.trust), depth |-> Larger(l.depth, r.depth) + 1,
     source |-> "JOIN"]

MutJoinShared(s) ==
    LET l == regs[s.left]  r == regs[s.right] IN
    [kind |-> "HANDLE_SET", handles |-> Joined(s), fields |-> NoFields,
     prov |-> l.prov \cup r.prov, taint |-> l.taint \cap r.taint,
     trust |-> LowerTier(l.trust, r.trust), depth |-> Larger(l.depth, r.depth) + 1,
     source |-> "JOIN"]

JoinResult(s) ==
    LET l == regs[s.left]  r == regs[s.right] IN
    [kind |-> "HANDLE_SET", handles |-> Joined(s), fields |-> NoFields,
     prov |-> l.prov \cup r.prov, taint |-> l.taint \cup r.taint,
     trust |-> LowerTier(l.trust, r.trust), depth |-> Larger(l.depth, r.depth) + 1,
     source |-> "JOIN"]

\* The handle whose fields a PROJECT or a binding reads, and the paths that
\* handle_field finds on it.
Readable(r) == IF r.handles = {} THEN {} ELSE Handles[Min(r.handles)].paths

ProjectedPaths(r, paths) ==
    CASE r.kind = "HANDLE_SET" -> (IF r.handles = {} THEN {} ELSE paths) \cup {"set_count"}
      [] OTHER -> paths

ProjectFaults(s) ==
    IF s.in \notin DOMAIN regs THEN {"SCHEMA_VIOLATION"}
    ELSE LET r == regs[s.in] IN
         Fault(CASE r.kind = "HANDLE" -> ~(s.paths \subseteq Readable(r))
                 [] r.kind = "HANDLE_SET" ->
                        r.handles # {} /\ ~(s.paths \ {"set_count"} \subseteq Readable(r))
                 [] OTHER -> ~(s.paths \subseteq DOMAIN r.fields),
               "FIELD_REDACTED")

ProjectResult(s) ==
    LET r == regs[s.in]
        ValueAt(path) ==
            CASE r.kind = "STRUCT" -> r.fields[path]
              [] r.kind = "HANDLE_SET" /\ path = "set_count" -> CountOf(r.handles)
              [] OTHER -> FieldOf(Min(r.handles))
    IN  [r EXCEPT !.kind = "STRUCT", !.source = "PROJECT", !.handles = {},
                  !.fields = [path \in ProjectedPaths(r, s.paths) |-> ValueAt(path)]]

-----------------------------------------------------------------------------
\* ASSERT: what may be bound, the policy gates and the citations

BindingFaults(bind) ==
    IF bind.reg \notin DOMAIN regs THEN {"SCHEMA_VIOLATION"}
    ELSE LET r == regs[bind.reg] IN
         IF r.source \notin {"FETCH", "PROJECT"} THEN {"SCHEMA_VIOLATION"}
         ELSE IF r.kind = "HANDLE_SET" THEN {"TYPE_MISMATCH"}
         ELSE Fault(bind.path \notin (IF r.kind = "HANDLE" THEN Readable(r) ELSE DOMAIN r.fields),
                    "FIELD_REDACTED")

BoundValue(bind) ==
    LET r == regs[bind.reg] IN
    IF r.kind = "HANDLE" THEN FieldOf(Min(r.handles)) ELSE r.fields[bind.path]

BoundRegs(s) == {regs[s.binds[i].reg] : i \in DOMAIN s.binds}
BoundProv(s) == UNION {r.prov : r \in BoundRegs(s)}
\* Mutant: the taint gate looks at the last binding only.
MutBoundTaint(s) ==
    IF s.binds = <<>> THEN {} ELSE regs[s.binds[Len(s.binds)].reg].taint

BoundTaint(s) == UNION {r.taint : r \in BoundRegs(s)}
BoundTrust(s) == LowestTier({r.trust : r \in BoundRegs(s)})

\* Mutant: lineage is broken only when every handle is.
MutBroken(hs) == ~Opts.degraded /\ hs # {} /\ hs \subseteq Opts.broken

Broken(hs) == ~Opts.degraded /\ hs \cap Opts.broken # {}

GateFaults(s) ==
    IF s.type \in PolicyTypes /\ BoundTrust(s) < Tier2 THEN {"UNTRUSTED_PROVENANCE"}
    ELSE IF s.type \in PolicyTypes /\ BoundTaint(s) \cap UntrustedTaint # {}
         THEN {"DATA_LEAK_PREVENTION"}
    ELSE Fault(Broken(BoundProv(s)), "BROKEN_LINEAGE")

\* A citation of a handle is looked up among the broken handles, one of an
\* anchor is copied as it stands.
CitationFaults(cite) ==
    CASE cite.variant = "handle" -> Fault(Broken({cite.ref}), "BROKEN_LINEAGE")
      [] cite.variant = "anchor" -> {}
      [] OTHER -> {"SCHEMA_VIOLATION"}

\* Mutant: only the last binding is cited.
MutCitations(s) ==
    IF s.cites = <<>>
    THEN {[variant |-> "handle", ref |-> h] :
            h \in IF s.binds = <<>> THEN {} ELSE regs[s.binds[Len(s.binds)].reg].prov}
    ELSE Range(s.cites)

\* Without citations of its own an assertion cites its provenance.
Citations(s) ==
    IF s.cites = <<>> THEN {[variant |-> "handle", ref |-> h] : h \in BoundProv(s)}
    ELSE Range(s.cites)

AssertFaults(s) ==
    IF s.type = "UNSPECIFIED" THEN {"SCHEMA_VIOLATION"}
    ELSE IF FirstFault(s.binds, BindingFaults) # {} THEN FirstFault(s.binds, BindingFaults)
    ELSE IF GateFaults(s) # {} THEN GateFaults(s)
    ELSE FirstFault(s.cites, CitationFaults)

\* Bindings are a map: each field name is bound once.
BindingOf(s, name) == s.binds[CHOOSE i \in DOMAIN s.binds : s.binds[i].name = name]

BoundFields(s) ==
    [n \in {s.binds[i].name : i \in DOMAIN s.binds} |-> BoundValue(BindingOf(s, n))]

AssertResult(s) ==
    [kind |-> "STRUCT", handles |-> {}, fields |-> BoundFields(s),
     prov |-> BoundProv(s), taint |-> BoundTaint(s), trust |-> BoundTrust(s),
     depth |-> 0, source |-> "ASSERT"]

Assertion(s) == [type |-> s.type, fields |-> BoundFields(s), citations |-> Citations(s)]

-----------------------------------------------------------------------------
\* Initial state and answers

Pending == [status |-> "PENDING", code |-> "", assertions |-> <<>>, blocks |-> {}, stalled |-> {}]

Init ==
    /\ req \in Requests
    /\ pc = "accept" /\ idx = 1
    /\ depth = [r \in {} |-> 0] /\ cost = 0
    /\ regs = [r \in {} |-> EmptyFetch]
    /\ assertions = <<>>
    /\ response = Pending

Answer(resp) ==
    /\ pc' = "done"
    /\ response' = resp
    /\ UNCHANGED <<req, idx, depth, cost, regs, assertions>>

RejectWith(codes) ==
    \E c \in codes : Answer([Pending EXCEPT !.status = "REJECTED", !.code = c])

Stall(h) == Answer([Pending EXCEPT !.status = "STALL", !.stalled = {h}])

-----------------------------------------------------------------------------
\* Acceptance and the static check

Complete == req.sent = {"manifest", "plan"}

MismatchedIds ==
    /\ req.manifest.request_id # "" /\ req.plan.request_id # ""
    /\ req.manifest.request_id # req.plan.request_id

Accept ==
    /\ pc = "accept"
    /\ IF ~Complete \/ MismatchedIds THEN RejectWith({"SCHEMA_VIOLATION"})
       ELSE IF Len(Steps) > Budget.max_ops THEN RejectWith({"GRAPH_TRAVERSAL_LIMIT"})
       ELSE pc' = "check" /\ UNCHANGED <<req, idx, depth, cost, regs, assertions, response>>

\* The names that trim to nothing.
Blank == {"", " "}

\* Mutant: a register may be declared twice.
MutFresh(s) == s.out \notin Blank

Fresh(s) == s.out \notin Blank /\ s.out \notin DOMAIN depth

Checking(ops) ==
    /\ pc = "check" /\ idx <= Len(Steps)
    /\ Fresh(Step) /\ Step.op \in ops

\* A step declares its own register before its operation is looked at.
\* Mutant: one declared input is enough.
MutUndeclared(s) ==
    Fault(Reads(s) # {} /\ Reads(s) \cap (DOMAIN depth \cup {s.out}) = {}, "SCHEMA_VIOLATION")

Undeclared(s) == Fault(~(Reads(s) \subseteq DOMAIN depth \cup {s.out}), "SCHEMA_VIOLATION")

DepthOf(r) == IF r \in DOMAIN depth THEN depth[r] ELSE 0

Verify(faults, d, c) ==
    IF faults # {} THEN RejectWith(faults)
    ELSE /\ depth' = With(depth, Step.out, d)
         /\ cost' = cost + c
         /\ idx' = idx + 1
         /\ UNCHANGED <<req, pc, regs, assertions, response>>

CheckOut ==
    /\ pc = "check" /\ idx <= Len(Steps)
    /\ ~Fresh(Step) \/ Step.op = "MISSING"
    /\ RejectWith({"SCHEMA_VIOLATION"})

CheckFetch ==
    /\ Checking({"FETCH"})
    /\ Verify(Fault(Step.handle \notin Listed, "UNKNOWN_HANDLE_REF"), 0, Unit)

CheckSelector ==
    /\ Checking({"APPLY_SELECTOR"})
    /\ Verify(SelectorFaults(Step), 0, SelectorCost(Selectors[Step.sel]))

CheckUnary ==
    /\ Checking({"RESOLVE", "FILTER", "PROJECT"})
    /\ Verify(Undeclared(Step), DepthOf(Step.in), Unit)

\* Mutant: only the left side's depth counts.
MutJoinDepth(s) == DepthOf(s.left) + 1

JoinDepth(s) == Larger(DepthOf(s.left), DepthOf(s.right)) + 1

JoinCheckFaults(s) ==
    IF Undeclared(s) # {} THEN Undeclared(s)
    ELSE Fault(JoinDepth(s) > Budget.max_join_depth, "GRAPH_TRAVERSAL_LIMIT")

CheckJoin ==
    /\ Checking({"JOIN"})
    /\ Verify(JoinCheckFaults(Step), JoinDepth(Step), 2 * Unit)

CheckAssert ==
    /\ Checking({"ASSERT"})
    /\ Verify(Undeclared(Step), 0, Unit)

FinishCheck ==
    /\ pc = "check" /\ idx > Len(Steps)
    /\ IF cost > Budget.max_total_cost THEN RejectWith({"COST_GUARD_REJECTED"})
       ELSE IF ~(req.plan.outputs \subseteq DOMAIN depth) THEN RejectWith({"SCHEMA_VIOLATION"})
       ELSE /\ pc' = "execute" /\ idx' = 1
            /\ UNCHANGED <<req, depth, cost, regs, assertions, response>>

-----------------------------------------------------------------------------
\* Execution

Executing(op) == pc = "execute" /\ idx <= Len(Steps) /\ Step.op = op

\* regs.insert overwrites: only the static check keeps registers single-assignment.
Store(register) ==
    /\ regs' = With(regs, Step.out, register)
    /\ idx' = idx + 1
    /\ UNCHANGED <<req, pc, depth, cost, response>>

Conclude(faults, register) ==
    IF faults # {} THEN RejectWith(faults)
    ELSE Store(register) /\ UNCHANGED assertions

\* Mutant: a handle that is not ready never stalls.
MutExecFetch ==
    /\ Executing("FETCH")
    /\ IF Step.handle \notin Listed THEN RejectWith({"UNKNOWN_HANDLE_REF"})
       ELSE Conclude({}, IF Handles[Step.handle].availability = "READY"
                         THEN FetchedRegister(Step.handle) ELSE EmptyFetch)

\* Mutant: a partial execution fetches what is not ready.
MutPartialFetch ==
    /\ Executing("FETCH")
    /\ IF Step.handle \notin Listed THEN RejectWith({"UNKNOWN_HANDLE_REF"})
       ELSE IF Handles[Step.handle].availability = "READY" \/ Opts.allow_partial
            THEN Conclude({}, FetchedRegister(Step.handle))
       ELSE Stall(Step.handle)

ExecFetch ==
    /\ Executing("FETCH")
    /\ IF Step.handle \notin Listed THEN RejectWith({"UNKNOWN_HANDLE_REF"})
       ELSE IF Handles[Step.handle].availability = "READY"
            THEN Conclude({}, FetchedRegister(Step.handle))
       ELSE IF Opts.allow_partial THEN Conclude({}, EmptyFetch)
       ELSE Stall(Step.handle)

ExecApplySelector ==
    Executing("APPLY_SELECTOR") /\ Conclude(SelectFaults(Step), SelectResult(Step))

ExecResolve == Executing("RESOLVE") /\ Conclude(ResolveFaults(Step), ResolveResult(Step))

ExecFilter == Executing("FILTER") /\ Conclude(FilterFaults(Step), FilterResult(Step))

ExecJoin == Executing("JOIN") /\ Conclude(JoinFaults(Step), JoinResult(Step))

ExecProject == Executing("PROJECT") /\ Conclude(ProjectFaults(Step), ProjectResult(Step))

ExecAssert ==
    /\ Executing("ASSERT")
    /\ IF AssertFaults(Step) # {} THEN RejectWith(AssertFaults(Step))
       ELSE /\ Store(AssertResult(Step))
            /\ assertions' = Append(assertions, Assertion(Step))

\* A binding {A[i].field} of a narrative template: the digits may be too many for an
\* index, and the assertion or its field may not be there.
NarrativeFaults(bind) ==
    IF bind.assertion = TooLong THEN {"SCHEMA_VIOLATION"}
    ELSE Fault(\/ bind.assertion \notin DOMAIN assertions
               \/ bind.field \notin DOMAIN assertions[bind.assertion].fields,
               "FIELD_REDACTED")

\* A template is off the grammar, or its bindings are filled in, in turn.
TemplateFaults(template) ==
    IF ~template.grammatical THEN {"DATA_LEAK_PREVENTION"}
    ELSE FirstFault(template.binds, NarrativeFaults)

\* A printed block: a handle shows as its ref, a field as its value.
Printed(hs, fields) == [refs |-> hs, values |-> Carried(fields)]

\* The verified blocks print the assertions; without assertions they print the
\* output registers as they are.
VerifiedBlocks ==
    IF assertions = <<>>
    THEN {Printed(regs[x].handles, regs[x].fields) : x \in req.plan.outputs \cap DOMAIN regs}
    ELSE {Printed({}, assertions[i].fields) : i \in DOMAIN assertions}

Render ==
    /\ pc = "execute" /\ idx > Len(Steps)
    /\ IF FirstFault(Opts.templates, TemplateFaults) # {}
       THEN RejectWith(FirstFault(Opts.templates, TemplateFaults))
       ELSE Answer([Pending EXCEPT !.status = "OK", !.assertions = assertions,
                        !.blocks = VerifiedBlocks])

Answered == pc = "done" /\ UNCHANGED vars

Next ==
    \/ Accept
    \/ CheckOut \/ CheckFetch \/ CheckSelector \/ CheckUnary \/ CheckJoin \/ CheckAssert
    \/ FinishCheck
    \/ ExecFetch \/ ExecApplySelector \/ ExecResolve \/ ExecFilter \/ ExecJoin
    \/ ExecProject \/ ExecAssert
    \/ Render
    \/ Answered

Spec == Init /\ [][Next]_vars

-----------------------------------------------------------------------------
\* Properties

Codes == {"", "SCHEMA_VIOLATION", "UNKNOWN_HANDLE_REF", "UNKNOWN_SELECTOR_REF", "TYPE_MISMATCH",
          "GRAPH_TRAVERSAL_LIMIT", "COST_GUARD_REJECTED", "AMBIGUOUS_CONFLICT", "FIELD_REDACTED",
          "UNTRUSTED_PROVENANCE", "DATA_LEAK_PREVENTION", "BROKEN_LINEAGE"}

IsFields(f) == f \in [DOMAIN f -> Value]

IsReg(r) ==
    /\ r \in [kind : {"HANDLE", "HANDLE_SET", "STRUCT"}, handles : SUBSET Refs,
              fields : {r.fields}, prov : SUBSET Refs, taint : SUBSET TaintClasses,
              trust : Tiers, depth : Nat, source : {"FETCH", "APPLY_SELECTOR", "RESOLVE",
              "FILTER", "JOIN", "PROJECT", "ASSERT"}]
    /\ IsFields(r.fields)
    /\ r.kind = "HANDLE" => r.handles # {}

\* The one type invariant: registers, assertions and the answer are well formed,
\* and a register holding a single handle holds one.
TypeOK ==
    /\ req \in Requests
    /\ pc \in {"accept", "check", "execute", "done"}
    /\ idx \in Nat \ {0}
    /\ depth \in [DOMAIN depth -> Nat]
    /\ \A x \in DOMAIN regs : IsReg(regs[x])
    /\ \A i \in DOMAIN assertions : IsFields(assertions[i].fields)
    /\ response.status \in {"PENDING", "OK", "REJECTED", "STALL"}
    /\ response.code \in Codes

\* The handles whose content a register holds.
Content(r) == r.handles \cup Carried(r.fields)

\* Whatever chain of selects, filters, joins and projections built a register,
\* every handle whose content reached it is in its provenance (the lineage the
\* default citations of an ASSERT are taken from).
ProvenanceCoversData == \A x \in DOMAIN regs : Content(regs[x]) \subseteq regs[x].prov

\* Taint persistence: no operation drops a taint of a handle whose content the
\* register still holds.
TaintPersists == \A x \in DOMAIN regs : TaintOf(Content(regs[x])) \subseteq regs[x].taint

\* Monotonic trust: no derivation puts a register above the tier of any handle
\* whose content it holds.
TrustNeverRises ==
    \A x \in DOMAIN regs : \A h \in Content(regs[x]) : regs[x].trust <= Handles[h].trust

\* End to end: a policy-impacting assertion carries no content of a handle
\* below TIER_2 or of one with web-untrusted or mixed taint.
PolicyGate ==
    \A i \in DOMAIN assertions : assertions[i].type \in PolicyTypes =>
        \A h \in Carried(assertions[i].fields) :
            Handles[h].trust >= Tier2 /\ Handles[h].taint \cap UntrustedTaint = {}

\* In normal mode no assertion carries content of a broken-lineage handle.
LineageGate ==
    ~Opts.degraded =>
        \A i \in DOMAIN assertions : Carried(assertions[i].fields) \cap Opts.broken = {}

\* The join depth computed while executing is the one the static check computed,
\* so the static limit bounds execution.
DepthAgrees ==
    \A x \in DOMAIN regs :
        x \in DOMAIN depth /\ regs[x].depth = depth[x] /\ depth[x] <= Budget.max_join_depth

\* A step that is executed reads registers that are written, unless it reads
\* its own: the checks for a missing register at execution catch only that.
ReadsDefined ==
    pc = "execute" /\ idx <= Len(Steps) => Reads(Step) \subseteq DOMAIN regs \cup {Step.out}

\* No register ever holds more rows than max_fanout, and what a selector
\* returns is within the rows its cost was estimated from.
FanoutBounded ==
    /\ \A x \in DOMAIN regs : Cardinality(regs[x].handles) <= Budget.max_fanout
    /\ pc = "execute" => \A i \in 1..(idx - 1) : Steps[i].op = "APPLY_SELECTOR" =>
            Cardinality(regs[Steps[i].out].handles) <= EstimatedRows(Selectors[Steps[i].sel])

AssertsUpTo(n) == {i \in 1..n : Steps[i].op = "ASSERT"}

\* An OK answer stands for the whole plan: every step ran, each ASSERT answered
\* in plan order, and no FETCH met a handle that was not ready (unless the
\* caller allowed a partial execution).  Any other answer carries nothing.
CompleteOrNothing ==
    IF response.status = "OK"
    THEN /\ DOMAIN regs = {Steps[i].out : i \in DOMAIN Steps}
         /\ Len(response.assertions) = Cardinality(AssertsUpTo(Len(Steps)))
         /\ \A i \in AssertsUpTo(Len(Steps)) :
               response.assertions[Cardinality(AssertsUpTo(i))].type = Steps[i].type
         /\ Opts.allow_partial \/
            \A i \in DOMAIN Steps : Steps[i].op = "FETCH" =>
                                        Handles[Steps[i].handle].availability = "READY"
    ELSE response.assertions = <<>> /\ response.blocks = {}

\* Only FETCH looks at readiness, and what is not ready passes through no other
\* operation than a selector: content of a handle that is not ready, through
\* whatever chain, was matched by a selector of the plan.
UnreadyWasSelected ==
    pc = "execute" =>
        \A x \in DOMAIN regs : \A h \in Content(regs[x]) :
            \/ Handles[h].availability = "READY"
            \/ \E i \in 1..(idx - 1) : Steps[i].op = "APPLY_SELECTOR" /\ h \in Matched(Steps[i])

\* The answer to an ASSERT for which the plan gives no citations cites every
\* handle whose content it carries, only handles of the manifest and, in normal
\* mode, none of broken lineage.
CitesItsLineage ==
    response.status = "OK" =>
        \A i \in AssertsUpTo(Len(Steps)) : Steps[i].cites = <<>> =>
            LET answer == response.assertions[Cardinality(AssertsUpTo(i))]
                cited == {c.ref : c \in answer.citations}
            IN  /\ Carried(answer.fields) \subseteq cited
                /\ cited \subseteq Listed
                /\ Opts.degraded \/ cited \cap Opts.broken = {}

\* SSA at execution: a register, once written, never changes (regs.insert would
\* overwrite it).
WriteOnce ==
    [][\A x \in DOMAIN regs : x \in DOMAIN regs' /\ regs'[x] = regs[x]]_vars

-----------------------------------------------------------------------------
\* What the documents say and the code does not do

\* "Kernel rejects any assertion field that is not bound to executed data"
\* (the specification, register use check): no asserted value is a literal
\* of the plan.
AssertedFieldsAreExecutedData ==
    \A i \in DOMAIN assertions : \A n \in DOMAIN assertions[i].fields :
        assertions[i].fields[n].tag # "param"

\* "non-ready handles return STALL" (security guarantees, availability safety):
\* an answer OK in normal mode carries no content of a handle that is not ready.
AnsweredContentIsReady ==
    response.status = "OK" /\ ~Opts.allow_partial =>
        \A i \in DOMAIN response.assertions : \A h \in Carried(response.assertions[i].fields) :
            Handles[h].availability = "READY"

\* "plans can reference only HandleRef and SelectorRef values supplied in the
\* current PublicManifest": the handles an answer cites are of the manifest.
CitationsAreListed ==
    \A i \in DOMAIN response.assertions : \A c \in response.assertions[i].citations :
        c.variant = "handle" => c.ref \in Listed

\* "factual text is a pure function of executed verified assertions": in normal
\* mode no verified block shows a value taken from a broken-lineage handle.
BlocksKeepLineage ==
    ~Opts.degraded => \A block \in response.blocks : block.values \cap Opts.broken = {}

=============================================================================
