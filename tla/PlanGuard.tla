------------------------------ MODULE PlanGuard ------------------------------
(***************************************************************************)
(* What stands between a planner and the kernel: the parser, validator and *)
(* fallback planner of the proxy (portable-brain-proxy/crates/             *)
(* planner-guard) and the validators of the two SDKs (sdk/typescript,      *)
(* sdk/python).  All three look at a plan and a manifest before the kernel *)
(* does; this module relates their verdicts to what the kernel answers.    *)
(***************************************************************************)
EXTENDS RmvmKernel

\* The registers that the steps before step i declare.
DeclaredBefore(plan, i) == {plan.steps[j].out : j \in 1..(i - 1)}

\* Mutant: selector refs are not looked up.
MutKnownRef(s, manifest) == s.op = "FETCH" => s.handle \in DOMAIN manifest.handles

KnownRef(s, manifest) ==
    /\ s.op = "FETCH" => s.handle \in DOMAIN manifest.handles
    /\ s.op = "APPLY_SELECTOR" => s.sel \in DOMAIN manifest.selectors

-----------------------------------------------------------------------------
\* planner-guard: parse_plan_json.  A plan in JSON, written as the SDKs write it
\* or as the protocol does, is refused unless every step has an operation with
\* all its parts; a citation of nothing is left out.

\* Mutant: an edge nobody knows is sent on as the unspecified one.
MutKnownEdge(s) == TRUE

KnownEdge(s) == s.op = "JOIN" => s.edge # "UNSPECIFIED"

KnownAssertion(s) == s.op = "ASSERT" => s.type # "UNSPECIFIED"

Cited(s) == s.op = "ASSERT" => \A i \in DOMAIN s.cites : s.cites[i].variant # "none"

ParsedStep(s) == s.op # "MISSING" /\ KnownEdge(s) /\ KnownAssertion(s) /\ Cited(s)

\* The plans that come out of the parser.
Parsed(plan) == \A i \in DOMAIN plan.steps : ParsedStep(plan.steps[i])

-----------------------------------------------------------------------------
\* planner-guard: validate_plan_against_manifest.  The step's own register is
\* inserted before its inputs are looked up.

\* Mutant: the register is inserted last, as in the SDKs.
MutGuardMayRead(plan, i) == DeclaredBefore(plan, i)

GuardMayRead(plan, i) == DeclaredBefore(plan, i) \cup {plan.steps[i].out}

GuardAdmitsStep(plan, manifest, i) ==
    LET s == plan.steps[i] IN
    /\ s.out \notin Blank
    /\ s.out \notin DeclaredBefore(plan, i)
    /\ s.op # "MISSING"
    /\ KnownRef(s, manifest)
    /\ Reads(s) \subseteq GuardMayRead(plan, i)

GuardAdmits(plan, manifest) == \A i \in DOMAIN plan.steps : GuardAdmitsStep(plan, manifest, i)

-----------------------------------------------------------------------------
\* SDKs: validatePlanAgainstManifest, validate_plan_against_manifest.  The
\* register is added after the inputs are looked up, a name of spaces is a
\* name, and a step of an unknown kind passes.

\* Mutant: the register is added first, as in the planner guard.
MutSdkMayRead(plan, i) == DeclaredBefore(plan, i) \cup {plan.steps[i].out}

SdkMayRead(plan, i) == DeclaredBefore(plan, i)

\* Mutant: a register may be read by one step only.
MutSdkAdmitsStep(plan, manifest, i) ==
    LET s == plan.steps[i] IN
    /\ s.out # ""
    /\ KnownRef(s, manifest)
    /\ Reads(s) \subseteq SdkMayRead(plan, i) \ UNION {Reads(plan.steps[j]) : j \in 1..(i - 1)}

SdkAdmitsStep(plan, manifest, i) ==
    LET s == plan.steps[i] IN
    /\ s.out # ""
    /\ s.out \notin DeclaredBefore(plan, i)
    /\ KnownRef(s, manifest)
    /\ Reads(s) \subseteq SdkMayRead(plan, i)

SdkAdmits(plan, manifest) == \A i \in DOMAIN plan.steps : SdkAdmitsStep(plan, manifest, i)

-----------------------------------------------------------------------------
\* planner-guard: deterministic_plan_from_manifest

\* Mutant: the projection of the selector's result asks for a field of a handle.
MutFallbackPath(fetched) == "meta.subject"

FallbackPath(fetched) == IF fetched THEN "meta.subject" ELSE "set_count"

FallbackSteps(first, path) ==
    <<first,
      [op |-> "PROJECT", out |-> "r1", in |-> "r0", paths |-> {path}],
      [op |-> "ASSERT", out |-> "r2", type |-> "WORLD_FACT", cites |-> <<>>,
       binds |-> <<[name |-> "subject", reg |-> "r1", path |-> path]>>]>>

\* The first handle is fetched; without handles the first selector, here any,
\* is asked for the subject.
FallbackPlans(request_id, subject, manifest) ==
    LET listed == DOMAIN manifest.handles
        firsts == IF listed # {}
                  THEN {[op |-> "FETCH", out |-> "r0", handle |-> Min(listed)]}
                  ELSE {[op |-> "APPLY_SELECTOR", out |-> "r0", sel |-> sel,
                         params |-> <<[name |-> "subject", type |-> "STRING", v |-> subject]>>] :
                            sel \in DOMAIN manifest.selectors}
    IN  {[request_id |-> request_id, outputs |-> {"r2"},
          steps |-> FallbackSteps(first, FallbackPath(listed # {}))] : first \in firsts}

-----------------------------------------------------------------------------
\* What get_manifest of the RMVM service offers: confirmed handles of the users'
\* own words, all ready, one selector and a constant budget.

Served(ref, subject) ==
    [availability |-> "READY", trust |-> 4, taint |-> {"USER"}, valid_from |-> 0,
     subject |-> subject, type_id |-> "normative.preference", scope |-> "GLOBAL",
     group |-> subject, signature |-> subject, paths |-> {"meta.subject", "meta.scope"}]

ServedManifest(request_id, subjects) ==
    [request_id |-> request_id,
     handles |-> [ref \in DOMAIN subjects |-> Served(ref, subjects[ref])],
     selectors |-> [sel \in {"S0"} |->
        [return_type |-> "HANDLE_SET", cost_weight |-> 125,
         params |-> [p \in {"subject"} |-> [type |-> "STRING", enum |-> {}]]]],
     budget |-> [max_ops |-> 128, max_join_depth |-> 3, max_fanout |-> 64,
                 max_total_cost |-> 256 * Unit]]

\* GrpcKernelService::default
ServedOptions == [allow_partial |-> FALSE, degraded |-> FALSE, broken |-> {}, templates |-> <<>>]

-----------------------------------------------------------------------------
\* Properties

RefCodes == {"UNKNOWN_HANDLE_REF", "UNKNOWN_SELECTOR_REF"}

\* The guard and the SDKs exist to stop plans that name what the manifest does
\* not have: the kernel refuses no plan for that reason that one of them let
\* through, neither in its check nor while it executes.
ValidatedRefsAreKnown ==
    GuardAdmits(req.plan, req.manifest) \/ SdkAdmits(req.plan, req.manifest) =>
        response.code \notin RefCodes

\* The SDKs' validators know less than the kernel and are stricter about
\* inputs: they refuse no plan that the kernel would have answered in full.
SdkRefusesNoAnswer == response.status = "OK" => SdkAdmits(req.plan, req.manifest)

\* What the kernel's check and the guard let pass, a step that reads its own
\* register, the SDKs stop: a plan of theirs never misses a register while it
\* executes.
SdkPlansReadWritten ==
    SdkAdmits(req.plan, req.manifest) /\ pc = "execute" /\ idx <= Len(Steps) =>
        Reads(Step) \subseteq DOMAIN regs

\* The kernel executes only what the guard admits: what differs between the two
\* (budgets, ids, parameters, outputs) only makes the kernel stricter.
ExecutedIsGuarded == pc = "execute" => GuardAdmits(req.plan, req.manifest)

\* What the parser lets through lacks nothing that the kernel needs: once the
\* inputs of a join or the bindings of an assertion are as they should be,
\* neither is refused for its form.
ParsedLacksNothing ==
    Parsed(req.plan) /\ pc = "execute" /\ idx <= Len(Steps) /\ Reads(Step) \subseteq DOMAIN regs =>
        /\ Step.op = "JOIN" => "SCHEMA_VIOLATION" \notin JoinFaults(Step)
        /\ Step.op = "ASSERT" /\ FirstFault(Step.binds, BindingFaults) = {} =>
              "SCHEMA_VIOLATION" \notin AssertFaults(Step)

IsFallback ==
    /\ Complete
    /\ \E subject \in {Handles[h].subject : h \in Listed} \cup {"vinz"} :
          req.plan \in FallbackPlans(req.manifest.request_id, subject, req.manifest)

IsServed ==
    /\ req.manifest = ServedManifest(req.manifest.request_id, [h \in Listed |-> Handles[h].subject])
    /\ Opts = ServedOptions

\* The fallback plan is built without a look at the kernel's rules; over any
\* manifest that the service hands out the kernel answers it.
FallbackIsAnswered ==
    IsFallback /\ IsServed /\ pc = "done" => response.status = "OK" /\ Len(response.assertions) = 1

=============================================================================
