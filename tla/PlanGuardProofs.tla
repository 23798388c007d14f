--------------------------- MODULE PlanGuardProofs --------------------------
(***************************************************************************)
(* What the validators in front of the kernel and the kernel's own checks  *)
(* say of each other, for every request.                                   *)
(***************************************************************************)
EXTENDS PlanGuard, RmvmKernelLimitsProofs

-----------------------------------------------------------------------------
\* The kernel's check implies the guard's

Guarded(n) == \A i \in 1..n : GuardAdmitsStep(req.plan, req.manifest, i)

GuardInv ==
    /\ pc = "check" => Guarded(idx - 1)
    /\ pc = "execute" => Guarded(Len(Steps))

\* The registers before a step, in the words of the validators and of the kernel.
LEMMA DeclaredOuts ==
    ASSUME NEW i
    PROVE  DeclaredBefore(req.plan, i) = Outs(Steps, i - 1)
  BY DEF DeclaredBefore, Outs, Steps

\* A step that the check lets through is one that the guard admits.
LEMMA VerifyKeepsGuard ==
    ASSUME SsaInv, GuardInv, NEW ops, Checking(ops), NEW faults, NEW d, NEW c,
           Verify(faults, d, c),
           faults = {} =>
               /\ Step.op # "MISSING" /\ KnownRef(Step, req.manifest)
               /\ Reads(Step) \subseteq DOMAIN depth \cup {Step.out}
    PROVE  GuardInv'
<1>1. CASE faults # {}
  BY <1>1 DEF Verify, RejectWith, Answer, GuardInv
<1>2. CASE faults = {}
  <2>1. idx' = idx + 1 /\ UNCHANGED <<req, pc>>
    BY <1>2 DEF Verify
  <2>2. /\ pc = "check" /\ idx \in Nat \ {0} /\ Fresh(Step)
        /\ DOMAIN depth = Outs(Steps, idx - 1) /\ Guarded(idx - 1)
    BY DEF Checking, SsaInv, GuardInv
  <2>3. GuardAdmitsStep(req.plan, req.manifest, idx)
    <3>1. req.plan.steps[idx] = Step /\ DeclaredBefore(req.plan, idx) = DOMAIN depth
      BY <2>2, DeclaredOuts DEF Step, Steps
    <3> QED
      BY <1>2, <2>2, <3>1 DEF GuardAdmitsStep, GuardMayRead, Fresh
  <2>4. Guarded(idx)
    <3>1. 1..idx = 1..(idx - 1) \cup {idx}
      BY <2>2
    <3> QED
      BY <2>2, <2>3, <3>1 DEF Guarded
  <2>5. idx' - 1 = idx /\ pc' = "check"
    BY <2>1, <2>2
  <2> QED
    BY <2>1, <2>4, <2>5 DEF GuardInv, Guarded
<1> QED
  BY <1>1, <1>2

\* Only the check admits, and execution starts when all steps are admitted.
LEMMA NextGuard ==
    ASSUME SsaInv, GuardInv, [Next]_vars
    PROVE  GuardInv'
<1>1. ASSUME NEW resp, Answer(resp)
      PROVE  GuardInv'
  BY <1>1 DEF Answer, GuardInv
<1>2. ASSUME NEW faults, RejectWith(faults)
      PROVE  GuardInv'
  BY <1>1, <1>2 DEF RejectWith
<1>3. ASSUME pc = "execute", UNCHANGED <<req, pc>>
      PROVE  GuardInv'
  BY <1>3 DEF GuardInv, Guarded, Steps
<1>4. ASSUME NEW faults, NEW register, Conclude(faults, register), pc = "execute"
      PROVE  GuardInv'
  BY <1>2, <1>3, <1>4 DEF Conclude, Store
<1>5. Undeclared(Step) = {} => Reads(Step) \subseteq DOMAIN depth \cup {Step.out}
  BY DEF Undeclared, Fault
<1>6. CASE Accept
  <2>1. CASE pc' = "check" /\ UNCHANGED <<req, idx>>
    <3>1. idx = 1
      BY <1>6 DEF Accept, SsaInv
    <3> QED
      BY <2>1, <3>1 DEF GuardInv, Guarded
  <2> QED
    BY <1>2, <1>6, <2>1 DEF Accept
<1>7. CASE CheckOut
  BY <1>2, <1>7 DEF CheckOut
<1>8. CASE CheckFetch
  <2>1. Step.op = "FETCH" /\ Reads(Step) = {}
    BY <1>8 DEF CheckFetch, Checking, Reads
  <2>2. Fault(Step.handle \notin Listed, "UNKNOWN_HANDLE_REF") = {} => KnownRef(Step, req.manifest)
    BY <2>1 DEF Fault, KnownRef, Listed, Handles
  <2> QED
    BY <1>8, <2>1, <2>2, VerifyKeepsGuard DEF CheckFetch
<1>9. CASE CheckSelector
  <2>1. Step.op = "APPLY_SELECTOR" /\ Reads(Step) = {}
    BY <1>9 DEF CheckSelector, Checking, Reads
  <2>2. SelectorFaults(Step) = {} => KnownRef(Step, req.manifest)
    BY <2>1 DEF SelectorFaults, KnownRef, Selectors
  <2> QED
    BY <1>9, <2>1, <2>2, VerifyKeepsGuard DEF CheckSelector
<1>10. CASE CheckUnary
  <2>1. Step.op \in {"RESOLVE", "FILTER", "PROJECT"}
    BY <1>10 DEF CheckUnary, Checking
  <2>2. KnownRef(Step, req.manifest)
    BY <2>1 DEF KnownRef
  <2> QED
    BY <1>5, <1>10, <2>1, <2>2, VerifyKeepsGuard DEF CheckUnary
<1>11. CASE CheckJoin
  <2>1. Step.op = "JOIN" /\ (JoinCheckFaults(Step) = {} => Undeclared(Step) = {})
    BY <1>11 DEF CheckJoin, Checking, JoinCheckFaults
  <2>2. KnownRef(Step, req.manifest)
    BY <2>1 DEF KnownRef
  <2> QED
    BY <1>5, <1>11, <2>1, <2>2, VerifyKeepsGuard DEF CheckJoin
<1>12. CASE CheckAssert
  <2>1. Step.op = "ASSERT"
    BY <1>12 DEF CheckAssert, Checking
  <2>2. KnownRef(Step, req.manifest)
    BY <2>1 DEF KnownRef
  <2> QED
    BY <1>5, <1>12, <2>1, <2>2, VerifyKeepsGuard DEF CheckAssert
<1>13. CASE FinishCheck
  <2>1. CASE pc' = "execute" /\ UNCHANGED req
    <3>1. pc = "check" /\ idx - 1 = Len(Steps)
      BY <1>13 DEF FinishCheck, SsaInv
    <3> QED
      BY <2>1, <3>1 DEF GuardInv, Guarded, Steps
  <2> QED
    BY <1>2, <1>13, <2>1 DEF FinishCheck
<1>14. CASE ExecFetch
  BY <1>1, <1>2, <1>4, <1>14 DEF ExecFetch, Executing, Stall
<1>15. CASE ExecApplySelector \/ ExecResolve \/ ExecFilter \/ ExecJoin \/ ExecProject
  BY <1>4, <1>15
     DEF ExecApplySelector, ExecResolve, ExecFilter, ExecJoin, ExecProject, Executing
<1>16. CASE ExecAssert
  BY <1>2, <1>3, <1>16 DEF ExecAssert, Executing, Store
<1>17. CASE Render
  BY <1>1, <1>2, <1>17 DEF Render
<1>18. CASE Answered \/ UNCHANGED vars
  BY <1>18 DEF Answered, vars, GuardInv, Guarded, Steps
<1> QED
  BY <1>6, <1>7, <1>8, <1>9, <1>10, <1>11, <1>12, <1>13, <1>14, <1>15, <1>16, <1>17, <1>18 DEF Next

\* The steps that the static check has passed are steps the guard admits.
LEMMA GuardCorrect == Spec => []GuardInv
<1>1. Init => GuardInv
  BY DEF Init, GuardInv
<1>2. SsaInv /\ GuardInv /\ [Next]_vars => GuardInv'
  BY NextGuard
<1> QED
  BY <1>1, <1>2, SsaCorrect, PTL DEF Spec

\* For every request: the kernel executes only plans that the guard admits.
THEOREM GuardTheorem == Spec => []ExecutedIsGuarded
<1>1. LineageInv /\ GuardInv => ExecutedIsGuarded
  <2>1. SUFFICES ASSUME LineageInv, GuardInv, pc = "execute"
                 PROVE  GuardAdmits(req.plan, req.manifest)
    BY DEF ExecutedIsGuarded
  <2>2. DOMAIN req.plan.steps = 1..Len(Steps)
    BY RequestFacts, <2>1 DEF LineageInv, Steps
  <2> QED
    BY <2>1, <2>2 DEF GuardInv, Guarded, GuardAdmits
<1> QED
  BY <1>1, LineageCorrect, GuardCorrect, PTL

\* For every request: a plan that an SDK admits never misses a register while
\* it executes.
THEOREM SdkReadsTheorem == Spec => []SdkPlansReadWritten
<1>1. LineageInv /\ SsaInv => SdkPlansReadWritten
  <2>1. SUFFICES ASSUME LineageInv, SsaInv, SdkAdmits(req.plan, req.manifest),
                        pc = "execute", idx <= Len(Steps)
                 PROVE  Reads(Step) \subseteq DOMAIN regs
    BY DEF SdkPlansReadWritten
  <2>2. idx \in DOMAIN req.plan.steps
    BY <2>1, RequestFacts DEF LineageInv, SsaInv, Steps
  <2>3. Reads(Step) \subseteq DeclaredBefore(req.plan, idx)
    BY <2>1, <2>2 DEF SdkAdmits, SdkAdmitsStep, SdkMayRead, Step, Steps
  <2> QED
    BY <2>1, <2>3, DeclaredOuts DEF SsaInv
<1> QED
  BY <1>1, LineageCorrect, SsaCorrect, PTL

-----------------------------------------------------------------------------
\* What was executed is what the SDKs admit

SdkAdmitted(n) == \A i \in 1..n : SdkAdmitsStep(req.plan, req.manifest, i)

SdkInv ==
    /\ pc = "execute" => SdkAdmitted(idx - 1)
    /\ SdkRefusesNoAnswer

\* An answer that is pending has neither a status nor a code.
LEMMA NotYet == Pending.status = "PENDING" /\ Pending.code = ""
  BY DEF Pending

\* An operation without a fault has read registers that are written.
LEMMA FaultlessReads ==
    ASSUME LineageInv, NEW i \in DOMAIN Steps
    PROVE  LET s == Steps[i] IN
           /\ s.op \in {"FETCH", "APPLY_SELECTOR"} => Reads(s) \subseteq DOMAIN regs
           /\ s.op = "RESOLVE" /\ ResolveFaults(s) = {} => Reads(s) \subseteq DOMAIN regs
           /\ s.op = "FILTER" /\ FilterFaults(s) = {} => Reads(s) \subseteq DOMAIN regs
           /\ s.op = "JOIN" /\ JoinFaults(s) = {} => Reads(s) \subseteq DOMAIN regs
           /\ s.op = "PROJECT" /\ ProjectFaults(s) = {} => Reads(s) \subseteq DOMAIN regs
           /\ s.op = "ASSERT" /\ AssertFaults(s) = {} => Reads(s) \subseteq DOMAIN regs
<1> DEFINE s == Steps[i]
<1>1. ASSUME s.op = "ASSERT", AssertFaults(s) = {}
      PROVE  Reads(s) \subseteq DOMAIN regs
  <2>1. s.binds \in Seq(Range(s.binds)) /\ FirstFault(s.binds, BindingFaults) = {}
    BY <1>1, RequestFacts DEF LineageInv, AssertFaults
  <2>2. \A j \in DOMAIN s.binds : BindingFaults(s.binds[j]) = {}
    BY <2>1, BindingsFaultless
  <2>3. \A j \in DOMAIN s.binds : s.binds[j].reg \in DOMAIN regs
    BY <2>2 DEF BindingFaults
  <2> QED
    BY <1>1, <2>3 DEF Reads
<1>2. s.op = "PROJECT" /\ ProjectFaults(s) = {} => s.in \in DOMAIN regs
  BY DEF ProjectFaults
<1>3. s.op = "RESOLVE" /\ ResolveFaults(s) = {} => s.in \in DOMAIN regs
  BY HandleInputs DEF ResolveFaults
<1>4. s.op = "FILTER" /\ FilterFaults(s) = {} => s.in \in DOMAIN regs
  BY HandleInputs DEF FilterFaults
<1>5. s.op = "JOIN" /\ JoinFaults(s) = {} => {s.left, s.right} \subseteq DOMAIN regs
  BY HandleInputs DEF JoinFaults
<1> QED
  BY <1>1, <1>2, <1>3, <1>4, <1>5 DEF Reads

\* A step that is stored after it read written registers is one the SDKs admit.
LEMMA StoreKeepsSdk ==
    ASSUME SsaInv, GuardInv, AnswerInv, SdkInv, NEW register, Store(register),
           pc = "execute", idx <= Len(Steps), Reads(Step) \subseteq DOMAIN regs
    PROVE  SdkInv'
<1>1. idx' = idx + 1 /\ UNCHANGED <<req, pc, response>>
  BY DEF Store
<1>2. /\ idx \in 1..Len(Steps) /\ DOMAIN regs = Outs(Steps, idx - 1)
      /\ Guarded(Len(Steps)) /\ SdkAdmitted(idx - 1)
  BY DEF SsaInv, GuardInv, SdkInv
<1>3. SdkAdmitsStep(req.plan, req.manifest, idx)
  <2>1. req.plan.steps[idx] = Step /\ DeclaredBefore(req.plan, idx) = DOMAIN regs
    BY <1>2, DeclaredOuts DEF Step, Steps
  <2>2. GuardAdmitsStep(req.plan, req.manifest, idx)
    BY <1>2 DEF Guarded
  <2> QED
    BY <2>1, <2>2 DEF GuardAdmitsStep, SdkAdmitsStep, SdkMayRead, Blank
<1>4. SdkAdmitted(idx)
  <2>1. 1..idx = 1..(idx - 1) \cup {idx}
    BY <1>2
  <2> QED
    BY <1>2, <1>3, <2>1 DEF SdkAdmitted
<1>5. idx' - 1 = idx /\ response'.status = "PENDING"
  <2>1. idx \in Nat
    BY DEF SsaInv
  <2>2. idx' - 1 = idx
    BY <1>1, <2>1
  <2>3. response' = Pending
    BY <1>1 DEF AnswerInv
  <2>4. response'.status = "PENDING"
    BY <2>3, NotYet
  <2> QED
    BY <2>2, <2>4
<1>6. (SdkAdmitted(idx - 1))'
  BY <1>1, <1>4, <1>5 DEF SdkAdmitted
<1>7. SdkRefusesNoAnswer'
  BY <1>5 DEF SdkRefusesNoAnswer
<1> QED
  BY <1>6, <1>7 DEF SdkInv

\* Every step keeps what the plans of the SDKs hold.
LEMMA NextSdk ==
    ASSUME LineageInv, SsaInv, GuardInv, AnswerInv, SdkInv, [Next]_vars
    PROVE  SdkInv'
<1>1. ASSUME NEW resp, Answer(resp), resp.status # "OK"
      PROVE  SdkInv'
  BY <1>1 DEF Answer, SdkInv, SdkRefusesNoAnswer
<1>2. ASSUME NEW faults, RejectWith(faults)
      PROVE  SdkInv'
  <2>1. \A c : [Pending EXCEPT !.status = "REJECTED", !.code = c].status = "REJECTED"
    BY DEF Pending
  <2> QED
    BY <1>1, <1>2, <2>1 DEF RejectWith
<1>3. ASSUME UNCHANGED response, pc # "done", pc' # "execute" \/ idx' = 1
      PROVE  SdkInv'
  <2>1. response'.status = "PENDING"
    BY <1>3, NotYet DEF AnswerInv
  <2> QED
    BY <1>3, <2>1 DEF SdkInv, SdkAdmitted, SdkRefusesNoAnswer
<1>4. ASSUME NEW faults, NEW d, NEW c, Verify(faults, d, c), pc = "check"
      PROVE  SdkInv'
  BY <1>2, <1>3, <1>4 DEF Verify
<1>5. ASSUME pc = "execute", idx <= Len(Steps)
      PROVE  idx \in DOMAIN Steps /\ Steps[idx] = Step
  BY <1>5, RequestFacts DEF LineageInv, SsaInv, Step
<1>6. ASSUME NEW faults, NEW register, Conclude(faults, register),
             pc = "execute", idx <= Len(Steps), faults = {} => Reads(Step) \subseteq DOMAIN regs
      PROVE  SdkInv'
  BY <1>2, <1>6, StoreKeepsSdk DEF Conclude
<1>7. CASE Accept
  BY <1>2, <1>3, <1>7 DEF Accept
<1>8. CASE CheckOut \/ CheckFetch \/ CheckSelector \/ CheckUnary \/ CheckJoin \/ CheckAssert
  BY <1>2, <1>4, <1>8
     DEF CheckOut, CheckFetch, CheckSelector, CheckUnary, CheckJoin, CheckAssert, Checking
<1>9. CASE FinishCheck
  BY <1>2, <1>3, <1>9 DEF FinishCheck
<1>10. CASE ExecFetch
  <2>1. Reads(Step) \subseteq DOMAIN regs
    BY <1>5, <1>10, FaultlessReads DEF ExecFetch, Executing
  <2>2. CASE Stall(Step.handle)
    <3>1. [Pending EXCEPT !.status = "STALL", !.stalled = {Step.handle}].status = "STALL"
      BY DEF Pending
    <3> QED
      BY <1>1, <2>2, <3>1 DEF Stall
  <2> QED
    BY <1>2, <1>6, <1>10, <2>1, <2>2 DEF ExecFetch, Executing
<1>11. CASE ExecApplySelector
  BY <1>5, <1>6, <1>11, FaultlessReads DEF ExecApplySelector, Executing
<1>12. CASE ExecResolve
  BY <1>5, <1>6, <1>12, FaultlessReads DEF ExecResolve, Executing
<1>13. CASE ExecFilter
  BY <1>5, <1>6, <1>13, FaultlessReads DEF ExecFilter, Executing
<1>14. CASE ExecJoin
  BY <1>5, <1>6, <1>14, FaultlessReads DEF ExecJoin, Executing
<1>15. CASE ExecProject
  BY <1>5, <1>6, <1>15, FaultlessReads DEF ExecProject, Executing
<1>16. CASE ExecAssert
  <2>1. AssertFaults(Step) = {} => Reads(Step) \subseteq DOMAIN regs
    BY <1>5, <1>16, FaultlessReads DEF ExecAssert, Executing
  <2> QED
    BY <1>2, <1>16, <2>1, StoreKeepsSdk DEF ExecAssert, Executing
<1>17. CASE Render
  <2>1. pc = "execute" /\ idx - 1 = Len(Steps) /\ SdkAdmitted(Len(Steps))
    BY <1>17 DEF Render, SsaInv, SdkInv
  <2>2. DOMAIN req.plan.steps = 1..Len(Steps)
    BY RequestFacts DEF LineageInv, Steps
  <2>3. SdkAdmits(req.plan, req.manifest)
    BY <2>1, <2>2 DEF SdkAdmitted, SdkAdmits
  <2>4. ASSUME NEW resp, Answer(resp)
        PROVE  SdkInv'
    BY <2>3, <2>4 DEF Answer, SdkInv, SdkRefusesNoAnswer
  <2> QED
    BY <1>2, <1>17, <2>4 DEF Render
<1>18. CASE Answered \/ UNCHANGED vars
  BY <1>18 DEF Answered, vars, SdkInv, SdkAdmitted, SdkRefusesNoAnswer
<1> QED
  BY <1>7, <1>8, <1>9, <1>10, <1>11, <1>12, <1>13, <1>14, <1>15, <1>16, <1>17, <1>18 DEF Next

\* For every request: no plan that the kernel answers in full is one that the
\* SDKs refuse.
THEOREM SdkAnswerTheorem == Spec => []SdkRefusesNoAnswer
<1>1. Init => SdkInv
  BY NotYet DEF Init, SdkInv, SdkRefusesNoAnswer
<1>2. LineageInv /\ SsaInv /\ GuardInv /\ AnswerInv /\ SdkInv /\ [Next]_vars => SdkInv'
  BY NextSdk
<1>3. SdkInv => SdkRefusesNoAnswer
  BY DEF SdkInv
<1> QED
  BY <1>1, <1>2, <1>3, LineageCorrect, SsaCorrect, GuardCorrect, AnswerCorrect, PTL DEF Spec

-----------------------------------------------------------------------------
\* Refs that the manifest does not have

PlanKnown == \A i \in DOMAIN Steps : KnownRef(Steps[i], req.manifest)

RefInv == PlanKnown => response.code \notin RefCodes

\* A selector is refused for its parameters, or for its name if that is unknown.
LEMMA SelectorRefCodes ==
    ASSUME NEW s, s.sel \in DOMAIN Selectors
    PROVE  SelectorFaults(s) \cap RefCodes = {} /\ SelectFaults(s) \cap RefCodes = {}
<1> DEFINE OfParam(p) == ParamFaults(Selectors[s.sel], p)
           bad == {i \in DOMAIN s.params : OfParam(s.params[i]) # {}}
<1>1. \A p : OfParam(p) \cap RefCodes = {}
  BY DEF ParamFaults, Fault, RefCodes
<1>2. FirstFault(s.params, OfParam) = IF bad = {} THEN {} ELSE OfParam(s.params[Min(bad)])
  BY DEF FirstFault
<1>3. FirstFault(s.params, OfParam) \cap RefCodes = {}
  <2> HIDE DEF OfParam, bad
  <2> QED
    BY <1>1, <1>2
<1>4. SelectorFaults(s) \cap RefCodes = {}
  BY <1>3 DEF SelectorFaults
<1> QED
  BY <1>4 DEF SelectFaults, TooMany, Fault, RefCodes

\* The other checks have codes of their own.
LEMMA OtherRefCodes ==
    ASSUME NEW s
    PROVE  /\ Undeclared(s) \cap RefCodes = {} /\ JoinCheckFaults(s) \cap RefCodes = {}
           /\ ResolveFaults(s) \cap RefCodes = {} /\ FilterFaults(s) \cap RefCodes = {}
           /\ JoinFaults(s) \cap RefCodes = {} /\ ProjectFaults(s) \cap RefCodes = {}
           /\ AssertFaults(s) \cap RefCodes = {}
           /\ FirstFault(Opts.templates, TemplateFaults) \cap RefCodes = {}
<1>1. \A condition : /\ Fault(condition, "SCHEMA_VIOLATION") \cap RefCodes = {}
                     /\ Fault(condition, "TYPE_MISMATCH") \cap RefCodes = {}
                     /\ Fault(condition, "GRAPH_TRAVERSAL_LIMIT") \cap RefCodes = {}
                     /\ Fault(condition, "AMBIGUOUS_CONFLICT") \cap RefCodes = {}
                     /\ Fault(condition, "FIELD_REDACTED") \cap RefCodes = {}
                     /\ Fault(condition, "BROKEN_LINEAGE") \cap RefCodes = {}
  BY DEF Fault, RefCodes
<1>2. /\ {"SCHEMA_VIOLATION"} \cap RefCodes = {} /\ {"TYPE_MISMATCH"} \cap RefCodes = {}
      /\ {"UNTRUSTED_PROVENANCE"} \cap RefCodes = {} /\ {"DATA_LEAK_PREVENTION"} \cap RefCodes = {}
  BY DEF RefCodes
<1>3. \A inputs : HandleInputFaults(inputs) \cap RefCodes = {}
  BY <1>1, <1>2 DEF HandleInputFaults
<1>4. \A hs : TooMany(hs) \cap RefCodes = {}
  BY <1>1 DEF TooMany
<1>5. Undeclared(s) \cap RefCodes = {} /\ JoinCheckFaults(s) \cap RefCodes = {}
  BY <1>1 DEF Undeclared, JoinCheckFaults
<1>6. ResolveFaults(s) \cap RefCodes = {} /\ FilterFaults(s) \cap RefCodes = {}
  BY <1>1, <1>2, <1>3, <1>4 DEF ResolveFaults, FilterFaults
<1>7. JoinFaults(s) \cap RefCodes = {}
  BY <1>2, <1>3, <1>4 DEF JoinFaults
<1>8. ProjectFaults(s) \cap RefCodes = {}
  BY <1>1, <1>2 DEF ProjectFaults
<1>9. FirstFault(s.binds, BindingFaults) \cap RefCodes = {}
  <2>1. \A b : BindingFaults(b) \cap RefCodes = {}
    BY <1>1, <1>2 DEF BindingFaults
  <2> QED
    BY <2>1 DEF FirstFault
<1>10. FirstFault(s.cites, CitationFaults) \cap RefCodes = {}
  <2>1. \A c : CitationFaults(c) \cap RefCodes = {}
    BY <1>1, <1>2 DEF CitationFaults
  <2> QED
    BY <2>1 DEF FirstFault
<1>11. GateFaults(s) \cap RefCodes = {}
  BY <1>1, <1>2 DEF GateFaults
<1>12. AssertFaults(s) \cap RefCodes = {}
  BY <1>2, <1>9, <1>10, <1>11 DEF AssertFaults
<1>13. FirstFault(Opts.templates, TemplateFaults) \cap RefCodes = {}
  <2>1. \A t : TemplateFaults(t) \cap RefCodes = {}
    <3>1. \A bind : NarrativeFaults(bind) \cap RefCodes = {}
      BY <1>1, <1>2 DEF NarrativeFaults
    <3>2. \A t : FirstFault(t.binds, NarrativeFaults) \cap RefCodes = {}
      BY <3>1 DEF FirstFault
    <3> QED
      BY <1>2, <3>2 DEF TemplateFaults
  <2> QED
    BY <2>1 DEF FirstFault
<1> QED
  BY <1>5, <1>6, <1>7, <1>8, <1>12, <1>13

\* Every step keeps what a plan refers to known.
LEMMA NextRefs ==
    ASSUME LineageInv, SsaInv, RefInv, [Next]_vars
    PROVE  RefInv'
<1>1. ASSUME NEW codes, RejectWith(codes), PlanKnown => codes \cap RefCodes = {}
      PROVE  RefInv'
  <2>1. PICK c \in codes : Answer([Pending EXCEPT !.status = "REJECTED", !.code = c])
    BY <1>1 DEF RejectWith
  <2>2. response'.code = c /\ UNCHANGED req
    BY <2>1 DEF Answer, Pending
  <2> QED
    BY <1>1, <2>2 DEF RefInv, PlanKnown, Steps
<1>2. ASSUME UNCHANGED <<req, response>>
      PROVE  RefInv'
  BY <1>2 DEF RefInv, PlanKnown, Steps
<1>3. ASSUME NEW faults, NEW d, NEW c, Verify(faults, d, c),
             PlanKnown => faults \cap RefCodes = {}
      PROVE  RefInv'
  BY <1>1, <1>2, <1>3 DEF Verify
<1>4. ASSUME NEW faults, NEW register, Conclude(faults, register),
             PlanKnown => faults \cap RefCodes = {}
      PROVE  RefInv'
  BY <1>1, <1>2, <1>4 DEF Conclude, Store
<1>5. ASSUME idx <= Len(Steps), PlanKnown
      PROVE  KnownRef(Step, req.manifest)
  <2>1. idx \in DOMAIN Steps
    BY <1>5, RequestFacts DEF LineageInv, SsaInv
  <2> QED
    BY <1>5, <2>1 DEF PlanKnown, Step
<1>6. CASE Accept
  <2>1. /\ {"SCHEMA_VIOLATION"} \cap RefCodes = {}
        /\ {"GRAPH_TRAVERSAL_LIMIT"} \cap RefCodes = {}
    BY DEF RefCodes
  <2> QED
    BY <1>1, <1>2, <1>6, <2>1 DEF Accept
<1>7. CASE CheckOut
  <2>1. {"SCHEMA_VIOLATION"} \cap RefCodes = {}
    BY DEF RefCodes
  <2> QED
    BY <1>1, <1>7, <2>1 DEF CheckOut
<1>8. CASE CheckFetch
  <2>1. PlanKnown => Step.handle \in Listed
    BY <1>5, <1>8 DEF CheckFetch, Checking, KnownRef, Listed, Handles
  <2>2. PlanKnown => Fault(Step.handle \notin Listed, "UNKNOWN_HANDLE_REF") \cap RefCodes = {}
    BY <2>1 DEF Fault
  <2> QED
    BY <1>3, <1>8, <2>2 DEF CheckFetch
<1>9. CASE CheckSelector
  <2>1. PlanKnown => Step.sel \in DOMAIN Selectors
    BY <1>5, <1>9 DEF CheckSelector, Checking, KnownRef, Selectors
  <2> QED
    BY <1>3, <1>9, <2>1, SelectorRefCodes DEF CheckSelector
<1>10. CASE CheckUnary \/ CheckJoin \/ CheckAssert
  BY <1>3, <1>10, OtherRefCodes DEF CheckUnary, CheckJoin, CheckAssert
<1>11. CASE FinishCheck
  <2>1. {"COST_GUARD_REJECTED"} \cap RefCodes = {} /\ {"SCHEMA_VIOLATION"} \cap RefCodes = {}
    BY DEF RefCodes
  <2> QED
    BY <1>1, <1>2, <1>11, <2>1 DEF FinishCheck
<1>12. CASE ExecFetch
  <2>1. PlanKnown => Step.handle \in Listed
    BY <1>5, <1>12 DEF ExecFetch, Executing, KnownRef, Listed, Handles
  <2>2. CASE Stall(Step.handle)
    <3>1. response'.code = "" /\ UNCHANGED req
      BY <2>2 DEF Stall, Answer, Pending
    <3> QED
      BY <3>1 DEF RefInv, RefCodes
  <2>3. CASE Step.handle \notin Listed /\ RejectWith({"UNKNOWN_HANDLE_REF"})
    BY <1>1, <2>1, <2>3
  <2> QED
    BY <1>4, <1>12, <2>2, <2>3 DEF ExecFetch
<1>13. CASE ExecApplySelector
  <2>1. PlanKnown => Step.sel \in DOMAIN Selectors
    BY <1>5, <1>13 DEF ExecApplySelector, Executing, KnownRef, Selectors
  <2> QED
    BY <1>4, <1>13, <2>1, SelectorRefCodes DEF ExecApplySelector
<1>14. CASE ExecResolve \/ ExecFilter \/ ExecJoin \/ ExecProject
  BY <1>4, <1>14, OtherRefCodes DEF ExecResolve, ExecFilter, ExecJoin, ExecProject
<1>15. CASE ExecAssert
  BY <1>1, <1>2, <1>15, OtherRefCodes DEF ExecAssert, Store
<1>16. CASE Render
  <2>1. CASE FirstFault(Opts.templates, TemplateFaults) # {}
    BY <1>1, <1>16, <2>1, OtherRefCodes DEF Render
  <2>2. CASE FirstFault(Opts.templates, TemplateFaults) = {}
    <3>1. response'.code = ""
      BY <1>16, <2>2 DEF Render, Answer, Pending
    <3> QED
      BY <3>1 DEF RefInv, RefCodes
  <2> QED
    BY <2>1, <2>2
<1>17. CASE Answered \/ UNCHANGED vars
  BY <1>2, <1>17 DEF Answered, vars
<1> QED
  BY <1>6, <1>7, <1>8, <1>9, <1>10, <1>11, <1>12, <1>13, <1>14, <1>15, <1>16, <1>17 DEF Next

\* For every request: the kernel refuses no plan for a ref that the guard or an
\* SDK has looked up.
THEOREM RefsTheorem == Spec => []ValidatedRefsAreKnown
<1>1. Init => RefInv
  BY NotYet DEF Init, RefInv, RefCodes
<1>2. LineageInv /\ SsaInv /\ RefInv /\ [Next]_vars => RefInv'
  BY NextRefs
<1>3. RefInv => ValidatedRefsAreKnown
  BY DEF RefInv, PlanKnown, ValidatedRefsAreKnown, GuardAdmits, GuardAdmitsStep,
         SdkAdmits, SdkAdmitsStep, Steps
<1> QED
  BY <1>1, <1>2, <1>3, LineageCorrect, SsaCorrect, PTL DEF Spec

-----------------------------------------------------------------------------
\* Plans that come out of the parser

\* For every request: once the inputs are as they should be, nothing that the
\* parser lets through is refused for its form.
THEOREM ParsedTheorem == Spec => []ParsedLacksNothing
<1>1. LineageInv /\ SsaInv => ParsedLacksNothing
  <2>1. SUFFICES ASSUME LineageInv, SsaInv, Parsed(req.plan), pc = "execute", idx <= Len(Steps),
                        Reads(Step) \subseteq DOMAIN regs
                 PROVE  /\ Step.op = "JOIN" => "SCHEMA_VIOLATION" \notin JoinFaults(Step)
                        /\ Step.op = "ASSERT" /\ FirstFault(Step.binds, BindingFaults) = {} =>
                              "SCHEMA_VIOLATION" \notin AssertFaults(Step)
    BY DEF ParsedLacksNothing
  <2>2. idx \in DOMAIN Steps /\ Steps[idx] = Step
    BY <2>1, RequestFacts DEF LineageInv, SsaInv, Step
  <2>3. ParsedStep(Step)
    BY <2>1, <2>2 DEF Parsed, Steps
  <2>4. ASSUME Step.op = "JOIN"
        PROVE  "SCHEMA_VIOLATION" \notin JoinFaults(Step)
    <3>1. {Step.left, Step.right} \subseteq DOMAIN regs /\ Step.edge # "UNSPECIFIED"
      BY <2>1, <2>3, <2>4 DEF Reads, ParsedStep, KnownEdge
    <3> QED
      BY <3>1 DEF JoinFaults, HandleInputFaults, TooMany, Fault
  <2>5. ASSUME Step.op = "ASSERT", FirstFault(Step.binds, BindingFaults) = {}
        PROVE  "SCHEMA_VIOLATION" \notin AssertFaults(Step)
    <3>1. "SCHEMA_VIOLATION" \notin GateFaults(Step)
      BY DEF GateFaults, Fault
    <3>2. /\ Step.cites \in Seq(Range(Step.cites))
          /\ \A c \in Range(Step.cites) : c.variant \in {"handle", "anchor", "none"}
      BY <2>2, <2>5, RequestsAssumption, <2>1 DEF LineageInv, Steps
    <3>3. \A i \in DOMAIN Step.cites : "SCHEMA_VIOLATION" \notin CitationFaults(Step.cites[i])
      <4>1. TAKE i \in DOMAIN Step.cites
      <4>2. Step.cites[i].variant \in {"handle", "anchor"}
        BY <2>3, <2>5, <3>2 DEF ParsedStep, Cited, Range
      <4> QED
        BY <4>2 DEF CitationFaults, Fault
    <3>4. "SCHEMA_VIOLATION" \notin FirstFault(Step.cites, CitationFaults)
      <4> DEFINE bad == {i \in DOMAIN Step.cites : CitationFaults(Step.cites[i]) # {}}
      <4>1. FirstFault(Step.cites, CitationFaults) =
                IF bad = {} THEN {} ELSE CitationFaults(Step.cites[Min(bad)])
        BY DEF FirstFault
      <4>2. bad \subseteq Nat
        BY <3>2
      <4>3. bad # {} => Min(bad) \in bad
        BY <4>2, MinInNat
      <4> QED
        BY <3>3, <4>1, <4>3
    <3>5. Step.type # "UNSPECIFIED"
      BY <2>3, <2>5 DEF ParsedStep, KnownAssertion
    <3> QED
      BY <2>5, <3>1, <3>4, <3>5 DEF AssertFaults
  <2> QED
    BY <2>4, <2>5
<1> QED
  BY <1>1, LineageCorrect, SsaCorrect, PTL

-----------------------------------------------------------------------------
\* The fallback plan over what the service lists

Answerable == IsFallback /\ IsServed

Path == FallbackPath(Listed # {})

\* What the fallback's registers look like once they are written.
IsFirst(r) ==
    IF Listed # {} THEN r = FetchedRegister(Min(Listed))
                   ELSE r.kind = "HANDLE_SET" /\ r.handles = {}

IsProjected(r) == r.kind = "STRUCT" /\ r.source = "PROJECT" /\ Path \in DOMAIN r.fields

\* The one parameter of the fallback's selector.
AsksSubject(s) == \E v : s.params = <<[name |-> "subject", type |-> "STRING", v |-> v]>>

\* No step of the check costs more than a join.
FallbackInv ==
    Answerable =>
        /\ pc = "accept" => cost = 0
        /\ pc = "check" => cost \in Nat /\ cost <= (idx - 1) * 2 * Unit
        /\ pc = "execute" => (idx >= 2 => IsFirst(regs["r0"])) /\ (idx >= 3 => IsProjected(regs["r1"]))
        /\ pc = "done" => response.status = "OK"

\* The plan, spelled out.
LEMMA FallbackPlanFacts ==
    ASSUME IsFallback
    PROVE  /\ Len(Steps) = 3
           /\ Steps[2] = [op |-> "PROJECT", out |-> "r1", in |-> "r0", paths |-> {Path}]
           /\ Steps[3] = [op |-> "ASSERT", out |-> "r2", type |-> "WORLD_FACT", cites |-> <<>>,
                          binds |-> <<[name |-> "subject", reg |-> "r1", path |-> Path]>>]
           /\ Listed # {} => Steps[1] = [op |-> "FETCH", out |-> "r0", handle |-> Min(Listed)]
           /\ Listed = {} => \E subject : \E sel \in DOMAIN Selectors :
                 Steps[1] = [op |-> "APPLY_SELECTOR", out |-> "r0", sel |-> sel,
                             params |-> <<[name |-> "subject", type |-> "STRING", v |-> subject]>>]
           /\ req.plan.outputs = {"r2"} /\ req.plan.request_id = req.manifest.request_id
<1> DEFINE Fetching == [op |-> "FETCH", out |-> "r0", handle |-> Min(Listed)]
           Selecting(sel, subject) ==
               [op |-> "APPLY_SELECTOR", out |-> "r0", sel |-> sel,
                params |-> <<[name |-> "subject", type |-> "STRING", v |-> subject]>>]
           PlanOf(first) == [request_id |-> req.manifest.request_id, outputs |-> {"r2"},
                             steps |-> FallbackSteps(first, Path)]
<1>1. PICK subject : req.plan \in FallbackPlans(req.manifest.request_id, subject, req.manifest)
  BY DEF IsFallback
<1>2. PICK first : /\ req.plan = PlanOf(first)
                   /\ Listed # {} => first = Fetching
                   /\ Listed = {} => \E sel \in DOMAIN Selectors : first = Selecting(sel, subject)
  BY <1>1 DEF FallbackPlans, Listed, Handles, Selectors, Path
<1>3. Steps = FallbackSteps(first, Path)
  BY <1>2 DEF Steps
<1>4. /\ Len(Steps) = 3 /\ Steps[1] = first
      /\ Steps[2] = [op |-> "PROJECT", out |-> "r1", in |-> "r0", paths |-> {Path}]
      /\ Steps[3] = [op |-> "ASSERT", out |-> "r2", type |-> "WORLD_FACT", cites |-> <<>>,
                     binds |-> <<[name |-> "subject", reg |-> "r1", path |-> Path]>>]
  <2> HIDE DEF Fetching, Selecting, PlanOf
  <2> QED
    BY <1>3 DEF FallbackSteps
<1>5. req.plan.outputs = {"r2"} /\ req.plan.request_id = req.manifest.request_id
  BY <1>2
<1>6. Listed = {} => \E v : \E sel \in DOMAIN Selectors : Steps[1] = Selecting(sel, v)
  BY <1>2, <1>4
<1> HIDE DEF PlanOf
<1> QED
  BY <1>2, <1>4, <1>5, <1>6

\* The manifest, spelled out.
LEMMA ServedFacts ==
    ASSUME IsServed
    PROVE  /\ \A h \in Listed : /\ Handles[h].availability = "READY"
                                 /\ Handles[h].paths = {"meta.subject", "meta.scope"}
           /\ \A sel \in DOMAIN Selectors :
                 /\ Selectors[sel].return_type = "HANDLE_SET" /\ Selectors[sel].cost_weight = 125
                 /\ DOMAIN Selectors[sel].params = {"subject"}
                 /\ Selectors[sel].params["subject"] = [type |-> "STRING", enum |-> {}]
           /\ Budget.max_ops = 128 /\ Budget.max_fanout = 64
           /\ Budget.max_total_cost = 256 * Unit
           /\ Opts.allow_partial = FALSE /\ Opts.degraded = FALSE
           /\ Opts.broken = {} /\ Opts.templates = <<>>
<1> DEFINE subjects == [h \in Listed |-> Handles[h].subject]
           m == ServedManifest(req.manifest.request_id, subjects)
<1>1. req.manifest = m /\ Opts = ServedOptions
  BY DEF IsServed
<1>2. m.handles = [ref \in DOMAIN subjects |-> Served(ref, subjects[ref])]
  BY DEF ServedManifest
<1>3. \A h \in Listed : Handles[h] = Served(h, subjects[h])
  BY <1>1, <1>2 DEF Handles
<1>4. \A h, s : Served(h, s).availability = "READY" /\ Served(h, s).paths = {"meta.subject", "meta.scope"}
  BY DEF Served
<1>5. \A sel \in DOMAIN Selectors :
         /\ Selectors[sel].return_type = "HANDLE_SET" /\ Selectors[sel].cost_weight = 125
         /\ DOMAIN Selectors[sel].params = {"subject"}
         /\ Selectors[sel].params["subject"] = [type |-> "STRING", enum |-> {}]
  <2> DEFINE s0 == [return_type |-> "HANDLE_SET", cost_weight |-> 125,
                    params |-> [p \in {"subject"} |-> [type |-> "STRING", enum |-> {}]]]
  <2>1. m.selectors = [sel \in {"S0"} |-> s0]
    BY DEF ServedManifest
  <2>2. Selectors = m.selectors
    BY <1>1 DEF Selectors
  <2>3. /\ s0.return_type = "HANDLE_SET" /\ s0.cost_weight = 125 /\ DOMAIN s0.params = {"subject"}
        /\ s0.params["subject"] = [type |-> "STRING", enum |-> {}]
    OBVIOUS
  <2> HIDE DEF m, s0
  <2> QED
    BY <2>1, <2>2, <2>3
<1>6. req.manifest.budget = [max_ops |-> 128, max_join_depth |-> 3, max_fanout |-> 64,
                             max_total_cost |-> 256 * Unit]
  BY <1>1 DEF ServedManifest
<1>7. Budget.max_ops = 128 /\ Budget.max_fanout = 64 /\ Budget.max_total_cost = 256 * Unit
  BY <1>6 DEF Budget, OrDefault, Unit
<1> QED
  BY <1>1, <1>3, <1>4, <1>5, <1>7 DEF ServedOptions

\* The step that is looked at.
LEMMA FallbackStep ==
    ASSUME IsFallback, SsaInv, idx <= Len(Steps)
    PROVE  /\ Len(Steps) = 3 /\ idx \in {1, 2, 3} /\ Step.out \notin Blank
           /\ Step.op \in {"FETCH", "APPLY_SELECTOR", "PROJECT", "ASSERT"}
           /\ Step.op \in {"FETCH", "APPLY_SELECTOR"} <=> idx = 1
           /\ Step.op = "FETCH" => Listed # {} /\ Step.out = "r0" /\ Step.handle = Min(Listed)
           /\ Step.op = "APPLY_SELECTOR" =>
                 /\ Listed = {} /\ Step.out = "r0" /\ Step.sel \in DOMAIN Selectors
                 /\ AsksSubject(Step)
           /\ Step.op = "PROJECT" => /\ idx = 2 /\ Step.out = "r1" /\ Step.in = "r0"
                                    /\ Step.paths = {Path}
           /\ Step.op = "ASSERT" => /\ idx = 3 /\ Step.out = "r2" /\ Step.type = "WORLD_FACT"
                                   /\ Step.cites = <<>>
                                   /\ Step.binds = <<[name |-> "subject", reg |-> "r1", path |-> Path]>>
<1>1. Len(Steps) = 3 /\ idx \in {1, 2, 3}
  <2>1. Len(Steps) = 3
    BY FallbackPlanFacts
  <2>2. idx \in Nat \ {0}
    BY DEF SsaInv
  <2> QED
    BY <2>1, <2>2
<1>2. CASE idx = 1 /\ Listed # {}
  <2>1. Step = [op |-> "FETCH", out |-> "r0", handle |-> Min(Listed)]
    BY <1>2, FallbackPlanFacts DEF Step
  <2> QED
    BY <1>1, <1>2, <2>1 DEF Blank
<1>3. CASE idx = 1 /\ Listed = {}
  <2>1. PICK subject, sel :
         /\ sel \in DOMAIN Selectors
         /\ Step = [op |-> "APPLY_SELECTOR", out |-> "r0", sel |-> sel,
                    params |-> <<[name |-> "subject", type |-> "STRING", v |-> subject]>>]
    BY <1>3, FallbackPlanFacts DEF Step
  <2>2. /\ Step.op = "APPLY_SELECTOR" /\ Step.out = "r0" /\ Step.sel = sel
        /\ Step.params = <<[name |-> "subject", type |-> "STRING", v |-> subject]>>
    BY <2>1
  <2>3. AsksSubject(Step)
    BY <2>2 DEF AsksSubject
  <2>4. Step.op = "APPLY_SELECTOR" /\ Step.out = "r0" /\ Step.sel \in DOMAIN Selectors
    BY <2>1, <2>2
  <2> QED
    BY <1>1, <1>3, <2>3, <2>4 DEF Blank
<1>4. CASE idx = 2
  <2>1. Step = [op |-> "PROJECT", out |-> "r1", in |-> "r0", paths |-> {Path}]
    BY <1>4, FallbackPlanFacts DEF Step
  <2> QED
    BY <1>1, <1>4, <2>1 DEF Blank
<1>5. CASE idx = 3
  <2>1. Step = [op |-> "ASSERT", out |-> "r2", type |-> "WORLD_FACT", cites |-> <<>>,
                binds |-> <<[name |-> "subject", reg |-> "r1", path |-> Path]>>]
    BY <1>5, FallbackPlanFacts DEF Step
  <2> QED
    BY <1>1, <1>5, <2>1 DEF Blank
<1> QED
  BY <1>1, <1>2, <1>3, <1>4, <1>5

\* The registers before a step of the fallback plan.
LEMMA FallbackOuts ==
    ASSUME IsFallback
    PROVE  /\ Outs(Steps, 0) = {} /\ Outs(Steps, 1) = {"r0"} /\ Outs(Steps, 2) = {"r0", "r1"}
           /\ Outs(Steps, 3) = {"r0", "r1", "r2"}
<1>1. Steps[1].out = "r0" /\ Steps[2].out = "r1" /\ Steps[3].out = "r2"
  <2>1. CASE Listed # {}
    BY <2>1, FallbackPlanFacts
  <2>2. CASE Listed = {}
    <3>1. PICK sel, subject :
              Steps[1] = [op |-> "APPLY_SELECTOR", out |-> "r0", sel |-> sel,
                          params |-> <<[name |-> "subject", type |-> "STRING", v |-> subject]>>]
      BY <2>2, FallbackPlanFacts
    <3>2. Steps[1].out = "r0"
      BY <3>1
    <3> QED
      BY <3>2, FallbackPlanFacts
  <2> QED
    BY <2>1, <2>2
<1>2. 1..0 = {} /\ 1..1 = {1} /\ 1..2 = {1, 2} /\ 1..3 = {1, 2, 3}
  OBVIOUS
<1> QED
  BY <1>1, <1>2 DEF Outs

\* The first handle that is listed.
LEMMA ListedMin ==
    ASSUME req \in Requests, Listed # {}
    PROVE  Min(Listed) \in Listed
<1>1. Listed \subseteq Nat
  BY RequestFacts
<1> QED
  BY <1>1, MinInNat

\* The selector is asked for what it takes, at the cost of one row.
LEMMA FallbackSelector ==
    ASSUME req \in Requests, IsServed, NEW s, s.sel \in DOMAIN Selectors, Listed = {},
           AsksSubject(s)
    PROVE  /\ SelectorFaults(s) = {} /\ SelectorCost(Selectors[s.sel]) = 12500
           /\ SelectFaults(s) = {} /\ SelectResult(s).kind = "HANDLE_SET"
           /\ SelectResult(s).handles = {}
<1> DEFINE OfParam(p) == ParamFaults(Selectors[s.sel], p)
           bad == {i \in DOMAIN s.params : OfParam(s.params[i]) # {}}
<1>1. /\ Selectors[s.sel].return_type = "HANDLE_SET" /\ Selectors[s.sel].cost_weight = 125
      /\ DOMAIN Selectors[s.sel].params = {"subject"}
      /\ Selectors[s.sel].params["subject"] = [type |-> "STRING", enum |-> {}]
  BY ServedFacts
<1>2. SelectorFaults(s) = {}
  <2>1. PICK subject : s.params = <<[name |-> "subject", type |-> "STRING", v |-> subject]>>
    BY DEF AsksSubject
  <2> DEFINE p == [name |-> "subject", type |-> "STRING", v |-> subject]
  <2>2. p.name = "subject" /\ p.type = "STRING"
    OBVIOUS
  <2>3. DOMAIN s.params = {1} /\ s.params[1] = p
    BY <2>1
  <2>4. OfParam(p) = {}
    <3> HIDE DEF p
    <3>1. Selectors[s.sel].params["subject"].type = "STRING"
      BY <1>1
    <3>2. TypeMatches(p, Selectors[s.sel].params[p.name])
      BY <2>2, <3>1 DEF TypeMatches
    <3> QED
      BY <1>1, <2>2, <3>2 DEF ParamFaults, Fault
  <2>5. FirstFault(s.params, OfParam) = IF bad = {} THEN {} ELSE OfParam(s.params[Min(bad)])
    BY DEF FirstFault
  <2>6. bad = {}
    <3> HIDE DEF p, OfParam
    <3> QED
      BY <2>3, <2>4
  <2> QED
    BY <2>5, <2>6 DEF SelectorFaults
<1>3. Cardinality({}) = 0
  BY FS_EmptySet
<1>4. SelectorCost(Selectors[s.sel]) = 12500
  <2>1. Budget.max_fanout = 64 /\ RowCost[1] = 100
    BY ServedFacts, RowCostAssumption
  <2>2. EstimatedRows(Selectors[s.sel]) = 1
    BY <1>1, <1>3, <2>1 DEF EstimatedRows, Larger
  <2> QED
    BY <1>1, <2>1, <2>2 DEF SelectorCost
<1>5. Matched(s) = {}
  BY DEF Matched
<1>6. TooMany({}) = {}
  BY <1>3, ServedFacts DEF TooMany, Fault
<1>7. SelectFaults(s) = {}
  BY <1>1, <1>2, <1>5, <1>6 DEF SelectFaults, Fault
<1>8. SelectResult(s) = RegOfHandles("HANDLE_SET", {}, {}, "APPLY_SELECTOR")
  BY <1>1, <1>5 DEF SelectResult
<1>9. SelectResult(s).kind = "HANDLE_SET" /\ SelectResult(s).handles = {}
  BY <1>8 DEF RegOfHandles
<1> QED
  BY <1>2, <1>4, <1>7, <1>9

\* The register that a step writes, and what is written before it.
LEMMA FallbackOut ==
    ASSUME IsFallback, idx \in {1, 2, 3}
    PROVE  Step.out = IF idx = 1 THEN "r0" ELSE IF idx = 2 THEN "r1" ELSE "r2"
<1>1. Steps[1].out = "r0"
  <2>1. CASE Listed # {}
    BY <2>1, FallbackPlanFacts
  <2>2. CASE Listed = {}
    <3>1. PICK sel, subject :
              Steps[1] = [op |-> "APPLY_SELECTOR", out |-> "r0", sel |-> sel,
                          params |-> <<[name |-> "subject", type |-> "STRING", v |-> subject]>>]
      BY <2>2, FallbackPlanFacts
    <3> QED
      BY <3>1
  <2> QED
    BY <2>1, <2>2
<1>2. Steps[2].out = "r1" /\ Steps[3].out = "r2"
  BY FallbackPlanFacts
<1> QED
  BY <1>1, <1>2 DEF Step

\* No register is written twice.
LEMMA FallbackBefore ==
    ASSUME IsFallback, idx \in {1, 2, 3}
    PROVE  Step.out \notin Outs(Steps, idx - 1)
<1>1. CASE idx = 1
  BY <1>1, FallbackOut, FallbackOuts
<1>2. CASE idx = 2
  <2>1. idx - 1 = 1
    BY <1>2
  <2>2. Step.out = "r1"
    BY <1>2, FallbackOut
  <2> QED
    BY <2>1, <2>2, FallbackOuts
<1>3. CASE idx = 3
  <2>1. idx - 1 = 2
    BY <1>3
  <2>2. Step.out = "r2"
    BY <1>3, FallbackOut
  <2> QED
    BY <2>1, <2>2, FallbackOuts
<1> QED
  BY <1>1, <1>2, <1>3

\* Each step reads the register before it.
LEMMA FallbackReadsBefore ==
    ASSUME IsFallback, SsaInv, idx <= Len(Steps),
           Step.op \in {"RESOLVE", "FILTER", "PROJECT", "ASSERT"}
    PROVE  Reads(Step) \subseteq Outs(Steps, idx - 1)
<1>1. CASE Step.op = "PROJECT"
  <2>1. idx = 2 /\ Reads(Step) = {"r0"}
    BY <1>1, FallbackStep DEF Reads
  <2>2. idx - 1 = 1
    BY <2>1
  <2> QED
    BY <2>1, <2>2, FallbackOuts
<1>2. CASE Step.op = "ASSERT"
  <2>1. idx = 3 /\ Step.binds = <<[name |-> "subject", reg |-> "r1", path |-> Path]>>
    BY <1>2, FallbackStep
  <2>2. Reads(Step) = {Step.binds[i].reg : i \in DOMAIN Step.binds}
    BY <1>2 DEF Reads
  <2>3. Reads(Step) = {"r1"}
    <3>1. DOMAIN Step.binds = {1} /\ Step.binds[1].reg = "r1"
      BY <2>1
    <3> QED
      BY <2>2, <3>1
  <2>4. idx = 3
    BY <2>1
  <2>5. idx - 1 = 2
    BY <2>4, SMTT(30)
  <2> QED
    BY <2>3, <2>5, FallbackOuts
<1> QED
  BY <1>1, <1>2, FallbackStep

\* No step changes the request.
LEMMA NextRequest == [Next]_vars => UNCHANGED req
  BY DEF Next, vars, Accept, CheckOut, CheckFetch, CheckSelector, CheckUnary, CheckJoin, CheckAssert,
         FinishCheck, ExecFetch, ExecApplySelector, ExecResolve, ExecFilter, ExecJoin, ExecProject,
         ExecAssert, Render, Answered, Verify, Conclude, Store, RejectWith, Stall, Answer

\* A step of the check adds at most the cost of a join.
LEMMA FallbackChecks ==
    ASSUME Answerable, SsaInv, FallbackInv, pc = "check",
           NEW d, NEW c \in Nat, c <= 2 * Unit, Verify({}, d, c)
    PROVE  FallbackInv'
<1>1. idx' = idx + 1 /\ cost' = cost + c /\ UNCHANGED <<req, pc>>
  BY DEF Verify
<1>2. cost \in Nat /\ cost <= (idx - 1) * 2 * Unit /\ idx \in Nat \ {0}
  BY DEF FallbackInv, SsaInv
<1>3. cost' \in Nat /\ cost' <= (idx' - 1) * 2 * Unit
  BY <1>1, <1>2 DEF Unit
<1> QED
  BY <1>1, <1>3 DEF FallbackInv

\* A register that is written leaves those before it alone.
LEMMA FallbackStores ==
    ASSUME Answerable, SsaInv, FallbackInv, pc = "execute", idx <= Len(Steps),
           NEW register, Store(register),
           idx = 1 => IsFirst(register), idx = 2 => IsProjected(register)
    PROVE  FallbackInv'
<1>1. idx' = idx + 1 /\ regs' = With(regs, Step.out, register) /\ UNCHANGED <<req, pc>>
  BY DEF Store
<1>2. idx \in {1, 2, 3} /\ Step.out = IF idx = 1 THEN "r0" ELSE IF idx = 2 THEN "r1" ELSE "r2"
  BY FallbackStep, FallbackOut DEF Answerable
<1>3. DOMAIN regs = Outs(Steps, idx - 1)
  BY DEF SsaInv
<1>4. idx' >= 2 => (IsFirst(regs["r0"]))'
  <2>1. regs'["r0"] = IF idx = 1 THEN register ELSE regs["r0"]
    <3>1. CASE idx = 1
      BY <1>1, <1>2, <3>1 DEF With
    <3>2. CASE idx \in {2, 3}
      <4>1. "r0" \in DOMAIN regs
        <5>1. idx - 1 \in {1, 2}
          BY <3>2
        <5> QED
          BY <1>3, <5>1, FallbackOuts DEF Answerable
      <4>2. Step.out # "r0" /\ idx # 1
        BY <1>2, <3>2
      <4> QED
        BY <1>1, <4>1, <4>2 DEF With
    <3> QED
      BY <1>2, <3>1, <3>2
  <2>2. IsFirst(regs'["r0"])
    <3>1. idx # 1 => IsFirst(regs["r0"])
      BY <1>2 DEF FallbackInv
    <3> QED
      BY <2>1, <3>1
  <2> QED
    BY <1>1, <2>2, RequestStays DEF IsFirst, FetchedRegister, RegOfHandles, TaintOf, TrustOf
<1>5. idx' >= 3 => (IsProjected(regs["r1"]))'
  <2> SUFFICES ASSUME idx' >= 3 PROVE (IsProjected(regs["r1"]))'
    OBVIOUS
  <2>1. idx \in {2, 3}
    BY <1>1, <1>2
  <2>2. regs'["r1"] = IF idx = 2 THEN register ELSE regs["r1"]
    <3>1. CASE idx = 2
      BY <1>1, <1>2, <3>1 DEF With
    <3>2. CASE idx = 3
      <4>1. "r1" \in DOMAIN regs
        <5>1. idx - 1 = 2
          BY <3>2
        <5> QED
          BY <1>3, <5>1, FallbackOuts DEF Answerable
      <4>2. Step.out # "r1" /\ idx # 2
        BY <1>2, <3>2
      <4> QED
        BY <1>1, <4>1, <4>2 DEF With
    <3> QED
      BY <2>1, <3>1, <3>2
  <2>3. IsProjected(regs'["r1"])
    <3>1. idx = 3 => IsProjected(regs["r1"])
      BY DEF FallbackInv
    <3> QED
      BY <2>1, <2>2, <3>1
  <2> QED
    BY <1>1, <2>3, RequestStays DEF IsProjected, Path
<1> QED
  BY <1>1, <1>4, <1>5 DEF FallbackInv

\* What the steps of the fallback plan do when they are executed.
LEMMA FallbackReads ==
    ASSUME req \in Requests, IsServed, NEW r, NEW s, IsFirst(r), s.in \in DOMAIN regs,
           regs[s.in] = r, s.paths = {Path}
    PROVE  ProjectFaults(s) = {} /\ IsProjected(ProjectResult(s))
<1>1. CASE Listed # {}
  <2>1. Path = "meta.subject"
    BY <1>1 DEF Path, FallbackPath
  <2>2. r.kind = "HANDLE" /\ r.handles = {Min(Listed)}
    BY <1>1 DEF IsFirst, FetchedRegister, RegOfHandles
  <2>3. Min({Min(Listed)}) = Min(Listed)
    <3>1. {Min(Listed)} \subseteq Nat
      BY <1>1, ListedMin, RequestFacts
    <3>2. Min({Min(Listed)}) \in {Min(Listed)}
      BY <3>1, MinInNat
    <3> QED
      BY <3>2
  <2>4. Path \in Readable(r)
    <3>1. Handles[Min(Listed)].paths = {"meta.subject", "meta.scope"}
      BY <1>1, ListedMin, ServedFacts
    <3> QED
      BY <2>1, <2>2, <2>3, <3>1 DEF Readable
  <2>5. ProjectFaults(s) = {}
    BY <2>2, <2>4 DEF ProjectFaults, Fault
  <2>6. ProjectedPaths(r, s.paths) = {Path}
    BY <2>2 DEF ProjectedPaths
  <2> QED
    BY <2>5, <2>6 DEF ProjectResult, IsProjected
<1>2. CASE Listed = {}
  <2>1. Path = "set_count"
    BY <1>2 DEF Path, FallbackPath
  <2>2. r.kind = "HANDLE_SET" /\ r.handles = {}
    BY <1>2 DEF IsFirst
  <2>3. ProjectFaults(s) = {}
    BY <2>2 DEF ProjectFaults, Fault
  <2>4. Path \in ProjectedPaths(r, s.paths)
    BY <2>1, <2>2 DEF ProjectedPaths
  <2> QED
    BY <2>3, <2>4 DEF ProjectResult, IsProjected
<1> QED
  BY <1>1, <1>2

\* The one binding is of a projected field, and facts of the world pass every gate.
LEMMA FallbackAsserts ==
    ASSUME IsServed, NEW s, s.type = "WORLD_FACT", s.cites = <<>>,
           s.binds = <<[name |-> "subject", reg |-> "r1", path |-> Path]>>,
           "r1" \in DOMAIN regs, IsProjected(regs["r1"])
    PROVE  AssertFaults(s) = {}
<1> DEFINE b == [name |-> "subject", reg |-> "r1", path |-> Path]
<1>1. b.reg = "r1" /\ b.path = Path
  OBVIOUS
<1>2. BindingFaults(b) = {}
  <2> HIDE DEF b
  <2> QED
    BY <1>1 DEF BindingFaults, IsProjected, Fault
<1>3. \A i \in DOMAIN s.binds : s.binds[i] = b
  OBVIOUS
<1>4. FirstFault(s.binds, BindingFaults) = {}
  <2> HIDE DEF b
  <2>1. {i \in DOMAIN s.binds : BindingFaults(s.binds[i]) # {}} = {}
    BY <1>2, <1>3
  <2> QED
    BY <2>1 DEF FirstFault
<1>5. FirstFault(s.cites, CitationFaults) = {}
  <2>1. DOMAIN s.cites = {}
    OBVIOUS
  <2> QED
    BY <2>1 DEF FirstFault
<1>6. GateFaults(s) = {}
  <2>1. Opts.broken = {}
    BY ServedFacts
  <2>2. s.type \notin PolicyTypes
    BY DEF PolicyTypes
  <2> QED
    BY <2>1, <2>2 DEF GateFaults, Broken, Fault
<1> QED
  BY <1>4, <1>5, <1>6 DEF AssertFaults

\* No step refuses the fallback plan.
LEMMA NextFallback ==
    ASSUME LineageInv, SsaInv, AnswerInv, FallbackInv, [Next]_vars
    PROVE  FallbackInv'
<1>1. SUFFICES ASSUME Answerable, UNCHANGED req
               PROVE  FallbackInv'
  <2>1. UNCHANGED req
    BY NextRequest
  <2>2. Answerable' <=> Answerable
    BY <2>1 DEF Answerable, IsFallback, IsServed, Complete, Listed, Handles, Opts
  <2> QED
    BY <2>1, <2>2 DEF FallbackInv
<1>2. req \in Requests /\ IsFallback /\ IsServed
  BY <1>1 DEF LineageInv, Answerable
<1>3. Len(Steps) = 3
  BY <1>2, FallbackPlanFacts
<1>4. CASE Accept
  <2>1. pc = "accept" /\ cost = 0 /\ idx = 1
    BY <1>1, <1>4 DEF Accept, FallbackInv, SsaInv
  <2>2. Complete /\ ~MismatchedIds
    BY <1>2, FallbackPlanFacts DEF IsFallback, MismatchedIds
  <2>3. ~(Len(Steps) > Budget.max_ops)
    BY <1>2, <1>3, ServedFacts
  <2>4. pc' = "check" /\ UNCHANGED <<idx, cost>>
    BY <1>4, <2>2, <2>3 DEF Accept
  <2>5. cost' \in Nat /\ cost' <= (idx' - 1) * 2 * Unit
    BY <2>1, <2>4 DEF Unit
  <2> QED
    BY <2>4, <2>5 DEF FallbackInv
<1>5. CASE CheckOut
  <2>1. pc = "check" /\ idx <= Len(Steps) /\ (~Fresh(Step) \/ Step.op = "MISSING")
    BY <1>5 DEF CheckOut
  <2>2. /\ idx \in {1, 2, 3} /\ Step.out \notin Blank /\ Step.op # "MISSING"
        /\ Step.out = IF idx = 1 THEN "r0" ELSE IF idx = 2 THEN "r1" ELSE "r2"
    BY <1>2, <2>1, FallbackStep, FallbackOut
  <2>3. DOMAIN depth = Outs(Steps, idx - 1)
    BY <2>1 DEF SsaInv
  <2>4. Step.out \notin DOMAIN depth
    BY <1>2, <2>2, <2>3, FallbackBefore
  <2> QED
    BY <2>1, <2>2, <2>4 DEF Fresh
<1>6. CASE CheckFetch
  <2>1. Step.handle \in Listed
    BY <1>2, <1>6, FallbackStep, ListedMin DEF CheckFetch, Checking
  <2>2. Unit \in Nat /\ Unit <= 2 * Unit
    BY DEF Unit
  <2>3. Verify({}, 0, Unit) /\ pc = "check"
    BY <1>6, <2>1 DEF CheckFetch, Checking, Fault
  <2> QED
    BY <1>1, <2>2, <2>3, FallbackChecks
<1>7. CASE CheckSelector
  <2>1. /\ Step.sel \in DOMAIN Selectors /\ Listed = {} /\ pc = "check"
        /\ AsksSubject(Step)
    BY <1>2, <1>7, FallbackStep DEF CheckSelector, Checking
  <2>2. SelectorFaults(Step) = {} /\ SelectorCost(Selectors[Step.sel]) = 12500
    BY <1>2, <2>1, FallbackSelector
  <2>3. Verify({}, 0, 12500)
    BY <1>7, <2>2 DEF CheckSelector
  <2>4. 12500 <= 2 * Unit
    BY DEF Unit
  <2> QED
    BY <1>1, <2>1, <2>3, <2>4, FallbackChecks
<1>8. CASE CheckUnary \/ CheckAssert
  <2>1. /\ pc = "check" /\ idx <= Len(Steps) /\ Fresh(Step)
        /\ Step.op \in {"RESOLVE", "FILTER", "PROJECT", "ASSERT"}
    BY <1>8 DEF CheckUnary, CheckAssert, Checking
  <2>2. DOMAIN depth = Outs(Steps, idx - 1)
    BY <2>1 DEF SsaInv
  <2>3. Reads(Step) \subseteq DOMAIN depth
    BY <1>2, <2>1, <2>2, FallbackReadsBefore
  <2>4. Undeclared(Step) = {}
    BY <2>3 DEF Undeclared, Fault
  <2>5. \E d : Verify({}, d, Unit)
    BY <1>8, <2>4 DEF CheckUnary, CheckAssert
  <2>6. Unit \in Nat /\ Unit <= 2 * Unit
    BY DEF Unit
  <2> QED
    BY <1>1, <2>1, <2>5, <2>6, FallbackChecks
<1>9. CASE CheckJoin \/ ExecResolve \/ ExecFilter \/ ExecJoin
  <2>1. (idx <= Len(Steps) /\ Step.op \in {"RESOLVE", "FILTER", "JOIN"}) \/ Checking({"JOIN"})
    BY <1>9 DEF CheckJoin, ExecResolve, ExecFilter, ExecJoin, Executing
  <2>2. idx <= Len(Steps)
    BY <2>1 DEF Checking
  <2>3. Step.op \in {"FETCH", "APPLY_SELECTOR", "PROJECT", "ASSERT"}
    BY <1>2, <2>2, FallbackStep
  <2> QED
    BY <2>1, <2>3 DEF Checking
<1>10. CASE FinishCheck
  <2>1. pc = "check" /\ idx > Len(Steps)
    BY <1>10 DEF FinishCheck
  <2>2. cost \in Nat /\ cost <= (idx - 1) * 2 * Unit
    BY <1>1, <2>1 DEF FallbackInv
  <2>3. idx = 4
    BY <1>3, <2>1 DEF SsaInv
  <2>4. ~(cost > Budget.max_total_cost)
    <3>1. Budget.max_total_cost = 256 * Unit
      BY <1>2, ServedFacts
    <3> QED
      BY <2>2, <2>3, <3>1 DEF Unit
  <2>5. req.plan.outputs \subseteq DOMAIN depth
    <3>1. DOMAIN depth = Outs(Steps, idx - 1)
      BY <2>1 DEF SsaInv
    <3>2. idx - 1 = 3
      BY <2>3
    <3> QED
      BY <1>2, <3>1, <3>2, FallbackOuts, FallbackPlanFacts
  <2>6. pc' = "execute" /\ idx' = 1
    BY <1>10, <2>4, <2>5 DEF FinishCheck
  <2>7. ~(idx' >= 2) /\ ~(idx' >= 3)
    BY <2>6
  <2> QED
    BY <2>6, <2>7 DEF FallbackInv
<1>11. CASE ExecFetch
  <2>1. pc = "execute" /\ idx <= Len(Steps) /\ Step.op = "FETCH"
    BY <1>11 DEF ExecFetch, Executing
  <2>2. idx = 1 /\ Listed # {} /\ Step.handle = Min(Listed)
    BY <1>2, <2>1, FallbackStep
  <2>3. Step.handle \in Listed
    BY <1>2, <2>2, ListedMin
  <2>4. Handles[Step.handle].availability = "READY"
    BY <1>2, <2>3, ServedFacts
  <2>5. Store(FetchedRegister(Step.handle))
    BY <1>11, <2>3, <2>4 DEF ExecFetch, Conclude
  <2>6. IsFirst(FetchedRegister(Step.handle)) /\ idx # 2
    BY <2>2 DEF IsFirst
  <2> QED
    BY <1>1, <2>1, <2>5, <2>6, FallbackStores
<1>12. CASE ExecApplySelector
  <2>1. pc = "execute" /\ idx <= Len(Steps) /\ Step.op = "APPLY_SELECTOR"
    BY <1>12 DEF ExecApplySelector, Executing
  <2>2. /\ idx = 1 /\ Step.sel \in DOMAIN Selectors /\ Listed = {}
        /\ AsksSubject(Step)
    BY <1>2, <2>1, FallbackStep
  <2>3. /\ SelectFaults(Step) = {} /\ SelectResult(Step).kind = "HANDLE_SET"
        /\ SelectResult(Step).handles = {}
    BY <1>2, <2>2, FallbackSelector
  <2>4. Store(SelectResult(Step))
    BY <1>12, <2>3 DEF ExecApplySelector, Conclude
  <2>5. IsFirst(SelectResult(Step)) /\ idx # 2
    BY <2>2, <2>3 DEF IsFirst
  <2> QED
    BY <1>1, <2>1, <2>4, <2>5, FallbackStores
<1>13. CASE ExecProject
  <2>1. pc = "execute" /\ idx <= Len(Steps) /\ Step.op = "PROJECT"
    BY <1>13 DEF ExecProject, Executing
  <2>2. idx = 2 /\ Step.in = "r0" /\ Step.paths = {Path}
    BY <1>2, <2>1, FallbackStep
  <2>3. IsFirst(regs["r0"])
    <3>1. idx >= 2
      BY <2>2
    <3> QED
      BY <1>1, <2>1, <3>1 DEF FallbackInv
  <2>4. "r0" \in DOMAIN regs
    <3>1. idx - 1 = 1
      BY <2>2
    <3> QED
      BY <1>2, <2>1, <3>1, FallbackOuts DEF SsaInv
  <2>5. ProjectFaults(Step) = {} /\ IsProjected(ProjectResult(Step))
    BY <1>2, <2>2, <2>3, <2>4, FallbackReads
  <2>6. Store(ProjectResult(Step))
    BY <1>13, <2>5 DEF ExecProject, Conclude
  <2>7. idx # 1
    BY <2>2
  <2> QED
    BY <1>1, <2>1, <2>5, <2>6, <2>7, FallbackStores
<1>14. CASE ExecAssert
  <2>1. pc = "execute" /\ idx <= Len(Steps) /\ Step.op = "ASSERT"
    BY <1>14 DEF ExecAssert, Executing
  <2>2. /\ idx = 3 /\ Step.type = "WORLD_FACT" /\ Step.cites = <<>>
        /\ Step.binds = <<[name |-> "subject", reg |-> "r1", path |-> Path]>>
    BY <1>2, <2>1, FallbackStep
  <2>3. IsProjected(regs["r1"])
    <3>1. idx >= 3
      BY <2>2
    <3> QED
      BY <1>1, <2>1, <3>1 DEF FallbackInv
  <2>4. "r1" \in DOMAIN regs
    <3>1. idx - 1 = 2
      BY <2>2
    <3> QED
      BY <1>2, <2>1, <3>1, FallbackOuts DEF SsaInv
  <2>5. AssertFaults(Step) = {}
    BY <1>2, <2>2, <2>3, <2>4, FallbackAsserts
  <2>6. Store(AssertResult(Step))
    BY <1>14, <2>5 DEF ExecAssert
  <2>7. idx # 1 /\ idx # 2
    BY <2>2
  <2> QED
    BY <1>1, <2>1, <2>6, <2>7, FallbackStores
<1>15. CASE Render
  <2>1. FirstFault(Opts.templates, TemplateFaults) = {}
    <3>1. Opts.templates = <<>>
      BY <1>2, ServedFacts
    <3>2. DOMAIN Opts.templates = {}
      BY <3>1
    <3> QED
      BY <3>2 DEF FirstFault
  <2>2. pc' = "done" /\ response'.status = "OK"
    BY <1>15, <2>1 DEF Render, Answer, Pending
  <2> QED
    BY <2>2 DEF FallbackInv
<1>16. CASE Answered \/ UNCHANGED vars
  BY <1>1, <1>16, RequestStays
  DEF Answered, vars, FallbackInv, Answerable, IsFirst, IsProjected, Path, FetchedRegister,
      RegOfHandles, TaintOf, TrustOf, IsFallback, IsServed, Complete
<1> QED
  BY <1>4, <1>5, <1>6, <1>7, <1>8, <1>9, <1>10, <1>11, <1>12, <1>13, <1>14, <1>15, <1>16 DEF Next

\* For every request: over any manifest that the service serves, however many
\* handles it lists, the fallback plan is answered in full.
THEOREM FallbackTheorem == Spec => []FallbackIsAnswered
<1>1. Init => FallbackInv
  BY DEF Init, FallbackInv
<1>2. LineageInv /\ SsaInv /\ AnswerInv /\ FallbackInv /\ [Next]_vars => FallbackInv'
  BY NextFallback
<1>3. AnswerInv /\ FallbackInv => FallbackIsAnswered
  <2> SUFFICES ASSUME AnswerInv, FallbackInv, IsFallback, IsServed, pc = "done"
               PROVE  response.status = "OK" /\ Len(response.assertions) = 1
    BY DEF FallbackIsAnswered
  <2>1. response.status = "OK"
    BY DEF FallbackInv, Answerable
  <2>2. Len(response.assertions) = Cardinality(AssertsUpTo(Len(Steps)))
    BY <2>1 DEF AnswerInv, CompleteOrNothing
  <2>3. AssertsUpTo(Len(Steps)) = {3}
    <3>1. Len(Steps) = 3 /\ Steps[2].op # "ASSERT" /\ Steps[3].op = "ASSERT"
      BY FallbackPlanFacts
    <3>2. Steps[1].op # "ASSERT"
      <4>1. CASE Listed # {}
        BY <4>1, FallbackPlanFacts
      <4>2. CASE Listed = {}
        <5>1. PICK sel, subject :
                  Steps[1] = [op |-> "APPLY_SELECTOR", out |-> "r0", sel |-> sel,
                              params |-> <<[name |-> "subject", type |-> "STRING", v |-> subject]>>]
          BY <4>2, FallbackPlanFacts
        <5> QED
          BY <5>1
      <4> QED
        BY <4>1, <4>2
    <3>3. 1..3 = {1, 2, 3}
      OBVIOUS
    <3> QED
      BY <3>1, <3>2, <3>3 DEF AssertsUpTo
  <2> QED
    BY <2>1, <2>2, <2>3, FS_Singleton
<1> QED
  BY <1>1, <1>2, <1>3, LineageCorrect, SsaCorrect, AnswerCorrect, PTL DEF Spec

=============================================================================
