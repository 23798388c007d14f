----------------------- MODULE RmvmKernelLimitsProofs -----------------------
(***************************************************************************)
(* What the limits of the kernel bound and what an answer stands for, for  *)
(* every request: the join depth of the static check is the one execution  *)
(* reaches, no register outgrows max_fanout, and an OK answer is that of   *)
(* the whole plan.                                                         *)
(***************************************************************************)
EXTENDS RmvmKernelProofs

Unary == {"RESOLVE", "FILTER", "PROJECT"}

\* What the check has recorded of the depths of the first n steps.  A step that
\* reads its own register has depth 0 and will not execute.
DepthsTo(n) ==
    \A i \in 1..n :
        LET s == Steps[i] IN
        /\ depth[s.out] <= Budget.max_join_depth
        /\ s.op \in {"FETCH", "APPLY_SELECTOR", "ASSERT"} => depth[s.out] = 0
        /\ s.op \in Unary /\ s.in # s.out => depth[s.out] = depth[s.in]
        /\ s.op = "JOIN" /\ s.left # s.out /\ s.right # s.out =>
              depth[s.out] = Larger(depth[s.left], depth[s.right]) + 1

DepthInv ==
    /\ pc = "check" => DepthsTo(idx - 1)
    /\ pc = "execute" => DepthsTo(Len(Steps)) /\ DOMAIN depth = Outs(Steps, Len(Steps))
    /\ DepthAgrees

\* What a selector returned is within its estimate, register by register.
WithinEstimate(n) ==
    \A i \in 1..n : Steps[i].op = "APPLY_SELECTOR" =>
        Cardinality(regs[Steps[i].out].handles) <= EstimatedRows(Selectors[Steps[i].sel])

\* What an assertion may cite when the plan leaves its citations to the kernel.
Citable == IF Opts.degraded THEN Listed ELSE Listed \ Opts.broken

\* An assertion with the citations it was given, or those of its lineage.
CitesLineage(s, answer, citable) ==
    s.cites = <<>> => /\ Carried(answer.fields) \subseteq {c.ref : c \in answer.citations}
                      /\ {c.ref : c \in answer.citations} \subseteq citable

Answers(s, answer, citable) == answer.type = s.type /\ CitesLineage(s, answer, citable)

\* Steps that were executed: the assertions are those of the ASSERTs among them,
\* in order, and what they fetched was ready.
DoneTo(n) ==
    /\ Len(assertions) = Cardinality(AssertsUpTo(n))
    /\ \A i \in AssertsUpTo(n) : Answers(Steps[i], assertions[Cardinality(AssertsUpTo(i))], Citable)
    /\ Opts.allow_partial \/
       \A i \in 1..n : Steps[i].op = "FETCH" => Handles[Steps[i].handle].availability = "READY"

AnswerInv ==
    /\ pc # "done" => response = Pending
    /\ pc \in {"accept", "check"} => assertions = <<>>
    /\ pc = "execute" => DoneTo(idx - 1)
    /\ CompleteOrNothing /\ CitesItsLineage

-----------------------------------------------------------------------------
\* The budget and the steps

\* A limit that is not given has a default: limits are positive.
LEMMA BudgetFacts ==
    ASSUME req \in Requests
    PROVE  /\ Budget.max_join_depth \in Nat \ {0}
           /\ Budget.max_fanout \in Nat \ {0}
<1>1. /\ req.manifest.budget.max_join_depth \in Nat
      /\ req.manifest.budget.max_fanout \in Nat
  BY RequestsAssumption
<1> QED
  BY <1>1 DEF Budget, OrDefault

\* What a step is about, while the request stays as it is.
LEMMA RequestStays ==
    ASSUME UNCHANGED req
    PROVE  /\ Steps' = Steps /\ Handles' = Handles /\ Listed' = Listed
           /\ Selectors' = Selectors /\ Budget' = Budget /\ Opts' = Opts
  BY DEF Steps, Handles, Listed, Selectors, Budget, Opts

-----------------------------------------------------------------------------
\* The depths

\* No register is written at the start.
LEMMA InitDepth == Init => DepthInv
  BY DEF Init, DepthInv, DepthAgrees

\* An answer leaves depths and registers alone.
LEMMA AnswerKeepsDepth ==
    ASSUME DepthInv, NEW resp, Answer(resp)
    PROVE  DepthInv'
<1>1. pc' = "done" /\ UNCHANGED <<req, depth, regs>>
  BY DEF Answer
<1> QED
  BY <1>1 DEF DepthInv, DepthAgrees, Budget

\* An input that is declared has a depth within the limit, another has none.
LEMMA DepthOfBounds ==
    ASSUME req \in Requests, SsaInv, DepthInv, ControlOK, pc = "check", NEW x
    PROVE  DepthOf(x) \in Nat /\ DepthOf(x) <= Budget.max_join_depth
<1>1. CASE x \in DOMAIN depth
  <2>1. DOMAIN depth = Outs(Steps, idx - 1) /\ DepthsTo(idx - 1)
    BY DEF SsaInv, DepthInv
  <2>2. PICK i \in 1..(idx - 1) : x = Steps[i].out
    BY <1>1, <2>1 DEF Outs
  <2>3. depth[x] <= Budget.max_join_depth
    BY <2>1, <2>2 DEF DepthsTo
  <2> QED
    BY <1>1, <2>3 DEF DepthOf, ControlOK
<1>2. CASE x \notin DOMAIN depth
  <2>1. 0 <= Budget.max_join_depth
    BY BudgetFacts
  <2> QED
    BY <1>2, <2>1 DEF DepthOf
<1> QED
  BY <1>1, <1>2

\* What the check computes for a step is what it has recorded afterwards; what
\* it had recorded is about registers declared before and stays.
LEMMA VerifyKeepsDepth ==
    ASSUME req \in Requests, SsaInv, DepthInv, NEW ops, Checking(ops),
           NEW faults, NEW d, NEW c, Verify(faults, d, c),
           faults = {} =>
               /\ Reads(Step) \subseteq DOMAIN depth \cup {Step.out}
               /\ d <= Budget.max_join_depth
               /\ Step.op \in {"FETCH", "APPLY_SELECTOR", "ASSERT"} => d = 0
               /\ Step.op \in Unary => d = DepthOf(Step.in)
               /\ Step.op = "JOIN" => d = JoinDepth(Step)
    PROVE  DepthInv'
<1>1. CASE faults # {}
  BY <1>1, AnswerKeepsDepth DEF Verify, RejectWith
<1>2. CASE faults = {}
  <2>1. /\ depth' = With(depth, Step.out, d) /\ idx' = idx + 1
        /\ UNCHANGED <<req, pc, regs>>
    BY <1>2 DEF Verify
  <2>2. /\ pc = "check" /\ idx \in Nat \ {0} /\ Step.out \notin DOMAIN depth /\ DOMAIN regs = {}
        /\ DOMAIN depth = Outs(Steps, idx - 1) /\ CheckedTo(Steps, idx - 1) /\ DepthsTo(idx - 1)
    BY DEF Checking, Fresh, SsaInv, DepthInv
  <2>3. depth'[Step.out] = d /\ \A x \in DOMAIN depth : depth'[x] = depth[x]
    BY <2>1, <2>2 DEF With
  <2>4. Steps' = Steps /\ Budget' = Budget /\ idx' - 1 = idx
    BY <2>1, <2>2, RequestStays
  <2>5. \A s : /\ s.op \in Unary => Reads(s) = {s.in}
               /\ s.op = "JOIN" => Reads(s) = {s.left, s.right}
    BY DEF Reads, Unary
  <2> DEFINE Recorded(i) ==
        LET s == Steps[i] IN
        /\ depth'[s.out] <= Budget.max_join_depth
        /\ s.op \in {"FETCH", "APPLY_SELECTOR", "ASSERT"} => depth'[s.out] = 0
        /\ s.op \in Unary /\ s.in # s.out => depth'[s.out] = depth'[s.in]
        /\ s.op = "JOIN" /\ s.left # s.out /\ s.right # s.out =>
              depth'[s.out] = Larger(depth'[s.left], depth'[s.right]) + 1
  <2>6. Recorded(idx)
    <3>1. Step.op \in Unary /\ Step.in # Step.out => d = depth'[Step.in]
      BY <1>2, <2>3, <2>5 DEF DepthOf
    <3>2. Step.op = "JOIN" /\ Step.left # Step.out /\ Step.right # Step.out =>
              d = Larger(depth'[Step.left], depth'[Step.right]) + 1
      BY <1>2, <2>3, <2>5 DEF DepthOf, JoinDepth
    <3> QED
      BY <1>2, <2>3, <3>1, <3>2 DEF Step
  <2>7. ASSUME NEW i \in 1..(idx - 1) PROVE Recorded(i)
    <3>1. Steps[i].out \in DOMAIN depth
      BY <2>2 DEF Outs
    <3>2. Outs(Steps, i) \subseteq Outs(Steps, idx - 1)
      <4>1. 1..i \subseteq 1..(idx - 1)
        BY <2>2
      <4> QED
        BY <4>1 DEF Outs
    <3>3. Reads(Steps[i]) \subseteq DOMAIN depth
      BY <2>2, <3>2 DEF CheckedTo
    <3> QED
      BY <2>2, <2>3, <2>5, <3>1, <3>3 DEF DepthsTo
  <2>8. \A i \in 1..idx : Recorded(i)
    <3>1. 1..idx = 1..(idx - 1) \cup {idx}
      BY <2>2
    <3> QED
      BY <2>6, <2>7, <3>1
  <2>9. (DepthsTo(idx - 1))'
    BY <2>4, <2>8 DEF DepthsTo
  <2> QED
    BY <2>1, <2>2, <2>9 DEF DepthInv, DepthAgrees
<1> QED
  BY <1>1, <1>2

\* A register is stored with the depth that was recorded for it.
LEMMA StoreKeepsDepth ==
    ASSUME SsaInv, DepthInv, NEW register, Store(register), pc = "execute", idx <= Len(Steps),
           register.depth = depth[Step.out]
    PROVE  DepthInv'
<1>1. regs' = With(regs, Step.out, register) /\ UNCHANGED <<req, pc, depth>>
  BY DEF Store
<1>2. DepthsTo(Len(Steps)) /\ DOMAIN depth = Outs(Steps, Len(Steps)) /\ idx \in 1..Len(Steps)
  BY DEF DepthInv, SsaInv
<1>3. Step.out \in DOMAIN depth /\ depth[Step.out] <= Budget.max_join_depth
  BY <1>2 DEF Outs, DepthsTo, Step
<1>4. Steps' = Steps /\ Budget' = Budget
  BY <1>1, RequestStays
<1>5. DepthAgrees'
  BY <1>1, <1>3, <1>4 DEF DepthInv, DepthAgrees, With
<1>6. (DepthsTo(Len(Steps)) /\ DOMAIN depth = Outs(Steps, Len(Steps)))'
  BY <1>1, <1>2, <1>4 DEF DepthsTo
<1> QED
  BY <1>1, <1>5, <1>6 DEF DepthInv

\* An operation that is done keeps the depths of the registers.
LEMMA ConcludeKeepsDepth ==
    ASSUME SsaInv, DepthInv, NEW op, Executing(op), NEW faults, NEW register,
           Conclude(faults, register), faults = {} => register.depth = depth[Step.out]
    PROVE  DepthInv'
  BY StoreKeepsDepth, AnswerKeepsDepth DEF Conclude, RejectWith, Executing

\* Each operation gives its register the depth that the check recorded; a step
\* that reads its own register finds none and fails.
LEMMA ResultDepth ==
    ASSUME LineageInv, SsaInv, DepthInv, pc = "execute", idx <= Len(Steps)
    PROVE  /\ Step.op \in {"FETCH", "APPLY_SELECTOR", "ASSERT"} => depth[Step.out] = 0
           /\ Step.op = "RESOLVE" /\ ResolveFaults(Step) = {} =>
                 ResolveResult(Step).depth = depth[Step.out]
           /\ Step.op = "FILTER" /\ FilterFaults(Step) = {} =>
                 FilterResult(Step).depth = depth[Step.out]
           /\ Step.op = "PROJECT" /\ ProjectFaults(Step) = {} =>
                 ProjectResult(Step).depth = depth[Step.out]
           /\ Step.op = "JOIN" /\ JoinFaults(Step) = {} =>
                 JoinResult(Step).depth = depth[Step.out]
<1>1. idx \in 1..Len(Steps) /\ DepthsTo(Len(Steps)) /\ idx - 1 \in Nat
  BY DEF SsaInv, DepthInv
<1>2. Step.out \notin DOMAIN regs
  BY <1>1 DEF SsaInv, CheckedTo, Step
<1>3. \A x \in DOMAIN regs : regs[x].depth = depth[x] /\ "depth" \in DOMAIN regs[x]
  BY DEF DepthInv, DepthAgrees, LineageInv, Sound, IsReg
<1>4. /\ Step.op \in {"FETCH", "APPLY_SELECTOR", "ASSERT"} => depth[Step.out] = 0
      /\ Step.op \in Unary /\ Step.in # Step.out => depth[Step.out] = depth[Step.in]
      /\ Step.op = "JOIN" /\ Step.left # Step.out /\ Step.right # Step.out =>
            depth[Step.out] = Larger(depth[Step.left], depth[Step.right]) + 1
  BY <1>1 DEF DepthsTo, Step
<1>5. ASSUME Step.op = "RESOLVE", ResolveFaults(Step) = {}
      PROVE  ResolveResult(Step).depth = depth[Step.out]
  <2>1. Step.in \in DOMAIN regs
    BY <1>5, HandleInputs DEF ResolveFaults
  <2> QED
    BY <1>2, <1>3, <1>4, <1>5, <2>1 DEF ResolveResult, Unary
<1>6. ASSUME Step.op = "FILTER", FilterFaults(Step) = {}
      PROVE  FilterResult(Step).depth = depth[Step.out]
  <2>1. Step.in \in DOMAIN regs
    BY <1>6, HandleInputs DEF FilterFaults
  <2> QED
    BY <1>2, <1>3, <1>4, <1>6, <2>1 DEF FilterResult, Unary
<1>7. ASSUME Step.op = "PROJECT", ProjectFaults(Step) = {}
      PROVE  ProjectResult(Step).depth = depth[Step.out]
  <2>1. Step.in \in DOMAIN regs
    BY <1>7 DEF ProjectFaults
  <2> QED
    BY <1>2, <1>3, <1>4, <1>7, <2>1 DEF ProjectResult, Unary
<1>8. ASSUME Step.op = "JOIN", JoinFaults(Step) = {}
      PROVE  JoinResult(Step).depth = depth[Step.out]
  <2>1. Step.left \in DOMAIN regs /\ Step.right \in DOMAIN regs
    BY <1>8, HandleInputs DEF JoinFaults
  <2> QED
    BY <1>2, <1>3, <1>4, <1>8, <2>1 DEF JoinResult
<1> QED
  BY <1>4, <1>5, <1>6, <1>7, <1>8

\* Every step of the kernel keeps depths agreed.
LEMMA NextDepth ==
    ASSUME LineageInv, SsaInv, ControlOK, DepthInv, [Next]_vars
    PROVE  DepthInv'
<1>1. req \in Requests
  BY DEF LineageInv
<1>2. \A s : Undeclared(s) = {} => Reads(s) \subseteq DOMAIN depth \cup {s.out}
  BY DEF Undeclared, Fault
<1>3. ASSUME NEW faults, RejectWith(faults)
      PROVE  DepthInv'
  BY <1>3, AnswerKeepsDepth DEF RejectWith
<1>4. 0 <= Budget.max_join_depth
  BY <1>1, BudgetFacts
<1>5. CASE Accept
  <2>1. CASE pc' = "check" /\ UNCHANGED <<req, idx, depth, regs>>
    <3>1. idx = 1 /\ DOMAIN regs = {}
      BY <1>5 DEF Accept, SsaInv
    <3>2. (DepthsTo(idx - 1))'
      BY <2>1, <3>1 DEF DepthsTo
    <3> QED
      BY <2>1, <3>1, <3>2 DEF DepthInv, DepthAgrees
  <2> QED
    BY <1>3, <1>5, <2>1 DEF Accept
<1>6. CASE CheckOut
  BY <1>3, <1>6 DEF CheckOut
<1>7. CASE CheckFetch
  <2>1. Step.op = "FETCH" /\ Reads(Step) = {}
    BY <1>7 DEF CheckFetch, Checking, Reads
  <2> QED
    BY <1>1, <1>4, <1>7, <2>1, VerifyKeepsDepth DEF CheckFetch, Unary
<1>8. CASE CheckSelector
  <2>1. Step.op = "APPLY_SELECTOR" /\ Reads(Step) = {}
    BY <1>8 DEF CheckSelector, Checking, Reads
  <2> QED
    BY <1>1, <1>4, <1>8, <2>1, VerifyKeepsDepth DEF CheckSelector, Unary
<1>9. CASE CheckUnary
  <2>1. Step.op \in Unary /\ pc = "check"
    BY <1>9 DEF CheckUnary, Checking, Unary
  <2>2. DepthOf(Step.in) <= Budget.max_join_depth
    BY <1>1, <2>1, DepthOfBounds
  <2> QED
    BY <1>1, <1>2, <1>9, <2>1, <2>2, VerifyKeepsDepth DEF CheckUnary, Unary
<1>10. CASE CheckJoin
  <2>1. Step.op = "JOIN" /\ pc = "check"
    BY <1>10 DEF CheckJoin, Checking
  <2>2. JoinCheckFaults(Step) = {} =>
            Undeclared(Step) = {} /\ ~(JoinDepth(Step) > Budget.max_join_depth)
    BY DEF JoinCheckFaults, Fault
  <2>3. JoinDepth(Step) \in Nat /\ Budget.max_join_depth \in Nat
    <3>1. DepthOf(Step.left) \in Nat /\ DepthOf(Step.right) \in Nat
      BY <1>1, <2>1, DepthOfBounds
    <3> QED
      BY <1>1, <3>1, BudgetFacts DEF JoinDepth, Larger
  <2>4. JoinCheckFaults(Step) = {} => JoinDepth(Step) <= Budget.max_join_depth
    BY <2>2, <2>3
  <2> QED
    BY <1>1, <1>2, <1>10, <2>1, <2>2, <2>4, VerifyKeepsDepth DEF CheckJoin, Unary
<1>11. CASE CheckAssert
  <2>1. Step.op = "ASSERT"
    BY <1>11 DEF CheckAssert, Checking
  <2> QED
    BY <1>1, <1>2, <1>4, <1>11, <2>1, VerifyKeepsDepth DEF CheckAssert, Unary
<1>12. CASE FinishCheck
  <2>1. CASE pc' = "execute" /\ UNCHANGED <<req, depth, regs>>
    <3>1. pc = "check" /\ idx - 1 = Len(Steps) /\ DOMAIN regs = {}
      BY <1>12 DEF FinishCheck, SsaInv
    <3>2. DepthsTo(Len(Steps)) /\ DOMAIN depth = Outs(Steps, Len(Steps))
      BY <3>1 DEF SsaInv, DepthInv
    <3>3. (DepthsTo(Len(Steps)) /\ DOMAIN depth = Outs(Steps, Len(Steps)))'
      BY <2>1, <3>2, RequestStays DEF DepthsTo
    <3> QED
      BY <2>1, <3>1, <3>3 DEF DepthInv, DepthAgrees
  <2> QED
    BY <1>3, <1>12, <2>1 DEF FinishCheck
<1>13. CASE ExecFetch
  <2>1. depth[Step.out] = 0
    BY <1>13, ResultDepth DEF ExecFetch, Executing
  <2>2. FetchedRegister(Step.handle).depth = 0 /\ EmptyFetch.depth = 0
    BY DEF FetchedRegister, EmptyFetch, RegOfHandles
  <2>3. CASE Stall(Step.handle)
    BY <2>3, AnswerKeepsDepth DEF Stall
  <2> QED
    BY <1>3, <1>13, <2>1, <2>2, <2>3, ConcludeKeepsDepth DEF ExecFetch
<1>14. CASE ExecApplySelector
  <2>1. depth[Step.out] = 0
    BY <1>14, ResultDepth DEF ExecApplySelector, Executing
  <2>2. SelectResult(Step).depth = 0
    <3> DEFINE of(kind, hs) == RegOfHandles(kind, hs, Matched(Step), "APPLY_SELECTOR")
    <3>1. \A kind, hs : of(kind, hs).depth = 0 /\ "depth" \in DOMAIN of(kind, hs)
      BY DEF RegOfHandles
    <3> HIDE DEF of
    <3>2. CASE Selectors[Step.sel].return_type = "HANDLE"
      BY <3>1, <3>2 DEF SelectResult, of
    <3>3. CASE Selectors[Step.sel].return_type = "HANDLE_SET"
      BY <3>1, <3>3 DEF SelectResult, of
    <3>4. CASE /\ Selectors[Step.sel].return_type # "HANDLE"
               /\ Selectors[Step.sel].return_type # "HANDLE_SET"
      <4>1. SelectResult(Step) = [of("STRUCT", {}) EXCEPT !.fields = SelectResult(Step).fields]
        BY <3>4 DEF SelectResult, of, RegOfHandles
      <4> QED
        BY <3>1, <4>1
    <3> QED
      BY <3>2, <3>3, <3>4
  <2> QED
    BY <1>14, <2>1, <2>2, ConcludeKeepsDepth DEF ExecApplySelector
<1>15. CASE ExecResolve
  BY <1>15, ResultDepth, ConcludeKeepsDepth DEF ExecResolve, Executing
<1>16. CASE ExecFilter
  BY <1>16, ResultDepth, ConcludeKeepsDepth DEF ExecFilter, Executing
<1>17. CASE ExecJoin
  BY <1>17, ResultDepth, ConcludeKeepsDepth DEF ExecJoin, Executing
<1>18. CASE ExecProject
  BY <1>18, ResultDepth, ConcludeKeepsDepth DEF ExecProject, Executing
<1>19. CASE ExecAssert
  <2>1. depth[Step.out] = 0 /\ AssertResult(Step).depth = 0
    BY <1>19, ResultDepth DEF ExecAssert, Executing, AssertResult
  <2> QED
    BY <1>3, <1>19, <2>1, StoreKeepsDepth DEF ExecAssert, Executing
<1>20. CASE Render
  BY <1>3, <1>20, AnswerKeepsDepth DEF Render
<1>21. CASE Answered \/ UNCHANGED vars
  <2>1. UNCHANGED <<req, pc, idx, depth, regs>>
    BY <1>21 DEF Answered, vars
  <2> QED
    BY <2>1, RequestStays DEF DepthInv, DepthAgrees, DepthsTo
<1> QED
  BY <1>5, <1>6, <1>7, <1>8, <1>9, <1>10, <1>11, <1>12, <1>13, <1>14, <1>15, <1>16, <1>17,
     <1>18, <1>19, <1>20, <1>21 DEF Next

\* The control of the kernel holds in every run.
LEMMA ControlCorrect == Spec => []ControlOK
<1>1. ControlOK /\ [Next]_vars => ControlOK'
  BY NextControl
<1> QED
  BY <1>1, InitControl, PTL DEF Spec

\* Registers have the depth that the static analysis gave their steps.
LEMMA DepthCorrect == Spec => []DepthInv
<1>1. LineageInv /\ SsaInv /\ ControlOK /\ DepthInv /\ [Next]_vars => DepthInv'
  BY NextDepth
<1> QED
  BY <1>1, InitDepth, LineageCorrect, SsaCorrect, ControlCorrect, PTL DEF Spec

\* For every request: the depth of every register is the one the static check
\* computed, so execution stays within the limit that was checked.
THEOREM DepthTheorem == Spec => []DepthAgrees
<1>1. DepthInv => DepthAgrees
  BY DEF DepthInv
<1> QED
  BY <1>1, DepthCorrect, PTL

-----------------------------------------------------------------------------
\* The rows

\* No more than max_fanout handles: what the fanout test lets through, and
\* single handles.
Few(hs) == IsFiniteSet(hs) /\ Cardinality(hs) <= Budget.max_fanout

\* What is within the limit on the fan-out.
LEMMA FewFacts ==
    ASSUME req \in Requests
    PROVE  /\ Few({}) /\ \A h : Few({h}) /\ Cardinality({h}) = 1
           /\ \A hs \in SUBSET Listed : IsFiniteSet(hs) /\ Cardinality(hs) <= Cardinality(Listed)
           /\ \A hs \in SUBSET Listed : TooMany(hs) = {} => Few(hs)
<1>1. Budget.max_fanout \in Nat \ {0}
  BY BudgetFacts
<1>2. Cardinality({}) = 0 /\ IsFiniteSet({})
  BY FS_EmptySet
<1>3. \A h : Cardinality({h}) = 1 /\ IsFiniteSet({h})
  BY FS_Singleton
<1>4. IsFiniteSet(Listed)
  BY RequestsAssumption DEF Listed, Handles
<1>5. \A hs \in SUBSET Listed : IsFiniteSet(hs) /\ Cardinality(hs) <= Cardinality(Listed)
  BY <1>4, FS_Subset
<1>6. ASSUME NEW hs \in SUBSET Listed, TooMany(hs) = {}
      PROVE  Few(hs)
  <2>1. ~(Cardinality(hs) > Budget.max_fanout)
    BY <1>6 DEF TooMany, Fault
  <2>2. Cardinality(hs) \in Nat
    BY <1>5, FS_CardinalityType
  <2> QED
    BY <1>1, <1>5, <2>1, <2>2 DEF Few
<1>7. Few({})
  BY <1>1, <1>2 DEF Few
<1>8. ASSUME NEW h PROVE Few({h})
  <2>1. Cardinality({h}) = 1 /\ 1 <= Budget.max_fanout
    BY <1>1, <1>3
  <2> QED
    BY <1>3, <2>1 DEF Few
<1> QED
  BY <1>3, <1>5, <1>6, <1>7, <1>8

\* A selector returns no more rows than its cost was estimated from.
LEMMA SelectFanout ==
    ASSUME req \in Requests, NEW s, SelectFaults(s) = {}
    PROVE  /\ Cardinality(SelectResult(s).handles) <= Budget.max_fanout
           /\ Cardinality(SelectResult(s).handles) <= EstimatedRows(Selectors[s.sel])
<1> DEFINE return == Selectors[s.sel].return_type
           reg(kind, hs) == RegOfHandles(kind, hs, Matched(s), "APPLY_SELECTOR")
<1>1. Matched(s) \in SUBSET Listed /\ TooMany(Matched(s)) = {}
  BY DEF Matched, SelectFaults
<1>2. \A kind, hs : reg(kind, hs).handles = hs
  BY DEF RegOfHandles
<1>3. /\ Cardinality(Matched(s)) \in Nat /\ Cardinality(Listed) \in Nat
      /\ Cardinality(Matched(s)) <= Cardinality(Listed)
      /\ Cardinality(Matched(s)) <= Budget.max_fanout /\ Budget.max_fanout \in Nat \ {0}
  <2>1. IsFiniteSet(Matched(s)) /\ IsFiniteSet(Listed)
    BY <1>1, FewFacts
  <2> QED
    BY <1>1, <2>1, FewFacts, BudgetFacts, FS_CardinalityType DEF Few
<1>4. /\ EstimatedRows(Selectors[s.sel]) \in Nat \ {0}
      /\ return = "HANDLE_SET" => Cardinality(Matched(s)) <= EstimatedRows(Selectors[s.sel])
  BY <1>3 DEF EstimatedRows, Larger
<1>5. CASE return = "HANDLE"
  <2>1. SelectResult(s).handles = {Min(Matched(s))}
    BY <1>2, <1>5 DEF SelectResult
  <2>2. Cardinality(SelectResult(s).handles) = 1
    BY <2>1, FewFacts
  <2> QED
    BY <1>3, <1>4, <2>2
<1>6. CASE return = "HANDLE_SET"
  <2>1. SelectResult(s).handles = Matched(s)
    BY <1>2, <1>6 DEF SelectResult
  <2> QED
    BY <1>3, <1>4, <1>6, <2>1
<1>7. CASE return # "HANDLE" /\ return # "HANDLE_SET"
  <2>1. SelectResult(s) = [reg("STRUCT", {}) EXCEPT !.fields = SelectResult(s).fields]
    BY <1>7 DEF SelectResult, RegOfHandles
  <2>2. "handles" \in DOMAIN reg("STRUCT", {}) /\ "handles" # "fields"
    BY DEF RegOfHandles
  <2>3. SelectResult(s).handles = {}
    <3> HIDE DEF reg
    <3> QED
      BY <1>2, <2>1, <2>2
  <2>4. Cardinality(SelectResult(s).handles) = 0
    BY <2>3, FS_EmptySet
  <2> QED
    BY <1>3, <1>4, <2>4
<1> QED
  BY <1>5, <1>6, <1>7

\* The rows of the other operations.
LEMMA ResultFanout ==
    ASSUME LineageInv, NEW s
    PROVE  /\ Few(FetchedRegister(s.handle).handles) /\ Few(EmptyFetch.handles)
           /\ Few(AssertResult(s).handles)
           /\ ResolveFaults(s) = {} => Few(ResolveResult(s).handles)
           /\ FilterFaults(s) = {} => Few(FilterResult(s).handles)
           /\ ProjectFaults(s) = {} => Few(ProjectResult(s).handles)
           /\ JoinFaults(s) = {} => Few(JoinResult(s).handles)
<1>1. req \in Requests /\ \A x \in DOMAIN regs : regs[x].handles \in SUBSET Listed
  BY DEF LineageInv, Sound, Content
<1>2. \A x \in DOMAIN regs : {"kind", "source", "handles", "fields"} \subseteq DOMAIN regs[x]
  BY DEF LineageInv, Sound, IsReg
<1>3. /\ FetchedRegister(s.handle).handles = {s.handle} /\ EmptyFetch.handles = {}
      /\ AssertResult(s).handles = {}
  BY DEF FetchedRegister, EmptyFetch, AssertResult, RegOfHandles
<1>4. ASSUME ResolveFaults(s) = {}
      PROVE  Few(ResolveResult(s).handles)
  <2>1. s.in \in DOMAIN regs
    BY <1>4, HandleInputs DEF ResolveFaults
  <2>2. Cardinality(Winners(regs[s.in].handles)) = 1
    BY <1>4 DEF ResolveFaults, Fault
  <2>3. IsFiniteSet(Winners(regs[s.in].handles))
    BY <1>1, <2>1, FewFacts DEF Winners
  <2>4. ResolveResult(s).handles = Winners(regs[s.in].handles)
    BY <1>2, <2>1 DEF ResolveResult
  <2> QED
    BY <1>1, <2>2, <2>3, <2>4, BudgetFacts DEF Few
<1>5. ASSUME FilterFaults(s) = {}
      PROVE  Few(FilterResult(s).handles)
  <2>1. s.in \in DOMAIN regs /\ TooMany(Kept(s)) = {}
    BY <1>5, HandleInputs DEF FilterFaults
  <2>2. FilterResult(s).handles = Kept(s) /\ Kept(s) \in SUBSET Listed
    BY <1>1, <1>2, <2>1 DEF FilterResult, Kept
  <2> QED
    BY <1>1, <2>1, <2>2, FewFacts
<1>6. ASSUME ProjectFaults(s) = {}
      PROVE  Few(ProjectResult(s).handles)
  <2>1. s.in \in DOMAIN regs
    BY <1>6 DEF ProjectFaults
  <2>2. ProjectResult(s).handles = {}
    BY <1>2, <2>1 DEF ProjectResult
  <2> QED
    BY <1>1, <2>2, FewFacts
<1>7. ASSUME JoinFaults(s) = {}
      PROVE  Few(JoinResult(s).handles)
  <2>1. {s.left, s.right} \subseteq DOMAIN regs /\ TooMany(Joined(s)) = {}
    BY <1>7, HandleInputs DEF JoinFaults
  <2>2. JoinResult(s).handles = Joined(s)
    BY DEF JoinResult
  <2>3. Joined(s) \in SUBSET Listed
    BY <1>1, <2>1 DEF Joined
  <2> QED
    BY <1>1, <2>1, <2>2, <2>3, FewFacts
<1> QED
  BY <1>1, <1>3, <1>4, <1>5, <1>6, <1>7, FewFacts

\* A register that is stored is within the limit, and within the estimate if it
\* is a selector's; registers written before stay.
LEMMA StoreKeepsFanout ==
    ASSUME SsaInv, FanoutBounded, NEW register, Store(register),
           pc = "execute", idx <= Len(Steps),
           Cardinality(register.handles) <= Budget.max_fanout,
           Step.op = "APPLY_SELECTOR" =>
               Cardinality(register.handles) <= EstimatedRows(Selectors[Step.sel])
    PROVE  FanoutBounded'
<1>1. regs' = With(regs, Step.out, register) /\ idx' = idx + 1 /\ UNCHANGED <<req, pc>>
  BY DEF Store
<1>2. /\ DOMAIN regs = Outs(Steps, idx - 1) /\ idx \in Nat \ {0}
      /\ Step.out \notin DOMAIN regs /\ WithinEstimate(idx - 1)
  BY StoreKeepsSsa DEF SsaInv, FanoutBounded, WithinEstimate
<1>3. regs'[Step.out] = register /\ \A x \in DOMAIN regs : regs'[x] = regs[x]
  BY <1>1, <1>2 DEF With
<1>4. /\ Steps' = Steps /\ Budget' = Budget /\ Selectors' = Selectors /\ Listed' = Listed
      /\ idx' - 1 = idx
  BY <1>1, <1>2, RequestStays
<1>5. \A x \in DOMAIN regs' : Cardinality(regs'[x].handles) <= Budget.max_fanout
  BY <1>1, <1>3 DEF FanoutBounded, With
<1>6. ASSUME NEW i \in 1..idx, Steps[i].op = "APPLY_SELECTOR"
      PROVE  Cardinality(regs'[Steps[i].out].handles) <= EstimatedRows(Selectors[Steps[i].sel])
  <2>1. CASE i = idx
    BY <1>3, <1>6, <2>1 DEF Step
  <2>2. CASE i # idx
    <3>1. i \in 1..(idx - 1)
      BY <1>2, <2>2
    <3> QED
      BY <1>2, <1>3, <1>6, <3>1 DEF Outs, WithinEstimate
  <2> QED
    BY <2>1, <2>2
<1>7. (\A i \in 1..(idx - 1) : Steps[i].op = "APPLY_SELECTOR" =>
          Cardinality(regs[Steps[i].out].handles) <= EstimatedRows(Selectors[Steps[i].sel]))'
  BY <1>4, <1>6 DEF EstimatedRows
<1> QED
  BY <1>4, <1>5, <1>7 DEF FanoutBounded

\* An operation that is done keeps the registers within the limit.
LEMMA ConcludeKeepsFanout ==
    ASSUME SsaInv, FanoutBounded, NEW op, Executing(op), NEW faults, NEW register,
           Conclude(faults, register),
           faults = {} =>
               /\ Cardinality(register.handles) <= Budget.max_fanout
               /\ Step.op = "APPLY_SELECTOR" =>
                     Cardinality(register.handles) <= EstimatedRows(Selectors[Step.sel])
    PROVE  FanoutBounded'
<1>1. CASE faults = {}
  BY <1>1, StoreKeepsFanout DEF Conclude, Executing
<1>2. CASE faults # {}
  BY <1>2 DEF Conclude, RejectWith, Answer, FanoutBounded, Budget
<1> QED
  BY <1>1, <1>2

\* Every step keeps the registers within the limit.
LEMMA NextFanout ==
    ASSUME LineageInv, SsaInv, FanoutBounded, [Next]_vars
    PROVE  FanoutBounded'
<1>1. req \in Requests
  BY DEF LineageInv
<1>2. ASSUME NEW resp, Answer(resp)
      PROVE  FanoutBounded'
  BY <1>2 DEF Answer, FanoutBounded, Budget
<1>3. ASSUME NEW faults, RejectWith(faults)
      PROVE  FanoutBounded'
  BY <1>2, <1>3 DEF RejectWith
<1>4. ASSUME UNCHANGED <<req, regs>>, pc' = "execute" => idx' = 1
      PROVE  FanoutBounded'
  BY <1>4 DEF FanoutBounded, Budget
<1>5. ASSUME NEW faults, NEW d, NEW c, Verify(faults, d, c), pc = "check"
      PROVE  FanoutBounded'
  BY <1>3, <1>4, <1>5 DEF Verify
<1>6. CASE Accept
  BY <1>3, <1>4, <1>6 DEF Accept
<1>7. CASE CheckOut \/ CheckFetch \/ CheckSelector \/ CheckUnary \/ CheckJoin \/ CheckAssert
  BY <1>3, <1>5, <1>7
     DEF CheckOut, CheckFetch, CheckSelector, CheckUnary, CheckJoin, CheckAssert, Checking
<1>8. CASE FinishCheck
  BY <1>3, <1>4, <1>8 DEF FinishCheck
<1>9. CASE ExecFetch
  <2>1. CASE Stall(Step.handle)
    BY <1>2, <2>1 DEF Stall
  <2> QED
    BY <1>3, <1>9, <2>1, ResultFanout, ConcludeKeepsFanout DEF ExecFetch, Executing, Few
<1>10. CASE ExecApplySelector
  BY <1>1, <1>10, SelectFanout, ConcludeKeepsFanout DEF ExecApplySelector
<1>11. CASE ExecResolve
  BY <1>11, ResultFanout, ConcludeKeepsFanout DEF ExecResolve, Executing, Few
<1>12. CASE ExecFilter
  BY <1>12, ResultFanout, ConcludeKeepsFanout DEF ExecFilter, Executing, Few
<1>13. CASE ExecJoin
  BY <1>13, ResultFanout, ConcludeKeepsFanout DEF ExecJoin, Executing, Few
<1>14. CASE ExecProject
  BY <1>14, ResultFanout, ConcludeKeepsFanout DEF ExecProject, Executing, Few
<1>15. CASE ExecAssert
  BY <1>3, <1>15, ResultFanout, StoreKeepsFanout DEF ExecAssert, Executing, Few
<1>16. CASE Render
  BY <1>2, <1>3, <1>16 DEF Render
<1>17. CASE Answered \/ UNCHANGED vars
  <2>1. UNCHANGED <<req, pc, idx, regs>>
    BY <1>17 DEF Answered, vars
  <2> QED
    BY <2>1 DEF FanoutBounded, Budget, Steps, Selectors, Listed, Handles, EstimatedRows
<1> QED
  BY <1>6, <1>7, <1>8, <1>9, <1>10, <1>11, <1>12, <1>13, <1>14, <1>15, <1>16, <1>17 DEF Next

\* For every request: no register holds more rows than max_fanout, and a
\* selector returns no more rows than its cost was estimated from.
THEOREM FanoutTheorem == Spec => []FanoutBounded
<1>1. Init => FanoutBounded
  BY DEF Init, FanoutBounded
<1>2. LineageInv /\ SsaInv /\ FanoutBounded /\ [Next]_vars => FanoutBounded'
  BY NextFanout
<1> QED
  BY <1>1, <1>2, LineageCorrect, SsaCorrect, PTL DEF Spec

-----------------------------------------------------------------------------
\* The answer

\* One more step is one more ASSERT, or none; the ASSERTs before a step are at
\* most those before a later one.
LEMMA AssertsGrow ==
    ASSUME NEW n \in Nat
    PROVE  /\ IsFiniteSet(AssertsUpTo(n)) /\ Cardinality(AssertsUpTo(n)) \in Nat
           /\ AssertsUpTo(n + 1) = IF Steps[n + 1].op = "ASSERT"
                                   THEN AssertsUpTo(n) \cup {n + 1} ELSE AssertsUpTo(n)
           /\ Cardinality(AssertsUpTo(n + 1)) =
                  IF Steps[n + 1].op = "ASSERT"
                  THEN Cardinality(AssertsUpTo(n)) + 1 ELSE Cardinality(AssertsUpTo(n))
           /\ \A i \in AssertsUpTo(n) :
                 Cardinality(AssertsUpTo(i)) \in 1..Cardinality(AssertsUpTo(n))
<1>1. \A m \in Nat : IsFiniteSet(AssertsUpTo(m)) /\ Cardinality(AssertsUpTo(m)) \in Nat
  <2>1. TAKE m \in Nat
  <2>2. IsFiniteSet(1..m)
    BY FS_Interval
  <2>3. AssertsUpTo(m) \in SUBSET (1..m)
    BY DEF AssertsUpTo
  <2> QED
    BY <2>2, <2>3, FS_Subset, FS_CardinalityType
<1>2. 1..(n + 1) = 1..n \cup {n + 1} /\ n + 1 \notin 1..n
  OBVIOUS
<1>3. AssertsUpTo(n + 1) = IF Steps[n + 1].op = "ASSERT"
                          THEN AssertsUpTo(n) \cup {n + 1} ELSE AssertsUpTo(n)
  BY <1>2 DEF AssertsUpTo
<1>4. n + 1 \notin AssertsUpTo(n)
  BY <1>2 DEF AssertsUpTo
<1>5. Cardinality(AssertsUpTo(n + 1)) =
          IF Steps[n + 1].op = "ASSERT"
          THEN Cardinality(AssertsUpTo(n)) + 1 ELSE Cardinality(AssertsUpTo(n))
  BY <1>1, <1>3, <1>4, FS_AddElement
<1>6. ASSUME NEW i \in AssertsUpTo(n)
      PROVE  Cardinality(AssertsUpTo(i)) \in 1..Cardinality(AssertsUpTo(n))
  <2>1. i \in 1..n /\ i \in Nat /\ i \in AssertsUpTo(i)
    BY DEF AssertsUpTo
  <2>2. AssertsUpTo(i) \in SUBSET AssertsUpTo(n)
    BY <2>1 DEF AssertsUpTo
  <2>3. Cardinality(AssertsUpTo(i)) <= Cardinality(AssertsUpTo(n))
    BY <1>1, <2>2, FS_Subset
  <2>4. Cardinality(AssertsUpTo(i)) # 0
    BY <1>1, <2>1, FS_EmptySet
  <2> QED
    BY <1>1, <2>1, <2>3, <2>4
<1> QED
  BY <1>1, <1>3, <1>5, <1>6

\* No answer is given at the start.
LEMMA InitAnswer == Init => AnswerInv
<1>1. /\ Pending.status = "PENDING" /\ Pending.assertions = <<>> /\ Pending.blocks = {}
  BY DEF Pending
<1> QED
  BY <1>1 DEF Init, AnswerInv, CompleteOrNothing, CitesItsLineage

\* A refusal and a stall carry nothing.
LEMMA RefusalKeepsAnswer ==
    ASSUME AnswerInv, NEW codes, RejectWith(codes)
    PROVE  AnswerInv'
<1>1. PICK c \in codes : Answer([Pending EXCEPT !.status = "REJECTED", !.code = c])
  BY DEF RejectWith
<1>2. /\ pc' = "done" /\ response'.status = "REJECTED"
      /\ response'.assertions = <<>> /\ response'.blocks = {}
  BY <1>1 DEF Answer, Pending
<1> QED
  BY <1>2 DEF AnswerInv, CompleteOrNothing, CitesItsLineage

\* A stall takes no citation back.
LEMMA StallKeepsAnswer ==
    ASSUME AnswerInv, NEW h, Stall(h)
    PROVE  AnswerInv'
<1>1. /\ pc' = "done" /\ response'.status = "STALL"
      /\ response'.assertions = <<>> /\ response'.blocks = {}
  BY DEF Stall, Answer, Pending
<1> QED
  BY <1>1 DEF AnswerInv, CompleteOrNothing, CitesItsLineage

\* While nothing is asserted, progress changes nothing here.
LEMMA CheckKeepsAnswer ==
    ASSUME AnswerInv, pc \in {"accept", "check"}, UNCHANGED <<assertions, response>>,
           pc' = "check" \/ (pc' = "execute" /\ idx' = 1)
    PROVE  AnswerInv'
<1>1. response' = Pending /\ assertions' = <<>> /\ Pending.status = "PENDING"
      /\ Pending.assertions = <<>> /\ Pending.blocks = {}
  BY DEF AnswerInv, Pending
<1>2. CompleteOrNothing' /\ CitesItsLineage'
  BY <1>1 DEF CompleteOrNothing, CitesItsLineage
<1>3. ASSUME idx' = 1
      PROVE  (DoneTo(idx - 1))'
  <2>1. idx' - 1 = 0 /\ 1..0 = {}
    BY <1>3
  <2>2. (AssertsUpTo(idx - 1))' = {}
    BY <2>1 DEF AssertsUpTo
  <2>3. Cardinality({}) = 0 /\ Len(assertions') = 0
    BY <1>1, FS_EmptySet
  <2> QED
    BY <2>1, <2>2, <2>3 DEF DoneTo
<1> QED
  BY <1>1, <1>2, <1>3 DEF AnswerInv

\* An ASSERT that passed its checks cites what it carries: its default citations
\* are its provenance, which passed the lineage gate.
LEMMA AssertCites ==
    ASSUME LineageInv, idx \in DOMAIN Steps, Step.op = "ASSERT", AssertFaults(Step) = {}
    PROVE  CitesLineage(Step, Assertion(Step), Citable)
<1>1. Step.binds \in Seq(Range(Step.binds))
  BY RequestFacts DEF LineageInv, Step
<1>2. FirstFault(Step.binds, BindingFaults) = {} /\ GateFaults(Step) = {}
  BY DEF AssertFaults
<1>3. BoundProv(Step) \subseteq Listed /\ Carried(BoundFields(Step)) \subseteq BoundProv(Step)
  BY <1>1, <1>2, BoundSummary DEF LineageInv
<1>4. BoundProv(Step) \subseteq Citable
  <2>1. Opts.degraded \/ BoundProv(Step) \cap Opts.broken = {}
    BY <1>2 DEF GateFaults, Fault, Broken
  <2> QED
    BY <1>3, <2>1 DEF Citable
<1>5. ASSUME Step.cites = <<>>
      PROVE  {c.ref : c \in Assertion(Step).citations} = BoundProv(Step)
  <2> DEFINE cite(h) == [variant |-> "handle", ref |-> h]
             cited == Assertion(Step).citations
  <2>1. cited = {cite(h) : h \in BoundProv(Step)}
    BY <1>5 DEF Assertion, Citations
  <2>2. \A h : cite(h).ref = h
    OBVIOUS
  <2> HIDE DEF cite, cited
  <2>3. \A h \in BoundProv(Step) : cite(h) \in cited
    BY <2>1
  <2>4. \A c \in cited : c.ref \in BoundProv(Step)
    BY <2>1, <2>2
  <2>5. {c.ref : c \in cited} = BoundProv(Step)
    BY <2>2, <2>3, <2>4
  <2> QED
    BY <2>5 DEF cited
<1>6. Assertion(Step).fields = BoundFields(Step)
  BY DEF Assertion
<1> QED
  BY <1>3, <1>4, <1>5, <1>6 DEF CitesLineage

\* A step is done when its register is stored: an ASSERT with its assertion, a
\* FETCH when its handle was ready or need not be.
LEMMA StoreKeepsAnswer ==
    ASSUME LineageInv, SsaInv, AnswerInv, NEW register, Store(register),
           pc = "execute", idx <= Len(Steps),
           IF Step.op = "ASSERT" THEN assertions' = Append(assertions, Assertion(Step))
                                 ELSE UNCHANGED assertions,
           Step.op = "ASSERT" => CitesLineage(Step, Assertion(Step), Citable),
           Step.op = "FETCH" => Opts.allow_partial \/ Handles[Step.handle].availability = "READY"
    PROVE  AnswerInv'
<1>1. idx' = idx + 1 /\ UNCHANGED <<req, pc, response>>
  BY DEF Store
<1>2. idx \in Nat \ {0} /\ DoneTo(idx - 1) /\ assertions \in Seq(Range(assertions))
  BY DEF SsaInv, AnswerInv, LineageInv
<1>3. Steps' = Steps /\ Handles' = Handles /\ Opts' = Opts /\ idx' - 1 = idx
  BY <1>1, <1>2, RequestStays
<1>4. idx - 1 \in Nat /\ (idx - 1) + 1 = idx
  BY <1>2
<1> DEFINE before == AssertsUpTo(idx - 1)
           n == Cardinality(before)
<1>5. /\ IsFiniteSet(before) /\ n \in Nat /\ n = Len(assertions)
      /\ \A i \in before : Cardinality(AssertsUpTo(i)) \in 1..n
      /\ \A i \in before : Answers(Steps[i], assertions[Cardinality(AssertsUpTo(i))], Citable)
  BY <1>2, <1>4, AssertsGrow DEF DoneTo
<1>6. /\ AssertsUpTo(idx) = IF Step.op = "ASSERT" THEN before \cup {idx} ELSE before
      /\ Cardinality(AssertsUpTo(idx)) = IF Step.op = "ASSERT" THEN n + 1 ELSE n
  BY <1>4, AssertsGrow DEF Step
<1>7. /\ Len(assertions') = Cardinality(AssertsUpTo(idx))
      /\ \A i \in AssertsUpTo(idx) : Answers(Steps[i], assertions'[Cardinality(AssertsUpTo(i))], Citable)
  <2> HIDE DEF n, before
  <2>1. CASE Step.op = "ASSERT"
    <3> DEFINE new == Assertion(Step)
    <3>1. Answers(Steps[idx], new, Citable)
      BY <2>1 DEF Assertion, Step, Answers
    <3> HIDE DEF new
    <3>2. assertions' = Append(assertions, new)
      BY <2>1 DEF new
    <3>3. assertions \in Seq(Range(assertions) \cup {new})
      BY <1>2 DEF Range
    <3>4. /\ Len(assertions') = n + 1 /\ assertions'[n + 1] = new
          /\ \A j \in 1..n : assertions'[j] = assertions[j]
      BY <1>5, <3>2, <3>3
    <3> QED
      BY <1>5, <1>6, <2>1, <3>1, <3>4
  <2>2. CASE Step.op # "ASSERT"
    BY <1>5, <1>6, <2>2
  <2> QED
    BY <2>1, <2>2
<1>8. Opts.allow_partial \/
      \A i \in 1..idx : Steps[i].op = "FETCH" => Handles[Steps[i].handle].availability = "READY"
  <2>1. 1..idx = 1..(idx - 1) \cup {idx}
    BY <1>2
  <2> QED
    BY <1>2, <2>1 DEF DoneTo, Step
<1>9. (DoneTo(idx - 1))'
  <2>1. Citable' = Citable
    BY <1>1, RequestStays DEF Citable
  <2> QED
    BY <1>3, <1>7, <1>8, <2>1 DEF DoneTo, AssertsUpTo
<1>10. response' = Pending /\ Pending.status = "PENDING"
       /\ Pending.assertions = <<>> /\ Pending.blocks = {}
  BY <1>1 DEF AnswerInv, Pending
<1> QED
  BY <1>1, <1>9, <1>10 DEF AnswerInv, CompleteOrNothing, CitesItsLineage

\* An operation other than an assertion leaves the answer complete.
LEMMA ConcludeKeepsAnswer ==
    ASSUME LineageInv, SsaInv, AnswerInv, NEW op, op # "ASSERT", Executing(op),
           NEW faults, NEW register, Conclude(faults, register),
           op = "FETCH" => Opts.allow_partial \/ Handles[Step.handle].availability = "READY"
    PROVE  AnswerInv'
  BY StoreKeepsAnswer, RefusalKeepsAnswer DEF Conclude, Executing

\* When all steps are done, the answer stands for the whole plan.
LEMMA RenderKeepsAnswer ==
    ASSUME LineageInv, SsaInv, AnswerInv, Render
    PROVE  AnswerInv'
<1>1. CASE FirstFault(Opts.templates, TemplateFaults) # {}
  BY <1>1, RefusalKeepsAnswer DEF Render
<1>2. CASE FirstFault(Opts.templates, TemplateFaults) = {}
  <2>1. /\ pc' = "done" /\ response'.status = "OK" /\ response'.assertions = assertions
        /\ UNCHANGED <<req, regs, assertions>>
    BY <1>2 DEF Render, Answer, Pending
  <2>2. pc = "execute" /\ idx - 1 = Len(Steps)
    BY DEF Render, SsaInv
  <2>3. DOMAIN regs = Outs(Steps, Len(Steps)) /\ DoneTo(Len(Steps))
    BY <2>2 DEF SsaInv, AnswerInv
  <2>4. Outs(Steps, Len(Steps)) = {Steps[i].out : i \in DOMAIN Steps}
    <3>1. Steps \in Seq(Range(Steps))
      BY RequestFacts DEF LineageInv
    <3> QED
      BY <3>1 DEF Outs
  <2> QED
    <3>1. CompleteOrNothing'
      <4>1. /\ Len(assertions) = Cardinality(AssertsUpTo(Len(Steps)))
            /\ \A i \in AssertsUpTo(Len(Steps)) :
                  assertions[Cardinality(AssertsUpTo(i))].type = Steps[i].type
            /\ Opts.allow_partial \/
               \A i \in 1..Len(Steps) :
                  Steps[i].op = "FETCH" => Handles[Steps[i].handle].availability = "READY"
        BY <2>3 DEF DoneTo, Answers
      <4>2. DOMAIN Steps = 1..Len(Steps)
        BY RequestFacts DEF LineageInv
      <4>3. /\ DOMAIN regs = {Steps[i].out : i \in DOMAIN Steps}
            /\ Opts.allow_partial \/
               \A i \in DOMAIN Steps :
                  Steps[i].op = "FETCH" => Handles[Steps[i].handle].availability = "READY"
        BY <2>3, <2>4, <4>1, <4>2
      <4>4. /\ Steps' = Steps /\ Handles' = Handles /\ Opts' = Opts /\ regs' = regs
            /\ response'.status = "OK" /\ response'.assertions = assertions
        BY <2>1, RequestStays
      <4>5. AssertsUpTo(Len(Steps))' = AssertsUpTo(Len(Steps))
            /\ \A i : AssertsUpTo(i)' = AssertsUpTo(i)
        BY <4>4 DEF AssertsUpTo
      <4> QED
        BY <4>1, <4>3, <4>4, <4>5 DEF CompleteOrNothing, AssertsUpTo
    <3>2. CitesItsLineage'
      <4>1. \A i \in AssertsUpTo(Len(Steps)) :
                CitesLineage(Steps[i], assertions[Cardinality(AssertsUpTo(i))], Citable)
        BY <2>3 DEF DoneTo, Answers
      <4>2. Opts' = Opts /\ Listed' = Listed /\ Steps' = Steps
        BY <2>1, RequestStays
      <4>3. Citable \subseteq Listed /\ (Opts.degraded \/ Citable \cap Opts.broken = {})
        BY DEF Citable
      <4>4. ASSUME NEW i \in AssertsUpTo(Len(Steps)), Steps[i].cites = <<>>,
                   NEW cited,
                   cited = {c.ref : c \in assertions[Cardinality(AssertsUpTo(i))].citations}
            PROVE  /\ Carried(assertions[Cardinality(AssertsUpTo(i))].fields) \subseteq cited
                   /\ cited \subseteq Listed
                   /\ Opts.degraded \/ cited \cap Opts.broken = {}
        <5>1. /\ Carried(assertions[Cardinality(AssertsUpTo(i))].fields) \subseteq cited
              /\ cited \subseteq Citable
          BY <4>1, <4>4 DEF CitesLineage
        <5> QED
          BY <4>3, <5>1
      <4>5. \A i \in AssertsUpTo(Len(Steps)) : Steps[i].cites = <<>> =>
                LET answer == assertions[Cardinality(AssertsUpTo(i))]
                    cited == {c.ref : c \in answer.citations}
                IN  /\ Carried(answer.fields) \subseteq cited
                    /\ cited \subseteq Listed
                    /\ Opts.degraded \/ cited \cap Opts.broken = {}
        BY <4>4, Zenon
      <4>6. AssertsUpTo(Len(Steps))' = AssertsUpTo(Len(Steps))
            /\ \A i : AssertsUpTo(i)' = AssertsUpTo(i)
        BY <4>2 DEF AssertsUpTo
      <4>7. response'.assertions = assertions
        BY <2>1
      <4> QED
        BY <4>2, <4>5, <4>6, <4>7, ZenonT(30) DEF CitesItsLineage
    <3> QED
      BY <2>1, <3>1, <3>2 DEF AnswerInv
<1> QED
  BY <1>1, <1>2

\* Every step keeps the answer complete or without assertions.
LEMMA NextAnswer ==
    ASSUME LineageInv, SsaInv, AnswerInv, [Next]_vars
    PROVE  AnswerInv'
<1>1. ASSUME NEW faults, NEW d, NEW c, Verify(faults, d, c), pc = "check"
      PROVE  AnswerInv'
  BY <1>1, RefusalKeepsAnswer, CheckKeepsAnswer DEF Verify
<1>2. CASE Accept
  BY <1>2, RefusalKeepsAnswer, CheckKeepsAnswer DEF Accept
<1>3. CASE CheckOut
  BY <1>3, RefusalKeepsAnswer DEF CheckOut
<1>4. CASE CheckFetch \/ CheckSelector \/ CheckUnary \/ CheckJoin \/ CheckAssert
  BY <1>1, <1>4 DEF CheckFetch, CheckSelector, CheckUnary, CheckJoin, CheckAssert, Checking
<1>5. CASE FinishCheck
  BY <1>5, RefusalKeepsAnswer, CheckKeepsAnswer DEF FinishCheck
<1>6. CASE ExecFetch
  BY <1>6, RefusalKeepsAnswer, StallKeepsAnswer, ConcludeKeepsAnswer DEF ExecFetch
<1>7. CASE ExecApplySelector \/ ExecResolve \/ ExecFilter \/ ExecJoin \/ ExecProject
  BY <1>7, ConcludeKeepsAnswer
     DEF ExecApplySelector, ExecResolve, ExecFilter, ExecJoin, ExecProject
<1>8. CASE ExecAssert
  <2>1. pc = "execute" /\ idx <= Len(Steps) /\ Step.op = "ASSERT" /\ idx \in DOMAIN Steps
    <3>1. Steps \in Seq(Range(Steps)) /\ idx \in Nat \ {0}
      BY RequestFacts DEF LineageInv
    <3> QED
      BY <1>8, <3>1 DEF ExecAssert, Executing
  <2> QED
    BY <1>8, <2>1, RefusalKeepsAnswer, StoreKeepsAnswer, AssertCites DEF ExecAssert
<1>9. CASE Render
  BY <1>9, RenderKeepsAnswer
<1>10. CASE Answered \/ UNCHANGED vars
  <2>1. UNCHANGED <<req, pc, idx, regs, assertions, response>>
    BY <1>10 DEF Answered, vars
  <2>2. Steps' = Steps /\ Handles' = Handles /\ Listed' = Listed /\ Opts' = Opts
    BY <2>1, RequestStays
  <2>3. Citable' = Citable /\ \A n : AssertsUpTo(n)' = AssertsUpTo(n)
    BY <2>2 DEF Citable, AssertsUpTo
  <2>4. CompleteOrNothing'
    BY <2>1, <2>2, <2>3 DEF AnswerInv, CompleteOrNothing
  <2>5. CitesItsLineage'
    BY <2>1, <2>2, <2>3 DEF AnswerInv, CitesItsLineage
  <2>6. pc = "execute" => (DoneTo(idx - 1))'
    BY <2>1, <2>2, <2>3 DEF AnswerInv, DoneTo
  <2> QED
    BY <2>1, <2>4, <2>5, <2>6 DEF AnswerInv
<1> QED
  BY <1>2, <1>3, <1>4, <1>5, <1>6, <1>7, <1>8, <1>9, <1>10 DEF Next

\* What the answer says, and what has been done while there is none.
LEMMA AnswerCorrect == Spec => []AnswerInv
<1>1. LineageInv /\ SsaInv /\ AnswerInv /\ [Next]_vars => AnswerInv'
  BY NextAnswer
<1> QED
  BY <1>1, InitAnswer, LineageCorrect, SsaCorrect, PTL DEF Spec

\* For every request: an OK answer is that of the whole plan, its assertions in
\* the plan's order; any other answer carries nothing.
THEOREM CompleteTheorem == Spec => []CompleteOrNothing
<1>1. AnswerInv => CompleteOrNothing
  BY DEF AnswerInv
<1> QED
  BY <1>1, AnswerCorrect, PTL

\* For every request: an assertion without citations of its own cites what it
\* carries, and nothing that is not listed or of broken lineage.
THEOREM CitationTheorem == Spec => []CitesItsLineage
<1>1. AnswerInv => CitesItsLineage
  BY DEF AnswerInv
<1> QED
  BY <1>1, AnswerCorrect, PTL

-----------------------------------------------------------------------------
\* Readiness

\* Handles that are ready, or that one of the first n steps selected.
ReadyOrSelected(n, hs) ==
    \A h \in hs :
        \/ Handles[h].availability = "READY"
        \/ \E i \in 1..n : Steps[i].op = "APPLY_SELECTOR" /\ h \in Matched(Steps[i])

\* What reaches a register came with a handle of its provenance.
ReadyInv ==
    pc = "execute" => \A x \in DOMAIN regs : ReadyOrSelected(idx - 1, regs[x].prov)

\* Where a register that is stored has its provenance from: from a selector,
\* from a handle that was ready, or from registers before it.
FromBefore(prov) == \A h \in prov : \E x \in DOMAIN regs : h \in regs[x].prov

LEMMA ResultProvenance ==
    ASSUME LineageInv, idx \in DOMAIN Steps
    PROVE  /\ SelectResult(Step).prov = Matched(Step)
           /\ ResolveFaults(Step) = {} => FromBefore(ResolveResult(Step).prov)
           /\ FilterFaults(Step) = {} => FromBefore(FilterResult(Step).prov)
           /\ ProjectFaults(Step) = {} => FromBefore(ProjectResult(Step).prov)
           /\ JoinFaults(Step) = {} => FromBefore(JoinResult(Step).prov)
           /\ Step.op = "ASSERT" /\ AssertFaults(Step) = {} => FromBefore(AssertResult(Step).prov)
<1>1. \A x \in DOMAIN regs : IsReg(regs[x])
  BY DEF LineageInv, Sound
<1>2. SelectResult(Step).prov = Matched(Step)
  <2> DEFINE of(kind, hs) == RegOfHandles(kind, hs, Matched(Step), "APPLY_SELECTOR")
  <2>1. \A kind, hs : of(kind, hs).prov = Matched(Step) /\ "prov" \in DOMAIN of(kind, hs)
    BY DEF RegOfHandles
  <2>2. CASE Selectors[Step.sel].return_type \in {"HANDLE", "HANDLE_SET"}
    <3> HIDE DEF of
    <3> QED
      BY <2>1, <2>2 DEF SelectResult, of
  <2>3. CASE ~(Selectors[Step.sel].return_type \in {"HANDLE", "HANDLE_SET"})
    <3>1. SelectResult(Step) = [of("STRUCT", {}) EXCEPT !.fields = SelectResult(Step).fields]
      BY <2>3 DEF SelectResult, RegOfHandles
    <3> HIDE DEF of
    <3> QED
      BY <2>1, <3>1
  <2> QED
    BY <2>2, <2>3
<1>3. ASSUME ResolveFaults(Step) = {}
      PROVE  FromBefore(ResolveResult(Step).prov)
  <2>1. Step.in \in DOMAIN regs
    BY <1>3, HandleInputs DEF ResolveFaults
  <2> QED
    BY <1>1, <2>1 DEF ResolveResult, FromBefore, IsReg
<1>4. ASSUME FilterFaults(Step) = {}
      PROVE  FromBefore(FilterResult(Step).prov)
  <2>1. Step.in \in DOMAIN regs
    BY <1>4, HandleInputs DEF FilterFaults
  <2> QED
    BY <1>1, <2>1 DEF FilterResult, FromBefore, IsReg
<1>5. ASSUME ProjectFaults(Step) = {}
      PROVE  FromBefore(ProjectResult(Step).prov)
  <2>1. Step.in \in DOMAIN regs
    BY <1>5 DEF ProjectFaults
  <2>2. ProjectResult(Step).prov = regs[Step.in].prov
    BY <1>1, <2>1 DEF ProjectResult, IsReg
  <2> QED
    BY <2>1, <2>2 DEF FromBefore
<1>6. ASSUME JoinFaults(Step) = {}
      PROVE  FromBefore(JoinResult(Step).prov)
  <2>1. Step.left \in DOMAIN regs /\ Step.right \in DOMAIN regs
    BY <1>6, HandleInputs DEF JoinFaults
  <2> QED
    BY <2>1 DEF JoinResult, FromBefore
<1>7. ASSUME Step.op = "ASSERT", AssertFaults(Step) = {}
      PROVE  FromBefore(AssertResult(Step).prov)
  <2>1. Step.binds \in Seq(Range(Step.binds))
    BY <1>7, RequestFacts DEF LineageInv, Step
  <2>2. \A i \in DOMAIN Step.binds : BindingFaults(Step.binds[i]) = {}
    BY <1>7, <2>1, BindingsFaultless DEF AssertFaults
  <2>3. \A i \in DOMAIN Step.binds : Step.binds[i].reg \in DOMAIN regs
    BY <2>2 DEF BindingFaults
  <2> QED
    BY <2>3 DEF AssertResult, BoundProv, BoundRegs, FromBefore
<1> QED
  BY <1>2, <1>3, <1>4, <1>5, <1>6, <1>7

\* A register is stored with a provenance that is accounted for.
LEMMA StoreKeepsReady ==
    ASSUME LineageInv, SsaInv, ReadyInv, pc = "execute", idx <= Len(Steps),
           NEW register, Store(register),
           \/ FromBefore(register.prov)
           \/ Step.op = "APPLY_SELECTOR" /\ register.prov = Matched(Step)
           \/ \A h \in register.prov : Handles[h].availability = "READY"
    PROVE  ReadyInv'
<1>1. /\ regs' = With(regs, Step.out, register) /\ idx' = idx + 1 /\ UNCHANGED <<req, pc>>
  BY DEF Store
<1>2. idx \in Nat \ {0} /\ \A x \in DOMAIN regs : ReadyOrSelected(idx - 1, regs[x].prov)
  BY DEF LineageInv, ReadyInv
<1>3. \A hs : ReadyOrSelected(idx - 1, hs) => ReadyOrSelected(idx, hs)
  <2>1. 1..(idx - 1) \subseteq 1..idx
    BY <1>2
  <2> QED
    BY <2>1 DEF ReadyOrSelected
<1>4. ReadyOrSelected(idx, register.prov)
  <2>1. CASE FromBefore(register.prov)
    BY <1>2, <1>3, <2>1 DEF FromBefore, ReadyOrSelected
  <2>2. CASE Step.op = "APPLY_SELECTOR" /\ register.prov = Matched(Step)
    <3>1. idx \in 1..idx
      BY <1>2
    <3> QED
      BY <2>2, <3>1 DEF ReadyOrSelected, Step
  <2>3. CASE \A h \in register.prov : Handles[h].availability = "READY"
    BY <2>3 DEF ReadyOrSelected
  <2> QED
    BY <2>1, <2>2, <2>3
<1>5. \A x \in DOMAIN regs' : ReadyOrSelected(idx, regs'[x].prov)
  BY <1>1, <1>2, <1>3, <1>4 DEF With
<1>6. \A hs : ReadyOrSelected(idx, hs) => (ReadyOrSelected(idx - 1, hs))'
  <2>1. idx' - 1 = idx /\ Steps' = Steps /\ Handles' = Handles
    BY <1>1, <1>2, RequestStays
  <2>2. \A s : Matched(s)' = Matched(s)
    BY <1>1, RequestStays DEF Matched, ParamMatches
  <2> QED
    BY <2>1, <2>2 DEF ReadyOrSelected
<1> QED
  BY <1>5, <1>6 DEF ReadyInv

\* Every step of the kernel accounts for what is not ready.
LEMMA NextReady ==
    ASSUME LineageInv, SsaInv, ReadyInv, [Next]_vars
    PROVE  ReadyInv'
<1>1. ASSUME NEW resp, Answer(resp)
      PROVE  ReadyInv'
  BY <1>1 DEF Answer, ReadyInv
<1>2. ASSUME NEW codes, RejectWith(codes)
      PROVE  ReadyInv'
  BY <1>1, <1>2 DEF RejectWith
<1>3. ASSUME pc \in {"accept", "check"}, UNCHANGED regs
      PROVE  ReadyInv'
  BY <1>3 DEF SsaInv, ReadyInv
<1>4. CASE Accept \/ CheckOut \/ CheckFetch \/ CheckSelector \/ CheckUnary \/ CheckJoin
           \/ CheckAssert \/ FinishCheck
  BY <1>3, <1>4 DEF Accept, CheckOut, CheckFetch, CheckSelector, CheckUnary, CheckJoin,
     CheckAssert, FinishCheck, Checking, Verify, RejectWith, Answer
<1>5. ASSUME pc = "execute", idx <= Len(Steps)
      PROVE  idx \in DOMAIN Steps
  <2>1. Steps \in Seq(Range(Steps)) /\ idx \in Nat \ {0}
    BY RequestFacts DEF LineageInv
  <2> QED
    BY <1>5, <2>1
<1>6. CASE ExecFetch
  <2>1. /\ FetchedRegister(Step.handle).prov = {Step.handle}
        /\ EmptyFetch.prov = {}
    BY DEF FetchedRegister, EmptyFetch, RegOfHandles
  <2> QED
    BY <1>1, <1>2, <1>6, <2>1, StoreKeepsReady DEF ExecFetch, Executing, Conclude, Stall
<1>7. CASE ExecApplySelector
  BY <1>2, <1>5, <1>7, ResultProvenance, StoreKeepsReady DEF ExecApplySelector, Executing, Conclude
<1>8. CASE ExecResolve
  BY <1>2, <1>5, <1>8, ResultProvenance, StoreKeepsReady DEF ExecResolve, Executing, Conclude
<1>9. CASE ExecFilter
  BY <1>2, <1>5, <1>9, ResultProvenance, StoreKeepsReady DEF ExecFilter, Executing, Conclude
<1>10. CASE ExecJoin
  BY <1>2, <1>5, <1>10, ResultProvenance, StoreKeepsReady DEF ExecJoin, Executing, Conclude
<1>11. CASE ExecProject
  BY <1>2, <1>5, <1>11, ResultProvenance, StoreKeepsReady DEF ExecProject, Executing, Conclude
<1>12. CASE ExecAssert
  BY <1>2, <1>5, <1>12, ResultProvenance, StoreKeepsReady DEF ExecAssert, Executing
<1>13. CASE Render
  BY <1>1, <1>2, <1>13 DEF Render
<1>14. CASE Answered \/ UNCHANGED vars
  <2>1. UNCHANGED <<req, pc, idx, regs>>
    BY <1>14 DEF Answered, vars
  <2> QED
    BY <2>1, RequestStays DEF ReadyInv, ReadyOrSelected, Matched, ParamMatches
<1> QED
  BY <1>4, <1>6, <1>7, <1>8, <1>9, <1>10, <1>11, <1>12, <1>13, <1>14 DEF Next

\* For every request: whatever is not ready and reaches a register was selected,
\* never fetched.
THEOREM ReadinessTheorem == Spec => []UnreadyWasSelected
<1>1. Init => ReadyInv
  BY DEF Init, ReadyInv
<1>2. LineageInv /\ SsaInv /\ ReadyInv /\ [Next]_vars => ReadyInv'
  BY NextReady
<1>3. LineageInv /\ ReadyInv => UnreadyWasSelected
  BY DEF LineageInv, Sound, ReadyInv, ReadyOrSelected, UnreadyWasSelected
<1> QED
  BY <1>1, <1>2, <1>3, LineageCorrect, SsaCorrect, PTL DEF Spec

=============================================================================
