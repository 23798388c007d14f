-------------------------- MODULE RmvmKernelProofs --------------------------
(***************************************************************************)
(* What the kernel guarantees for every request: lineage, taint and trust  *)
(* follow the content through every operation, so that the policy and the  *)
(* lineage gates of ASSERT hold for the content of every assertion.  The   *)
(* second half is what the static check buys the execution: types, and     *)
(* registers that are written once, before they are read.                  *)
(***************************************************************************)
EXTENDS RmvmKernel, TLAPS, FiniteSetTheorems, WellFoundedInduction

-----------------------------------------------------------------------------
\* The inductive invariant.  The gates are applied to a register's summary
\* (prov, taint, trust); what makes them hold for the content is that the
\* summary is exactly what the provenance says and covers the content.

Sound(r) ==
    /\ IsReg(r)
    /\ r.prov \subseteq Listed
    /\ Content(r) \subseteq r.prov
    /\ r.taint = TaintOf(r.prov)
    /\ \A h \in r.prov : r.trust <= Handles[h].trust

Gated(a) ==
    /\ IsFields(a.fields)
    /\ a.type \in PolicyTypes =>
          \A h \in Carried(a.fields) :
              Handles[h].trust >= Tier2 /\ Handles[h].taint \cap UntrustedTaint = {}
    /\ ~Opts.degraded => Carried(a.fields) \cap Opts.broken = {}

LineageInv ==
    /\ req \in Requests
    /\ idx \in Nat \ {0}
    /\ \A x \in DOMAIN regs : Sound(regs[x])
    /\ assertions \in Seq(Range(assertions))
    /\ \A i \in DOMAIN assertions : Gated(assertions[i])

-----------------------------------------------------------------------------
\* Smallest elements

\* A non-empty set of naturals has a smallest element, and Min picks it.
LEMMA MinInNat ==
    ASSUME NEW S, S \subseteq Nat, S # {}
    PROVE  Min(S) \in S /\ \A y \in S : Min(S) <= y
<1>1. PICK m \in S : \A y \in S : ~(<<y, m>> \in OpToRel(<, Nat))
  BY NatLessThanWellFounded, WFMin
<1>2. \A y \in S : m =< y
  <2>1. TAKE y \in S
  <2>2. ~(y < m)
    BY <1>1 DEF OpToRel
  <2> QED
    BY <2>2
<1> QED
  BY <1>2 DEF Min

\* The tier of a lineage is a tier, and no handle of it is below.
LEMMA LowestTierBounds ==
    ASSUME NEW T, T \subseteq Tiers
    PROVE  LowestTier(T) \in Tiers /\ \A t \in T : LowestTier(T) <= t
<1>1. CASE T = {}
  BY <1>1 DEF LowestTier, Tiers
<1>2. CASE T # {}
  <2>1. T \subseteq Nat
    BY DEF Tiers
  <2> QED
    BY <1>2, <2>1, MinInNat DEF LowestTier
<1> QED
  BY <1>1, <1>2

\* min_tier is below both of its arguments.
LEMMA LowerTierBounds ==
    ASSUME NEW a \in Tiers, NEW b \in Tiers
    PROVE  LowerTier(a, b) \in Tiers /\ LowerTier(a, b) <= a /\ LowerTier(a, b) <= b
  BY DEF LowerTier, Tiers

\* The order of tiers is transitive.
LEMMA AtMostTransitive ==
    ASSUME NEW a \in Nat, NEW b \in Nat, NEW c \in Nat, a <= b, b <= c
    PROVE  a <= c
  OBVIOUS

\* What a request is known to look like.
LEMMA RequestFacts ==
    ASSUME req \in Requests
    PROVE  /\ Listed \subseteq Refs /\ Refs \subseteq Nat
           /\ \A h \in Listed : Handles[h].trust \in Tiers /\ Handles[h].taint \subseteq TaintClasses
           /\ Steps \in Seq(Range(Steps))
           /\ \A i \in DOMAIN Steps :
                 Steps[i].op = "ASSERT" => Steps[i].binds \in Seq(Range(Steps[i].binds))
  BY RequestsAssumption, RefsAssumption DEF Listed, Handles, Steps

-----------------------------------------------------------------------------
\* One lemma per operation: from sound registers it makes a sound register.

\* A register built from handles of the manifest with their lineage is sound.
LEMMA RegOfHandlesSound ==
    ASSUME req \in Requests, NEW kind \in {"HANDLE", "HANDLE_SET", "STRUCT"},
           NEW source \in {"FETCH", "APPLY_SELECTOR"},
           NEW lineage \in SUBSET Listed, NEW hs \in SUBSET lineage,
           kind = "HANDLE" => hs # {}
    PROVE  Sound(RegOfHandles(kind, hs, lineage, source))
<1> DEFINE r == RegOfHandles(kind, hs, lineage, source)
<1>1. TaintOf(lineage) \subseteq TaintClasses
  BY RequestFacts DEF TaintOf
<1>2. /\ TrustOf(lineage) \in Tiers
      /\ \A h \in lineage : TrustOf(lineage) <= Handles[h].trust
  <2> DEFINE T == {Handles[h].trust : h \in lineage}
  <2>1. T \subseteq Tiers
    BY RequestFacts
  <2>2. LowestTier(T) \in Tiers /\ \A t \in T : LowestTier(T) <= t
    BY <2>1, LowestTierBounds
  <2> QED
    BY <2>2 DEF TrustOf
<1>3. Carried(NoFields) = {} /\ IsFields(NoFields)
  BY DEF Carried, NoFields, IsFields
<1>4. lineage \subseteq Refs
  BY RequestFacts
<1>5. IsReg(r)
  BY <1>1, <1>2, <1>3, <1>4 DEF IsReg, RegOfHandles
<1> QED
  BY <1>1, <1>2, <1>3, <1>5 DEF Sound, Content, RegOfHandles

\* A result of FETCH: the handle, or nothing when a partial execution is allowed.
LEMMA FetchSound ==
    ASSUME req \in Requests
    PROVE  /\ \A h \in Listed : Sound(FetchedRegister(h))
           /\ Sound(EmptyFetch)
<1>1. ASSUME NEW h \in Listed
      PROVE  Sound(FetchedRegister(h))
  BY RegOfHandlesSound DEF FetchedRegister
<1>2. Sound(EmptyFetch)
  BY RegOfHandlesSound DEF EmptyFetch
<1> QED
  BY <1>1, <1>2

\* APPLY_SELECTOR: the lineage is all that matched, whatever is returned; a
\* returned struct carries no field of a handle.
LEMMA SelectSound ==
    ASSUME req \in Requests, NEW s, SelectFaults(s) = {}
    PROVE  Sound(SelectResult(s))
<1> DEFINE return == Selectors[s.sel].return_type
<1>1. Matched(s) \in SUBSET Listed
  BY DEF Matched
<1>2. CASE return = "HANDLE"
  <2>1. Matched(s) # {}
    BY <1>2 DEF SelectFaults, Fault
  <2>2. Min(Matched(s)) \in Matched(s)
    BY <1>1, <2>1, RequestFacts, MinInNat
  <2>3. Sound(RegOfHandles("HANDLE", {Min(Matched(s))}, Matched(s), "APPLY_SELECTOR"))
    BY <1>1, <2>2, RegOfHandlesSound
  <2> QED
    BY <1>2, <2>3 DEF SelectResult
<1>3. CASE return = "HANDLE_SET"
  <2>1. Sound(RegOfHandles("HANDLE_SET", Matched(s), Matched(s), "APPLY_SELECTOR"))
    BY <1>1, RegOfHandlesSound
  <2> QED
    BY <1>3, <2>1 DEF SelectResult
<1>4. CASE return # "HANDLE" /\ return # "HANDLE_SET"
  <2> DEFINE base == RegOfHandles("STRUCT", {}, Matched(s), "APPLY_SELECTOR")
             names == {s.params[i].name : i \in DOMAIN s.params} \cup {"matched_count"}
             fields == [n \in names |-> IF \E i \in DOMAIN s.params : s.params[i].name = n
                                        THEN ParamLiteral ELSE MatchedCount]
  <2>1. Sound(base)
    BY <1>1, RegOfHandlesSound
  <2>2. SelectResult(s) = [base EXCEPT !.fields = fields]
    BY <1>4 DEF SelectResult
  <2>3. \A n \in names : fields[n] \in {ParamLiteral, MatchedCount}
    OBVIOUS
  <2>4. ParamLiteral \in Value /\ MatchedCount \in Value
    BY RequestFacts DEF ParamLiteral, MatchedCount, Value
  <2>5. IsFields(fields)
    BY <2>3, <2>4 DEF IsFields
  <2>6. Carried(fields) = {}
    BY <2>3 DEF Carried, ParamLiteral, MatchedCount
  <2> HIDE DEF fields
  <2>7. IsReg([base EXCEPT !.fields = fields])
    BY <2>1, <2>5 DEF IsReg, Sound, RegOfHandles
  <2> QED
    BY <2>1, <2>2, <2>6, <2>7 DEF Sound, Content, RegOfHandles
<1> QED
  BY <1>2, <1>3, <1>4

\* What it means for the inputs of RESOLVE, FILTER and JOIN to be free of faults.
LEMMA HandleInputs ==
    ASSUME NEW inputs, HandleInputFaults(inputs) = {}
    PROVE  inputs \subseteq DOMAIN regs /\ \A x \in inputs : regs[x].kind # "STRUCT"
  BY DEF HandleInputFaults, Fault

\* Keeping some rows of a sound register, and its lineage, is sound.
LEMMA NarrowedSound ==
    ASSUME NEW r, Sound(r), NEW kind \in {"HANDLE", "HANDLE_SET"},
           NEW source \in {"RESOLVE", "FILTER"}, NEW hs \in SUBSET r.handles,
           kind = "HANDLE" => hs # {}
    PROVE  Sound([r EXCEPT !.kind = kind, !.source = source, !.handles = hs])
<1> DEFINE n == [r EXCEPT !.kind = kind, !.source = source, !.handles = hs]
<1>1. IsReg(n)
  BY DEF Sound, IsReg
<1>2. /\ n.prov = r.prov /\ n.taint = r.taint /\ n.trust = r.trust
      /\ n.fields = r.fields /\ n.handles = hs
  BY DEF Sound, IsReg
<1> HIDE DEF n
<1>3. Sound(n)
  BY <1>1, <1>2 DEF Sound, Content
<1> QED
  BY <1>3 DEF n

\* RESOLVE: the winner is one of the rows, and the lineage of all rows is kept.
LEMMA ResolveSound ==
    ASSUME NEW s, \A x \in DOMAIN regs : Sound(regs[x]), ResolveFaults(s) = {}
    PROVE  Sound(ResolveResult(s))
<1>1. HandleInputFaults({s.in}) = {}
  BY DEF ResolveFaults
<1>2. s.in \in DOMAIN regs
  BY <1>1, HandleInputs
<1>3. Cardinality(Winners(regs[s.in].handles)) = 1
  BY <1>1 DEF ResolveFaults, Fault
<1>4. Winners(regs[s.in].handles) # {}
  BY <1>3, FS_EmptySet
<1>5. Winners(regs[s.in].handles) \subseteq regs[s.in].handles
  BY DEF Winners
<1> QED
  BY <1>2, <1>4, <1>5, NarrowedSound DEF ResolveResult

\* FILTER: the rows that pass are rows of the input, and its lineage is kept.
LEMMA FilterSound ==
    ASSUME NEW s, \A x \in DOMAIN regs : Sound(regs[x]), FilterFaults(s) = {}
    PROVE  Sound(FilterResult(s))
<1>1. HandleInputFaults({s.in}) = {}
  BY DEF FilterFaults
<1>2. s.in \in DOMAIN regs
  BY <1>1, HandleInputs
<1>3. Kept(s) \subseteq regs[s.in].handles
  BY DEF Kept
<1> QED
  BY <1>2, <1>3, NarrowedSound DEF FilterResult

\* JOIN: both lineages are kept, so every joined row is covered.
LEMMA JoinSound ==
    ASSUME req \in Requests,
           NEW s, \A x \in DOMAIN regs : Sound(regs[x]), JoinFaults(s) = {}
    PROVE  Sound(JoinResult(s))
<1> DEFINE l == regs[s.left]  r == regs[s.right]
<1>1. HandleInputFaults({s.left, s.right}) = {}
  BY DEF JoinFaults
<1>2. Sound(l) /\ Sound(r)
  BY <1>1, HandleInputs
<1>3. Joined(s) \subseteq l.handles \cup r.handles
  BY DEF Joined
<1>4. /\ l.trust \in Tiers /\ r.trust \in Tiers /\ Tiers \subseteq Nat
      /\ l.depth \in Nat /\ r.depth \in Nat
  BY <1>2 DEF Sound, IsReg, Tiers
<1>5. TaintOf(l.prov \cup r.prov) = TaintOf(l.prov) \cup TaintOf(r.prov)
  BY DEF TaintOf
<1>6. /\ LowerTier(l.trust, r.trust) \in Tiers
      /\ LowerTier(l.trust, r.trust) <= l.trust /\ LowerTier(l.trust, r.trust) <= r.trust
  BY <1>4, LowerTierBounds
<1>7. Larger(l.depth, r.depth) + 1 \in Nat
  BY <1>4 DEF Larger
<1>8. Carried(NoFields) = {} /\ IsFields(NoFields)
  BY DEF Carried, NoFields, IsFields
<1>9. l.handles \cup r.handles \subseteq l.prov \cup r.prov
  BY <1>2 DEF Sound, Content
<1>10. IsReg(JoinResult(s))
  BY <1>2, <1>3, <1>6, <1>7, <1>8 DEF JoinResult, IsReg, Sound
<1>11. \A h \in l.prov \cup r.prov : LowerTier(l.trust, r.trust) <= Handles[h].trust
  <2>1. TAKE h \in l.prov \cup r.prov
  <2>2. Handles[h].trust \in Nat
    BY <1>2, <1>4, RequestFacts DEF Sound
  <2>3. CASE h \in l.prov
    <3>1. l.trust <= Handles[h].trust
      BY <1>2, <2>3 DEF Sound
    <3> QED
      BY <1>4, <1>6, <2>2, <3>1, AtMostTransitive
  <2>4. CASE h \in r.prov
    <3>1. r.trust <= Handles[h].trust
      BY <1>2, <2>4 DEF Sound
    <3> QED
      BY <1>4, <1>6, <2>2, <3>1, AtMostTransitive
  <2> QED
    BY <2>3, <2>4
<1> QED
  BY <1>2, <1>3, <1>5, <1>8, <1>9, <1>10, <1>11 DEF Sound, Content, JoinResult

\* A value whose handles, if it carries any, are in a lineage.
Traced(v, lineage) ==
    v \in Value /\ (v.tag \in {"field", "set_count"} => v.of \subseteq lineage)

\* A record of traced values carries nothing outside the lineage, and back.
LEMMA TracedFields ==
    ASSUME NEW f, NEW lineage, f = [n \in DOMAIN f |-> f[n]],
           \A n \in DOMAIN f : Traced(f[n], lineage)
    PROVE  IsFields(f) /\ Carried(f) \subseteq lineage
  BY DEF IsFields, Carried, Traced

\* A field of a record that carries only a lineage is traced to it.
LEMMA CarriedTraced ==
    ASSUME NEW f, NEW lineage, IsFields(f), Carried(f) \subseteq lineage
    PROVE  \A n \in DOMAIN f : Traced(f[n], lineage)
  BY DEF IsFields, Carried, Traced

\* The smallest handle of a sound register is one of its own.
LEMMA FirstHandleTraced ==
    ASSUME req \in Requests, NEW r, Sound(r), r.handles # {}
    PROVE  Traced(FieldOf(Min(r.handles)), r.prov)
<1>1. r.handles \subseteq Nat /\ r.handles \subseteq Refs
  BY RefsAssumption DEF Sound, IsReg
<1>2. Min(r.handles) \in r.handles
  BY <1>1, MinInNat
<1>3. r.handles \subseteq r.prov
  BY DEF Sound, Content
<1> QED
  BY <1>1, <1>2, <1>3 DEF Traced, FieldOf, Value

\* PROJECT: every projected value is traced to the lineage of the input.
LEMMA ProjectSound ==
    ASSUME req \in Requests,
           NEW s, \A x \in DOMAIN regs : Sound(regs[x]), ProjectFaults(s) = {}
    PROVE  Sound(ProjectResult(s))
<1> DEFINE r == regs[s.in]
           ValueAt(path) ==
               CASE r.kind = "STRUCT" -> r.fields[path]
                 [] r.kind = "HANDLE_SET" /\ path = "set_count" -> CountOf(r.handles)
                 [] OTHER -> FieldOf(Min(r.handles))
           fields == [path \in ProjectedPaths(r, s.paths) |-> ValueAt(path)]
<1>1. s.in \in DOMAIN regs
  BY DEF ProjectFaults
<1>2. Sound(r)
  BY <1>1
<1>3. r.kind \in {"HANDLE", "HANDLE_SET", "STRUCT"} /\ (r.kind = "HANDLE" => r.handles # {})
  BY <1>2 DEF Sound, IsReg
<1>4. \A path \in ProjectedPaths(r, s.paths) : Traced(ValueAt(path), r.prov)
  <2>1. SUFFICES ASSUME NEW path \in ProjectedPaths(r, s.paths)
                 PROVE  Traced(ValueAt(path), r.prov)
    OBVIOUS
  <2>2. CASE r.kind = "STRUCT"
    <3>1. path \in DOMAIN r.fields
      BY <1>1, <2>2 DEF ProjectFaults, ProjectedPaths, Fault
    <3>2. IsFields(r.fields) /\ Carried(r.fields) \subseteq r.prov
      BY <1>2 DEF Sound, IsReg, Content
    <3>3. Traced(r.fields[path], r.prov)
      BY <3>1, <3>2, CarriedTraced
    <3> QED
      BY <2>2, <3>3
  <2>3. CASE r.kind = "HANDLE_SET" /\ path = "set_count"
    <3>1. r.handles \subseteq Refs /\ r.handles \subseteq r.prov
      BY <1>2 DEF Sound, IsReg, Content
    <3>2. Traced(CountOf(r.handles), r.prov)
      BY <3>1 DEF Traced, CountOf, Value
    <3> QED
      BY <2>3, <3>2
  <2>4. CASE r.kind = "HANDLE" \/ (r.kind = "HANDLE_SET" /\ path # "set_count")
    <3>1. r.handles # {}
      BY <1>3, <2>4 DEF ProjectedPaths
    <3>2. Traced(FieldOf(Min(r.handles)), r.prov)
      BY <1>2, <3>1, FirstHandleTraced
    <3> QED
      BY <2>4, <3>2
  <2> QED
    BY <1>3, <2>2, <2>3, <2>4
<1> HIDE DEF ValueAt
<1>5. IsFields(fields) /\ Carried(fields) \subseteq r.prov
  <2>1. /\ fields = [n \in DOMAIN fields |-> fields[n]]
        /\ \A n \in DOMAIN fields : Traced(fields[n], r.prov)
    BY <1>4
  <2> HIDE DEF fields
  <2> QED
    BY <2>1, TracedFields
<1>6. ProjectResult(s) = [r EXCEPT !.kind = "STRUCT", !.source = "PROJECT",
                                   !.handles = {}, !.fields = fields]
  BY DEF ProjectResult, ValueAt
<1> HIDE DEF fields
<1>7. IsReg(ProjectResult(s))
  BY <1>2, <1>5, <1>6 DEF Sound, IsReg
<1>8. LET n == ProjectResult(s) IN
         /\ n.prov = r.prov /\ n.taint = r.taint /\ n.trust = r.trust
         /\ n.fields = fields /\ n.handles = {}
  BY <1>2, <1>6 DEF Sound, IsReg
<1> QED
  BY <1>2, <1>5, <1>7, <1>8 DEF Sound, Content

-----------------------------------------------------------------------------
\* ASSERT

\* A list of bindings without a fault has no binding with one.
LEMMA BindingsFaultless ==
    ASSUME NEW binds, binds \in Seq(Range(binds)), FirstFault(binds, BindingFaults) = {}
    PROVE  \A i \in DOMAIN binds : BindingFaults(binds[i]) = {}
<1> DEFINE bad == {i \in DOMAIN binds : BindingFaults(binds[i]) # {}}
<1>1. FirstFault(binds, BindingFaults) = IF bad = {} THEN {} ELSE BindingFaults(binds[Min(bad)])
  BY DEF FirstFault
<1>2. CASE bad # {}
  <2>1. bad \subseteq Nat
    OBVIOUS
  <2>2. Min(bad) \in bad
    BY <1>2, <2>1, MinInNat
  <2> QED
    BY <1>1, <1>2, <2>2
<1> QED
  BY <1>2

\* A binding without a fault reads a register, and its value is traced to it.
LEMMA BoundValueTraced ==
    ASSUME req \in Requests, \A x \in DOMAIN regs : Sound(regs[x]),
           NEW bind, BindingFaults(bind) = {}
    PROVE  bind.reg \in DOMAIN regs /\ Traced(BoundValue(bind), regs[bind.reg].prov)
<1> DEFINE r == regs[bind.reg]
<1>1. bind.reg \in DOMAIN regs
  BY DEF BindingFaults
<1>2. Sound(r)
  BY <1>1
<1>3. /\ r.kind \in {"HANDLE", "HANDLE_SET", "STRUCT"}
      /\ r.kind = "HANDLE" => r.handles # {}
      /\ IsFields(r.fields) /\ Carried(r.fields) \subseteq r.prov
  BY <1>2 DEF Sound, IsReg, Content
<1>4. r.kind # "HANDLE_SET"
  BY <1>1 DEF BindingFaults
<1>5. CASE r.kind = "HANDLE"
  BY <1>1, <1>2, <1>3, <1>5, FirstHandleTraced DEF BoundValue
<1>6. CASE r.kind = "STRUCT"
  <2>1. bind.path \in DOMAIN r.fields
    BY <1>1, <1>6 DEF BindingFaults, Fault
  <2> QED
    BY <1>1, <1>3, <1>6, <2>1, CarriedTraced DEF BoundValue
<1> QED
  BY <1>3, <1>4, <1>5, <1>6

\* What ASSERT computes over its bindings: the union of the lineages, exactly
\* its taint, and a tier that no handle of it is below.
LEMMA BoundSummary ==
    ASSUME req \in Requests, \A x \in DOMAIN regs : Sound(regs[x]),
           NEW s, s.binds \in Seq(Range(s.binds)), FirstFault(s.binds, BindingFaults) = {}
    PROVE  /\ \A r \in BoundRegs(s) : Sound(r)
           /\ BoundProv(s) \subseteq Listed
           /\ BoundTaint(s) = TaintOf(BoundProv(s))
           /\ BoundTrust(s) \in Tiers
           /\ \A h \in BoundProv(s) : BoundTrust(s) <= Handles[h].trust
           /\ IsFields(BoundFields(s)) /\ Carried(BoundFields(s)) \subseteq BoundProv(s)
<1>1. \A i \in DOMAIN s.binds : BindingFaults(s.binds[i]) = {}
  BY BindingsFaultless
<1>2. \A i \in DOMAIN s.binds : Sound(regs[s.binds[i].reg])
  BY <1>1, BoundValueTraced
<1>3. \A r \in BoundRegs(s) : Sound(r)
  BY <1>2 DEF BoundRegs
<1>4. BoundProv(s) \subseteq Listed
  BY <1>3 DEF BoundProv, Sound
<1>5. BoundTaint(s) = TaintOf(BoundProv(s))
  <2>1. BoundTaint(s) = UNION {TaintOf(r.prov) : r \in BoundRegs(s)}
    BY <1>3 DEF BoundTaint, Sound
  <2> QED
    BY <2>1 DEF TaintOf, BoundProv
<1>6. /\ BoundTrust(s) \in Tiers
      /\ \A h \in BoundProv(s) : BoundTrust(s) <= Handles[h].trust
  <2> DEFINE T == {r.trust : r \in BoundRegs(s)}
  <2>1. T \subseteq Tiers
    BY <1>3 DEF Sound, IsReg
  <2>2. BoundTrust(s) \in Tiers /\ \A t \in T : BoundTrust(s) <= t
    BY <2>1, LowestTierBounds DEF BoundTrust
  <2>3. ASSUME NEW h \in BoundProv(s)
        PROVE  BoundTrust(s) <= Handles[h].trust
    <3>1. PICK r \in BoundRegs(s) : h \in r.prov
      BY DEF BoundProv
    <3>2. r.trust \in T /\ r.trust <= Handles[h].trust
      BY <1>3, <3>1 DEF Sound
    <3>3. Handles[h].trust \in Tiers /\ r.trust \in Tiers /\ Tiers \subseteq Nat
      <4>1. Handles[h].trust \in Tiers
        BY <1>4, RequestFacts
      <4>2. r.trust \in Tiers
        BY <2>1, <3>2
      <4> QED
        BY <4>1, <4>2 DEF Tiers
    <3>4. Handles[h].trust \in Nat /\ r.trust \in Nat /\ BoundTrust(s) \in Nat
      BY <2>2, <3>3
    <3> QED
      BY <2>2, <3>2, <3>4, AtMostTransitive
  <2> QED
    BY <2>2, <2>3
<1>7. IsFields(BoundFields(s)) /\ Carried(BoundFields(s)) \subseteq BoundProv(s)
  <2> DEFINE names == {s.binds[i].name : i \in DOMAIN s.binds}
  <2>1. ASSUME NEW n \in names
        PROVE  Traced(BoundValue(BindingOf(s, n)), BoundProv(s))
    <3>1. PICK j \in DOMAIN s.binds : BindingOf(s, n) = s.binds[j]
      BY DEF BindingOf
    <3>2. Traced(BoundValue(s.binds[j]), regs[s.binds[j].reg].prov)
      BY <1>1, BoundValueTraced
    <3>3. regs[s.binds[j].reg].prov \subseteq BoundProv(s)
      BY DEF BoundProv, BoundRegs
    <3> QED
      BY <3>1, <3>2, <3>3 DEF Traced
  <2>2. /\ BoundFields(s) = [n \in DOMAIN BoundFields(s) |-> BoundFields(s)[n]]
        /\ \A n \in DOMAIN BoundFields(s) : Traced(BoundFields(s)[n], BoundProv(s))
    BY <2>1 DEF BoundFields
  <2> QED
    BY <2>2, TracedFields
<1> QED
  BY <1>3, <1>4, <1>5, <1>6, <1>7

\* The register of an ASSERT is as sound as its bindings.
LEMMA AssertSound ==
    ASSUME req \in Requests, \A x \in DOMAIN regs : Sound(regs[x]),
           NEW s, s.binds \in Seq(Range(s.binds)), AssertFaults(s) = {}
    PROVE  Sound(AssertResult(s))
<1>1. FirstFault(s.binds, BindingFaults) = {}
  BY DEF AssertFaults
<1>2. BoundProv(s) \subseteq Refs /\ BoundTaint(s) \subseteq TaintClasses
  BY <1>1, BoundSummary, RequestFacts DEF TaintOf
<1>3. IsReg(AssertResult(s))
  BY <1>1, <1>2, BoundSummary DEF AssertResult, IsReg
<1> QED
  BY <1>1, <1>3, BoundSummary DEF AssertResult, Sound, Content

\* The gates look at the summary; they hold for the content.
LEMMA AssertGated ==
    ASSUME req \in Requests, \A x \in DOMAIN regs : Sound(regs[x]),
           NEW s, s.binds \in Seq(Range(s.binds)), AssertFaults(s) = {}
    PROVE  Gated(Assertion(s))
<1>1. FirstFault(s.binds, BindingFaults) = {} /\ GateFaults(s) = {}
  BY DEF AssertFaults
<1>2. /\ Assertion(s).fields = BoundFields(s) /\ Assertion(s).type = s.type
      /\ IsFields(BoundFields(s)) /\ Carried(BoundFields(s)) \subseteq BoundProv(s)
  BY <1>1, BoundSummary DEF Assertion
<1>3. ASSUME s.type \in PolicyTypes, NEW h \in BoundProv(s)
      PROVE  Handles[h].trust >= Tier2 /\ Handles[h].taint \cap UntrustedTaint = {}
  <2>1. ~(BoundTrust(s) < Tier2) /\ BoundTaint(s) \cap UntrustedTaint = {}
    BY <1>1, <1>3 DEF GateFaults
  <2>2. BoundTrust(s) <= Handles[h].trust /\ BoundTrust(s) \in Tiers /\ Handles[h].trust \in Tiers
    BY <1>1, BoundSummary, RequestFacts
  <2>3. Handles[h].taint \subseteq BoundTaint(s)
    BY <1>1, BoundSummary DEF TaintOf
  <2> QED
    BY <2>1, <2>2, <2>3 DEF Tiers, Tier2
<1>4. ~Opts.degraded => BoundProv(s) \cap Opts.broken = {}
  BY <1>1 DEF GateFaults, Broken, Fault
<1> QED
  BY <1>2, <1>3, <1>4 DEF Gated

-----------------------------------------------------------------------------
\* The invariant

\* Nothing is written before the first step.
LEMMA InitLineage == Init => LineageInv
<1> SUFFICES ASSUME Init PROVE LineageInv
  OBVIOUS
<1>1. DOMAIN regs = {} /\ assertions = <<>> /\ idx = 1 /\ req \in Requests
  BY DEF Init
<1>2. assertions \in Seq(Range(assertions)) /\ DOMAIN assertions = {}
  BY <1>1
<1> QED
  BY <1>1, <1>2 DEF LineageInv

\* The answers leave everything that the invariant is about alone.
LEMMA AnswerKeepsLineage ==
    ASSUME LineageInv, NEW resp, Answer(resp)
    PROVE  LineageInv'
<1>1. req' = req /\ idx' = idx /\ regs' = regs /\ assertions' = assertions
  BY DEF Answer
<1> QED
  BY <1>1 DEF LineageInv, Sound, TaintOf, Listed, Handles, Gated, Opts

\* So does the progress of the static check.
LEMMA ProgressKeepsLineage ==
    ASSUME LineageInv, UNCHANGED <<req, regs, assertions>>, idx' \in Nat \ {0}
    PROVE  LineageInv'
BY DEF LineageInv, Sound, TaintOf, Listed, Handles, Gated, Opts

\* A sound register can be stored.
LEMMA StoreKeepsSound ==
    ASSUME LineageInv, NEW register, Sound(register), Store(register)
    PROVE  /\ req' \in Requests
           /\ idx' \in Nat \ {0}
           /\ (\A x \in DOMAIN regs : Sound(regs[x]))'
<1>1. req' = req /\ idx' = idx + 1 /\ regs' = With(regs, Step.out, register)
  BY DEF Store
<1>2. \A x \in DOMAIN regs' : Sound(regs'[x])
  BY <1>1 DEF With, LineageInv
<1> QED
  BY <1>1, <1>2 DEF LineageInv, Sound, TaintOf, Listed, Handles

\* A step that fails or stores a sound register keeps the invariant.
LEMMA ConcludeKeepsLineage ==
    ASSUME LineageInv, NEW faults, NEW register,
           faults = {} => Sound(register), Conclude(faults, register)
    PROVE  LineageInv'
<1>1. CASE faults = {}
  <2>1. Store(register) /\ assertions' = assertions /\ req' = req
    BY <1>1 DEF Conclude, Store
  <2>2. /\ req' \in Requests /\ idx' \in Nat \ {0}
        /\ (\A x \in DOMAIN regs : Sound(regs[x]))'
    BY <1>1, <2>1, StoreKeepsSound
  <2>3. (\A i \in DOMAIN assertions : Gated(assertions[i]))'
    BY <2>1 DEF LineageInv, Gated, Opts, Handles
  <2> QED
    BY <2>1, <2>2, <2>3 DEF LineageInv
<1>2. CASE faults # {}
  BY <1>2, AnswerKeepsLineage DEF Conclude, RejectWith
<1> QED
  BY <1>1, <1>2

\* Every step of the kernel keeps the invariant.
LEMMA NextLineage == LineageInv /\ [Next]_vars => LineageInv'
<1> SUFFICES ASSUME LineageInv, [Next]_vars PROVE LineageInv'
  OBVIOUS
<1>1. req \in Requests /\ idx \in Nat \ {0} /\ \A x \in DOMAIN regs : Sound(regs[x])
  BY DEF LineageInv
<1>2. ASSUME NEW faults, RejectWith(faults)
      PROVE  LineageInv'
  BY <1>2, AnswerKeepsLineage DEF RejectWith
<1>3. ASSUME NEW faults, NEW d, NEW c, Verify(faults, d, c)
      PROVE  LineageInv'
  <2>1. CASE faults # {}
    BY <1>2, <1>3, <2>1 DEF Verify
  <2>2. CASE faults = {}
    BY <1>1, <1>3, <2>2, ProgressKeepsLineage DEF Verify
  <2> QED
    BY <2>1, <2>2
<1>4. CASE Accept
  BY <1>1, <1>2, <1>4, ProgressKeepsLineage DEF Accept
<1>5. CASE CheckOut \/ CheckFetch \/ CheckSelector \/ CheckUnary \/ CheckJoin \/ CheckAssert
  BY <1>2, <1>3, <1>5 DEF CheckOut, CheckFetch, CheckSelector, CheckUnary, CheckJoin, CheckAssert
<1>6. CASE FinishCheck
  <2>1. CASE UNCHANGED <<req, regs, assertions>> /\ idx' = 1
    BY <2>1, ProgressKeepsLineage
  <2> QED
    BY <1>2, <1>6, <2>1 DEF FinishCheck
<1>7. CASE ExecFetch
  <2>1. Step.handle \in Listed => Sound(FetchedRegister(Step.handle))
    BY <1>1, FetchSound
  <2>2. Sound(EmptyFetch)
    BY <1>1, FetchSound
  <2>3. CASE Stall(Step.handle)
    BY <2>3, AnswerKeepsLineage DEF Stall
  <2> QED
    BY <1>2, <1>7, <2>1, <2>2, <2>3, ConcludeKeepsLineage DEF ExecFetch
<1>8. CASE ExecApplySelector
  <2>1. SelectFaults(Step) = {} => Sound(SelectResult(Step))
    BY <1>1, SelectSound
  <2> QED
    BY <1>8, <2>1, ConcludeKeepsLineage DEF ExecApplySelector
<1>9. CASE ExecResolve
  <2>1. ResolveFaults(Step) = {} => Sound(ResolveResult(Step))
    BY <1>1, ResolveSound
  <2> QED
    BY <1>9, <2>1, ConcludeKeepsLineage DEF ExecResolve
<1>10. CASE ExecFilter
  <2>1. FilterFaults(Step) = {} => Sound(FilterResult(Step))
    BY <1>1, FilterSound
  <2> QED
    BY <1>10, <2>1, ConcludeKeepsLineage DEF ExecFilter
<1>11. CASE ExecJoin
  <2>1. JoinFaults(Step) = {} => Sound(JoinResult(Step))
    BY <1>1, JoinSound
  <2> QED
    BY <1>11, <2>1, ConcludeKeepsLineage DEF ExecJoin
<1>12. CASE ExecProject
  <2>1. ProjectFaults(Step) = {} => Sound(ProjectResult(Step))
    BY <1>1, ProjectSound
  <2> QED
    BY <1>12, <2>1, ConcludeKeepsLineage DEF ExecProject
<1>13. CASE ExecAssert
  <2>1. CASE AssertFaults(Step) # {}
    BY <1>2, <1>13, <2>1 DEF ExecAssert
  <2>2. CASE AssertFaults(Step) = {}
    <3>1. Step.binds \in Seq(Range(Step.binds))
      <4>1. idx \in DOMAIN Steps /\ Steps[idx].op = "ASSERT"
        BY <1>1, <1>13, RequestFacts DEF ExecAssert, Executing, Step
      <4> QED
        BY <1>1, <4>1, RequestFacts DEF Step
    <3>2. Sound(AssertResult(Step)) /\ Gated(Assertion(Step))
      BY <1>1, <2>2, <3>1, AssertSound, AssertGated
    <3>3. Store(AssertResult(Step)) /\ assertions' = Append(assertions, Assertion(Step)) /\ req' = req
      BY <1>13, <2>2 DEF ExecAssert, Store
    <3>4. /\ req' \in Requests /\ idx' \in Nat \ {0}
          /\ (\A x \in DOMAIN regs : Sound(regs[x]))'
      BY <3>2, <3>3, StoreKeepsSound
    <3> DEFINE new == Assertion(Step)
    <3> HIDE DEF new
    <3>5. assertions \in Seq(Range(assertions) \cup {new})
      BY DEF LineageInv, Range
    <3>6. /\ DOMAIN assertions' = DOMAIN assertions \cup {Len(assertions) + 1}
          /\ assertions'[Len(assertions) + 1] = new
          /\ \A i \in DOMAIN assertions : assertions'[i] = assertions[i]
      BY <3>3, <3>5 DEF new
    <3>7. assertions' \in Seq(Range(assertions)')
      BY <3>3, <3>5 DEF new, Range
    <3>8. \A i \in DOMAIN assertions' : Gated(assertions'[i])
      BY <3>2, <3>6 DEF new, LineageInv
    <3>9. (\A i \in DOMAIN assertions : Gated(assertions[i]))'
      BY <3>3, <3>8 DEF Gated, Opts, Handles
    <3> QED
      BY <3>4, <3>7, <3>9 DEF LineageInv
  <2> QED
    BY <2>1, <2>2
<1>14. CASE Render
  BY <1>2, <1>14, AnswerKeepsLineage DEF Render
<1>15. CASE Answered \/ UNCHANGED vars
  BY <1>1, <1>15, ProgressKeepsLineage DEF Answered, vars
<1> QED
  BY <1>4, <1>5, <1>6, <1>7, <1>8, <1>9, <1>10, <1>11, <1>12, <1>13, <1>14, <1>15 DEF Next

-----------------------------------------------------------------------------
\* The theorems

\* The invariant holds of every reachable state.
THEOREM LineageCorrect == Spec => []LineageInv
<1>1. Init => LineageInv
  BY InitLineage
<1>2. LineageInv /\ [Next]_vars => LineageInv'
  BY NextLineage
<1> QED
  BY <1>1, <1>2, PTL DEF Spec

\* For every request: what a register holds is in its provenance.
THEOREM ProvenanceTheorem == Spec => []ProvenanceCoversData
<1>1. LineageInv => ProvenanceCoversData
  BY DEF LineageInv, Sound, ProvenanceCoversData
<1> QED
  BY <1>1, LineageCorrect, PTL

\* For every request: no operation drops a taint of content still held.
THEOREM TaintTheorem == Spec => []TaintPersists
<1>1. LineageInv => TaintPersists
  BY DEF LineageInv, Sound, TaintOf, TaintPersists
<1> QED
  BY <1>1, LineageCorrect, PTL

\* For every request: no derivation raises trust above that of its content.
THEOREM TrustTheorem == Spec => []TrustNeverRises
<1>1. LineageInv => TrustNeverRises
  BY DEF LineageInv, Sound, TrustNeverRises
<1> QED
  BY <1>1, LineageCorrect, PTL

\* For every request: policy assertions carry only verified, untainted content.
THEOREM PolicyTheorem == Spec => []PolicyGate
<1>1. LineageInv => PolicyGate
  BY DEF LineageInv, Gated, PolicyGate
<1> QED
  BY <1>1, LineageCorrect, PTL

\* For every request: in normal mode nothing asserted has a broken lineage.
THEOREM LineageTheorem == Spec => []LineageGate
<1>1. LineageInv => LineageGate
  <2>1. ASSUME LineageInv, ~Opts.degraded, NEW i \in DOMAIN assertions
        PROVE  Carried(assertions[i].fields) \cap Opts.broken = {}
    BY <2>1 DEF LineageInv, Gated
  <2> QED
    BY <2>1 DEF LineageGate
<1> QED
  BY <1>1, LineageCorrect, PTL

-----------------------------------------------------------------------------
\* Every check answers with codes of the table.

\* A fault has one of the codes of the protocol.
LEMMA FaultCodes ==
    ASSUME NEW condition, NEW code \in Codes
    PROVE  Fault(condition, code) \subseteq Codes
  BY DEF Fault

\* The faults of a selector call, at check and at execution.
LEMMA SelectorCodes ==
    ASSUME NEW s
    PROVE  SelectorFaults(s) \subseteq Codes /\ SelectFaults(s) \subseteq Codes
<1> DEFINE OfParam(p) == ParamFaults(Selectors[s.sel], p)
           bad == {i \in DOMAIN s.params : OfParam(s.params[i]) # {}}
<1>1. \A p : OfParam(p) \subseteq Codes
  BY DEF ParamFaults, Fault, Codes
<1>2. FirstFault(s.params, OfParam) = IF bad = {} THEN {} ELSE OfParam(s.params[Min(bad)])
  BY DEF FirstFault
<1>3. FirstFault(s.params, OfParam) \subseteq Codes
  <2> HIDE DEF OfParam, bad
  <2> QED
    BY <1>1, <1>2
<1>4. SelectorFaults(s) \subseteq Codes
  BY <1>3 DEF SelectorFaults, Codes
<1> QED
  BY <1>4 DEF SelectFaults, TooMany, Fault, Codes

\* The faults of the operations over handle sets and of PROJECT.
LEMMA OperationCodes ==
    ASSUME NEW s
    PROVE  /\ ResolveFaults(s) \subseteq Codes
           /\ FilterFaults(s) \subseteq Codes
           /\ JoinFaults(s) \subseteq Codes
           /\ ProjectFaults(s) \subseteq Codes
<1>1. \A inputs : HandleInputFaults(inputs) \subseteq Codes
  BY DEF HandleInputFaults, Fault, Codes
<1>2. \A hs : TooMany(hs) \subseteq Codes
  BY DEF TooMany, Fault, Codes
<1>3. ResolveFaults(s) \subseteq Codes
  BY <1>1 DEF ResolveFaults, Fault, Codes
<1>4. FilterFaults(s) \subseteq Codes
  BY <1>1, <1>2 DEF FilterFaults, Codes
<1>5. JoinFaults(s) \subseteq Codes
  BY <1>1, <1>2 DEF JoinFaults, Codes
<1>6. ProjectFaults(s) \subseteq Codes
  BY FaultCodes DEF ProjectFaults, Codes
<1> QED
  BY <1>3, <1>4, <1>5, <1>6

\* The faults of ASSERT and of the narrative templates.
LEMMA AssertCodes ==
    ASSUME NEW s
    PROVE  AssertFaults(s) \subseteq Codes
<1>1. \A b : BindingFaults(b) \subseteq Codes
  BY DEF BindingFaults, Fault, Codes
<1>2. \A c : CitationFaults(c) \subseteq Codes
  BY DEF CitationFaults, Fault, Codes
<1>3. FirstFault(s.binds, BindingFaults) \subseteq Codes
  BY <1>1 DEF FirstFault
<1>4. FirstFault(s.cites, CitationFaults) \subseteq Codes
  BY <1>2 DEF FirstFault
<1>5. GateFaults(s) \subseteq Codes
  BY DEF GateFaults, Fault, Codes
<1> QED
  BY <1>3, <1>4, <1>5 DEF AssertFaults, Codes

\* The faults of templates have codes of the protocol.
LEMMA TemplateCodes == FirstFault(Opts.templates, TemplateFaults) \subseteq Codes
<1>1. \A t : TemplateFaults(t) \subseteq Codes
  <2>1. \A bind : NarrativeFaults(bind) \subseteq Codes
    BY DEF NarrativeFaults, Fault, Codes
  <2>2. \A t : FirstFault(t.binds, NarrativeFaults) \subseteq Codes
    BY <2>1 DEF FirstFault
  <2>3. {"DATA_LEAK_PREVENTION"} \subseteq Codes
    BY DEF Codes
  <2> QED
    BY <2>2, <2>3 DEF TemplateFaults
<1> QED
  BY <1>1 DEF FirstFault

-----------------------------------------------------------------------------
\* Type correctness

\* LineageInv types the registers and the assertions; this types the rest.
ControlOK ==
    /\ pc \in {"accept", "check", "execute", "done"}
    /\ depth \in [DOMAIN depth -> Nat]
    /\ response.status \in {"PENDING", "OK", "REJECTED", "STALL"}
    /\ response.code \in Codes

\* The control at the start.
LEMMA InitControl == Init => ControlOK
<1> SUFFICES ASSUME Init PROVE ControlOK
  OBVIOUS
<1>1. DOMAIN depth = {} /\ pc = "accept"
  BY DEF Init
<1>2. depth \in [DOMAIN depth -> Nat]
  BY DEF Init
<1>3. response.status = "PENDING" /\ response.code = ""
  BY DEF Init, Pending
<1> QED
  BY <1>1, <1>2, <1>3 DEF ControlOK, Codes

\* A rejection ends the request with codes of the protocol.
LEMMA RejectKeepsControl ==
    ASSUME ControlOK, NEW codes, codes \subseteq Codes, RejectWith(codes)
    PROVE  ControlOK'
<1>1. PICK c \in codes : Answer([Pending EXCEPT !.status = "REJECTED", !.code = c])
  BY DEF RejectWith
<1> QED
  BY <1>1 DEF Answer, ControlOK, Pending

\* A step of the static check records the depth it computed.
LEMMA VerifyKeepsControl ==
    ASSUME ControlOK, NEW faults, faults \subseteq Codes, NEW d \in Nat, NEW c,
           Verify(faults, d, c)
    PROVE  ControlOK'
<1>1. CASE faults # {}
  BY <1>1, RejectKeepsControl DEF Verify
<1>2. CASE faults = {}
  <2>1. depth' = With(depth, Step.out, d) /\ UNCHANGED <<pc, response>>
    BY <1>2 DEF Verify
  <2>2. depth' \in [DOMAIN depth' -> Nat]
    BY <2>1 DEF With, ControlOK
  <2> QED
    BY <2>1, <2>2 DEF ControlOK
<1> QED
  BY <1>1, <1>2

\* A step of the execution leaves the results of the check alone.
LEMMA ConcludeKeepsControl ==
    ASSUME ControlOK, NEW faults, faults \subseteq Codes, NEW register,
           Conclude(faults, register)
    PROVE  ControlOK'
<1>1. CASE faults # {}
  BY <1>1, RejectKeepsControl DEF Conclude
<1>2. CASE faults = {}
  <2>1. UNCHANGED <<pc, depth, response>>
    BY <1>2 DEF Conclude, Store
  <2> QED
    BY <2>1 DEF ControlOK
<1> QED
  BY <1>1, <1>2

\* Every step keeps the control of the kernel.
LEMMA NextControl == ControlOK /\ [Next]_vars => ControlOK'
<1> SUFFICES ASSUME ControlOK, [Next]_vars PROVE ControlOK'
  OBVIOUS
<1>1. \A r : DepthOf(r) \in Nat
  BY DEF DepthOf, ControlOK
<1>2. \A s : JoinDepth(s) \in Nat
  <2>1. TAKE s
  <2>2. DepthOf(s.left) \in Nat /\ DepthOf(s.right) \in Nat
    BY <1>1
  <2> QED
    BY <2>2 DEF JoinDepth, Larger
<1>3. \A s : Undeclared(s) \subseteq Codes /\ JoinCheckFaults(s) \subseteq Codes
  BY DEF Undeclared, JoinCheckFaults, Fault, Codes
<1>4. CASE Accept
  <2>1. {"SCHEMA_VIOLATION"} \subseteq Codes /\ {"GRAPH_TRAVERSAL_LIMIT"} \subseteq Codes
    BY DEF Codes
  <2>2. CASE pc' = "check" /\ UNCHANGED <<depth, response>>
    BY <2>2 DEF ControlOK
  <2> QED
    BY <1>4, <2>1, <2>2, RejectKeepsControl DEF Accept
<1>5. CASE CheckOut
  <2>1. {"SCHEMA_VIOLATION"} \subseteq Codes
    BY DEF Codes
  <2> QED
    BY <1>5, <2>1, RejectKeepsControl DEF CheckOut
<1>6. CASE CheckFetch
  <2>1. Fault(Step.handle \notin Listed, "UNKNOWN_HANDLE_REF") \subseteq Codes
    BY DEF Fault, Codes
  <2> QED
    BY <1>6, <2>1, VerifyKeepsControl DEF CheckFetch
<1>7. CASE CheckSelector
  BY <1>7, SelectorCodes, VerifyKeepsControl DEF CheckSelector
<1>8. CASE CheckUnary
  BY <1>1, <1>3, <1>8, VerifyKeepsControl DEF CheckUnary
<1>9. CASE CheckJoin
  BY <1>2, <1>3, <1>9, VerifyKeepsControl DEF CheckJoin
<1>10. CASE CheckAssert
  BY <1>3, <1>10, VerifyKeepsControl DEF CheckAssert
<1>11. CASE FinishCheck
  <2>1. {"COST_GUARD_REJECTED"} \subseteq Codes /\ {"SCHEMA_VIOLATION"} \subseteq Codes
    BY DEF Codes
  <2>2. CASE pc' = "execute" /\ UNCHANGED <<depth, response>>
    BY <2>2 DEF ControlOK
  <2> QED
    BY <1>11, <2>1, <2>2, RejectKeepsControl DEF FinishCheck
<1>12. CASE ExecFetch
  <2>1. {"UNKNOWN_HANDLE_REF"} \subseteq Codes /\ {} \subseteq Codes
    BY DEF Codes
  <2>2. CASE Stall(Step.handle)
    BY <2>2 DEF Stall, Answer, ControlOK, Pending, Codes
  <2> QED
    BY <1>12, <2>1, <2>2, RejectKeepsControl, ConcludeKeepsControl DEF ExecFetch
<1>13. CASE ExecApplySelector
  BY <1>13, SelectorCodes, ConcludeKeepsControl DEF ExecApplySelector
<1>14. CASE ExecResolve \/ ExecFilter \/ ExecJoin \/ ExecProject
  BY <1>14, OperationCodes, ConcludeKeepsControl
     DEF ExecResolve, ExecFilter, ExecJoin, ExecProject
<1>15. CASE ExecAssert
  <2>1. CASE UNCHANGED <<pc, depth, response>>
    BY <2>1 DEF ControlOK
  <2> QED
    BY <1>15, <2>1, AssertCodes, RejectKeepsControl DEF ExecAssert, Store
<1>16. CASE Render
  <2>1. CASE FirstFault(Opts.templates, TemplateFaults) # {}
    BY <1>16, <2>1, TemplateCodes, RejectKeepsControl DEF Render
  <2>2. CASE FirstFault(Opts.templates, TemplateFaults) = {}
    BY <1>16, <2>2 DEF Render, Answer, ControlOK, Pending, Codes
  <2> QED
    BY <2>1, <2>2
<1>17. CASE Answered \/ UNCHANGED vars
  BY <1>17 DEF Answered, vars, ControlOK
<1> QED
  BY <1>4, <1>5, <1>6, <1>7, <1>8, <1>9, <1>10, <1>11, <1>12, <1>13, <1>14, <1>15, <1>16, <1>17
     DEF Next

\* For every request: the state is well typed, a register that holds a single
\* handle holds one, and every refusal carries a code of the table.
THEOREM TypeTheorem == Spec => []TypeOK
<1>1. Init => ControlOK
  BY InitControl
<1>2. ControlOK /\ [Next]_vars => ControlOK'
  BY NextControl
<1>3. LineageInv /\ ControlOK => TypeOK
  BY DEF LineageInv, ControlOK, Sound, Gated, TypeOK
<1> QED
  BY <1>1, <1>2, <1>3, LineageCorrect, PTL DEF Spec

-----------------------------------------------------------------------------
\* Single assignment

\* The registers that the first n steps of a plan declare.
Outs(steps, n) == {steps[i].out : i \in 1..n}

\* The first n steps declare each register once and read what is declared.
CheckedTo(steps, n) ==
    \A i \in 1..n :
        steps[i].out \notin Outs(steps, i - 1) /\ Reads(steps[i]) \subseteq Outs(steps, i)

\* The check declares the registers of the steps before idx; the execution
\* starts with all steps checked and writes the registers of the steps before idx.
SsaInv ==
    /\ idx \in Nat \ {0} /\ Len(Steps) \in Nat
    /\ pc \in {"accept", "check"} => DOMAIN regs = {}
    /\ pc = "accept" => idx = 1 /\ DOMAIN depth = {}
    /\ pc = "check" =>
          idx <= Len(Steps) + 1 /\ DOMAIN depth = Outs(Steps, idx - 1) /\ CheckedTo(Steps, idx - 1)
    /\ pc = "execute" =>
          idx <= Len(Steps) + 1 /\ DOMAIN regs = Outs(Steps, idx - 1) /\ CheckedTo(Steps, Len(Steps))

\* One more step declares one more register.
LEMMA OutsGrow ==
    ASSUME NEW n \in Nat
    PROVE  Outs(Steps, n + 1) = Outs(Steps, n) \cup {Steps[n + 1].out} /\ Outs(Steps, 0) = {}
<1>1. 1..(n + 1) = 1..n \cup {n + 1} /\ 1..0 = {}
  OBVIOUS
<1> QED
  BY <1>1 DEF Outs

\* No register is written at the start.
LEMMA InitSsa == Init => SsaInv
<1> SUFFICES ASSUME Init PROVE SsaInv
  OBVIOUS
<1>1. pc = "accept" /\ idx = 1 /\ DOMAIN depth = {} /\ DOMAIN regs = {}
  BY DEF Init
<1>2. Len(Steps) \in Nat
  BY RequestFacts DEF Init
<1> QED
  BY <1>1, <1>2 DEF SsaInv

\* Nothing is asked of a request that is answered.
LEMMA AnswerKeepsSsa ==
    ASSUME SsaInv, NEW resp, Answer(resp)
    PROVE  SsaInv'
  BY DEF Answer, SsaInv, Steps

\* A step the check lets through declares a fresh register and reads declared ones.
LEMMA VerifyKeepsSsa ==
    ASSUME SsaInv, NEW ops, Checking(ops), NEW faults, NEW d, NEW c, Verify(faults, d, c),
           faults = {} => Reads(Step) \subseteq DOMAIN depth \cup {Step.out}
    PROVE  SsaInv'
<1>1. CASE faults # {}
  BY <1>1, AnswerKeepsSsa DEF Verify, RejectWith
<1>2. CASE faults = {}
  <2>1. /\ depth' = With(depth, Step.out, d) /\ idx' = idx + 1
        /\ UNCHANGED <<req, pc, regs>>
    BY <1>2 DEF Verify
  <2>2. /\ pc = "check" /\ idx <= Len(Steps) /\ Step.out \notin DOMAIN depth
        /\ idx \in Nat \ {0} /\ Len(Steps) \in Nat /\ DOMAIN regs = {}
        /\ DOMAIN depth = Outs(Steps, idx - 1) /\ CheckedTo(Steps, idx - 1)
    BY DEF Checking, Fresh, SsaInv
  <2>3. Outs(Steps, idx) = Outs(Steps, idx - 1) \cup {Step.out}
    <3>1. idx - 1 \in Nat /\ (idx - 1) + 1 = idx
      BY <2>2
    <3> QED
      BY <3>1, OutsGrow DEF Step
  <2>4. DOMAIN depth' = Outs(Steps, idx)
    BY <2>1, <2>2, <2>3 DEF With
  <2>5. CheckedTo(Steps, idx)
    <3>1. SUFFICES ASSUME NEW i \in 1..idx
                   PROVE  /\ Steps[i].out \notin Outs(Steps, i - 1)
                          /\ Reads(Steps[i]) \subseteq Outs(Steps, i)
      BY DEF CheckedTo
    <3>2. CASE i = idx
      BY <1>2, <2>2, <2>3, <3>2 DEF Step
    <3>3. CASE i # idx
      <4>1. i \in 1..(idx - 1)
        BY <2>2, <3>3
      <4> QED
        BY <2>2, <4>1 DEF CheckedTo
    <3> QED
      BY <3>2, <3>3
  <2>6. Steps' = Steps /\ pc' = "check" /\ DOMAIN regs' = {} /\ idx' - 1 = idx
    BY <2>1, <2>2 DEF Steps
  <2>7. (DOMAIN depth = Outs(Steps, idx - 1) /\ CheckedTo(Steps, idx - 1))'
    BY <2>4, <2>5, <2>6
  <2> QED
    BY <2>1, <2>2, <2>6, <2>7 DEF SsaInv
<1> QED
  BY <1>1, <1>2

\* A register that is stored is the next one, and is new.
LEMMA StoreKeepsSsa ==
    ASSUME SsaInv, NEW register, Store(register), pc = "execute", idx <= Len(Steps)
    PROVE  SsaInv' /\ Step.out \notin DOMAIN regs
<1>1. /\ regs' = With(regs, Step.out, register) /\ idx' = idx + 1
      /\ UNCHANGED <<req, pc>>
  BY DEF Store
<1>2. /\ idx \in Nat \ {0} /\ Len(Steps) \in Nat
      /\ DOMAIN regs = Outs(Steps, idx - 1) /\ CheckedTo(Steps, Len(Steps))
  BY DEF SsaInv
<1>3. idx \in 1..Len(Steps) /\ idx - 1 \in Nat /\ (idx - 1) + 1 = idx
  BY <1>2
<1>4. DOMAIN regs' = Outs(Steps, idx)
  BY <1>1, <1>2, <1>3, OutsGrow DEF With, Step
<1>5. Step.out \notin DOMAIN regs
  BY <1>2, <1>3 DEF CheckedTo, Step
<1>6. Steps' = Steps /\ pc' = "execute" /\ idx' - 1 = idx
  BY <1>1, <1>2 DEF Steps
<1>7. (DOMAIN regs = Outs(Steps, idx - 1) /\ CheckedTo(Steps, Len(Steps)))'
  BY <1>2, <1>4, <1>6
<1> QED
  BY <1>1, <1>2, <1>5, <1>6, <1>7 DEF SsaInv

\* A step that fails is answered, one that does not stores its register.
LEMMA ConcludeKeepsSsa ==
    ASSUME SsaInv, NEW op, Executing(op), NEW faults, NEW register,
           Conclude(faults, register)
    PROVE  SsaInv'
  BY StoreKeepsSsa, AnswerKeepsSsa DEF Conclude, RejectWith, Executing

\* Every step keeps registers written once, before they are read.
LEMMA NextSsa == SsaInv /\ [Next]_vars => SsaInv'
<1> SUFFICES ASSUME SsaInv, [Next]_vars PROVE SsaInv'
  OBVIOUS
<1>1. ASSUME NEW faults, RejectWith(faults)
      PROVE  SsaInv'
  BY <1>1, AnswerKeepsSsa DEF RejectWith
<1>2. \A s : Undeclared(s) = {} => Reads(s) \subseteq DOMAIN depth \cup {s.out}
  BY DEF Undeclared, Fault
<1>3. CASE Accept
  <2>1. CASE pc' = "check" /\ UNCHANGED <<req, idx, depth, regs>>
    <3>1. pc = "accept" /\ idx = 1 /\ DOMAIN depth = {} /\ DOMAIN regs = {}
      BY <1>3 DEF Accept, SsaInv
    <3>2. Outs(Steps, idx - 1) = {} /\ CheckedTo(Steps, idx - 1)
      BY <3>1, OutsGrow DEF CheckedTo
    <3>3. (DOMAIN depth = Outs(Steps, idx - 1) /\ CheckedTo(Steps, idx - 1))'
      BY <2>1, <3>1, <3>2 DEF Steps
    <3> QED
      BY <2>1, <3>1, <3>3 DEF SsaInv, Steps
  <2> QED
    BY <1>1, <1>3, <2>1 DEF Accept
<1>4. CASE CheckOut
  BY <1>1, <1>4 DEF CheckOut
<1>5. CASE CheckFetch
  <2>1. Reads(Step) = {}
    BY <1>5 DEF CheckFetch, Checking, Reads
  <2> QED
    BY <1>5, <2>1, VerifyKeepsSsa DEF CheckFetch
<1>6. CASE CheckSelector
  <2>1. Reads(Step) = {}
    BY <1>6 DEF CheckSelector, Checking, Reads
  <2> QED
    BY <1>6, <2>1, VerifyKeepsSsa DEF CheckSelector
<1>7. CASE CheckUnary
  BY <1>2, <1>7, VerifyKeepsSsa DEF CheckUnary
<1>8. CASE CheckJoin
  <2>1. JoinCheckFaults(Step) = {} => Undeclared(Step) = {}
    BY DEF JoinCheckFaults
  <2> QED
    BY <1>2, <1>8, <2>1, VerifyKeepsSsa DEF CheckJoin
<1>9. CASE CheckAssert
  BY <1>2, <1>9, VerifyKeepsSsa DEF CheckAssert
<1>10. CASE FinishCheck
  <2>1. CASE pc' = "execute" /\ idx' = 1 /\ UNCHANGED <<req, depth, regs>>
    <3>1. pc = "check" /\ idx > Len(Steps)
      BY <1>10 DEF FinishCheck
    <3>2. DOMAIN regs = {} /\ idx - 1 = Len(Steps) /\ CheckedTo(Steps, Len(Steps))
      BY <3>1 DEF SsaInv
    <3>3. Outs(Steps, 0) = {}
      BY OutsGrow
    <3>4. (DOMAIN regs = Outs(Steps, idx - 1) /\ CheckedTo(Steps, Len(Steps)))'
      BY <2>1, <3>2, <3>3 DEF Steps
    <3> QED
      BY <2>1, <3>1, <3>4 DEF SsaInv, Steps
  <2> QED
    BY <1>1, <1>10, <2>1 DEF FinishCheck
<1>11. CASE ExecFetch
  <2>1. CASE Stall(Step.handle)
    BY <2>1, AnswerKeepsSsa DEF Stall
  <2> QED
    BY <1>1, <1>11, <2>1, ConcludeKeepsSsa DEF ExecFetch
<1>12. CASE ExecApplySelector \/ ExecResolve \/ ExecFilter \/ ExecJoin \/ ExecProject
  BY <1>12, ConcludeKeepsSsa
     DEF ExecApplySelector, ExecResolve, ExecFilter, ExecJoin, ExecProject
<1>13. CASE ExecAssert
  BY <1>1, <1>13, StoreKeepsSsa DEF ExecAssert, Executing
<1>14. CASE Render
  BY <1>1, <1>14, AnswerKeepsSsa DEF Render
<1>15. CASE Answered \/ UNCHANGED vars
  <2>1. UNCHANGED <<req, pc, idx, depth, regs>>
    BY <1>15 DEF Answered, vars
  <2> QED
    BY <2>1 DEF SsaInv, Steps
<1> QED
  BY <1>3, <1>4, <1>5, <1>6, <1>7, <1>8, <1>9, <1>10, <1>11, <1>12, <1>13, <1>14, <1>15 DEF Next

\* The invariant about registers holds in every run.
LEMMA SsaCorrect == Spec => []SsaInv
<1>1. Init => SsaInv
  BY InitSsa
<1>2. SsaInv /\ [Next]_vars => SsaInv'
  BY NextSsa
<1> QED
  BY <1>1, <1>2, PTL DEF Spec

\* For every request: an executed step reads registers that earlier steps
\* wrote, or the one it writes itself.
THEOREM ReadsTheorem == Spec => []ReadsDefined
<1>1. SsaInv => ReadsDefined
  <2>1. SUFFICES ASSUME SsaInv, pc = "execute", idx <= Len(Steps)
                 PROVE  Reads(Step) \subseteq DOMAIN regs \cup {Step.out}
    BY DEF ReadsDefined
  <2>2. idx \in 1..Len(Steps) /\ idx - 1 \in Nat /\ (idx - 1) + 1 = idx
    BY <2>1 DEF SsaInv
  <2>3. Reads(Step) \subseteq Outs(Steps, idx)
    BY <2>1, <2>2 DEF SsaInv, CheckedTo, Step
  <2>4. Outs(Steps, idx) = DOMAIN regs \cup {Step.out}
    BY <2>1, <2>2, OutsGrow DEF SsaInv, Step
  <2> QED
    BY <2>3, <2>4
<1> QED
  BY <1>1, SsaCorrect, PTL

\* For every request: no step overwrites a register.
THEOREM WriteOnceTheorem == Spec => WriteOnce
<1> DEFINE Unwritten == \A x \in DOMAIN regs : x \in DOMAIN regs' /\ regs'[x] = regs[x]
<1>1. SsaInv /\ [Next]_vars => [Unwritten]_vars
  <2>1. SUFFICES ASSUME SsaInv, Next PROVE Unwritten \/ UNCHANGED vars
    OBVIOUS
  <2>2. ASSUME NEW register, Store(register), pc = "execute", idx <= Len(Steps)
        PROVE  Unwritten
    <3>1. Step.out \notin DOMAIN regs /\ regs' = With(regs, Step.out, register)
      BY <2>1, <2>2, StoreKeepsSsa DEF Store
    <3> QED
      BY <3>1 DEF With
  <2>3. ASSUME NEW faults, NEW register, Conclude(faults, register),
               pc = "execute", idx <= Len(Steps)
        PROVE  Unwritten
    BY <2>2, <2>3 DEF Conclude, RejectWith, Answer
  <2>4. CASE UNCHANGED regs
    BY <2>4
  <2>5. CASE Accept \/ CheckOut \/ FinishCheck \/ Render \/ Answered
    <3>1. UNCHANGED regs
      BY <2>5 DEF Accept, CheckOut, FinishCheck, Render, Answered, vars, RejectWith, Answer
    <3> QED
      BY <2>4, <3>1
  <2>6. CASE CheckFetch \/ CheckSelector \/ CheckUnary \/ CheckJoin \/ CheckAssert
    <3>1. \A faults, d, c : Verify(faults, d, c) => UNCHANGED regs
      BY DEF Verify, RejectWith, Answer
    <3>2. UNCHANGED regs
      BY <2>6, <3>1 DEF CheckFetch, CheckSelector, CheckUnary, CheckJoin, CheckAssert
    <3> QED
      BY <2>4, <3>2
  <2>7. CASE ExecFetch
    <3>1. CASE Stall(Step.handle)
      BY <2>4, <3>1 DEF Stall, Answer
    <3>2. CASE RejectWith({"UNKNOWN_HANDLE_REF"})
      BY <2>4, <3>2 DEF RejectWith, Answer
    <3> QED
      BY <2>3, <2>7, <3>1, <3>2 DEF ExecFetch, Executing
  <2>8. CASE ExecApplySelector \/ ExecResolve \/ ExecFilter \/ ExecJoin \/ ExecProject
    BY <2>3, <2>8 DEF ExecApplySelector, ExecResolve, ExecFilter, ExecJoin, ExecProject, Executing
  <2>9. CASE ExecAssert
    BY <2>2, <2>4, <2>9 DEF ExecAssert, Executing, RejectWith, Answer
  <2> QED
    BY <2>1, <2>5, <2>6, <2>7, <2>8, <2>9 DEF Next
<1> QED
  BY <1>1, SsaCorrect, PTL DEF Spec, WriteOnce

=============================================================================
