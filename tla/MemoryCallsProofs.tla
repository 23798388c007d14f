-------------------------- MODULE MemoryCallsProofs -------------------------
(***************************************************************************)
(* Proofs about MemoryCalls, for any number of calls and requests: what    *)
(* the service holds is what its log says, whatever the clients do; what a *)
(* call reads and fetches was there; and no step sends a call back.        *)
(***************************************************************************)
EXTENDS MemoryCalls, FiniteSetTheorems, FunctionTheorems, WellFoundedInduction, TLAPS

Steps == {"idle", "append", "manifest", "plan", "execute", "stalled"} \cup Ended

Before == {"append", "manifest", "plan"}

\* Whoever asked asked for a request, at most so often.
Asked(c) ==
    ~At(c, "idle") => /\ call[c].request \in Requests
                      /\ call[c].tries \in 1..MaxTries

\* What a call is about to append, and for whom.
Speaks(request, says) ==
    /\ says.subject \in Subjects \cup {""} /\ says.scope \in Scopes
    /\ request.via = "proxy" /\ ~Keyless(request) =>
          request.auth \in DOMAIN KeyOwner /\ says.subject = KeyOwner[request.auth]

CallsInv ==
    /\ DOMAIN call = Calls /\ mode \in Modes
    /\ \A c \in Calls :
          /\ call[c].at \in Steps /\ Asked(c)
          /\ At(c, "append") => Speaks(call[c].request, call[c].says)

\* The attempts that have sent their event, or have given up.
Spent ==
    {a \in Calls \X (1..MaxTries) :
        /\ ~At(a[1], "idle") /\ a[2] <= call[a[1]].tries
        /\ a[2] = call[a[1]].tries => ~At(a[1], "append")}

CountInv ==
    /\ nextEvent \in Nat /\ nextHandle \in 0..nextEvent /\ restarts \in Nat
    /\ nextEvent <= Already + Cardinality(Spent)

\* An entry of the log is of an attempt that is past its append.
Entry(e, last, calls) ==
    LET asked == calls[e.by] IN
    /\ e.ref \in 1..last /\ e.meta \in Meta
    /\ e.by \in Calls /\ asked.at # "idle"
    /\ e.try \in 1..asked.tries
    /\ e.try = asked.tries => asked.at # "append"
    /\ asked.request.via = "proxy" /\ ~Keyless(asked.request) =>
          /\ asked.request.auth \in DOMAIN KeyOwner
          /\ e.meta.subject = Named(KeyOwner[asked.request.auth])

LogInv ==
    /\ log \in Seq({log[i] : i \in DOMAIN log})
    /\ \A i \in DOMAIN log : log[i].did \in {"append", "forget"}
    /\ \A i \in Appends : Entry(log[i], nextHandle, call)
    /\ \A i, j \in Appends : log[i].ref = log[j].ref => i = j
    /\ AttemptsStoreOnce

\* The handles are those of the appends that were not forgotten.
MemoryInv ==
    /\ DOMAIN handles = {log[i].ref : i \in Remembered}
    /\ \A i \in Remembered : handles[log[i].ref] = log[i].meta

\* What a call remembers of its own write is there, unless that was forgotten
\* or the server is another.
Own(c) ==
    call[c].says.prefers /\ call[c].life = restarts /\ call[c].readLife = restarts =>
        LET own == log[call[c].wrote] IN
        \/ own.ref \in DOMAIN call[c].manifest /\ call[c].manifest[own.ref] = own.meta
        \/ ForgottenBetween(own.meta, call[c].wrote + 1, call[c].read)

Recalls(c) ==
    /\ At(c, "manifest") \/ At(c, "plan") =>
          /\ call[c].life \in Nat /\ call[c].life <= restarts
          /\ call[c].life = restarts /\ call[c].says.prefers => call[c].wrote \in Appends
    /\ At(c, "plan") =>
          /\ call[c].readLife \in Nat /\ call[c].readLife <= restarts
          /\ call[c].readLife = restarts => call[c].read \in 0..Len(log)
          /\ Own(c)

OwnInv == \A c \in Calls : Recalls(c)

\* The chats that leave their plan to the fallback.
Fallen(c) == mode = "fallback" /\ call[c].request.via = "proxy" /\ call[c].request.header = "none"

\* What a call has that is to be executed.
Planned == {"manifest", "read", "readLife", "plan"}

ChatInv ==
    /\ \A c \in Calls : At(c, "plan") => /\ DOMAIN call[c].manifest \subseteq Nat
                                         /\ IsFiniteSet(DOMAIN call[c].manifest)
    /\ \A c \in Calls : At(c, "execute") => Planned \subseteq DOMAIN call[c]
    /\ \A c \in Calls : At(c, "execute") \/ At(c, "stalled") =>
          /\ call[c].plan.fetches \subseteq DOMAIN call[c].manifest
          /\ Fallen(c) => call[c].plan.sound
    /\ FallbackChatsAnswered

\* All that a manifest lists was in the memory when it was read.
Sources(c) ==
    call[c].at \in {"plan", "execute", "stalled"} =>
        /\ call[c].readLife \in Nat /\ call[c].readLife <= restarts
        /\ call[c].readLife = restarts =>
              /\ call[c].read \in 0..Len(log)
              /\ \A h \in DOMAIN call[c].manifest : InMemory(h, call[c].manifest[h], call[c].read)

SourceInv == \A c \in Calls : Sources(c)

\* What the proofs use of the constants.
LEMMA Bounds == MaxTries \in Nat \ {0} /\ Already \in Nat /\ IsFiniteSet(Calls) /\ Anonymous \in Subjects
  BY ServiceAssumption

-----------------------------------------------------------------------------
\* What a step does to the calls

Others(c) == \A d \in Calls \ {c} : call'[d] = call[d]

\* The call goes on with the request it was made with.
Continues(c) ==
    /\ DOMAIN call' = Calls /\ Others(c)
    /\ call'[c].request = call[c].request /\ call'[c].tries = call[c].tries

\* A chat or a program begins, or a chat is asked again.
Intake(c) ==
    /\ DOMAIN call' = Calls /\ Others(c) /\ UNCHANGED server
    /\ At(c, "idle") \/ (At(c, "refused") /\ call'[c].request = call[c].request
                         /\ call'[c].tries = call[c].tries + 1)
    /\ call'[c].request \in Requests /\ call'[c].tries \in 1..MaxTries
    /\ call'[c].at \in {"append", "refused"}
    /\ call'[c].at = "append" => Speaks(call'[c].request, call'[c].says)
    /\ call'[c].at = "refused" => call'[c].code \notin {"invalid_plan", "rejected"}

Appended(c) ==
    /\ At(c, "append") /\ Continues(c)
    /\ call'[c].at \in {"manifest", "refused"}
    /\ call'[c].at = "manifest" =>
          call'[c].says = call[c].says /\ call'[c].wrote = Len(log') /\ call'[c].life = restarts
    /\ call'[c].at = "refused" => call'[c].code = BadGateway

ReadManifest(c) ==
    /\ At(c, "manifest") /\ Continues(c) /\ UNCHANGED server
    /\ call'[c].at = "plan"
    /\ call'[c].says = call[c].says /\ call'[c].wrote = call[c].wrote /\ call'[c].life = call[c].life
    /\ call'[c].manifest = handles /\ call'[c].read = Len(log) /\ call'[c].readLife = restarts

\* A call keeps the manifest it read and has a plan that fetches from it.
Carries(c) ==
    /\ call[c].at \in {"plan", "execute", "stalled"}
    /\ call'[c].manifest = call[c].manifest /\ call'[c].read = call[c].read
    /\ call'[c].readLife = call[c].readLife
    /\ call'[c].plan.fetches \subseteq DOMAIN call[c].manifest
    /\ call'[c].at = "execute" => Planned \subseteq DOMAIN call'[c]

\* Every other step of a call reads and writes nothing of the service.
Quiet(c) ==
    /\ call[c].at \notin {"idle"} \cup Ended /\ Continues(c) /\ UNCHANGED server
    /\ call'[c].at \in {"execute", "stalled", "answered", "refused"}
    /\ call'[c].at \in {"execute", "stalled"} => Carries(c)
    /\ call'[c].at = "execute" => At(c, "plan") \/ (At(c, "stalled") /\ ~Waits(c)')
    /\ call'[c].at = "stalled" => At(c, "execute") /\ Waits(c)
    /\ call'[c].at \in {"execute", "stalled"} /\ Fallen(c) => call'[c].plan.sound
    /\ call'[c].at = "refused" /\ Fallen(c) => call'[c].code \notin {"invalid_plan", "rejected"}

\* What a call has when it has gone on with more fields.
LEMMA GoesFacts ==
    ASSUME NEW c \in Calls, DOMAIN call = Calls, NEW step, NEW fields, Goes(c, step, fields)
    PROVE  /\ Continues(c) /\ call'[c].at = step
           /\ DOMAIN fields \subseteq DOMAIN call'[c]
           /\ \A f \in DOMAIN fields \ {"at", "request", "tries"} : call'[c][f] = fields[f]
  BY DEF Goes, Also, Continues, Others

\* A call that fails is refused with the code.
LEMMA GivesUpFacts ==
    ASSUME NEW c \in Calls, DOMAIN call = Calls, NEW code, GivesUp(c, code)
    PROVE  Continues(c) /\ call'[c].at = "refused" /\ call'[c].code = code
<1> DEFINE fields == [code |-> code]
<1>1. DOMAIN fields = {"code"} /\ fields["code"] = code
  OBVIOUS
<1>2. Goes(c, "refused", fields)
  BY DEF GivesUp
<1> HIDE DEF fields
<1> QED
  BY <1>1, <1>2, GoesFacts

\* A call that gives up leaves the service alone; one that falls back
\* never gives up over a plan.
LEMMA FailureIsQuiet ==
    ASSUME NEW c \in Calls, DOMAIN call = Calls, NEW code, GivesUp(c, code), UNCHANGED server,
           call[c].at \notin {"idle"} \cup Ended, Fallen(c) => code \notin {"invalid_plan", "rejected"}
    PROVE  Quiet(c)
  BY GivesUpFacts DEF Quiet

\* A call that has a plan goes on to send it.
LEMMA ExecutingFacts ==
    ASSUME NEW c \in Calls, DOMAIN call = Calls, NEW plan, NEW offline,
           Executing(c, plan, offline), UNCHANGED server,
           At(c, "plan") \/ (At(c, "stalled") /\ offline = {}),
           plan.fetches \subseteq DOMAIN call[c].manifest, Fallen(c) => plan.sound
    PROVE  Quiet(c)
<1> DEFINE fields == [manifest |-> call[c].manifest, read |-> call[c].read,
                      readLife |-> call[c].readLife, plan |-> plan, offline |-> offline]
<1>1. /\ Planned \subseteq DOMAIN fields /\ "offline" \in DOMAIN fields
      /\ fields["plan"] = plan /\ fields["offline"] = offline
      /\ fields["manifest"] = call[c].manifest /\ fields["read"] = call[c].read
      /\ fields["readLife"] = call[c].readLife
  BY DEF Planned
<1>2. Goes(c, "execute", fields)
  BY DEF Executing
<1> HIDE DEF fields
<1>3. /\ Continues(c) /\ call'[c].at = "execute"
      /\ Planned \subseteq DOMAIN call'[c]
      /\ \A f \in Planned \cup {"offline"} : call'[c][f] = fields[f]
  BY <1>1, <1>2, GoesFacts DEF Planned
<1>4. /\ call'[c].plan = plan /\ call'[c].offline = offline
      /\ call'[c].manifest = call[c].manifest /\ call'[c].read = call[c].read
      /\ call'[c].readLife = call[c].readLife
  BY <1>1, <1>3 DEF Planned
<1>5. Carries(c)
  BY <1>3, <1>4 DEF Carries, At
<1>6. At(c, "plan") \/ (At(c, "stalled") /\ ~Waits(c)')
  BY <1>4 DEF Waits
<1> QED
  BY <1>3, <1>4, <1>5, <1>6 DEF Quiet, At, Ended

\* A set of numbers has a least one.
LEMMA LeastNumber ==
    ASSUME NEW S, S \subseteq Nat, S # {}
    PROVE  \E m \in S : \A k \in S : m <= k
<1>1. PICK m \in S : \A k \in S : ~(<<k, m>> \in OpToRel(<, Nat))
  BY NatLessThanWellFounded, WFMin
<1>2. \A k \in S : m <= k
  <2>1. TAKE k \in S
  <2>2. ~(k < m)
    BY <1>1 DEF OpToRel
  <2> QED
    BY <2>2
<1> QED
  BY <1>2

\* A set of naturals that has 0, and with a number its successor, has them all.
LEMMA NumbersByInduction ==
    ASSUME NEW S, 0 \in S, \A n \in Nat : n \in S => n + 1 \in S
    PROVE  \A n \in Nat : n \in S
<1>1. SUFFICES ASSUME Nat \ S # {} PROVE FALSE
  OBVIOUS
<1>2. PICK m \in Nat \ S : \A n \in Nat \ S : m <= n
  BY <1>1, LeastNumber
<1>3. m # 0 /\ m - 1 \in Nat /\ m - 1 + 1 = m
  OBVIOUS
<1>4. m - 1 \in S
  BY <1>2, <1>3
<1> QED
  BY <1>3, <1>4

\* What has the shape of digits up to a number is made of sequences.
LEMMA DigitsAreSequences ==
    ASSUME NEW ref \in Nat, NEW digits,
           \A k \in 0..ref : k < 10 => digits[k] \in Seq(Nat),
           \A k \in 0..ref : ~(k < 10) => digits[k] = Append(digits[k \div 10], k % 10)
    PROVE  \A k \in 0..ref : digits[k] \in Seq(Nat)
<1> DEFINE Typed == {n \in Nat : \A k \in 0..ref : k <= n => digits[k] \in Seq(Nat)}
<1>1. \A k \in Nat : ~(k < 10) => k \div 10 \in Nat /\ k \div 10 < k /\ k % 10 \in Nat
  OBVIOUS
<1>2. \A k \in 0..ref : k <= 0 => k = 0
  OBVIOUS
<1>3. 0 \in Typed
  <2>1. digits[0] \in Seq(Nat)
    OBVIOUS
  <2> QED
    BY <1>2, <2>1
<1>4. ASSUME NEW n \in Nat, n \in Typed
      PROVE  n + 1 \in Typed
  <2>1. ASSUME NEW k \in 0..ref, k <= n + 1
        PROVE  digits[k] \in Seq(Nat)
    <3>1. CASE k < 10
      BY <3>1
    <3>2. CASE ~(k < 10)
      <4>1. digits[k] = Append(digits[k \div 10], k % 10)
        BY <3>2
      <4>2. k % 10 \in Nat /\ k \div 10 \in 0..ref /\ k \div 10 <= n
        BY <1>1, <2>1, <3>2
      <4>3. digits[k \div 10] \in Seq(Nat)
        BY <1>4, <4>2
      <4> QED
        BY <4>1, <4>2, <4>3
    <3> QED
      BY <3>1, <3>2
  <2> QED
    BY <2>1
<1>5. ref \in Typed
  <2> HIDE DEF Typed
  <2> QED
    BY <1>3, <1>4, NumbersByInduction
<1> QED
  BY <1>5

\* The digits of a ref are a sequence of numbers.
LEMMA DigitsType ==
    ASSUME NEW ref \in Nat
    PROVE  Digits(ref) \in Seq(Nat)
<1> DEFINE Next1(g, n) == IF n < 10 THEN <<n>> ELSE Append(g[n \div 10], n % 10)
           Solves(g, n) == g = [k \in 0..n |-> Next1(g, k)]
           Good == {n \in Nat : \E g : Solves(g, n)}
           digits == CHOOSE g : Solves(g, ref)
<1>1. \A k \in Nat : ~(k < 10) => k \div 10 \in Nat /\ k \div 10 < k
  OBVIOUS
<1>2. 0 \in Good
  <2>1. Solves([k \in 0..0 |-> <<0>>], 0)
    <3>1. \A k \in 0..0 : k = 0
      OBVIOUS
    <3>2. \A g : Next1(g, 0) = <<0>>
      OBVIOUS
    <3> HIDE DEF Next1
    <3> QED
      BY <3>1, <3>2
  <2> HIDE DEF Solves
  <2> QED
    BY <2>1
<1>3. ASSUME NEW n \in Nat, n \in Good
      PROVE  n + 1 \in Good
  <2>1. PICK g : Solves(g, n)
    BY <1>3
  <2> DEFINE f == [k \in 0..(n + 1) |-> Next1(g, k)]
  <2>2. \A k \in 0..n : f[k] = g[k]
    <3>1. \A k \in 0..n : g[k] = Next1(g, k)
      <4> HIDE DEF Next1
      <4> QED
        BY <2>1
    <3>2. \A k \in 0..n : f[k] = Next1(g, k)
      <4>1. \A k \in 0..n : k \in 0..(n + 1)
        OBVIOUS
      <4> HIDE DEF Next1
      <4> QED
        BY <4>1, Zenon
    <3> HIDE DEF f, Next1
    <3> QED
      BY <3>1, <3>2
  <2>3. \A k \in 0..(n + 1) : ~(k < 10) => k \div 10 \in 0..n
    <3> HIDE DEF f, Solves, Good
    <3>1. TAKE k \in 0..(n + 1)
    <3>2. HAVE ~(k < 10)
    <3>3. k \div 10 \in Nat /\ k \div 10 < k
      BY <1>1, <3>2
    <3> QED
      BY <3>3
  <2>4. \A k \in 0..(n + 1) : Next1(f, k) = Next1(g, k)
    <3> HIDE DEF f, Solves, Good
    <3> QED
      BY <2>2, <2>3
  <2>5. Solves(f, n + 1)
    <3> HIDE DEF Next1, Good
    <3> QED
      BY <2>4
  <2> QED
    <3> HIDE DEF f, Solves
    <3> QED
      BY <2>5
<1>4. ref \in Good
  <2> HIDE DEF Good
  <2> QED
    BY <1>2, <1>3, NumbersByInduction
<1>5. Solves(digits, ref)
  <2> HIDE DEF Solves
  <2> QED
    BY <1>4
<1>6. \A k \in 0..ref : digits[k] = Next1(digits, k)
  <2> HIDE DEF digits, Next1
  <2> QED
    BY <1>5
<1> HIDE DEF digits
<1>7. \A k \in 0..ref : digits[k] \in Seq(Nat)
  <2>1. \A k \in 0..ref : k < 10 => digits[k] \in Seq(Nat)
    <3>1. \A k \in 0..ref : <<k>> \in Seq(Nat)
      OBVIOUS
    <3> QED
      BY <1>6, <3>1, Zenon
  <2>2. \A k \in 0..ref : ~(k < 10) => digits[k] = Append(digits[k \div 10], k % 10)
    BY <1>6, Zenon
  <2> QED
    BY <2>1, <2>2, DigitsAreSequences
<1>8. Digits(ref) = digits[ref]
  BY DEF Digits, digits
<1> QED
  BY <1>7, <1>8

\* The order of strings is total.
LEMMA AtMostTotal ==
    ASSUME NEW s \in Seq(Nat), NEW t \in Seq(Nat)
    PROVE  AtMost(s, t) \/ AtMost(t, s)
<1> DEFINE Apart == {k \in DOMAIN s \cap DOMAIN t : s[k] # t[k]}
<1>1. CASE Apart = {}
  <2>1. Len(s) <= Len(t) \/ Len(t) <= Len(s)
    OBVIOUS
  <2> QED
    BY <1>1, <2>1 DEF AtMost
<1>2. CASE Apart # {}
  <2>1. PICK k \in Apart : \A j \in Apart : k <= j
    <3>1. Apart \subseteq Nat
      OBVIOUS
    <3> HIDE DEF Apart
    <3> QED
      BY <1>2, <3>1, LeastNumber
  <2>2. ASSUME NEW j \in 1..(k - 1)
        PROVE  s[j] = t[j]
    <3>1. j \in DOMAIN s \cap DOMAIN t /\ ~(k <= j)
      BY SMTT(30)
    <3>2. j \notin Apart
      <4> HIDE DEF Apart
      <4> QED
        BY <2>1, <3>1
    <3> QED
      BY <3>1, <3>2
  <2>3. k \in DOMAIN s \cap DOMAIN t /\ (s[k] < t[k] \/ t[k] < s[k])
    OBVIOUS
  <2> QED
    BY <2>2, <2>3 DEF AtMost
<1> QED
  BY <1>1, <1>2

\* One string is below another where they first differ.
Below(s, t, k) ==
    /\ k \in 1..Len(s) /\ k \in 1..Len(t)
    /\ s[k] < t[k] /\ \A j \in 1..(k - 1) : s[j] = t[j]

Starts(s, t) == Len(s) <= Len(t) /\ \A k \in 1..Len(s) : s[k] = t[k]

LEMMA AtMostCases ==
    ASSUME NEW s \in Seq(Nat), NEW t \in Seq(Nat)
    PROVE  AtMost(s, t) <=> Starts(s, t) \/ \E k \in Nat : Below(s, t, k)
<1>1. DOMAIN s = 1..Len(s) /\ DOMAIN t = 1..Len(t)
  OBVIOUS
<1>2. (Len(s) <= Len(t) /\ \A k \in DOMAIN s : s[k] = t[k]) <=> Starts(s, t)
  BY <1>1 DEF Starts
<1>3. \A k : (k \in DOMAIN s \cap DOMAIN t /\ s[k] < t[k] /\ \A j \in 1..(k - 1) : s[j] = t[j])
                <=> k \in Nat /\ Below(s, t, k)
  BY <1>1 DEF Below
<1> QED
  BY <1>2, <1>3 DEF AtMost

\* The order of strings is transitive.
LEMMA AtMostTransitive ==
    ASSUME NEW s \in Seq(Nat), NEW t \in Seq(Nat), NEW u \in Seq(Nat),
           AtMost(s, t), AtMost(t, u)
    PROVE  AtMost(s, u)
<1>1. /\ Len(s) \in Nat /\ Len(t) \in Nat /\ Len(u) \in Nat
      /\ \A k \in 1..Len(s) : s[k] \in Nat
      /\ \A k \in 1..Len(t) : t[k] \in Nat
      /\ \A k \in 1..Len(u) : u[k] \in Nat
  OBVIOUS
<1>2. CASE Starts(s, t) /\ Starts(t, u)
  <2>1. Starts(s, u)
    BY <1>1, <1>2 DEF Starts
  <2> QED
    BY <2>1, AtMostCases
<1>3. ASSUME Starts(s, t), NEW k \in Nat, Below(t, u, k)
      PROVE  AtMost(s, u)
  <2>1. CASE k <= Len(s)
    <3>1. \A j \in 1..(k - 1) : s[j] = u[j]
      BY <1>1, <1>3, <2>1 DEF Starts, Below
    <3>2. k \in 1..Len(s) /\ k \in 1..Len(u) /\ s[k] < u[k]
      BY <1>1, <1>3, <2>1 DEF Starts, Below
    <3>3. Below(s, u, k)
      BY <3>1, <3>2 DEF Below
    <3> QED
      BY <3>3, AtMostCases
  <2>2. CASE Len(s) < k
    <3>1. Len(s) <= Len(u)
      BY <1>1, <1>3, <2>2 DEF Below
    <3>2. \A j \in 1..Len(s) : s[j] = u[j]
      BY <1>1, <1>3, <2>2 DEF Starts, Below
    <3> QED
      BY <3>1, <3>2, AtMostCases DEF Starts
  <2> QED
    BY <1>1, <2>1, <2>2
<1>4. ASSUME NEW k \in Nat, Below(s, t, k), Starts(t, u)
      PROVE  AtMost(s, u)
  <2>1. \A j \in 1..(k - 1) : s[j] = u[j]
    BY <1>1, <1>4 DEF Starts, Below
  <2>2. k \in 1..Len(s) /\ k \in 1..Len(u) /\ s[k] < u[k]
    BY <1>1, <1>4 DEF Starts, Below
  <2>3. Below(s, u, k)
    BY <2>1, <2>2 DEF Below
  <2> QED
    BY <2>3, AtMostCases
<1>5. ASSUME NEW k \in Nat, Below(s, t, k), NEW l \in Nat, Below(t, u, l)
      PROVE  AtMost(s, u)
  <2>1. CASE k <= l
    <3>1. \A j \in 1..(k - 1) : s[j] = u[j]
      BY <1>1, <1>5, <2>1 DEF Below
    <3>2. k \in 1..Len(s) /\ k \in 1..Len(u)
      BY <1>1, <1>5, <2>1 DEF Below
    <3>3. /\ k \in 1..Len(t) /\ s[k] < t[k]
          /\ t[k] < u[k] \/ t[k] = u[k]
      <4>1. k = l \/ k \in 1..(l - 1)
        BY <1>1, <1>5, <2>1 DEF Below
      <4> QED
        BY <1>5, <4>1 DEF Below
    <3>4. s[k] < u[k]
      <4>1. s[k] \in Nat /\ u[k] \in Nat
        BY <3>2
      <4>2. t[k] \in Nat
        BY <3>3
      <4> QED
        BY <3>3, <4>1, <4>2, SMTT(30)
    <3>5. Below(s, u, k)
      BY <3>1, <3>2, <3>4 DEF Below
    <3> QED
      BY <3>5, AtMostCases
  <2>2. CASE l < k
    <3>1. \A j \in 1..(l - 1) : s[j] = u[j]
      BY <1>1, <1>5, <2>2 DEF Below
    <3>2. l \in 1..Len(s) /\ l \in 1..Len(u) /\ s[l] < u[l]
      BY <1>1, <1>5, <2>2 DEF Below
    <3>3. Below(s, u, l)
      BY <3>1, <3>2 DEF Below
    <3> QED
      BY <3>3, AtMostCases
  <2> QED
    BY <2>1, <2>2
<1>6. (Starts(s, t) \/ \E k \in Nat : Below(s, t, k)) /\ (Starts(t, u) \/ \E k \in Nat : Below(t, u, k))
  BY AtMostCases
<1> QED
  BY <1>2, <1>3, <1>4, <1>5, <1>6

\* Of finitely many refs one is the first in the order of the strings.
LEMMA FirstRefListed ==
    ASSUME NEW refs, refs \subseteq Nat, IsFiniteSet(refs), refs # {}
    PROVE  FirstRef(refs) \in refs
<1> DEFINE First(S, h) == h \in S /\ \A g \in S : Precedes(h, g)
           Good == {n \in Nat : \A S \in SUBSET refs :
                                    Cardinality(S) = n + 1 => \E h : First(S, h)}
<1>1. \A h \in refs, g \in refs : Precedes(h, g) \/ Precedes(g, h)
  BY DigitsType, AtMostTotal DEF Precedes
<1>2. \A h \in refs, g \in refs, f \in refs : Precedes(h, g) /\ Precedes(g, f) => Precedes(h, f)
  BY DigitsType, AtMostTransitive DEF Precedes
<1>3. \A S \in SUBSET refs : IsFiniteSet(S)
  BY FS_Subset
<1>4. 0 \in Good
  <2>1. ASSUME NEW S \in SUBSET refs, Cardinality(S) = 0 + 1
        PROVE  \E h : First(S, h)
    <3>1. PICK h : S = {h}
      <4>1. IsFiniteSet(S) /\ Cardinality(S) = 1
        BY <1>3, <2>1
      <4> QED
        BY <4>1, FS_Singleton
    <3>2. First(S, h)
      BY <1>1, <3>1
    <3> QED
      BY <3>2
  <2> HIDE DEF First
  <2> QED
    BY <2>1
<1>5. ASSUME NEW n \in Nat, n \in Good
      PROVE  n + 1 \in Good
  <2>1. ASSUME NEW S \in SUBSET refs, Cardinality(S) = (n + 1) + 1
        PROVE  \E h : First(S, h)
    <3>1. PICK x \in S : TRUE
      <4>1. S # {}
        BY <2>1, FS_EmptySet
      <4> QED
        BY <4>1
    <3>2. Cardinality(S \ {x}) = n + 1 /\ S \ {x} \in SUBSET refs
      <4>1. IsFiniteSet(S)
        BY <1>3, <2>1
      <4>2. Cardinality(S \ {x}) = Cardinality(S) - 1
        BY <4>1, FS_RemoveElement
      <4> QED
        BY <2>1, <4>2
    <3>3. PICK h : First(S \ {x}, h)
      BY <1>5, <3>2
    <3>4. h \in refs /\ x \in refs
      BY <3>3
    <3>5. CASE Precedes(h, x)
      <4>1. First(S, h)
        BY <3>3, <3>5
      <4> QED
        BY <4>1
    <3>6. CASE Precedes(x, h)
      <4>1. \A g \in S \ {x} : Precedes(x, g)
        BY <1>2, <3>3, <3>4, <3>6
      <4>2. First(S, x)
        BY <1>1, <3>1, <3>4, <4>1
      <4> QED
        BY <4>2
    <3> QED
      BY <1>1, <3>4, <3>5, <3>6
  <2> HIDE DEF First
  <2> QED
    BY <2>1
<1>6. PICK n \in Nat : Cardinality(refs) = n + 1
  <2>1. Cardinality(refs) \in Nat /\ Cardinality(refs) # 0
    BY FS_CardinalityType, FS_EmptySet
  <2>2. Cardinality(refs) - 1 \in Nat /\ Cardinality(refs) = (Cardinality(refs) - 1) + 1
    BY <2>1
  <2> QED
    BY <2>2
<1>7. n \in Good
  <2> HIDE DEF Good
  <2> QED
    BY <1>4, <1>5, NumbersByInduction
<1>8. PICK h : First(refs, h)
  BY <1>6, <1>7
<1> QED
  BY <1>8 DEF FirstRef

\* The fallback fetches what the manifest lists.
LEMMA FallbackFetchesListed ==
    ASSUME NEW c \in Calls, DOMAIN call[c].manifest \subseteq Nat,
           IsFiniteSet(DOMAIN call[c].manifest)
    PROVE  FallbackFetches(c) \subseteq DOMAIN call[c].manifest
  BY FirstRefListed DEF FallbackFetches

\* What the proxy makes of a request: an event to append, for the owner of
\* the key, or a refusal.
LEMMA ReceiveFacts ==
    ASSUME NEW c \in Calls, DOMAIN call = Calls, NEW request \in Via("proxy"), NEW tries,
           Receive(c, request, tries)
    PROVE  /\ DOMAIN call' = Calls /\ Others(c)
           /\ call'[c].request = request /\ call'[c].tries = tries
           /\ call'[c].at \in {"append", "refused"}
           /\ call'[c].at = "append" => Speaks(request, call'[c].says)
           /\ call'[c].at = "refused" => call'[c].code \notin {"invalid_plan", "rejected"}
<1> DEFINE says == [subject |-> Speaker(request), prefers |-> request.prefers, scope |-> "GLOBAL"]
           came(step, fields) == Also([at |-> step, request |-> request, tries |-> tries], fields)
<1>1. PICK store \in StoreStates :
          call' = [call EXCEPT ![c] =
              IF IntakeCode(request, store) = "none" THEN came("append", [says |-> says])
              ELSE came("refused", [code |-> IntakeCode(request, store)])]
  BY DEF Receive
<1>2. \A step, fields :
         /\ came(step, fields).at = step /\ came(step, fields).request = request
         /\ came(step, fields).tries = tries
         /\ \A f \in DOMAIN fields \ {"at", "request", "tries"} : came(step, fields)[f] = fields[f]
  BY DEF Also
<1>3. DOMAIN call' = Calls /\ Others(c)
  BY <1>1 DEF Others
<1>4. CASE IntakeCode(request, store) = "none"
  <2>1. DOMAIN [says |-> says] = {"says"} /\ [says |-> says]["says"] = says
    OBVIOUS
  <2>2. call'[c] = came("append", [says |-> says])
    BY <1>1, <1>4
  <2>3. call'[c].says = says
    <3> HIDE DEF came, says
    <3> QED
      BY <1>2, <2>1, <2>2
  <2>4. Speaks(request, says)
    <3>1. ~Keyless(request) => request.auth \in DOMAIN KeyOwner
      BY <1>4 DEF IntakeCode, BadGateway
    <3>2. request.user \in Subjects \cup {""}
      BY ProxyAssumption
    <3>3. Speaker(request) \in Subjects \cup {""} /\ "GLOBAL" \in Scopes
      BY <3>1, <3>2, ProxyAssumption DEF Speaker
    <3>4. ~Keyless(request) => Speaker(request) = KeyOwner[request.auth]
      BY DEF Speaker
    <3>5. says.subject = Speaker(request) /\ says.scope = "GLOBAL"
      OBVIOUS
    <3> HIDE DEF says
    <3> QED
      BY <3>1, <3>3, <3>4, <3>5 DEF Speaks
  <2> HIDE DEF says, came
  <2> QED
    BY <1>2, <1>3, <2>2, <2>3, <2>4
<1>5. CASE IntakeCode(request, store) # "none"
  <2> DEFINE code == IntakeCode(request, store)
             fields == [code |-> code]
  <2>1. DOMAIN fields = {"code"} /\ fields["code"] = code
    OBVIOUS
  <2>2. call'[c] = came("refused", fields)
    BY <1>1, <1>5
  <2>3. code \notin {"invalid_plan", "rejected"}
    BY DEF IntakeCode, BadGateway
  <2> HIDE DEF code, fields, came
  <2> QED
    BY <1>2, <1>3, <2>1, <2>2, <2>3
<1> QED
  BY <1>4, <1>5

\* A program of an SDK begins.
LEMMA BeginFacts ==
    ASSUME NEW c \in Calls, CallsInv, NEW request \in Via("sdk"), Begin(c, request)
    PROVE  Intake(c)
<1> DEFINE says == [subject |-> request.subject, prefers |-> request.prefers, scope |-> request.scope]
           new == [at |-> "append", request |-> request, tries |-> 1, says |-> says]
<1>1. call' = [call EXCEPT ![c] = new] /\ DOMAIN call = Calls /\ At(c, "idle") /\ UNCHANGED server
  BY DEF Begin, CallsInv
<1>2. new.at = "append" /\ new.request = request /\ new.tries = 1 /\ new.says = says
  OBVIOUS
<1>3. says.subject = request.subject /\ says.scope = request.scope
  OBVIOUS
<1>4. request \in Requests /\ request.via = "sdk"
  BY DEF Via
<1>5. request.subject \in Subjects \cup {""} /\ request.scope \in Scopes
  BY SdkAssumption
<1>6. Speaks(request, says)
  <2> HIDE DEF says
  <2> QED
    BY <1>3, <1>4, <1>5 DEF Speaks
<1>7. 1 \in 1..MaxTries
  BY Bounds
<1> HIDE DEF new, says
<1>8. DOMAIN call' = Calls /\ Others(c) /\ call'[c] = new
  BY <1>1 DEF Others
<1> QED
  BY <1>1, <1>2, <1>4, <1>6, <1>7, <1>8 DEF Intake

\* A chat begins, or is sent again after it was refused.
LEMMA ChatFacts ==
    ASSUME NEW c \in Calls, CallsInv,
           (\E request \in Via("proxy") : Chat(c, request)) \/ ChatAgain(c)
    PROVE  Intake(c)
<1>1. DOMAIN call = Calls
  BY DEF CallsInv
<1>2. ASSUME NEW request \in Via("proxy"), Chat(c, request)
      PROVE  Intake(c)
  <2>1. At(c, "idle") /\ Receive(c, request, 1) /\ UNCHANGED server
    BY <1>2 DEF Chat, ProxyUnchanged
  <2>2. request \in Requests
    BY DEF Via
  <2>3. 1 \in 1..MaxTries
    BY Bounds
  <2> QED
    BY <1>1, <2>1, <2>2, <2>3, ReceiveFacts DEF Intake
<1>3. ASSUME ChatAgain(c)
      PROVE  Intake(c)
  <2>1. /\ At(c, "refused") /\ call[c].request.via = "proxy" /\ call[c].tries < MaxTries
        /\ Receive(c, call[c].request, call[c].tries + 1) /\ UNCHANGED server
    BY <1>3 DEF ChatAgain, ProxyUnchanged
  <2>2. call[c].request \in Requests /\ call[c].tries \in 1..MaxTries
    BY <2>1 DEF CallsInv, Asked, At
  <2>3. call[c].tries + 1 \in 1..MaxTries
    BY <2>1, <2>2, Bounds
  <2>4. call[c].request \in Via("proxy")
    BY <2>1, <2>2 DEF Via
  <2> QED
    BY <1>1, <2>1, <2>2, <2>3, <2>4, ReceiveFacts DEF Intake
<1> QED
  BY <1>2, <1>3

\* An event is appended, or the service refuses it.
LEMMA AppendFacts ==
    ASSUME NEW c \in Calls, CallsInv, AppendEvent(c)
    PROVE  Appended(c)
<1> DEFINE fields == [says |-> call[c].says, wrote |-> Len(log'), life |-> restarts]
<1>1. At(c, "append") /\ (Goes(c, "manifest", fields) \/ GivesUp(c, BadGateway)) /\ DOMAIN call = Calls
  BY DEF AppendEvent, Replies, CallsInv
<1>2. /\ DOMAIN fields = {"says", "wrote", "life"} /\ fields["says"] = call[c].says
      /\ fields["wrote"] = Len(log') /\ fields["life"] = restarts
  OBVIOUS
<1> HIDE DEF fields
<1>3. CASE Goes(c, "manifest", fields)
  BY <1>1, <1>2, <1>3, GoesFacts DEF Appended
<1>4. CASE GivesUp(c, BadGateway)
  BY <1>1, <1>4, GivesUpFacts DEF Appended
<1> QED
  BY <1>1, <1>3, <1>4

\* A manifest is read, or the call ends without one.
LEMMA ManifestFacts ==
    ASSUME NEW c \in Calls, CallsInv, GetManifest(c)
    PROVE  ReadManifest(c) \/ Quiet(c)
<1> DEFINE fields == [says |-> call[c].says, wrote |-> call[c].wrote, life |-> call[c].life,
                      manifest |-> handles, read |-> Len(log), readLife |-> restarts]
<1>1. /\ At(c, "manifest") /\ (Goes(c, "plan", fields) \/ GivesUp(c, BadGateway))
      /\ DOMAIN call = Calls /\ UNCHANGED server
  BY DEF GetManifest, Replies, CallsInv
<1>2. /\ DOMAIN fields = {"says", "wrote", "life", "manifest", "read", "readLife"}
      /\ fields["says"] = call[c].says /\ fields["wrote"] = call[c].wrote
      /\ fields["life"] = call[c].life /\ fields["manifest"] = handles
      /\ fields["read"] = Len(log) /\ fields["readLife"] = restarts
  OBVIOUS
<1> HIDE DEF fields
<1>3. CASE Goes(c, "plan", fields)
  BY <1>1, <1>2, <1>3, GoesFacts DEF ReadManifest
<1>4. CASE GivesUp(c, BadGateway)
  BY <1>1, <1>4, FailureIsQuiet DEF At, BadGateway, Ended
<1> QED
  BY <1>1, <1>3, <1>4

\* A plan is executed: the service is only read.
LEMMA ExecuteFacts ==
    ASSUME NEW c \in Calls, CallsInv, ChatInv, Execute(c)
    PROVE  Quiet(c)
<1>1. /\ At(c, "execute") /\ Concluded(c, KernelStatus(call[c])) /\ UNCHANGED server
      /\ DOMAIN call = Calls /\ call[c].at \notin {"idle"} \cup Ended
      /\ Planned \subseteq DOMAIN call[c]
      /\ call[c].plan.fetches \subseteq DOMAIN call[c].manifest
      /\ Fallen(c) => call[c].plan.sound
  BY DEF Execute, CallsInv, ChatInv, At, Ended
<1>2. BadGateway \notin {"invalid_plan", "rejected"}
  BY DEF BadGateway
<1>3. CASE GivesUp(c, BadGateway)
  BY <1>1, <1>2, <1>3, FailureIsQuiet
<1>4. CASE Goes(c, "answered", <<>>)
  BY <1>1, <1>4, GoesFacts DEF Quiet
<1>5. CASE Goes(c, "stalled", call[c]) /\ KernelStatus(call[c]) = "STALL"
  <2>1. /\ Continues(c) /\ call'[c].at = "stalled"
        /\ \A f \in Planned : call'[c][f] = call[c][f]
    BY <1>1, <1>5, GoesFacts DEF Planned
  <2>2. /\ call'[c].plan = call[c].plan /\ call'[c].manifest = call[c].manifest
        /\ call'[c].read = call[c].read /\ call'[c].readLife = call[c].readLife
    BY <2>1 DEF Planned
  <2>3. Waits(c)
    BY <1>5 DEF KernelStatus, Waits
  <2>4. Carries(c)
    BY <1>1, <2>1, <2>2 DEF Carries, At
  <2> QED
    BY <1>1, <2>1, <2>2, <2>3, <2>4 DEF Quiet
<1>6. CASE GivesUp(c, "rejected") /\ KernelStatus(call[c]) = "REJECTED"
  <2>1. ~Fallen(c)
    BY <1>1, <1>6 DEF KernelStatus
  <2> QED
    BY <1>1, <1>6, <2>1, FailureIsQuiet
<1>7. KernelStatus(call[c]) \in {"OK", "REJECTED", "STALL"}
  BY DEF KernelStatus
<1> QED
  BY <1>1, <1>3, <1>4, <1>5, <1>6, <1>7 DEF Concluded, Replies

\* A plan, of whichever source, is guarded and sent on.
LEMMA SubmitFacts ==
    ASSUME NEW c \in Calls, CallsInv, NEW plan, Submit(c, plan), At(c, "plan"), UNCHANGED server,
           Fallen(c) => plan.sound /\ plan.fetches \subseteq DOMAIN call[c].manifest
    PROVE  Quiet(c)
<1>1. DOMAIN call = Calls /\ call[c].at \notin {"idle"} \cup Ended
  BY DEF CallsInv, At, Ended
<1> QED
  BY <1>1, ExecutingFacts, FailureIsQuiet DEF Submit

\* The proxy gets a plan, from the header, the planner or its own fallback.
LEMMA PlanFacts ==
    ASSUME NEW c \in Calls, CallsInv, ChatInv, ResolvePlan(c)
    PROVE  Quiet(c)
<1>1. DOMAIN call = Calls
  BY DEF CallsInv
<1>2. ASSUME NEW header, Planning(c, header)
      PROVE  /\ At(c, "plan") /\ call[c].at \notin {"idle"} \cup Ended /\ UNCHANGED server
             /\ call[c].request.header = header
  BY <1>2 DEF Planning, ProxyUnchanged, At, Ended
<1>3. CASE PlanFromHeader(c)
  <2>1. Planning(c, "given")
    BY <1>3 DEF PlanFromHeader
  <2>2. ~Fallen(c)
    BY <1>2, <2>1 DEF Fallen
  <2> QED
    BY <1>1, <1>2, <1>3, <2>1, <2>2, SubmitFacts, FailureIsQuiet DEF PlanFromHeader
<1>4. CASE NoHeader(c)
  <2>1. Planning(c, "none") /\ ~Fallen(c) /\ GivesUp(c, "plan_header_required")
    BY <1>4 DEF NoHeader, Fallen
  <2> QED
    BY <1>1, <1>2, <2>1, FailureIsQuiet
<1>5. CASE PlanByFallback(c)
  <2> DEFINE plan == Plan(FallbackFetches(c), TRUE)
  <2>1. Planning(c, "none") /\ Submit(c, plan)
    BY <1>5 DEF PlanByFallback
  <2>2. plan.sound = TRUE /\ plan.fetches = FallbackFetches(c)
    BY DEF Plan
  <2>3. plan.fetches \subseteq DOMAIN call[c].manifest
    BY <1>2, <2>1, <2>2, FallbackFetchesListed DEF ChatInv
  <2> HIDE DEF plan
  <2> QED
    BY <1>2, <2>1, <2>2, <2>3, SubmitFacts
<1>6. CASE PlanByModel(c)
  <2>1. Planning(c, "none") /\ ~Fallen(c)
    BY <1>6 DEF PlanByModel, Fallen
  <2> QED
    BY <1>1, <1>2, <1>6, <2>1, SubmitFacts, FailureIsQuiet DEF PlanByModel
<1> QED
  BY <1>3, <1>4, <1>5, <1>6 DEF ResolvePlan

\* A program of an SDK plans, or tries a stalled plan again.
LEMMA SdkFacts ==
    ASSUME NEW c \in Calls, CallsInv, ChatInv, SdkPlan(c) \/ RetryStalled(c)
    PROVE  Quiet(c)
<1>1. DOMAIN call = Calls
  BY DEF CallsInv
<1>2. CASE SdkPlan(c)
  <2> DEFINE listed == DOMAIN call[c].manifest
             plan == Plan({FirstRef(listed)}, TRUE)
  <2>1. /\ At(c, "plan") /\ call[c].at \notin {"idle"} \cup Ended /\ ~Fallen(c) /\ UNCHANGED server
        /\ GivesUp(c, "no_handles") \/ (listed # {} /\ \E offline : Executing(c, plan, offline))
    BY <1>2 DEF SdkPlan, At, Fallen, Ended
  <2>2. listed # {} => plan.fetches \subseteq listed
    BY <2>1, FirstRefListed DEF ChatInv, Plan
  <2> HIDE DEF listed, plan
  <2>3. plan.fetches \subseteq listed => plan.fetches \subseteq DOMAIN call[c].manifest
    BY DEF listed
  <2> QED
    BY <1>1, <2>1, <2>2, <2>3, FailureIsQuiet, ExecutingFacts
<1>3. CASE RetryStalled(c)
  <2>1. /\ At(c, "stalled") /\ UNCHANGED server /\ Executing(c, call[c].plan, {})
        /\ call[c].plan.fetches \subseteq DOMAIN call[c].manifest
        /\ Fallen(c) => call[c].plan.sound
    BY <1>3 DEF RetryStalled, At, ChatInv
  <2> QED
    BY <1>1, <2>1, ExecutingFacts
<1> QED
  BY <1>2, <1>3

\* Every step is of one of these kinds.
LEMMA NextCases ==
    ASSUME CallsInv, ChatInv, [Next]_vars
    PROVE  /\ mode' = mode
           /\ \/ \E c \in Calls : Intake(c)
              \/ \E c \in Calls : AppendEvent(c) /\ Appended(c)
              \/ \E c \in Calls : ReadManifest(c)
              \/ \E c \in Calls : Quiet(c)
              \/ \E filter \in Filters : Forget(filter)
              \/ Restart
              \/ UNCHANGED vars
<1>1. mode' = mode
  BY DEF Next, vars, Chat, ProxyUnchanged, ChatAgain, Goon, Serve, Sdk, ResolvePlan, PlanFromHeader,
         NoHeader, PlanByFallback, PlanByModel, Planning, Fail, Finished
<1>2. ASSUME NEW c \in Calls, Goon(c)
      PROVE  AppendEvent(c) \/ GetManifest(c) \/ Execute(c) \/ ResolvePlan(c)
                \/ SdkPlan(c) \/ RetryStalled(c)
  BY <1>2 DEF Goon, Serve, Sdk
<1>3. ASSUME NEW c \in Calls, Fail(c)
      PROVE  Quiet(c)
  BY <1>3, FailureIsQuiet DEF Fail, BadGateway, At, CallsInv, Ended
<1> QED
  BY <1>1, <1>2, <1>3, BeginFacts, ChatFacts, AppendFacts, ManifestFacts, ExecuteFacts, PlanFacts,
     SdkFacts DEF Next, Finished

-----------------------------------------------------------------------------
\* The calls and the chats

\* Every step keeps what the calls were asked.
LEMMA NextCalls ==
    ASSUME CallsInv, ChatInv, [Next]_vars
    PROVE  CallsInv'
<1>1. mode' \in Modes
  BY NextCases DEF CallsInv
<1>2. ASSUME NEW c \in Calls, Intake(c)
      PROVE  CallsInv'
  BY <1>1, <1>2 DEF CallsInv, Intake, Others, Asked, At, Steps, Ended
<1>3. ASSUME NEW c \in Calls, ~At(c, "idle"), Continues(c),
             call'[c].at \in Steps \ {"idle", "append"}
      PROVE  CallsInv'
  BY <1>1, <1>3 DEF CallsInv, Continues, Others, Asked, At
<1>4. ASSUME NEW c \in Calls, Appended(c)
      PROVE  CallsInv'
  BY <1>3, <1>4 DEF Appended, At, Steps, Ended
<1>5. ASSUME NEW c \in Calls, ReadManifest(c)
      PROVE  CallsInv'
  BY <1>3, <1>5 DEF ReadManifest, At, Steps, Ended
<1>6. ASSUME NEW c \in Calls, Quiet(c)
      PROVE  CallsInv'
  BY <1>3, <1>6 DEF Quiet, Steps, Ended, At
<1>7. ASSUME UNCHANGED call
      PROVE  CallsInv'
  BY <1>1, <1>7 DEF CallsInv, Asked, At
<1>8. (\E filter \in Filters : Forget(filter)) \/ Restart \/ UNCHANGED vars => UNCHANGED call
  BY DEF Forget, Restart, vars
<1> QED
  BY <1>2, <1>4, <1>5, <1>6, <1>7, <1>8, NextCases

\* Every step keeps what fallback chats hold.
LEMMA NextChat ==
    ASSUME CallsInv, ChatInv, CountInv, MemoryInv, LogInv, [Next]_vars
    PROVE  ChatInv'
<1> DEFINE OK(c) ==
        /\ At(c, "plan") => DOMAIN call[c].manifest \subseteq Nat /\ IsFiniteSet(DOMAIN call[c].manifest)
        /\ At(c, "execute") => Planned \subseteq DOMAIN call[c]
        /\ At(c, "execute") \/ At(c, "stalled") =>
              /\ call[c].plan.fetches \subseteq DOMAIN call[c].manifest
              /\ Fallen(c) => call[c].plan.sound
        /\ At(c, "refused") /\ Fallen(c) => call[c].code \notin {"invalid_plan", "rejected"}
<1>1. ChatInv <=> \A c \in Calls : OK(c)
  BY DEF ChatInv, FallbackChatsAnswered, Fallen
<1>2. ChatInv' <=> \A c \in Calls : OK(c)'
  BY DEF ChatInv, FallbackChatsAnswered, Fallen
<1>3. mode' = mode
  BY NextCases
<1>4. ASSUME NEW c \in Calls, Others(c), OK(c)'
      PROVE  ChatInv'
  BY <1>1, <1>2, <1>3, <1>4 DEF Others, At, Fallen
<1>5. ASSUME NEW c \in Calls, Intake(c)
      PROVE  ChatInv'
  BY <1>4, <1>5 DEF Intake, At
<1>6. ASSUME NEW c \in Calls, Appended(c)
      PROVE  ChatInv'
  BY <1>4, <1>6 DEF Appended, Continues, At, BadGateway
<1>7. ASSUME NEW c \in Calls, ReadManifest(c)
      PROVE  ChatInv'
  <2>1. DOMAIN handles \subseteq 1..nextHandle /\ nextHandle \in Nat
    BY DEF CountInv, MemoryInv, LogInv, Entry, Remembered
  <2>2. DOMAIN handles \subseteq Nat /\ IsFiniteSet(DOMAIN handles)
    <3>1. IsFiniteSet(1..nextHandle) /\ 1..nextHandle \subseteq Nat
      BY <2>1, FS_Interval
    <3> QED
      BY <2>1, <3>1, FS_Subset
  <2> QED
    BY <1>4, <1>7, <2>2 DEF ReadManifest, Continues, At
<1>8. ASSUME NEW c \in Calls, Quiet(c)
      PROVE  ChatInv'
  BY <1>3, <1>4, <1>8 DEF Quiet, Carries, Continues, At, Fallen
<1>9. ASSUME UNCHANGED call
      PROVE  ChatInv'
  BY <1>1, <1>2, <1>3, <1>9 DEF At, Fallen
<1>10. (\E filter \in Filters : Forget(filter)) \/ Restart \/ UNCHANGED vars => UNCHANGED call
  BY DEF Forget, Restart, vars
<1> QED
  BY <1>5, <1>6, <1>7, <1>8, <1>9, <1>10, NextCases

-----------------------------------------------------------------------------
\* The counters

\* There are no more attempts than calls times tries.
LEMMA AttemptsFinite ==
    ASSUME NEW S, S \subseteq Calls \X (1..MaxTries)
    PROVE  IsFiniteSet(S) /\ Cardinality(S) \in Nat /\ Cardinality(S) <= Cardinality(Calls) * MaxTries
<1> DEFINE all == Calls \X (1..MaxTries)
<1>1. IsFiniteSet(1..MaxTries) /\ Cardinality(1..MaxTries) = MaxTries
  BY Bounds, FS_Interval
<1>2. IsFiniteSet(all) /\ Cardinality(all) = Cardinality(Calls) * MaxTries
  BY <1>1, Bounds, FS_Product
<1> HIDE DEF all
<1>3. S \subseteq all
  BY DEF all
<1> QED
  BY <1>2, <1>3, FS_Subset, FS_CardinalityType

\* An attempt that is spent stays spent.
LEMMA SpentStays ==
    ASSUME CallsInv, ChatInv, [Next]_vars
    PROVE  Spent \subseteq Spent'
<1>1. ASSUME NEW c \in Calls, Others(c),
             ~At(c, "idle") => /\ call'[c].at # "idle" /\ call'[c].tries \in Nat
                               /\ \/ call'[c].tries = call[c].tries /\ call'[c].at # "append"
                                  \/ call'[c].tries = call[c].tries + 1
      PROVE  Spent \subseteq Spent'
  <2>1. ~At(c, "idle") => call[c].tries \in 1..MaxTries
    BY DEF CallsInv, Asked
  <2>2. ASSUME NEW d \in Calls, NEW t \in 1..MaxTries, <<d, t>> \in Spent
        PROVE  <<d, t>> \in Spent'
    <3>1. CASE d = c
      BY <1>1, <2>1, <2>2, <3>1, Bounds DEF Spent, At
    <3>2. CASE d # c
      BY <1>1, <2>2, <3>2 DEF Spent, Others, At
    <3> QED
      BY <3>1, <3>2
  <2> QED
    BY <2>2 DEF Spent
<1>2. ASSUME NEW c \in Calls
      PROVE  /\ Intake(c) => Spent \subseteq Spent'
             /\ Appended(c) => Spent \subseteq Spent'
             /\ ReadManifest(c) => Spent \subseteq Spent'
             /\ Quiet(c) => Spent \subseteq Spent'
  <2>1. CASE Intake(c)
    BY <1>1, <2>1 DEF Intake
  <2>2. ~At(c, "idle") => call[c].tries \in Nat
    BY Bounds DEF CallsInv, Asked
  <2>3. CASE Appended(c)
    BY <1>1, <2>2, <2>3 DEF Appended, Continues, At
  <2>4. CASE ReadManifest(c)
    BY <1>1, <2>2, <2>4 DEF ReadManifest, Continues, At
  <2>5. CASE Quiet(c)
    BY <1>1, <2>2, <2>5 DEF Quiet, Continues, At
  <2> QED
    BY <2>1, <2>3, <2>4, <2>5
<1>3. UNCHANGED call => Spent \subseteq Spent'
  BY DEF Spent, At
<1>4. (\E filter \in Filters : Forget(filter)) \/ Restart \/ UNCHANGED vars => UNCHANGED call
  BY DEF Forget, Restart, vars
<1> QED
  BY <1>2, <1>3, <1>4, NextCases

\* Every step keeps the number of events below that of the attempts.
LEMMA NextCount ==
    ASSUME CallsInv, ChatInv, CountInv, [Next]_vars
    PROVE  CountInv'
<1>1. /\ Spent \subseteq Spent' /\ IsFiniteSet(Spent) /\ IsFiniteSet(Spent')
      /\ Cardinality(Spent) \in Nat /\ Cardinality(Spent') \in Nat
  <2>1. Spent \subseteq Calls \X (1..MaxTries) /\ Spent' \subseteq Calls \X (1..MaxTries)
    BY DEF Spent
  <2> QED
    BY <2>1, AttemptsFinite, SpentStays
<1>2. Cardinality(Spent) <= Cardinality(Spent')
  BY <1>1, FS_Subset
<1>3. ASSUME UNCHANGED <<nextEvent, nextHandle, restarts>>
      PROVE  CountInv'
  BY <1>1, <1>2, <1>3, Bounds DEF CountInv
<1>4. ASSUME NEW c \in Calls, AppendEvent(c), Appended(c)
      PROVE  CountInv'
  <2>1. /\ nextEvent' = nextEvent + 1 /\ nextHandle' \in {nextHandle, nextHandle + 1}
        /\ restarts' = restarts
    BY <1>4 DEF AppendEvent
  <2> DEFINE a == <<c, call[c].tries>>
  <2>2. a \notin Spent /\ a \in Spent'
    <3>1. call[c].tries \in 1..MaxTries /\ At(c, "append")
      BY <1>4 DEF CallsInv, Asked, Appended, At
    <3>2. call'[c].tries = call[c].tries /\ call'[c].at \in {"manifest", "refused"}
      BY <1>4 DEF Appended, Continues
    <3> QED
      BY <3>1, <3>2 DEF Spent, At
  <2>3. Cardinality(Spent \cup {a}) = Cardinality(Spent) + 1
    <3> HIDE DEF a
    <3> QED
      BY <1>1, <2>2, FS_AddElement
  <2>4. Cardinality(Spent \cup {a}) <= Cardinality(Spent')
    <3> HIDE DEF a
    <3> QED
      BY <1>1, <2>2, FS_Subset
  <2> HIDE DEF a
  <2> QED
    BY <1>1, <2>1, <2>3, <2>4, Bounds DEF CountInv
<1>5. ASSUME Restart
      PROVE  CountInv'
  BY <1>1, <1>5, Bounds DEF CountInv, Restart
<1> QED
  BY <1>3, <1>4, <1>5, NextCases DEF Intake, ReadManifest, Quiet, Forget, server, vars

-----------------------------------------------------------------------------
\* The log

\* What the log says is over when the server stops: it grows or is emptied.
LEMMA LogGrows ==
    ASSUME LogInv, NEW e, log' = Append(log, e)
    PROVE  /\ Len(log) \in Nat /\ DOMAIN log = 1..Len(log)
           /\ Len(log') = Len(log) + 1 /\ DOMAIN log' = 1..(Len(log) + 1)
           /\ log'[Len(log) + 1] = e
           /\ \A i \in DOMAIN log : i \in DOMAIN log' /\ log'[i] = log[i]
           /\ log' \in Seq({log'[i] : i \in DOMAIN log'})
           /\ Appends' = IF e.did = "append" THEN Appends \cup {Len(log) + 1} ELSE Appends
<1> DEFINE old == {log[i] : i \in DOMAIN log}
           new == old \cup {e}
<1>1. log \in Seq(old)
  BY DEF LogInv
<1> HIDE DEF old
<1>2. log \in Seq(new) /\ e \in new
  BY <1>1
<1> HIDE DEF new
<1>3. /\ Len(log) \in Nat /\ DOMAIN log = 1..Len(log)
      /\ Len(log') = Len(log) + 1 /\ DOMAIN log' = 1..(Len(log) + 1)
      /\ log'[Len(log) + 1] = e
      /\ \A i \in DOMAIN log : i \in DOMAIN log' /\ log'[i] = log[i]
  BY <1>2
<1>4. log' \in Seq({log'[i] : i \in DOMAIN log'})
  <2>1. log' \in Seq(new)
    BY <1>2
  <2> QED
    BY <2>1
<1>5. Appends' = IF e.did = "append" THEN Appends \cup {Len(log) + 1} ELSE Appends
  <2>1. \A i \in 1..(Len(log) + 1) : i \in DOMAIN log \/ i = Len(log) + 1
    BY <1>3
  <2> QED
    BY <1>3, <2>1 DEF Appends
<1> QED
  BY <1>3, <1>4, <1>5

\* An entry stays true of its attempt.
LEMMA EntryStays ==
    ASSUME CallsInv, ChatInv, CountInv, [Next]_vars, nextHandle' \in Nat, nextHandle <= nextHandle',
           NEW e, Entry(e, nextHandle, call)
    PROVE  Entry(e, nextHandle', call')
<1>1. e.by \in Calls /\ ~At(e.by, "idle") /\ call[e.by].tries \in 1..MaxTries
  BY DEF Entry, CallsInv, Asked, At
<1>2. nextHandle \in Nat /\ e.ref \in 1..nextHandle'
  BY DEF Entry, CountInv
<1>3. ASSUME NEW c \in Calls, Others(c),
             ~At(c, "idle") => /\ call'[c].at # "idle" /\ call'[c].request = call[c].request
                               /\ \/ call'[c].tries = call[c].tries /\ call'[c].at # "append"
                                  \/ call'[c].tries = call[c].tries + 1
      PROVE  Entry(e, nextHandle', call')
  <2>1. CASE e.by = c
    BY <1>1, <1>2, <1>3, <2>1, Bounds DEF Entry, At
  <2>2. CASE e.by # c
    BY <1>1, <1>2, <1>3, <2>2 DEF Entry, At, Others
  <2> QED
    BY <2>1, <2>2
<1>4. ASSUME NEW c \in Calls
      PROVE  /\ Intake(c) => Entry(e, nextHandle', call')
             /\ Appended(c) => Entry(e, nextHandle', call')
             /\ ReadManifest(c) => Entry(e, nextHandle', call')
             /\ Quiet(c) => Entry(e, nextHandle', call')
  <2>1. CASE Intake(c)
    BY <1>3, <2>1 DEF Intake, At
  <2>2. CASE Appended(c)
    BY <1>3, <2>2 DEF Appended, Continues
  <2>3. CASE ReadManifest(c)
    BY <1>3, <2>3 DEF ReadManifest, Continues
  <2>4. CASE Quiet(c)
    BY <1>3, <2>4 DEF Quiet, Continues
  <2> QED
    BY <2>1, <2>2, <2>3, <2>4
<1>5. UNCHANGED call => Entry(e, nextHandle', call')
  BY <1>2 DEF Entry, At
<1>6. (\E filter \in Filters : Forget(filter)) \/ Restart \/ UNCHANGED vars => UNCHANGED call
  BY DEF Forget, Restart, vars
<1> QED
  BY <1>4, <1>5, <1>6, NextCases

\* Every step keeps what the entries of the log are.
LEMMA NextLog ==
    ASSUME CallsInv, ChatInv, CountInv, LogInv, [Next]_vars
    PROVE  LogInv'
<1>1. nextHandle \in Nat
  BY DEF CountInv
<1>2. ASSUME UNCHANGED <<log, nextHandle>>
      PROVE  LogInv'
  <2>1. \A i \in Appends : Entry(log[i], nextHandle', call')
    BY <1>1, <1>2, EntryStays DEF LogInv
  <2>2. Appends' = Appends /\ log' = log
    BY <1>2 DEF Appends
  <2>3. AttemptsStoreOnce'
    BY <2>2 DEF LogInv, AttemptsStoreOnce
  <2>4. \A i \in Appends' : Entry(log'[i], nextHandle', call')
    BY <2>1, <2>2
  <2> QED
    BY <2>2, <2>3, <2>4 DEF LogInv
<1>3. ASSUME NEW c \in Calls, AppendEvent(c), Appended(c), call[c].says.prefers
      PROVE  LogInv'
  <2> DEFINE meta == [subject |-> Named(call[c].says.subject), predicate |-> Preference,
                      scope |-> call[c].says.scope]
             e == [did |-> "append", ref |-> NextRef, meta |-> meta, by |-> c, try |-> call[c].tries]
             n == Len(log) + 1
  <2>1. nextHandle' = nextHandle + 1 /\ log' = Append(log, e)
    BY <1>3 DEF AppendEvent
  <2>2. /\ e.did = "append" /\ e.ref = nextHandle + 1 /\ e.meta = meta /\ e.by = c
        /\ e.try = call[c].tries
    BY DEF NextRef
  <2>3. meta \in Meta /\ meta.subject = Named(call[c].says.subject)
    <3>1. Speaks(call[c].request, call[c].says)
      BY <1>3 DEF CallsInv, Appended
    <3>2. Named(call[c].says.subject) \in Subjects /\ call[c].says.scope \in Scopes
      BY <3>1, Bounds DEF Speaks, Named
    <3> QED
      BY <3>2 DEF Meta
  <2> HIDE DEF e, meta
  <2>4. /\ Len(log) \in Nat /\ DOMAIN log = 1..Len(log) /\ DOMAIN log' = 1..n
        /\ log'[n] = e /\ \A i \in DOMAIN log : log'[i] = log[i]
        /\ log' \in Seq({log'[i] : i \in DOMAIN log'})
        /\ Appends' = Appends \cup {n}
    BY <2>1, <2>2, LogGrows
  <2>5. Entry(e, nextHandle', call')
    <3>1. call[c].tries \in 1..MaxTries /\ At(c, "append") /\ Speaks(call[c].request, call[c].says)
      BY <1>3 DEF CallsInv, Asked, Appended, At
    <3>2. /\ call'[c].tries = call[c].tries /\ call'[c].at \in {"manifest", "refused"}
          /\ call'[c].request = call[c].request
      BY <1>3 DEF Appended, Continues
    <3>3. e.ref \in 1..nextHandle'
      BY <1>1, <2>1, <2>2
    <3>4. e.try \in 1..call'[c].tries
      BY <2>2, <3>1, <3>2, Bounds
    <3> QED
      BY <2>2, <2>3, <3>1, <3>2, <3>3, <3>4 DEF Entry, At, Speaks
  <2>6. \A i \in Appends' : Entry(log'[i], nextHandle', call')
    <3>1. \A i \in Appends : i \in DOMAIN log /\ Entry(log[i], nextHandle', call')
      BY <1>1, <2>1, EntryStays DEF LogInv, Appends
    <3> QED
      BY <2>4, <2>5, <3>1
  <2>7. \A i \in Appends : /\ i \in DOMAIN log /\ i # n /\ log[i].ref # e.ref
                           /\ ~(log[i].by = e.by /\ log[i].try = e.try)
    <3>1. TAKE i \in Appends
    <3>2. i \in DOMAIN log /\ Entry(log[i], nextHandle, call)
      BY <3>1 DEF LogInv, Appends
    <3>3. i # n
      BY <2>4, <3>2
    <3>4. log[i].ref # e.ref
      BY <1>1, <2>2, <3>2 DEF Entry
    <3>5. ~(log[i].by = e.by /\ log[i].try = e.try)
      BY <1>3, <2>2, <3>2 DEF Entry, Appended, At
    <3> QED
      BY <3>2, <3>3, <3>4, <3>5
  <2>8. \A i, j \in Appends' : log'[i].ref = log'[j].ref => i = j
    <3>1. \A i \in Appends : log'[i] = log[i] /\ log'[i].ref # log'[n].ref
      BY <2>4, <2>7
    <3>2. \A i, j \in Appends : log[i].ref = log[j].ref => i = j
      BY DEF LogInv
    <3>3. \A i \in Appends' : i \in Appends \/ i = n
      BY <2>4
    <3> HIDE DEF n
    <3> QED
      BY <3>1, <3>2, <3>3
  <2>9. AttemptsStoreOnce'
    <3>1. \A i, j \in Appends : log'[i].by = log'[j].by /\ log'[i].try = log'[j].try => i = j
      <4>1. \A i \in Appends : log'[i] = log[i]
        BY <2>4, <2>7
      <4>2. AttemptsStoreOnce
        BY DEF LogInv
      <4> QED
        BY <4>1, <4>2 DEF AttemptsStoreOnce
    <3>2. \A i \in Appends : ~(log'[i].by = log'[n].by /\ log'[i].try = log'[n].try)
      BY <2>4, <2>7
    <3> QED
      BY <2>4, <3>1, <3>2 DEF AttemptsStoreOnce
  <2>10. \A i \in DOMAIN log' : log'[i].did \in {"append", "forget"}
    <3>1. \A i \in 1..n : i \in DOMAIN log \/ i = n
      BY <2>4
    <3> QED
      BY <2>2, <2>4, <3>1 DEF LogInv
  <2> QED
    BY <2>4, <2>6, <2>8, <2>9, <2>10 DEF LogInv
<1>4. ASSUME NEW filter \in Filters, Forget(filter)
      PROVE  LogInv'
  <2> DEFINE e == [did |-> "forget", filter |-> filter]
             n == Len(log) + 1
  <2>1. log' = Append(log, e) /\ nextHandle' = nextHandle /\ e.did = "forget"
    BY <1>4 DEF Forget
  <2> HIDE DEF e
  <2>2. /\ Len(log) \in Nat /\ DOMAIN log = 1..Len(log) /\ DOMAIN log' = 1..n
        /\ log'[n] = e /\ \A i \in DOMAIN log : log'[i] = log[i]
        /\ log' \in Seq({log'[i] : i \in DOMAIN log'})
        /\ Appends' = Appends
    BY <2>1, LogGrows
  <2>3. \A i \in Appends : i \in DOMAIN log /\ Entry(log[i], nextHandle', call')
    BY <1>1, <2>1, EntryStays DEF LogInv, Appends
  <2>4. \A i \in DOMAIN log' : log'[i].did \in {"append", "forget"}
    <3>1. \A i \in 1..n : i \in DOMAIN log \/ i = n
      BY <2>2
    <3> QED
      BY <2>1, <2>2, <3>1 DEF LogInv
  <2>5. \A i \in Appends' : Entry(log'[i], nextHandle', call')
    BY <2>2, <2>3
  <2>6. \A i \in Appends : log'[i] = log[i]
    BY <2>2, <2>3
  <2>7. \A i, j \in Appends' : log'[i].ref = log'[j].ref => i = j
    <3>1. \A i, j \in Appends : log[i].ref = log[j].ref => i = j
      BY DEF LogInv
    <3>2. Appends' = Appends
      BY <2>2
    <3> QED
      BY <2>6, <3>1, <3>2
  <2>8. AttemptsStoreOnce'
    <3>1. AttemptsStoreOnce
      BY DEF LogInv
    <3>2. Appends' = Appends
      BY <2>2
    <3> QED
      BY <2>6, <3>1, <3>2 DEF AttemptsStoreOnce
  <2> QED
    BY <2>2, <2>4, <2>5, <2>7, <2>8 DEF LogInv
<1>5. ASSUME Restart
      PROVE  LogInv'
  <2>1. log' = <<>>
    BY <1>5 DEF Restart
  <2>2. DOMAIN log' = {} /\ Appends' = {} /\ log' \in Seq({log'[i] : i \in DOMAIN log'})
    BY <2>1 DEF Appends
  <2> QED
    BY <2>2 DEF LogInv, AttemptsStoreOnce
<1>6. ASSUME NEW c \in Calls, AppendEvent(c), ~call[c].says.prefers
      PROVE  UNCHANGED <<log, nextHandle>>
  BY <1>6 DEF AppendEvent
<1> QED
  BY <1>2, <1>3, <1>4, <1>5, <1>6, NextCases DEF Intake, ReadManifest, Quiet, server, vars

-----------------------------------------------------------------------------
\* The memory

\* A filter forgets the memories that its request describes.
LEMMA ForgetsCovered ==
    ASSUME NEW filter \in Filters, NEW h \in Meta
    PROVE  Forgets(filter, h) <=> h \in Covered(filter)
<1>1. h = [subject |-> h.subject, predicate |-> h.predicate, scope |-> h.scope]
  BY DEF Meta
<1>2. h.subject \in Subjects /\ h.predicate = Preference /\ h.scope \in Scopes
  BY DEF Meta
<1>3. Preference \in Predicates
  BY DEF Predicates
<1>4. h \in Covered(filter) <=>
         /\ filter.subject = "" \/ h.subject = filter.subject
         /\ filter.predicate = "" \/ h.predicate = filter.predicate
         /\ filter.scope = "UNSPECIFIED" \/ h.scope = filter.scope
  BY <1>1, <1>2, <1>3 DEF Covered
<1> QED
  BY <1>4 DEF Forgets

\* An entry more is one more that may have forgotten.
LEMMA ForgottenGrows ==
    ASSUME LogInv, NEW e, log' = Append(log, e), NEW meta, NEW from \in 1..(Len(log) + 1)
    PROVE  (\E j \in from..(Len(log) + 1) : log'[j].did = "forget" /\ meta \in Covered(log'[j].filter))
           <=> \/ ForgottenBetween(meta, from, Len(log))
               \/ e.did = "forget" /\ meta \in Covered(e.filter)
<1>1. /\ Len(log) \in Nat /\ DOMAIN log = 1..Len(log) /\ log'[Len(log) + 1] = e
      /\ \A j \in DOMAIN log : log'[j] = log[j]
  BY LogGrows
<1>2. from..(Len(log) + 1) = from..Len(log) \cup {Len(log) + 1}
  BY <1>1
<1>3. \A j \in from..Len(log) : log'[j] = log[j]
  BY <1>1
<1> QED
  BY <1>1, <1>2, <1>3 DEF ForgottenBetween

\* What is remembered when an entry is added to the log.
LEMMA RememberedFacts ==
    ASSUME LogInv, NEW e, log' = Append(log, e)
    PROVE  /\ e.did = "append" => Remembered' = Remembered \cup {Len(log) + 1}
           /\ e.did = "forget" =>
                 Remembered' = {i \in Remembered : log[i].meta \notin Covered(e.filter)}
<1> DEFINE n == Len(log) + 1
           Later(i) == \E j \in (i + 1)..n :
                           log'[j].did = "forget" /\ log'[i].meta \in Covered(log'[j].filter)
<1>1. /\ Len(log) \in Nat /\ DOMAIN log = 1..Len(log) /\ Len(log') = n
      /\ \A i \in DOMAIN log : log'[i] = log[i]
      /\ Appends' = IF e.did = "append" THEN Appends \cup {n} ELSE Appends
  BY LogGrows
<1>2. Remembered' = {i \in Appends' : ~Later(i)}
  BY <1>1 DEF Remembered, ForgottenBetween, Covered
<1>3. \A i \in Appends : Later(i) <=> \/ ForgottenBetween(log[i].meta, i + 1, Len(log))
                                      \/ e.did = "forget" /\ log[i].meta \in Covered(e.filter)
  <2>1. TAKE i \in Appends
  <2>2. i \in DOMAIN log /\ i + 1 \in 1..(Len(log) + 1) /\ log'[i] = log[i]
    BY <1>1 DEF Appends
  <2> QED
    BY <2>2, ForgottenGrows
<1>4. ~Later(n)
  BY <1>1
<1> HIDE DEF Later, n
<1>5. CASE e.did = "append"
  BY <1>1, <1>2, <1>3, <1>4, <1>5 DEF Remembered, n
<1>6. CASE e.did = "forget"
  BY <1>1, <1>2, <1>3, <1>6 DEF Remembered
<1> QED
  BY <1>5, <1>6

\* Every step keeps the handles what the log says.
LEMMA NextMemory ==
    ASSUME CallsInv, ChatInv, CountInv, LogInv, MemoryInv, [Next]_vars
    PROVE  MemoryInv'
<1>1. \A i \in Remembered : i \in Appends /\ i \in DOMAIN log /\ Entry(log[i], nextHandle, call)
  BY DEF Remembered, Appends, LogInv
<1>2. ASSUME UNCHANGED <<log, handles>>
      PROVE  MemoryInv'
  BY <1>2 DEF MemoryInv, Remembered, Appends, ForgottenBetween
<1>3. ASSUME NEW c \in Calls, AppendEvent(c), call[c].says.prefers
      PROVE  MemoryInv'
  <2> DEFINE meta == [subject |-> Named(call[c].says.subject), predicate |-> Preference,
                      scope |-> call[c].says.scope]
             e == [did |-> "append", ref |-> NextRef, meta |-> meta, by |-> c, try |-> call[c].tries]
             n == Len(log) + 1
  <2>1. handles' = Also([h \in {NextRef} |-> meta], handles) /\ log' = Append(log, e)
    BY <1>3 DEF AppendEvent
  <2>2. e.did = "append" /\ e.ref = NextRef /\ e.meta = meta
    OBVIOUS
  <2> HIDE DEF e, meta
  <2>3. DOMAIN handles' = {NextRef} \cup DOMAIN handles /\ handles'[NextRef] = meta
    BY <2>1 DEF Also
  <2>4. \A h \in DOMAIN handles : h # NextRef => handles'[h] = handles[h]
    BY <2>1 DEF Also
  <2>5. \A i \in Remembered : log[i].ref # NextRef
    BY <1>1 DEF Entry, NextRef, CountInv
  <2>6. log'[n] = e /\ (\A i \in DOMAIN log : log'[i] = log[i]) /\ Remembered' = Remembered \cup {n}
    BY <2>1, <2>2, LogGrows, RememberedFacts
  <2>7. \A i \in Remembered : log'[i] = log[i]
    BY <1>1, <2>6
  <2>8. DOMAIN handles' = {log'[i].ref : i \in Remembered'}
    <3>1. {log'[i].ref : i \in Remembered'} = {log[i].ref : i \in Remembered} \cup {e.ref}
      BY <2>6, <2>7
    <3> QED
      BY <2>2, <2>3, <3>1 DEF MemoryInv
  <2>9. \A i \in Remembered' : handles'[log'[i].ref] = log'[i].meta
    <3>1. \A i \in Remembered : handles'[log'[i].ref] = log'[i].meta
      BY <2>4, <2>5, <2>7 DEF MemoryInv
    <3>2. handles'[log'[n].ref] = log'[n].meta
      BY <2>2, <2>3, <2>6
    <3> QED
      BY <2>6, <3>1, <3>2
  <2> QED
    BY <2>8, <2>9 DEF MemoryInv
<1>4. ASSUME NEW filter \in Filters, Forget(filter)
      PROVE  MemoryInv'
  <2> DEFINE e == [did |-> "forget", filter |-> filter]
  <2>1. /\ log' = Append(log, e) /\ e.did = "forget" /\ e.filter = filter
        /\ handles' = [h \in {x \in DOMAIN handles : ~Forgets(filter, handles[x])} |-> handles[h]]
    BY <1>4 DEF Forget
  <2> HIDE DEF e
  <2>2. /\ \A i \in DOMAIN log : log'[i] = log[i]
        /\ Remembered' = {i \in Remembered : log[i].meta \notin Covered(filter)}
    BY <2>1, LogGrows, RememberedFacts
  <2>3. \A i \in Remembered : /\ log'[i] = log[i] /\ handles[log[i].ref] = log[i].meta
                              /\ Forgets(filter, log[i].meta) <=> log[i].meta \in Covered(filter)
    BY <1>1, <2>2, ForgetsCovered DEF MemoryInv, Entry
  <2>4. Remembered' = {i \in Remembered : ~Forgets(filter, handles[log[i].ref])}
    BY <2>2, <2>3
  <2>5. DOMAIN handles' = {log[i].ref : i \in Remembered'}
    BY <2>1, <2>4 DEF MemoryInv
  <2>6. \A i \in Remembered' : i \in Remembered /\ log'[i] = log[i]
    BY <2>3, <2>4
  <2>7. DOMAIN handles' = {log'[i].ref : i \in Remembered'}
    BY <2>5, <2>6
  <2>8. \A i \in Remembered' : handles'[log'[i].ref] = log'[i].meta
    <3>1. TAKE i \in Remembered'
    <3>2. log'[i].ref \in DOMAIN handles'
      BY <2>7
    <3>3. handles'[log'[i].ref] = handles[log'[i].ref]
      BY <2>1, <3>2
    <3> QED
      BY <2>3, <2>6, <3>3
  <2> QED
    BY <2>7, <2>8 DEF MemoryInv
<1>5. ASSUME Restart
      PROVE  MemoryInv'
  <2>1. log' = <<>> /\ handles' = <<>>
    BY <1>5 DEF Restart
  <2>2. DOMAIN handles' = {} /\ Remembered' = {}
    BY <2>1 DEF Remembered, Appends
  <2> QED
    BY <2>2 DEF MemoryInv
<1>6. ASSUME NEW c \in Calls, AppendEvent(c), ~call[c].says.prefers
      PROVE  UNCHANGED <<log, handles>>
  BY <1>6 DEF AppendEvent
<1> QED
  BY <1>2, <1>3, <1>4, <1>5, <1>6, NextCases DEF Intake, ReadManifest, Quiet, server, vars

-----------------------------------------------------------------------------
\* What a call reads of its own writes

\* What one call recalls does not change while others append and forget, and
\* is no claim about another server.
LEMMA RecallStays ==
    ASSUME LogInv, CountInv, NEW c \in Calls, Recalls(c), call'[c] = call[c],
           \/ UNCHANGED <<log, restarts>>
           \/ (\E e : log' = Append(log, e)) /\ UNCHANGED restarts
           \/ restarts' = restarts + 1
    PROVE  Recalls(c)'
<1>1. CASE UNCHANGED <<log, restarts>>
  BY <1>1 DEF Recalls, Own, At, Appends, ForgottenBetween
<1>2. CASE restarts' = restarts + 1
  BY <1>2 DEF Recalls, Own, At, CountInv
<1>3. CASE (\E e : log' = Append(log, e)) /\ UNCHANGED restarts
  <2>1. /\ Len(log) \in Nat /\ DOMAIN log = 1..Len(log) /\ Len(log') = Len(log) + 1
        /\ Appends \subseteq Appends' /\ \A i \in DOMAIN log : log'[i] = log[i]
    BY <1>3, LogGrows
  <2>2. restarts' = restarts
    BY <1>3
  <2>3. ASSUME At(c, "plan")
        PROVE  Own(c)'
    <3> DEFINE w == call[c].wrote
               r == call[c].read
    <3>1. SUFFICES ASSUME call[c].says.prefers, call[c].life = restarts, call[c].readLife = restarts
                   PROVE  \/ /\ log'[w].ref \in DOMAIN call[c].manifest
                             /\ call[c].manifest[log'[w].ref] = log'[w].meta
                          \/ \E j \in (w + 1)..r : /\ log'[j].did = "forget"
                                                   /\ log'[w].meta \in Covered(log'[j].filter)
      BY <2>2 DEF Own, ForgottenBetween, Covered
    <3>2. w \in Appends /\ r \in 0..Len(log) /\ Own(c)
      BY <2>3, <3>1 DEF Recalls
    <3>3. w \in DOMAIN log /\ log'[w] = log[w]
      BY <2>1, <3>2 DEF Appends
    <3>4. \A j \in (w + 1)..r : log'[j] = log[j]
      <4> HIDE DEF w, r
      <4> QED
        BY <2>1, <3>2, <3>3
    <3>5. \/ log[w].ref \in DOMAIN call[c].manifest /\ call[c].manifest[log[w].ref] = log[w].meta
          \/ \E j \in (w + 1)..r : log[j].did = "forget" /\ log[w].meta \in Covered(log[j].filter)
      BY <3>1, <3>2 DEF Own, ForgottenBetween
    <3> HIDE DEF w, r
    <3> QED
      BY <3>3, <3>4, <3>5
  <2>4. ASSUME call[c].read \in 0..Len(log)
        PROVE  call[c].read \in 0..Len(log')
    BY <2>1, <2>4
  <2> QED
    BY <2>1, <2>2, <2>3, <2>4 DEF Recalls, At
<1> QED
  BY <1>1, <1>2, <1>3

\* Every step keeps what a call wrote where the call will look for it.
LEMMA NextOwn ==
    ASSUME CallsInv, ChatInv, CountInv, LogInv, MemoryInv, OwnInv, [Next]_vars
    PROVE  OwnInv'
<1>1. \/ UNCHANGED <<log, restarts>>
      \/ (\E e : log' = Append(log, e)) /\ UNCHANGED restarts
      \/ restarts' = restarts + 1
  BY NextCases DEF AppendEvent, Intake, ReadManifest, Quiet, Forget, Restart, server, vars
<1>2. \A c \in Calls : call'[c] = call[c] => Recalls(c)'
  BY <1>1, RecallStays DEF OwnInv
<1>3. ASSUME NEW c \in Calls, Others(c), Recalls(c)'
      PROVE  OwnInv'
  BY <1>2, <1>3 DEF OwnInv, Others
<1>4. ASSUME NEW c \in Calls, Others(c), call'[c].at \notin {"manifest", "plan"}
      PROVE  OwnInv'
  BY <1>3, <1>4 DEF Recalls, At
<1>5. ASSUME NEW c \in Calls, AppendEvent(c), Appended(c), call'[c].at = "manifest"
      PROVE  OwnInv'
  <2>1. /\ call'[c].says = call[c].says /\ call'[c].wrote = Len(log') /\ call'[c].life = restarts
        /\ restarts' = restarts /\ restarts \in Nat /\ Others(c)
    BY <1>5 DEF Appended, Continues, AppendEvent, CountInv
  <2>2. ASSUME call[c].says.prefers
        PROVE  Len(log') \in Appends'
    <3> DEFINE meta == [subject |-> Named(call[c].says.subject), predicate |-> Preference,
                        scope |-> call[c].says.scope]
               e == [did |-> "append", ref |-> NextRef, meta |-> meta, by |-> c,
                     try |-> call[c].tries]
    <3>1. log' = Append(log, e) /\ e.did = "append"
      BY <1>5, <2>2 DEF AppendEvent
    <3> HIDE DEF e
    <3> QED
      BY <3>1, LogGrows
  <2>3. Recalls(c)'
    BY <1>5, <2>1, <2>2 DEF Recalls, At
  <2> QED
    BY <1>3, <2>1, <2>3
<1>6. ASSUME NEW c \in Calls, ReadManifest(c)
      PROVE  OwnInv'
  <2>1. /\ call'[c].at = "plan" /\ Others(c) /\ UNCHANGED <<log, restarts, handles>>
        /\ call'[c].says = call[c].says /\ call'[c].wrote = call[c].wrote
        /\ call'[c].life = call[c].life /\ call'[c].manifest = handles
        /\ call'[c].read = Len(log) /\ call'[c].readLife = restarts
    BY <1>6 DEF ReadManifest, Continues, server
  <2>2. /\ call[c].life \in Nat /\ call[c].life <= restarts
        /\ call[c].life = restarts /\ call[c].says.prefers => call[c].wrote \in Appends
    BY <1>6 DEF OwnInv, Recalls, ReadManifest
  <2>3. restarts \in Nat /\ Len(log) \in 0..Len(log)
    BY DEF CountInv, LogInv
  <2>4. Own(c)'
    <3>1. SUFFICES ASSUME call[c].says.prefers, call[c].life = restarts
                   PROVE  LET own == log[call[c].wrote] IN
                          \/ own.ref \in DOMAIN handles /\ handles[own.ref] = own.meta
                          \/ ForgottenBetween(own.meta, call[c].wrote + 1, Len(log))
      BY <2>1 DEF Own, ForgottenBetween
    <3>2. call[c].wrote \in Appends
      BY <2>2, <3>1
    <3>3. CASE call[c].wrote \in Remembered
      BY <3>3 DEF MemoryInv
    <3>4. CASE call[c].wrote \notin Remembered
      BY <3>2, <3>4 DEF Remembered
    <3> QED
      BY <3>3, <3>4
  <2>5. Appends' = Appends
    BY <2>1 DEF Appends
  <2>6. Recalls(c)'
    BY <2>1, <2>2, <2>3, <2>4, <2>5 DEF Recalls, At
  <2> QED
    BY <1>3, <2>1, <2>6
<1>7. ASSUME UNCHANGED call
      PROVE  OwnInv'
  BY <1>2, <1>7 DEF OwnInv
<1>8. ASSUME NEW c \in Calls
      PROVE  /\ Intake(c) => Others(c) /\ call'[c].at \notin {"manifest", "plan"}
             /\ Quiet(c) => Others(c) /\ call'[c].at \notin {"manifest", "plan"}
             /\ Appended(c) => Others(c) /\ call'[c].at \in {"manifest", "refused"}
  BY DEF Intake, Quiet, Appended, Continues
<1>9. (\E filter \in Filters : Forget(filter)) \/ Restart \/ UNCHANGED vars => UNCHANGED call
  BY DEF Forget, Restart, vars
<1> QED
  BY <1>4, <1>5, <1>6, <1>7, <1>8, <1>9, NextCases

-----------------------------------------------------------------------------
\* Where the handles of a plan come from

\* The entries that may have forgotten a memory after a step.
LEMMA ForgottenNext ==
    ASSUME NEW meta, NEW from, NEW to
    PROVE  ForgottenBetween(meta, from, to)' <=>
             \E j \in from..to : log'[j].did = "forget" /\ meta \in Covered(log'[j].filter)
  BY DEF ForgottenBetween

\* What was in the memory at some time stays so.
LEMMA InMemoryStays ==
    ASSUME LogInv, NEW e, log' = Append(log, e), NEW h, NEW meta, NEW read \in 0..Len(log),
           InMemory(h, meta, read)
    PROVE  InMemory(h, meta, read)'
<1>1. /\ Len(log) \in Nat /\ DOMAIN log = 1..Len(log) /\ Len(log') = Len(log) + 1
      /\ Appends \subseteq Appends' /\ \A i \in DOMAIN log : log'[i] = log[i]
  BY LogGrows
<1>2. PICK i \in Appends :
         i <= read /\ log[i].ref = h /\ log[i].meta = meta /\ ~ForgottenBetween(meta, i + 1, read)
  BY DEF InMemory
<1>3. i \in Appends' /\ i \in DOMAIN log /\ log'[i] = log[i]
  BY <1>1, <1>2 DEF Appends
<1>4. \A j \in (i + 1)..read : log'[j] = log[j]
  BY <1>1, <1>3
<1>5. ~ForgottenBetween(meta, i + 1, read)'
  <2>1. ~\E j \in (i + 1)..read : log[j].did = "forget" /\ meta \in Covered(log[j].filter)
    BY <1>2 DEF ForgottenBetween
  <2>2. ~\E j \in (i + 1)..read : log'[j].did = "forget" /\ meta \in Covered(log'[j].filter)
    BY <1>4, <2>1
  <2> QED
    BY <2>2, ForgottenNext
<1> QED
  BY <1>2, <1>3, <1>5 DEF InMemory

\* What a call has read stays in the log while others append and forget, and is
\* no claim about another server.
LEMMA SourcesStay ==
    ASSUME LogInv, CountInv, NEW c \in Calls, Sources(c),
           call'[c].at \in {"plan", "execute", "stalled"} =>
               /\ call[c].at \in {"plan", "execute", "stalled"}
               /\ call'[c].manifest = call[c].manifest /\ call'[c].read = call[c].read
               /\ call'[c].readLife = call[c].readLife,
           \/ UNCHANGED <<log, restarts>>
           \/ (\E e : log' = Append(log, e)) /\ UNCHANGED restarts
           \/ restarts' = restarts + 1
    PROVE  Sources(c)'
<1> SUFFICES ASSUME call'[c].at \in {"plan", "execute", "stalled"}
             PROVE  /\ call[c].readLife \in Nat /\ call[c].readLife <= restarts'
                    /\ call[c].readLife = restarts' =>
                          /\ call[c].read \in 0..Len(log')
                          /\ \A h \in DOMAIN call[c].manifest :
                                InMemory(h, call[c].manifest[h], call[c].read)'
  BY DEF Sources, InMemory
<1>1. /\ call[c].readLife \in Nat /\ call[c].readLife <= restarts
      /\ call[c].readLife = restarts =>
            /\ call[c].read \in 0..Len(log)
            /\ \A h \in DOMAIN call[c].manifest : InMemory(h, call[c].manifest[h], call[c].read)
  BY DEF Sources
<1>2. CASE UNCHANGED <<log, restarts>>
  BY <1>1, <1>2 DEF InMemory, Appends, ForgottenBetween
<1>3. CASE restarts' = restarts + 1
  BY <1>1, <1>3 DEF CountInv
<1>4. CASE (\E e : log' = Append(log, e)) /\ UNCHANGED restarts
  <2>1. Len(log) \in Nat /\ Len(log') = Len(log) + 1
    BY <1>4, LogGrows
  <2> QED
    BY <1>1, <1>4, <2>1, InMemoryStays
<1> QED
  BY <1>2, <1>3, <1>4

\* Every step keeps what the manifests hold.
LEMMA NextSource ==
    ASSUME CallsInv, ChatInv, CountInv, LogInv, MemoryInv, SourceInv, [Next]_vars
    PROVE  SourceInv'
<1>1. \/ UNCHANGED <<log, restarts>>
      \/ (\E e : log' = Append(log, e)) /\ UNCHANGED restarts
      \/ restarts' = restarts + 1
  BY NextCases DEF AppendEvent, Intake, ReadManifest, Quiet, Forget, Restart, server, vars
<1>2. \A c \in Calls : call'[c] = call[c] => Sources(c)'
  BY <1>1, SourcesStay DEF SourceInv
<1>3. ASSUME NEW c \in Calls, Others(c), Sources(c)'
      PROVE  SourceInv'
  BY <1>2, <1>3 DEF SourceInv, Others
<1>4. ASSUME NEW c \in Calls, Intake(c) \/ Appended(c)
      PROVE  SourceInv'
  BY <1>3, <1>4 DEF Intake, Appended, Continues, Sources
<1>5. ASSUME NEW c \in Calls, Quiet(c)
      PROVE  SourceInv'
  <2>1. Sources(c)'
    BY <1>1, <1>5, SourcesStay DEF SourceInv, Quiet, Carries
  <2> QED
    BY <1>3, <1>5, <2>1 DEF Quiet, Continues
<1>6. ASSUME NEW c \in Calls, ReadManifest(c)
      PROVE  SourceInv'
  <2>1. /\ Others(c) /\ UNCHANGED <<log, restarts, handles>> /\ call'[c].manifest = handles
        /\ call'[c].read = Len(log) /\ call'[c].readLife = restarts
    BY <1>6 DEF ReadManifest, Continues, server
  <2>2. restarts \in Nat /\ Len(log) \in Nat /\ DOMAIN log = 1..Len(log)
    BY DEF CountInv, LogInv
  <2>3. \A h \in DOMAIN handles : InMemory(h, handles[h], Len(log))
    <3>1. TAKE h \in DOMAIN handles
    <3>2. PICK i \in Remembered : log[i].ref = h /\ handles[h] = log[i].meta
      BY DEF MemoryInv
    <3>3. i \in Appends /\ i <= Len(log) /\ ~ForgottenBetween(log[i].meta, i + 1, Len(log))
      BY <2>2, <3>2 DEF Remembered, Appends
    <3> QED
      BY <3>2, <3>3 DEF InMemory
  <2>4. \A h \in DOMAIN handles : InMemory(h, handles[h], Len(log))'
    BY <2>1, <2>3 DEF InMemory, Appends, ForgottenBetween
  <2>5. Sources(c)'
    BY <2>1, <2>2, <2>3, <2>4 DEF Sources, InMemory, Appends, ForgottenBetween
  <2> QED
    BY <1>3, <2>1, <2>5
<1>7. ASSUME UNCHANGED call
      PROVE  SourceInv'
  BY <1>2, <1>7 DEF SourceInv
<1>8. (\E filter \in Filters : Forget(filter)) \/ Restart \/ UNCHANGED vars => UNCHANGED call
  BY DEF Forget, Restart, vars
<1> QED
  BY <1>4, <1>5, <1>6, <1>7, <1>8, NextCases

-----------------------------------------------------------------------------
\* The theorems

Inv == CallsInv /\ CountInv /\ LogInv /\ MemoryInv /\ OwnInv /\ ChatInv /\ SourceInv

\* The parts of the invariant hold together at the start.
LEMMA InitInv == Init => Inv
<1> SUFFICES ASSUME Init PROVE Inv
  OBVIOUS
<1>1. /\ call = [c \in Calls |-> NotAsked] /\ mode \in Modes /\ log = <<>> /\ handles = <<>>
      /\ nextEvent = Already /\ nextHandle = Already /\ restarts = 0
  BY DEF Init, ServerInit
<1>2. DOMAIN call = Calls /\ \A c \in Calls : call[c].at = "idle"
  BY <1>1 DEF NotAsked
<1>3. CallsInv
  BY <1>1, <1>2 DEF CallsInv, Asked, At, Steps
<1>4. CountInv
  <2>1. Spent = {}
    BY <1>2 DEF Spent, At
  <2> QED
    BY <1>1, <2>1, Bounds, FS_EmptySet DEF CountInv
<1>5. DOMAIN log = {} /\ Appends = {} /\ DOMAIN handles = {}
  BY <1>1 DEF Appends
<1>6. LogInv
  BY <1>1, <1>5 DEF LogInv, AttemptsStoreOnce
<1>7. MemoryInv
  BY <1>5 DEF MemoryInv, Remembered
<1>8. OwnInv
  BY <1>2 DEF OwnInv, Recalls, At
<1>9. ChatInv
  BY <1>2 DEF ChatInv, FallbackChatsAnswered, At
<1>10. SourceInv
  BY <1>2 DEF SourceInv, Sources
<1> QED
  BY <1>3, <1>4, <1>6, <1>7, <1>8, <1>9, <1>10 DEF Inv

\* The inductive invariant of the service and its callers.
LEMMA InvCorrect == Spec => []Inv
<1>1. Inv /\ [Next]_vars => Inv'
  BY NextCalls, NextCount, NextLog, NextMemory, NextOwn, NextChat, NextSource DEF Inv
<1> QED
  BY <1>1, InitInv, PTL DEF Spec

\* For any number of calls and attempts: the counters stay within the events
\* that were sent, and every memory is well formed.
THEOREM TypeTheorem == Spec => []TypeOK
<1>1. Inv => TypeOK
  <2> SUFFICES ASSUME Inv PROVE TypeOK
    OBVIOUS
  <2>1. nextEvent \in 0..(Already + Cardinality(Calls) * MaxTries) /\ nextHandle \in 0..nextEvent
    <3>1. Spent \subseteq Calls \X (1..MaxTries)
      BY DEF Spent
    <3>2. Cardinality(Spent) \in Nat /\ Cardinality(Spent) <= Cardinality(Calls) * MaxTries
      BY <3>1, AttemptsFinite
    <3>3. Cardinality(Calls) \in Nat
      BY Bounds, FS_CardinalityType
    <3>4. Cardinality(Calls) * MaxTries \in Nat
      BY <3>3, Bounds
    <3> QED
      BY <3>2, <3>4, Bounds DEF Inv, CountInv
  <2>2. DOMAIN handles \subseteq 1..nextHandle /\ \A h \in DOMAIN handles : handles[h] \in Meta
    <3>1. \A i \in Remembered : log[i].ref \in 1..nextHandle /\ log[i].meta \in Meta
      BY DEF Inv, LogInv, Remembered, Entry
    <3> QED
      BY <3>1 DEF Inv, MemoryInv
  <2> QED
    BY <2>1, <2>2 DEF Inv, CallsInv, TypeOK, Steps
<1> QED
  BY <1>1, InvCorrect, PTL

\* For any number of calls: in whatever order they append and forget, the memory
\* is what the log leaves.
THEOREM ReplayTheorem == Spec => []MemoryIsReplay
<1>1. Inv => MemoryIsReplay
  <2> SUFFICES ASSUME LogInv, MemoryInv PROVE MemoryIsReplay
    BY DEF Inv
  <2>1. DOMAIN handles = {log[i].ref : i \in Remembered}
        /\ \A i \in Remembered : handles[log[i].ref] = log[i].meta
    BY DEF MemoryInv
  <2>2. {<<h, handles[h]>> : h \in DOMAIN handles} = {<<log[i].ref, log[i].meta>> : i \in Remembered}
    BY <2>1
  <2>3. Cardinality(DOMAIN handles) = Cardinality(Remembered)
    <3> DEFINE f == [i \in Remembered |-> log[i].ref]
    <3>1. IsFiniteSet(Remembered)
      <4>1. Len(log) \in Nat /\ DOMAIN log = 1..Len(log)
        BY DEF LogInv
      <4>2. Remembered \subseteq 1..Len(log)
        BY <4>1 DEF Remembered, Appends
      <4>3. IsFiniteSet(1..Len(log))
        BY <4>1, FS_Interval
      <4> QED
        BY <4>2, <4>3, FS_Subset
    <3>2. /\ f \in [Remembered -> DOMAIN handles]
          /\ \A i, j \in Remembered : f[i] = f[j] => i = j
          /\ \A h \in DOMAIN handles : \E i \in Remembered : f[i] = h
      BY <2>1 DEF LogInv, Remembered
    <3> HIDE DEF f
    <3>3. f \in Bijection(Remembered, DOMAIN handles)
      BY <3>2, Fun_IsBij
    <3>4. ExistsBijection(Remembered, DOMAIN handles)
      BY <3>3, Fun_ExistsBij
    <3> QED
      BY <3>1, <3>4, FS_Bijection
  <2> QED
    BY <2>2, <2>3 DEF MemoryIsReplay
<1> QED
  BY <1>1, InvCorrect, PTL

\* For any number of calls: a call reads its own write.
THEOREM OwnWritesTheorem == Spec => []ReadYourWrites
<1>1. Inv => ReadYourWrites
  BY DEF Inv, OwnInv, Recalls, Own, ReadYourWrites
<1> QED
  BY <1>1, InvCorrect, PTL

\* For any number of calls and plans from anywhere: what is sent to be executed
\* fetches only what the memory held when the call read it.
THEOREM FetchTheorem == Spec => []FetchesFromMemory
<1>1. Inv => FetchesFromMemory
  BY DEF Inv, SourceInv, Sources, ChatInv, At, FetchesFromMemory
<1> QED
  BY <1>1, InvCorrect, PTL

\* For any number of calls, attempts and lost responses: one attempt stores once.
THEOREM OnceTheorem == Spec => []AttemptsStoreOnce
<1>1. Inv => AttemptsStoreOnce
  BY DEF Inv, LogInv
<1> QED
  BY <1>1, InvCorrect, PTL

\* For every mapping of keys: what comes with a key is stored under its owner.
THEOREM OwnerTheorem == Spec => []StoredUnderKeyOwner
<1>1. Inv => StoredUnderKeyOwner
  BY DEF Inv, LogInv, Entry, StoredUnderKeyOwner
<1> QED
  BY <1>1, InvCorrect, PTL

\* For any number of calls: the fallback's chats are not told that their plan
\* was bad.
THEOREM FallbackChatsTheorem == Spec => []FallbackChatsAnswered
<1>1. Inv => FallbackChatsAnswered
  BY DEF Inv, ChatInv
<1> QED
  BY <1>1, InvCorrect, PTL

\* Every step of a call, in any state the invariant allows, brings its attempt
\* further, or starts another.
LEMMA NextGoesOn ==
    ASSUME Inv, [Next]_vars, NEW c \in Calls
    PROVE  \/ UNCHANGED call[c]
           \/ At(c, "refused") /\ call'[c].tries = call[c].tries + 1
           \/ Stage(c) < Stage(c)' /\ (~At(c, "idle") => call'[c].tries = call[c].tries)
<1>1. call[c].at \in Steps /\ CallsInv /\ ChatInv
  BY DEF Inv, CallsInv
<1>2. ASSUME NEW d \in Calls, Others(d), d # c
      PROVE  UNCHANGED call[c]
  BY <1>2 DEF Others
<1>3. CASE Intake(c)
  BY <1>3 DEF Intake, Stage, At, Ended
<1>4. CASE Appended(c)
  BY <1>4 DEF Appended, Continues, Stage, At, Ended
<1>5. CASE ReadManifest(c)
  BY <1>5 DEF ReadManifest, Continues, Stage, At, Ended
<1>6. CASE Quiet(c)
  <2>1. call'[c].tries = call[c].tries
    BY <1>6 DEF Quiet, Continues
  <2>2. CASE call'[c].at = "execute"
    <3>1. Stage(c)' = IF Waits(c)' THEN 4 ELSE 6
      BY <2>2 DEF Stage, At, Ended
    <3>2. CASE At(c, "plan")
      <4>1. Stage(c) = 3
        BY <3>2 DEF Stage, At, Ended
      <4> QED
        BY <2>1, <3>1, <4>1
    <3>3. CASE At(c, "stalled") /\ ~Waits(c)'
      <4>1. Stage(c) = 5
        BY <3>3 DEF Stage, At, Ended
      <4> QED
        BY <2>1, <3>1, <3>3, <4>1
    <3> QED
      BY <1>6, <2>2, <3>2, <3>3 DEF Quiet
  <2>3. CASE call'[c].at = "stalled"
    <3>1. Stage(c)' = 5
      BY <2>3 DEF Stage, At, Ended
    <3>2. At(c, "execute") /\ Waits(c)
      BY <1>6, <2>3 DEF Quiet
    <3>3. Stage(c) = 4
      BY <3>2 DEF Stage, At, Ended
    <3> QED
      BY <2>1, <3>1, <3>3
  <2>4. CASE call'[c].at \in Ended
    <3>1. Stage(c)' = 7
      BY <2>4 DEF Stage, At, Ended
    <3>2. call[c].at \in {"append", "manifest", "plan", "execute", "stalled"}
      BY <1>1, <1>6 DEF Quiet, Steps
    <3>3. Stage(c) \in 1..6
      BY <3>2 DEF Stage, At, Ended
    <3> QED
      BY <2>1, <3>1, <3>3
  <2> QED
    BY <1>6, <2>2, <2>3, <2>4 DEF Quiet, Ended
<1>7. \/ \E d \in Calls : Intake(d) \/ Appended(d) \/ ReadManifest(d) \/ Quiet(d)
      \/ UNCHANGED call
  BY <1>1, NextCases DEF Forget, Restart, vars
<1>8. \A d \in Calls : Intake(d) \/ Appended(d) \/ ReadManifest(d) \/ Quiet(d) => Others(d)
  BY DEF Intake, Appended, ReadManifest, Quiet, Continues
<1> QED
  BY <1>2, <1>3, <1>4, <1>5, <1>6, <1>7, <1>8

\* For any number of calls, whatever is lost, stalls, fails or restarts: no step
\* sends a call back, and an attempt takes at most seven.
THEOREM ProgressTheorem == Spec => CallsNeverGoBack
<1>1. Inv /\ [Next]_vars =>
        [\A c \in Calls :
            \/ UNCHANGED call[c]
            \/ At(c, "refused") /\ call'[c].tries = call[c].tries + 1
            \/ Stage(c) < Stage(c)' /\ (~At(c, "idle") => call'[c].tries = call[c].tries)]_vars
  BY NextGoesOn
<1> QED
  BY <1>1, InvCorrect, PTL DEF Spec, CallsNeverGoBack

=============================================================================
