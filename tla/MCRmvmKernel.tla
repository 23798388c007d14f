---------------------------- MODULE MCRmvmKernel ----------------------------
(***************************************************************************)
(* Small requests for RmvmKernel: three handles of different readiness,    *)
(* trust and taint, plans of up to six steps that chain the operations in *)
(* every order that type-checks and in several that do not, and a few      *)
(* malformed plans for the static check, plans with many assertions, and   *)
(* the fallback plans for what the service lists.                          *)
(***************************************************************************)
EXTENDS PlanGuard, AssertionProof

MCRefs == 1..4                                   \* ref 4 is never listed
MCRowCost == [n \in 1..3 |-> <<100, 230, 374>>[n]]  \* n^1.2 in hundredths

-----------------------------------------------------------------------------
\* Handles: what varies is readiness, tier, taint and age

Profile(availability, trust, taint, valid_from) ==
    [availability |-> availability, trust |-> trust, taint |-> taint, valid_from |-> valid_from]

Good == Profile("READY", 4, {"USER"}, 1)
Newer == Profile("READY", 4, {"TOOL"}, 2)
Web == Profile("READY", 4, {"WEB_UNTRUSTED"}, 2)
Low == Profile("READY", 2, {"USER"}, 2)
Cold == Profile("ARCHIVAL_PENDING", 4, {}, 2)
Mixed == Profile("READY", 5, {"MIXED"}, 0)

Handle(p, subject, type_id, group, signature, paths) ==
    [availability |-> p.availability, trust |-> p.trust, taint |-> p.taint,
     valid_from |-> p.valid_from, subject |-> subject, type_id |-> type_id,
     scope |-> "GLOBAL", group |-> group, signature |-> signature, paths |-> paths]

ThreeHandles(p1, p2) ==
    <<Handle(p1, "vinz", "pref", "g", "sig1", {"meta.subject", "meta.valid_from"}),
      Handle(p2, "vinz", "fact", "g", "sig2", {"meta.subject"}),
      Handle(Mixed, "ada", "pref", "", "sig1", {"meta.subject", "meta.valid_from"})>>

StringSpec == [type |-> "STRING", enum |-> {}]
EnumSpec == [type |-> "SCOPE", enum |-> {"GLOBAL", "ORG"}]

Selector(return_type, weight) ==
    [return_type |-> return_type, cost_weight |-> weight,
     params |-> [p \in {"subject", "scope"} |-> IF p = "subject" THEN StringSpec ELSE EnumSpec]]

MCSelectors ==
    [s \in {"S0", "S1", "S2", "S3"} |->
        CASE s = "S0" -> Selector("HANDLE_SET", 125)
          [] s = "S1" -> Selector("HANDLE", 0)
          [] s = "S2" -> Selector("STRUCT", 100)
          [] OTHER -> Selector("UNSPECIFIED", 100)]

Tight == [max_ops |-> 5, max_join_depth |-> 1, max_fanout |-> 2, max_total_cost |-> 9 * Unit]
Wide == [max_ops |-> 0, max_join_depth |-> 2, max_fanout |-> 3, max_total_cost |-> 0]

ManifestOf(handles, budget) ==
    [request_id |-> "q", handles |-> handles, selectors |-> MCSelectors, budget |-> budget]

MCManifests ==
    {ManifestOf(ThreeHandles(Good, p), Wide) : p \in {Newer, Low, Cold, Web}}
    \cup {ManifestOf(ThreeHandles(Web, Newer), Wide), ManifestOf(ThreeHandles(Good, Low), Tight)}

-----------------------------------------------------------------------------
\* Steps and plans

Fetch(out, h) == [op |-> "FETCH", out |-> out, handle |-> h]
Select(out, sel, params) == [op |-> "APPLY_SELECTOR", out |-> out, sel |-> sel, params |-> params]
Resolve(out, in) == [op |-> "RESOLVE", out |-> out, in |-> in]
Filter(out, in, ref, args) ==
    [op |-> "FILTER", out |-> out, in |-> in, filter |-> [ref |-> ref, args |-> args]]
Join(out, l, r, edge) == [op |-> "JOIN", out |-> out, left |-> l, right |-> r, edge |-> edge]
Project(out, in, paths) == [op |-> "PROJECT", out |-> out, in |-> in, paths |-> paths]
Assert(out, type, binds, cites) ==
    [op |-> "ASSERT", out |-> out, type |-> type, binds |-> binds, cites |-> cites]
Missing(out) == [op |-> "MISSING", out |-> out]

Param(name, type, v) == [name |-> name, type |-> type, v |-> v]
Bind(name, reg, path) == [name |-> name, reg |-> reg, path |-> path]
Cite(variant, ref) == [variant |-> variant, ref |-> ref]
Plan(id, steps, outputs) == [request_id |-> id, steps |-> steps, outputs |-> outputs]

OfVinz == <<Param("subject", "STRING", "vinz")>>
OfNobody == <<Param("subject", "STRING", "nobody")>>   \* no handle is about nobody

First == {Fetch("a", 1), Fetch("a", 2), Select("a", "S0", OfVinz), Select("a", "S0", <<>>),
          Select("a", "S1", <<>>), Select("a", "S2", OfVinz)}
Second == {Fetch("b", 2), Fetch("b", 3), Filter("b", "a", "trust_at_least", {3}),
           Project("b", "a", {"meta.subject"})}
Third == {Join("c", "a", "b", e) : e \in {"CONFLICTS_WITH", "SUPERSEDES", "SAME_ENTITY"}}
         \cup {Resolve("c", "a"), Filter("c", "a", "by_subject", {"vinz"}), Join("c", "b", "b", "PROVENANCE")}
Fourth == {Project("d", "c", {"meta.subject"}), Project("d", "c", {"set_count", "meta.valid_from"}),
           Project("d", "a", {"subject", "matched_count"}), Join("d", "c", "a", "SAME_ENTITY")}
Fifth == {Assert("e", type, binds, cites) :
            type \in {"PROCEDURE", "WORLD_FACT"},
            binds \in {<<Bind("x", "d", "meta.subject")>>,
                       <<Bind("x", "a", "meta.subject"), Bind("y", "d", "set_count")>>},
            cites \in {<<>>, <<Cite("handle", 3)>>}}

Pipelines ==
    {Plan("q", <<a, b, c, d, e>>, {}) : a \in First, b \in Second, c \in Third, d \in Fourth, e \in Fifth}

\* Two joins, or a join and a choice, before the projection.
DeepPlans ==
    {Plan("q", <<a, b, c, d, Project("e", "d", {"meta.subject"}),
                 Assert("f", type, <<Bind("x", "e", "meta.subject")>>, <<>>)>>, {}) :
        a \in First, b \in Second,
        c \in {Join("c", "a", "b", e) : e \in {"SAME_ENTITY", "PROVENANCE"}},
        d \in {Join("d", "c", "b", "SAME_ENTITY"), Resolve("d", "c"), Filter("d", "c", "trust_at_least", {4})},
        type \in {"USER_PREFERENCE", "WORLD_FACT"}}

\* Assertions of what a selector's struct holds.
StructPlans(params) ==
    {Plan("q", <<Select("a", "S2", params), Project("b", "a", {p}),
                 Assert("c", "WORLD_FACT", <<Bind("x", "b", p)>>, <<>>)>>, {}) :
        p \in {"subject", "matched_count", "scope"}}

\* Two asserts, outputs without any, projections of an assertion, and selector structs.
ShortPlans ==
    {Plan("q", <<Fetch("a", 1), Project("b", "a", {"meta.subject"}),
                 Assert("c", "WORLD_FACT", <<Bind("x", "b", "meta.subject")>>, <<Cite("anchor", 2)>>),
                 Project("d", "c", {"x"}),
                 Assert("e", t, <<Bind("y", "d", "x")>>, <<>>)>>, {"e"}) : t \in {"DECISION", "UNSPECIFIED"}}
    \cup {Plan("q", <<s>>, {"a"}) : s \in First}
    \cup StructPlans(OfNobody)
    \cup {Plan("q", <<Fetch("a", h), Project("b", "a", {"meta.subject"})>>, {"b"}) : h \in {1, 2}}
    \cup {Plan("q", <<Fetch("a", 2), Assert("b", "WORLD_FACT", <<Bind("x", "a", "meta.subject")>>, <<c>>)>>, {}) :
            c \in {Cite("handle", 3), Cite("handle", 4), Cite("anchor", 3), Cite("none", 3)}}
    \cup {Plan("q", <<Select("a", "S0", OfVinz), Resolve("b", "a"), Project("c", "b", {"meta.subject"}),
                      Assert("d", "DECISION", <<Bind("x", "c", "meta.subject")>>, <<>>)>>, {})}
    \cup {Plan("q", <<Assert("a", t, <<>>, <<>>)>>, {}) : t \in {"WORLD_FACT", "DECISION"}}

\* Plans the static check is for.
OddPlans ==
    {Plan(id, <<Fetch("a", 1)>>, {"a"}) : id \in {"", "other"}}
    \cup {Plan("q", <<Fetch("a", 1), s>>, {}) :
            s \in {Fetch("", 1), Fetch(" ", 1), Fetch("a", 2), Fetch("b", 4), Missing("b"),
                   Resolve("b", "b"), Resolve("b", "z"), Filter("b", "a", "by_type", {}),
                   Filter("b", "a", "unknown", {"x"}), Join("b", "a", "z", "SUPERSEDES"),
                   Join("b", "a", "b", "SUPERSEDES"), Join("b", "a", "a", "UNSPECIFIED"),
                   Project("b", "z", {}), Assert("b", "WORLD_FACT", <<Bind("x", "b", "p")>>, <<>>),
                   Assert("b", "WORLD_FACT", <<Bind("x", "a", "p"), Bind("y", "z", "p")>>, <<>>),
                   Select("b", "S9", <<>>), Select("b", "S3", <<>>),
                   Select("b", "S1", <<Param("subject", "STRING", "nobody")>>),
                   Select("b", "S0", <<Param("scope", "ENUM", "GLOBAL")>>),
                   Select("b", "S0", <<Param("scope", "ENUM", "PERSON")>>),
                   Select("b", "S0", <<Param("type_id", "STRING", "pref")>>),
                   Select("b", "S0", <<Param("subject", "INT64", 1)>>)}}
    \cup {Plan("q", <<Fetch("a", 1)>>, {"z"})}
    \cup {Plan("q", <<Select("a", "S0", <<>>), Join("b", "a", "a", "SAME_ENTITY"),
                      Join("c", "b", "a", "SUPERSEDES"), Join("d", l, "c", "SAME_ENTITY")>>, {"c"}) :
            l \in {"a", "b"}}
    \cup {Plan("q", <<Fetch("a", 1), Fetch("b", 2), Fetch("c", 3), Fetch("d", 1), Fetch("e", 1), Fetch("f", 1)>>, {"a"}),
          Plan("q", <<Select("a", "S0", OfVinz), Select("b", "S0", OfVinz), Select("c", "S0", OfVinz),
                      Select("d", "S0", OfVinz)>>, {"a"})}

-----------------------------------------------------------------------------
\* Options and requests

Narrated(i, field) == [assertion |-> i, field |-> field]
Template(grammatical, binds) == [grammatical |-> grammatical, binds |-> binds]

MCOptions(partial, degraded, broken, templates) ==
    [allow_partial |-> partial, degraded |-> degraded, broken |-> broken, templates |-> templates]

Strict == MCOptions(FALSE, FALSE, {2}, <<>>)
Partial == MCOptions(TRUE, FALSE, {3}, <<>>)
Degraded == MCOptions(FALSE, TRUE, {2}, <<Template(TRUE, <<Narrated(1, "x")>>)>>)
Clean == MCOptions(FALSE, FALSE, {}, <<>>)
BadTemplate == MCOptions(FALSE, FALSE, {}, <<Template(TRUE, <<>>), Template(FALSE, <<>>)>>)
BadIndex == MCOptions(FALSE, FALSE, {}, <<Template(TRUE, <<Narrated(1, "x"), Narrated(TooLong, "x")>>)>>)

Both == {"manifest", "plan"}

RequestsOf(manifests, plans, opts) ==
    [manifest : manifests, plan : plans, opts : opts, sent : {Both}]

\* Up to six assertions, some of them equal.
ManyAsserts ==
    {Plan("q", <<Fetch("a", 1), Project("b", "a", {"meta.subject", "meta.valid_from"})>> \o
               [i \in 1..n |-> Assert(<<"e", "f", "g", "h", "i", "j">>[i],
                                     <<"WORLD_FACT", "PROCEDURE", "WORLD_FACT">>[(i % 3) + 1],
                                     <<Bind("x", "b", IF i > 4 THEN "meta.valid_from" ELSE "meta.subject")>>, <<>>)],
          {}) : n \in 0..6}

\* Requests that lack their manifest, their plan or both.
HalfRequests ==
    [manifest : {ManifestOf(ThreeHandles(Good, Newer), Wide)}, plan : ManyAsserts, opts : {Clean},
     sent : SUBSET Both \ {Both}]

FallbackRequests ==
    UNION {RequestsOf({m}, FallbackPlans("q", "vinz", m), {ServedOptions}) :
              m \in {ServedManifest("q", subjects) :
                        subjects \in UNION {[hs -> {"vinz", "ada"}] : hs \in SUBSET {1, 2, 3}}}}

MCRequests ==
    FallbackRequests \cup HalfRequests
    \cup RequestsOf({ManifestOf(ThreeHandles(Good, Newer), Wide)}, ManyAsserts, {Clean})
    \cup RequestsOf(MCManifests, Pipelines \cup DeepPlans, {Strict, Partial})
    \cup RequestsOf(MCManifests, ShortPlans \cup StructPlans(OfVinz) \cup OddPlans,
                    {Strict, Partial, Degraded, BadTemplate, BadIndex, Clean})

\* For the runs of the documents' claims: the short plans are enough.
ShortRequests == RequestsOf(MCManifests, ShortPlans, {Strict, BadTemplate, Clean})

=============================================================================
