------------------------------ MODULE ProxyChat -----------------------------
(***************************************************************************)
(* A chat completion of the proxy (cortex-app, proxy.rs): who it speaks    *)
(* for, what it stores, where its plan comes from and what the client is   *)
(* told.  The store that maps keys to users is opened and read once per    *)
(* chat and may fail just then (BrainStore has the reasons).  A plan is    *)
(* abstracted to the handles it fetches and whether it is sound, that is,  *)
(* keeps the kernel's rules and names no other request.                    *)
(***************************************************************************)
EXTENDS MemoryService

CONSTANT KeyOwner     \* the subject of every mapped API key

VARIABLE mode         \* the proxy's planner mode

Local == "user:local"

Modes == {"openai", "byo", "fallback"}

ASSUME ProxyAssumption ==
    /\ Via("proxy") \subseteq [via : {"proxy"}, asks : {"chat", "stream", "nothing"},
                               auth : STRING, user : Subjects \cup {""}, prefers : BOOLEAN,
                               header : {"none", "given"}]
    /\ \A key \in DOMAIN KeyOwner : KeyOwner[key] \in Subjects \cup {""}
    /\ Local \in Subjects /\ "GLOBAL" \in Scopes

-----------------------------------------------------------------------------
\* resolve_context

Keyless(request) == request.auth = "none"

\* How a chat finds the store: its folders cannot be made, what it looks up (a
\* key, or a brain for a chat without one) cannot be had, or can.
StoreStates == {"shut", "unreadable", "readable"}

\* The first reason to refuse a chat, "none" when there is none.
IntakeCode(request, store) ==
    IF request.asks = "stream" THEN "stream_not_supported"
    ELSE IF request.asks = "nothing" THEN "missing_user_message"
    ELSE IF store = "shut" THEN BadGateway
    ELSE IF request.auth = "garbled" THEN "invalid_auth_header"
    ELSE IF Keyless(request) THEN IF store = "readable" THEN "none" ELSE "auth_required"
    ELSE IF store = "unreadable" THEN BadGateway
    ELSE IF request.auth \in DOMAIN KeyOwner THEN "none" ELSE "auth_failed"

\* Mutant: the user field of the request comes first.
MutSpeaker(request) ==
    IF request.user # "" THEN request.user
    ELSE IF request.auth \in DOMAIN KeyOwner THEN KeyOwner[request.auth] ELSE Local

Speaker(request) ==
    IF ~Keyless(request) THEN KeyOwner[request.auth]
    ELSE IF request.user # "" THEN request.user ELSE Local

-----------------------------------------------------------------------------
\* handle_chat_completion

Receive(c, request, tries) ==
    \E store \in StoreStates :
        LET code == IntakeCode(request, store)
            says == [subject |-> Speaker(request), prefers |-> request.prefers, scope |-> "GLOBAL"]
            came(step, fields) == Also([at |-> step, request |-> request, tries |-> tries], fields)
        IN  call' = [call EXCEPT ![c] =
                IF code = "none" THEN came("append", [says |-> says])
                                 ELSE came("refused", [code |-> code])]

ProxyUnchanged == UNCHANGED <<server, mode>>

Chat(c, request) == At(c, "idle") /\ Receive(c, request, 1) /\ ProxyUnchanged

\* A client asks again, in the same words, what failed behind the proxy.
ChatAgain(c) ==
    /\ At(c, "refused") /\ call[c].request.via = "proxy"
    /\ call[c].code = BadGateway /\ call[c].tries < MaxTries
    /\ Receive(c, call[c].request, call[c].tries + 1)
    /\ ProxyUnchanged

\* Mutant: the fallback plan fetches the handle that the chat appended.
MutFallbackFetches(c) ==
    IF call[c].says.prefers /\ call[c].life = restarts THEN {log[call[c].wrote].ref} ELSE {}

\* deterministic_plan_from_manifest: the first handle, or a selector when there
\* is none.
FallbackFetches(c) ==
    LET listed == DOMAIN call[c].manifest IN
    IF listed = {} THEN {} ELSE {FirstRef(listed)}

\* Mutant: a plan is not compared with the manifest.
MutSubmit(c, plan) == Executing(c, plan, {})

\* validate_plan_against_manifest, then Execute
Submit(c, plan) ==
    IF plan.fetches \subseteq DOMAIN call[c].manifest
    THEN Executing(c, plan, {})
    ELSE GivesUp(c, "invalid_plan")

\* Any plan of a header or a planner: an unsound one, or one that fetches no
\* handle or one, listed or not.
Unlisted == 0
AnyPlan(c) ==
    {Plan({}, FALSE), Plan({}, TRUE)}
        \cup {Plan({h}, TRUE) : h \in DOMAIN call[c].manifest \cup {Unlisted}}

Planning(c, header) ==
    /\ At(c, "plan") /\ call[c].request.via = "proxy" /\ call[c].request.header = header
    /\ ProxyUnchanged

\* The header comes before the mode.
PlanFromHeader(c) ==
    /\ Planning(c, "given")
    /\ (\E plan \in AnyPlan(c) : Submit(c, plan)) \/ GivesUp(c, "invalid_plan_header")

NoHeader(c) == mode = "byo" /\ Planning(c, "none") /\ GivesUp(c, "plan_header_required")

PlanByFallback(c) ==
    mode = "fallback" /\ Planning(c, "none") /\ Submit(c, Plan(FallbackFetches(c), TRUE))

\* request_openai_plan: the planner is asked within a time limit.
PlanByModel(c) ==
    /\ mode = "openai" /\ Planning(c, "none")
    /\ \/ \E plan \in AnyPlan(c) : Submit(c, plan)
       \/ GivesUp(c, BadGateway)
       \/ GivesUp(c, "planner_output_invalid")

ResolvePlan(c) ==
    \/ PlanFromHeader(c) \/ NoHeader(c) \/ PlanByFallback(c) \/ PlanByModel(c)

=============================================================================
