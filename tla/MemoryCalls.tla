----------------------------- MODULE MemoryCalls ----------------------------
(***************************************************************************)
(* The RMVM service with its clients: chats of the proxy, some of them     *)
(* asked again after a failure, programs on an SDK, Forget, lost           *)
(* responses, and restarts of the server, in every order.                  *)
(***************************************************************************)
EXTENDS ProxyChat, SdkClient

vars == <<server, call, mode>>

\* The handlers, as a call of c reaches them.
Serve(c) == (AppendEvent(c) \/ GetManifest(c) \/ Execute(c)) /\ UNCHANGED mode

Sdk(c) == (SdkPlan(c) \/ RetryStalled(c)) /\ UNCHANGED mode

\* The server is not there, or a connection breaks before it does anything.
Fail(c) ==
    /\ call[c].at \in {"append", "manifest", "execute"}
    /\ GivesUp(c, BadGateway)
    /\ UNCHANGED <<server, mode>>

Init ==
    /\ ServerInit
    /\ call = [c \in Calls |-> NotAsked]
    /\ mode \in Modes

Ended == {"answered", "refused"}

Finished == (\A c \in Calls : call[c].at \in Ended) /\ UNCHANGED vars

Goon(c) == Serve(c) \/ ResolvePlan(c) \/ Sdk(c)

Next ==
    \/ \E c \in Calls :
          \/ \E request \in Via("proxy") : Chat(c, request)
          \/ \E request \in Via("sdk") : Begin(c, request) /\ UNCHANGED mode
          \/ ChatAgain(c)
          \/ Goon(c)
          \/ Fail(c)
    \/ \E filter \in Filters : Forget(filter) /\ UNCHANGED mode
    \/ Restart /\ UNCHANGED mode
    \/ Finished

Spec == Init /\ [][Next]_vars

\* The runtime runs every task that can go on, the server and the planner's
\* client time out, and a connection delivers or breaks; nobody need ask, ask
\* again, forget or fail.
FairSpec == Spec /\ \A c \in Calls : WF_vars(Goon(c))

-----------------------------------------------------------------------------
\* Properties

\* The one type invariant: refs and events are within their counters.
TypeOK ==
    /\ nextEvent \in 0..(Already + Cardinality(Calls) * MaxTries) /\ nextHandle \in 0..nextEvent
    /\ DOMAIN handles \subseteq 1..nextHandle
    /\ \A h \in DOMAIN handles : handles[h] \in Meta
    /\ \A c \in Calls : call[c].at \in {"idle", "append", "manifest", "plan", "execute", "stalled"} \cup Ended
    /\ mode \in Modes

\* The memories a filter is about, as the request describes them.
Covered(filter) ==
    [subject   : IF filter.subject = "" THEN Subjects ELSE {filter.subject},
     predicate : IF filter.predicate = "" THEN Predicates ELSE {filter.predicate},
     scope     : IF filter.scope = "UNSPECIFIED" THEN Scopes ELSE {filter.scope}]

ForgottenBetween(meta, from, to) ==
    \E j \in from..to : log[j].did = "forget" /\ meta \in Covered(log[j].filter)

Appends == {i \in DOMAIN log : log[i].did = "append"}

Remembered == {i \in Appends : ~ForgottenBetween(log[i].meta, i + 1, Len(log))}

\* In whatever order calls append and forget: the memory holds each preference
\* that was appended and not forgotten later, under a ref of its own, although
\* refs are not in the order of their numbers.
MemoryIsReplay ==
    /\ {<<h, handles[h]>> : h \in DOMAIN handles} = {<<log[i].ref, log[i].meta>> : i \in Remembered}
    /\ Cardinality(DOMAIN handles) = Cardinality(Remembered)

\* A call reads its own write: the manifest it plans from lists the preference
\* it appended, unless that was forgotten or the server restarted in between.
ReadYourWrites ==
    \A c \in Calls :
        At(c, "plan") /\ call[c].says.prefers /\ call[c].life = restarts /\ call[c].readLife = restarts =>
            LET own == log[call[c].wrote] IN
            \/ own.ref \in DOMAIN call[c].manifest /\ call[c].manifest[own.ref] = own.meta
            \/ ForgottenBetween(own.meta, call[c].wrote + 1, call[c].read)

\* The preference that a manifest, read when the log had so many entries, lists
\* under a ref was appended under that ref, and not forgotten until then.
InMemory(h, meta, read) ==
    \E i \in Appends :
        i <= read /\ log[i].ref = h /\ log[i].meta = meta /\ ~ForgottenBetween(meta, i + 1, read)

\* A plan may come from anywhere: a header, a model, the fallback, an SDK.
\* Whatever a call sends to be executed, again after a stall too, fetches only
\* what the memory held under those refs when the call read it.
FetchesFromMemory ==
    \A c \in Calls :
        call[c].at \in {"execute", "stalled"} /\ call[c].readLife = restarts =>
            \A h \in call[c].plan.fetches : InMemory(h, call[c].manifest[h], call[c].read)

\* A client that asks again may store again, but one attempt stores once:
\* nobody sends a request twice, whatever becomes of its response.
AttemptsStoreOnce ==
    \A i, j \in Appends : log[i].by = log[j].by /\ log[i].try = log[j].try => i = j

\* The proxy enforces the mapping of keys before it calls the service: a
\* preference that came with a key is stored under the owner of that key, and
\* one that came with a key of nobody is not stored, in no attempt.
StoredUnderKeyOwner ==
    \A i \in Appends :
        LET request == call[log[i].by].request IN
        request.via = "proxy" /\ ~Keyless(request) =>
            request.auth \in DOMAIN KeyOwner /\ log[i].meta.subject = Named(KeyOwner[request.auth])

\* A chat that leaves the plan to the proxy's fallback is never told that its
\* plan was bad, whatever others append and forget while it is under way.
FallbackChatsAnswered ==
    \A c \in Calls :
        At(c, "refused") /\ mode = "fallback" /\ call[c].request.via = "proxy"
            /\ call[c].request.header = "none" =>
                call[c].code \notin {"invalid_plan", "rejected"}

\* How far an attempt has come.  One that fetches a handle it calls not ready is
\* sent before it stalls, and once more afterwards.
Waits(c) == call[c].plan.fetches \cap call[c].offline # {}

Stage(c) ==
    CASE At(c, "idle") -> 0
      [] At(c, "append") -> 1
      [] At(c, "manifest") -> 2
      [] At(c, "plan") -> 3
      [] At(c, "execute") -> IF Waits(c) THEN 4 ELSE 6
      [] At(c, "stalled") -> 5
      [] call[c].at \in Ended -> 7

\* Lost responses, stalls, retries, failures and restarts never send a call back:
\* each step of an attempt brings it further, an answer is final, and only a
\* chat that was refused starts over, in an attempt more.
CallsNeverGoBack ==
    [][\A c \in Calls :
        \/ UNCHANGED call[c]
        \/ At(c, "refused") /\ call'[c].tries = call[c].tries + 1
        \/ Stage(c) < Stage(c)' /\ (~At(c, "idle") => call'[c].tries = call[c].tries)]_vars

\* Every call that reaches the service ends, whatever others do to the server:
\* a stalled one too.
CallsEnd == \A c \in Calls : At(c, "append") ~> call[c].at \in Ended

-----------------------------------------------------------------------------
\* What the documents say and the code does not do

\* Forget is a "logical hide/block from future manifest selection and policy
\* usage": what an answer uses was not forgotten before it was given.
ForgottenIsNotUsed ==
    [][\A c \in Calls :
        At(c, "execute") /\ At(c, "answered")' /\ call[c].readLife = restarts =>
            \A h \in call[c].plan.fetches :
                ~ForgottenBetween(call[c].manifest[h], call[c].read + 1, Len(log))]_vars

=============================================================================
