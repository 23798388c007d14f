---------------------------- MODULE MemoryService ---------------------------
(***************************************************************************)
(* The RMVM gRPC service (crates/rmvm-grpc): its state and its handlers.   *)
(* A call of a client, the proxy (ProxyChat) or an SDK (SdkClient), asks   *)
(* four things in a row, AppendEvent, GetManifest, a plan and Execute,     *)
(* while other calls, Forget and restarts happen in between.  Each handler *)
(* holds the service's mutex and does not wait while it holds it: it is    *)
(* one step.                                                               *)
(*                                                                         *)
(* The text of a message is abstracted to whether it states a preference;  *)
(* a handle to its subject, predicate and scope.  Refs are the numbers of  *)
(* the code's "H1", "H2", ..., in the order of those strings.  A history   *)
(* variable, log, lists what the server has done since it started, in the  *)
(* order in which it did it.                                               *)
(***************************************************************************)
EXTENDS Naturals, Sequences, FiniteSets

CONSTANTS Calls,        \* what clients want, each asked for until it is done
          Requests,     \* what they ask, via the proxy or an SDK
          Subjects,     \* users
          Scopes,       \* memory scopes
          Filters,      \* what Forget is called with
          Already,      \* preferences appended and forgotten before
          MaxTries,     \* bound: how often a call is made
          MaxEvents     \* bound: restarts and, in this server's life, Forget calls

Anonymous == "user:unknown"

ASSUME ServiceAssumption ==
    /\ IsFiniteSet(Calls) /\ Anonymous \in Subjects
    /\ Filters \subseteq [subject : Subjects \cup {""}, predicate : {"prefers_beverage", "other", ""},
                          scope : Scopes \cup {"UNSPECIFIED"}]
    /\ {Already, MaxEvents} \subseteq Nat /\ MaxTries \in Nat \ {0}

VARIABLES nextEvent, nextHandle, handles,  \* ServiceState
          log,        \* history: what this server did
          restarts,   \* the servers before this one
          call        \* the state of each call

server == <<nextEvent, nextHandle, handles, log, restarts>>

-----------------------------------------------------------------------------
\* Handles and filters

\* One function of two, the first where both are defined.
Also(f, g) == [x \in DOMAIN f \cup DOMAIN g |-> IF x \in DOMAIN f THEN f[x] ELSE g[x]]

Preference == "prefers_beverage"
Predicates == {Preference, "other"}

Meta == [subject : Subjects, predicate : {Preference}, scope : Scopes]

Digits(ref) ==
    LET digits[n \in 0..ref] == IF n < 10 THEN <<n>> ELSE Append(digits[n \div 10], n % 10)
    IN  digits[ref]

\* The order of strings.
AtMost(s, t) ==
    \/ Len(s) <= Len(t) /\ \A k \in DOMAIN s : s[k] = t[k]
    \/ \E k \in DOMAIN s \cap DOMAIN t : s[k] < t[k] /\ \A j \in 1..(k - 1) : s[j] = t[j]

\* Refs are ordered as strings: "H1", "H10", "H11", "H2".
Precedes(h, g) == AtMost(Digits(h), Digits(g))

FirstRef(refs) == CHOOSE h \in refs : \A g \in refs : Precedes(h, g)

\* An empty subject or predicate and an unspecified scope match all.
\* Mutant: the predicate is not looked at.
MutForgets(filter, h) ==
    /\ filter.subject = "" \/ h.subject = filter.subject
    /\ filter.scope = "UNSPECIFIED" \/ h.scope = filter.scope

Forgets(filter, h) ==
    /\ filter.subject = "" \/ h.subject = filter.subject
    /\ filter.predicate = "" \/ h.predicate = filter.predicate
    /\ filter.scope = "UNSPECIFIED" \/ h.scope = filter.scope

-----------------------------------------------------------------------------
\* Calls

At(c, step) == call[c].at = step

\* A call's record is what its client still needs: the request, how often it was
\* made, and what the step it is at works on.
Goes(c, step, fields) ==
    call' =
        [call EXCEPT ![c] = Also([at |-> step, request |-> @.request, tries |-> @.tries], fields)]

Via(client) == {request \in Requests : request.via = client}

NotAsked == [at |-> "idle"]

\* All codes of HTTP 502: something behind the client failed.
BadGateway == "bad_gateway"

GivesUp(c, code) == Goes(c, "refused", [code |-> code])

\* Mutants: a lost response is waited for; a call whose response is lost is
\* sent once more.
MutReplies(c, step, fields) == Goes(c, step, fields) \/ Goes(c, "waiting", <<>>)
MutResend(c, step, fields) ==
    Goes(c, step, fields) \/ GivesUp(c, BadGateway) \/ UNCHANGED call

\* A response may be lost after the server has done its work: the call fails.
Replies(c, step, fields) == Goes(c, step, fields) \/ GivesUp(c, BadGateway)

-----------------------------------------------------------------------------
\* The service's handlers

\* Mutants: the ref follows the last key of the map, if there is one; or the
\* events' number.
MutNextRef ==
    IF handles = <<>> THEN nextHandle + 1
    ELSE 1 + CHOOSE h \in DOMAIN handles : \A g \in DOMAIN handles : Precedes(g, h)
MutEventRef == nextEvent + 1

NextRef == nextHandle + 1

\* A blank subject gets a name.
Named(subject) == IF subject = "" THEN Anonymous ELSE subject

\* append_event; only a preference leaves a handle.
AppendEvent(c) ==
    /\ At(c, "append")
    /\ nextEvent' = nextEvent + 1
    /\ IF call[c].says.prefers
       THEN LET said == call[c].says
                meta == [subject |-> Named(said.subject), predicate |-> Preference,
                         scope |-> said.scope]
            IN  /\ nextHandle' = nextHandle + 1
                /\ handles' = Also([h \in {NextRef} |-> meta], handles)
                /\ log' = Append(log, [did |-> "append", ref |-> NextRef, meta |-> meta,
                                       by |-> c, try |-> call[c].tries])
       ELSE UNCHANGED <<nextHandle, handles, log>>
    /\ Replies(c, "manifest", [says |-> call[c].says, wrote |-> Len(log'), life |-> restarts])
    /\ UNCHANGED restarts

\* get_manifest: all handles, of every subject.
GetManifest(c) ==
    /\ At(c, "manifest")
    /\ Replies(c, "plan", [says |-> call[c].says, wrote |-> call[c].wrote, life |-> call[c].life,
                           manifest |-> handles, read |-> Len(log), readLife |-> restarts])
    /\ UNCHANGED server

\* What a plan fetches, and whether the kernel finds no fault in it.
Plan(fetches, sound) == [fetches |-> fetches, sound |-> sound]

\* What the kernel makes of a plan: it refuses one that breaks its rules or
\* names another request, and stalls on a handle the manifest calls not ready.
KernelStatus(request) ==
    IF ~request.plan.sound THEN "REJECTED"
    ELSE IF request.plan.fetches \cap request.offline # {} THEN "STALL"
    ELSE "OK"

Executing(c, plan, offline) ==
    Goes(c, "execute", [manifest |-> call[c].manifest, read |-> call[c].read,
                        readLife |-> call[c].readLife, plan |-> plan, offline |-> offline])

\* What a client makes of the status: the proxy answers with HTTP 200, 400 or
\* 503, the SDKs hand it on.  The proxy sends the manifest as it was read, and
\* is never told to wait.
Concluded(c, status) ==
    CASE status = "OK" -> Replies(c, "answered", <<>>)
      [] status = "REJECTED" -> GivesUp(c, "rejected") \/ GivesUp(c, BadGateway)
      [] status = "STALL" -> Replies(c, "stalled", call[c])

\* execute is a function of the manifest and the plan in the request; the
\* server's memory is not looked at.
Execute(c) ==
    /\ At(c, "execute")
    /\ Concluded(c, KernelStatus(call[c]))
    /\ UNCHANGED server

\* The bound on what others do to the server.
Undisturbed == restarts + Cardinality({i \in DOMAIN log : log[i].did = "forget"}) < MaxEvents

\* A preference is removed by every filter that matches it.
Forget(filter) ==
    /\ Undisturbed
    /\ handles' = [h \in {x \in DOMAIN handles : ~Forgets(filter, handles[x])} |-> handles[h]]
    /\ log' = Append(log, [did |-> "forget", filter |-> filter])
    /\ UNCHANGED <<nextEvent, nextHandle, restarts, call>>

\* Nothing is kept: the next server numbers events and handles from one again.
Restart ==
    /\ Undisturbed
    /\ restarts' = restarts + 1
    /\ nextEvent' = 0 /\ nextHandle' = 0 /\ handles' = <<>> /\ log' = <<>>
    /\ UNCHANGED call

ServerInit ==
    /\ nextEvent = Already /\ nextHandle = Already /\ handles = <<>>
    /\ log = <<>> /\ restarts = 0

=============================================================================
