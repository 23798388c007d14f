---------------------------- MODULE MCMemoryCalls ---------------------------
(***************************************************************************)
(* Instances of MemoryCalls: two calls of a chat's or a program's kinds    *)
(* over a memory whose next refs are H9 and H10.                           *)
(***************************************************************************)
EXTENDS MemoryCalls

CONSTANTS c1, c2

TwoCalls == {c1, c2}
FewSubjects == {"vinz", "ada", "user:local", "user:unknown"}
TwoScopes == {"GLOBAL", "ORG"}

MCKeyOwner == [key \in {"key"} |-> "vinz"]

Ask(asks, auth, user, prefers, header) ==
    [via |-> "proxy", asks |-> asks, auth |-> auth, user |-> user, prefers |-> prefers,
     header |-> header]

Program(subject, prefers, scope, mocks) ==
    [via |-> "sdk", subject |-> subject, prefers |-> prefers, scope |-> scope, mocks |-> mocks]

\* A preference with a key, a remark without one that brings a plan, a
\* preference with a key of nobody, and the SDKs' example, by nobody in particular.
MCRequests == {Ask("chat", "key", "ada", TRUE, "none"), Ask("chat", "none", "", FALSE, "given"),
               Ask("chat", "stray", "ada", TRUE, "none"), Program("", TRUE, "ORG", TRUE)}

\* With requests that the proxy refuses at once, for the smaller run.
MoreRequests == {Ask("chat", "key", "ada", TRUE, "none"), Ask("chat", "none", "", TRUE, "none"),
                 Ask("stream", "none", "", TRUE, "none"), Ask("nothing", "key", "", FALSE, "none"),
                 Ask("chat", "garbled", "", TRUE, "none"), Program("vinz", TRUE, "GLOBAL", FALSE)}

Filter(subject, predicate, scope) ==
    [subject |-> subject, predicate |-> predicate, scope |-> scope]

\* What one user said in one scope, and a predicate that nobody stores.
MCFilters == {Filter("vinz", "", "GLOBAL"), Filter("", "other", "UNSPECIFIED")}

=============================================================================
