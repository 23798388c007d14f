------------------------------ MODULE SdkClient -----------------------------
(***************************************************************************)
(* A program on one of the SDKs (sdk/typescript, sdk/python), as their     *)
(* stall_retry examples write it: it appends an event, plans to fetch the  *)
(* first handle of the manifest, marks that handle OFFLINE in the manifest *)
(* it sends along, is told STALL, marks the handle READY and sends the     *)
(* same plan again.                                                        *)
(***************************************************************************)
EXTENDS MemoryService

ASSUME SdkAssumption ==
    Via("sdk") \subseteq [via : {"sdk"}, subject : Subjects \cup {""}, prefers : BOOLEAN,
                          scope : Scopes, mocks : BOOLEAN]

\* appendEvent
Begin(c, request) ==
    /\ At(c, "idle")
    /\ call' = [call EXCEPT ![c] =
            [at |-> "append", request |-> request, tries |-> 1,
             says |-> [subject |-> request.subject, prefers |-> request.prefers,
                       scope |-> request.scope]]]
    /\ UNCHANGED server

\* executePlan's validator finds the handle; an example without one throws.
SdkPlan(c) ==
    /\ At(c, "plan") /\ call[c].request.via = "sdk"
    /\ LET listed == DOMAIN call[c].manifest IN
       IF listed = {}
       THEN GivesUp(c, "no_handles")
       ELSE Executing(c, Plan({FirstRef(listed)}, TRUE),
                      IF call[c].request.mocks THEN {FirstRef(listed)} ELSE {})
    /\ UNCHANGED server

\* Mutant: the handle is still marked OFFLINE in the manifest.
MutRetryStalled(c) ==
    /\ At(c, "stalled")
    /\ Executing(c, call[c].plan, call[c].offline)
    /\ UNCHANGED server

\* The stalled handle is back; manifest and plan are sent as they were.
RetryStalled(c) ==
    /\ At(c, "stalled")
    /\ Executing(c, call[c].plan, {})
    /\ UNCHANGED server

=============================================================================
