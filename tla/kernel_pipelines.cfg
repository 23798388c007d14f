SPECIFICATION Spec
CONSTANTS
    Refs <- MCRefs
    Requests <- MCRequests
    RowCost <- MCRowCost
INVARIANTS
    TypeOK
    ProvenanceCoversData
    TaintPersists
    TrustNeverRises
    PolicyGate
    LineageGate
    DepthAgrees
    ReadsDefined
    FanoutBounded
    CompleteOrNothing
    ValidatedRefsAreKnown
    SdkRefusesNoAnswer
    SdkPlansReadWritten
    ExecutedIsGuarded
    ParsedLacksNothing
    FallbackIsAnswered
    InclusionProves
    UnreadyWasSelected
    CitesItsLineage
PROPERTY WriteOnce
