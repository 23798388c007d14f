SPECIFICATION Spec
CONSTANTS
    Refs <- MCRefs
    Requests <- ShortRequests
    RowCost <- MCRowCost
INVARIANT AnsweredContentIsReady
