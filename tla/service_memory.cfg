SPECIFICATION FairSpec
CONSTANTS
    c1 = c1  c2 = c2
    Calls <- TwoCalls
    Subjects <- FewSubjects
    Scopes <- TwoScopes
    Filters <- MCFilters
    KeyOwner <- MCKeyOwner
    Requests <- MCRequests
    Already = 8
    MaxTries = 2
    MaxEvents = 1
INVARIANTS
    TypeOK
    MemoryIsReplay
    ReadYourWrites
    FetchesFromMemory
    AttemptsStoreOnce
    StoredUnderKeyOwner
    FallbackChatsAnswered
PROPERTIES
    CallsNeverGoBack
    CallsEnd
