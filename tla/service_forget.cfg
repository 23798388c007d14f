SPECIFICATION FairSpec
CONSTANTS
    c1 = c1  c2 = c2
    Calls <- TwoCalls
    Subjects <- FewSubjects
    Scopes <- TwoScopes
    Filters <- MCFilters
    KeyOwner <- MCKeyOwner
    Requests <- MoreRequests
    Already = 8
    MaxTries = 1
    MaxEvents = 1
PROPERTY ForgottenIsNotUsed
