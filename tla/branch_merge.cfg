SPECIFICATION Spec
CONSTANTS
    Names <- MCNames
    Imported <- MCImported
    Topics <- MCTopics
    Agents = {a1}
    Models = {m1, m2}
    MaxAudit = 4
INVARIANTS
    TypeOK
    GrantsAreAudited
    SuppressionIsRecorded
PROPERTIES
    OverwrittenByTheirs
    TrailCountsChanges
