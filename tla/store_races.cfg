SPECIFICATION Spec
CONSTANTS
    p1 = p1  p2 = p2  b1 = b1  b2 = b2  b3 = b3  k1 = k1
    Procs <- TwoProcs
    BrainIds <- TwoBrains
    ApiKeys <- OneKey
    Kinds <- AllKinds
    MaxOps = 3
    MaxCrashes = 1
SYMMETRY Symmetric
INVARIANTS
    TypeOK
    UndamagedLoads
    ListsUnlessTorn
    SnapshotRead
    KeyMappedOnce
