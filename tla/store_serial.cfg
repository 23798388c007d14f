SPECIFICATION Spec
CONSTANTS
    p1 = p1  p2 = p2  b1 = b1  b2 = b2  b3 = b3  k1 = k1
    Procs <- OneProc
    BrainIds <- TwoBrains
    ApiKeys <- OneKey
    Kinds <- BrainKinds
    MaxOps = 4
    MaxCrashes = 1
PROPERTY ImplementsAtomicBrains
