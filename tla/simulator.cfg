\* The three policies over a range of options.
SPECIFICATION Spec
CONSTANTS
    Options <- MCOptions
    KeyRanges <- MCKeyRanges
    Probes <- MCProbes
    SstSize = 32
    Iterations = 7
INVARIANTS
    TypeOK
    NeverPanics
    NothingLost
    NewerAbove
    BottomTaskHoldsOldest
    SettledAsTested
CHECK_DEADLOCK FALSE
