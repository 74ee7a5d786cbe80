SPECIFICATION Spec
CONSTANTS
    Half = 8
    MaxCount = 6
    Gap = 2
INVARIANTS
    CountIsExact
    SliceIsBounded
    NotCutShort
