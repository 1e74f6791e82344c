CONSTANTS
    TextLength = 5
    Patterns = {1, 2, 3}
    TokenLength = 2
    MaxMatches = 3
SPECIFICATION Spec
CHECK_DEADLOCK FALSE
INVARIANTS
    FindingsAreDisjoint
    OnlyTailsRemain
    MaskingIsExact
