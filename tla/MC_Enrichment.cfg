CONSTANTS
    n0 = n0
    None <- MC_None
SPECIFICATION Spec
INVARIANTS
    TypeOK
    FlattenMatchesReference
