CONSTANTS
    ca = ca
    cb = cb
    nx = nx
    ny = ny
    v1 = v1
    v2 = v2
    null = null
    Cats <- MC_Cats
    Names <- MC_Names
    Vals <- MC_Vals
    NoCat <- null

SPECIFICATION Spec

INVARIANT TypeOK
INVARIANT UniqueNames

PROPERTY ConfigRefinement
