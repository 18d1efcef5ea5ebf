CONSTANTS
    t1 = t1
    t2 = t2
    t3 = t3
    Txns <- MC_Txns

SPECIFICATION Spec

INVARIANT TypeOK
INVARIANT DestroySessionMatchesCreate

PROPERTY EndSessionHonoured

CHECK_DEADLOCK FALSE
