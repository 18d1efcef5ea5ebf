CONSTANTS
    k1 = k1
    k2 = k2
    k3 = k3
    janus = janus
    p1 = p1
    p2 = p2
    null = null
    Tokens <- MC_Tokens
    Plugins <- MC_Plugins
    None <- null
    SignedTokens <- MC_SignedTokens
    SignedGrants <- MC_SignedGrants
    CoreRealm <- janus
    SignedRealm <- MC_SignedRealm

SPECIFICATION Spec

INVARIANT TypeOK

PROPERTY AuthRefinement
