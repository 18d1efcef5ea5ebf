CONSTANTS
    LevelId = 1
    TwccId = 5
    OrientId = 4
    DelayId = 6
    RidId = 3
    MaxSdesLen = 3
    MaxElems = 3

SPECIFICATION Spec

INVARIANT TypeOK
INVARIANT PayloadLocation
INVARIANT ExtensionRoundTrip
INVARIANT RidFits
