\* Two loads let one of them settle late or a mutant run both at once; a ttl of two lets a
\* caller use the entry between two ticks.
CONSTANTS
    Readers = {r1, r2}
    Writers = {w1, w2}
    Loads = {l1, l2}
    NoLoad = NoLoad
    Ttl = 2
    MaxVersion = 1
SPECIFICATION FairSpec
INVARIANTS
    TypeOK
    OneLoadAtATime
    InvalidationIsSeen
    NeverGoesBack
PROPERTIES
    FailureIsForgotten
    NobodyWaitsForEver
    StalenessEnds
