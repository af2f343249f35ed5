CONSTANTS
    Readers = {r1}
    Writers = {w1}
    Loads = {l1}
    NoLoad = NoLoad
    Ttl = 1
    MaxVersion = 1
SPECIFICATION ToldSpec
INVARIANT NextReadReloads
