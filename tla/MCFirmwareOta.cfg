\* Two connections that may overlap, two ARM files, a failing read of the state.
SPECIFICATION FairSpec
CONSTANTS
    a1 = a1
    a2 = a2
    o1 = o1
    o2 = o2
    Addresses = {a1, a2}
    Origins = {o1, o2}
    Configs <- MCConfigs
    Images = {i1, i2}
    Streams = {k1, k2}
    MaxArms = 2
    MaxMisreads = 1
    None = None
INVARIANTS
    TypeOK
PROPERTIES
    IsOneShot
    UpdateCompletes
