\* Two connections that may overlap, and every read of the state succeeds.
SPECIFICATION FairSpec
CONSTANTS
    a1 = a1
    a2 = a2
    o1 = o1
    o2 = o2
    Addresses = {a1, a2}
    Origins = {o1, o2}
    Configs <- MCConfigs
    Images = {i1, i2}
    Streams = {k1, k2}
    MaxArms = 2
    MaxMisreads = 0
    None = None
PROPERTIES
    SpentIsTerminal
