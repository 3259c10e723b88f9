\* Two devices, one of them identified from the start; commands of the All switch.
SPECIFICATION FairSpec
CONSTANTS
    Devices = {d1, d2}
    Identified = {d1}
    MaxCommands = 2
    None = None
INVARIANTS
    TypeOK
    AskedAtMostOnce
    PendingIsLatest
PROPERTIES
    PendingEnds
