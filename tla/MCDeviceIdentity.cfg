\* Two devices, one with two client ids, one that may get the address of the other.
SPECIFICATION FairSpec
CONSTANTS
    d1 = d1
    d2 = d2
    a1 = a1
    a2 = a2
    n1 = n1
    n2 = n2
    Devices = {d1, d2}
    ClientIds <- MCClientIds
    Pool = {a1, a2}
    Leases <- MCLeases
    MacAsId = {d2}
    Observer = Observer
    Blank = Blank
    MaxJoins = 2
    MaxLosses = 1
    None = None
INVARIANTS
    TypeOK
    TakenOverOnlyByAddress
PROPERTIES
    MacStaysOnFile
    WriteOnce
    DeviceIsDiscovered
