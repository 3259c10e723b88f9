\* Three connections of two devices, one observer.
SPECIFICATION FairSpec
CONSTANTS
    Sessions = {s1, s2, s3}
    ClientIds = {c1, c2}
    Observers = {o1}
    None = None
INVARIANTS
    TypeOK
    RegistryIsExact
PROPERTIES
    DisplacedEnds
    IsDirectory
    IsPresence
