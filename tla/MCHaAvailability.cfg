\* One device that comes to report the sensors.
SPECIFICATION FairSpec
CONSTANTS
    Devices = {d1}
    Values = {v1, v2}
    Vtpe = {v2}
    Blank = Blank
    None = None
INVARIANTS
    TypeOK
    SettledIsInStep
    OnlineOnlyWithinGrace
PROPERTIES
    ReportsAreShown
