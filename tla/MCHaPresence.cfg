\* A recovery within the grace period, after a republish.
SPECIFICATION FairSpec
CONSTANTS
    Devices = {d1}
    Values = {v1, v2}
    Vtpe = {}
    Blank = Blank
    None = None
PROPERTIES
    PresenceIsShown
