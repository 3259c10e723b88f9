SPECIFICATION Spec
CONSTANTS
    Devices = {d1, d2}
    Observers = {dash, bridge}
    Dashboard = dash
    Requests = {r1}
    None = None
INVARIANTS
    TypeOK
    SteadyRequestLands
PROPERTIES
    PresenceIsShown
