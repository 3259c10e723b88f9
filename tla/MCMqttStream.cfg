SPECIFICATION Spec
CONSTANTS
    Base = 2
    Connack = 2
    Puback = 0
    Publish = 3
    Bodies <- MCBodies
    Engine = engine
    Guests = {d1, d2}
    None = None
    Window = 3
    MaxPackets = 2
INVARIANT TypeOK
PROPERTIES IsChannel Arrives PublishEnds
