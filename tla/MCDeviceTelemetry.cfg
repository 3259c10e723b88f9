SPECIFICATION Spec
CONSTANTS
    Outlets = {1}
    Switched = {0}
    MaxSent = 1
    None = None
INVARIANTS
    TypeOK
    CompleteViewIsRight
PROPERTIES
    ViewConverges
