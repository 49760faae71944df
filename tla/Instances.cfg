\* Two connections, two disconnections, one poll at a time.
CONSTANTS
    Provision = provision
    Connect = {c1, c2}
    Disconnect = {d1, d2}
    Poll = {p1}
    MaxClock = 1
SPECIFICATION Spec
SYMMETRY Kinds
INVARIANTS
    ConnectsApart
    ArchivedIsQuiet
    DisconnectingIsOwned
PROPERTY OperationsEnd
