\* A disconnection whose lease expires, and the polls that follow.
CONSTANTS
    Provision = provision
    Connect = {c1}
    Disconnect = {d1}
    Poll = {p1}
    MaxClock = 1
SPECIFICATION Spec
PROPERTY ConfirmedEndsDisconnects
