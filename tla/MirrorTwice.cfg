\* Two mirrors of one message: a refusal with 429, and a worker that dies.
CONSTANTS
    c1 = c1
    c2 = c2
    Message = {1}
    Outgoing = {1}
    Contact = {c1}
    ContactOf <- OneContact
    Reply = {}
    Worker = {w1}
    Guarded = FALSE
    Pausable = FALSE
    MaxAttempts = 2
    MaxFaults = 2
    None = None
SPECIFICATION Spec
INVARIANT MirroredOnce
CHECK_DEADLOCK FALSE
