\* Two received messages of two contacts and a reply, two turns, one disturbance.
CONSTANTS
    c1 = c1
    c2 = c2
    Message = {1, 2}
    Outgoing = {}
    Contact = {c1, c2}
    ContactOf <- TwoContacts
    Reply = {r1}
    Worker = {w1, w2}
    Guarded = FALSE
    Pausable = TRUE
    MaxAttempts = 2
    MaxFaults = 1
    None = None
SPECIFICATION FairSpec
PROPERTY JobsServed
CHECK_DEADLOCK FALSE
