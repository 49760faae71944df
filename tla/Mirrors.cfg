\* One outgoing message with its three mirrors and a reply, two turns, one disturbance.
CONSTANTS
    c1 = c1
    c2 = c2
    Message = {1}
    Outgoing = {1}
    Contact = {c1}
    ContactOf <- OneContact
    Reply = {r1}
    Worker = {w1, w2}
    Guarded = TRUE
    Pausable = TRUE
    MaxAttempts = 2
    MaxFaults = 1
    None = None
SPECIFICATION FairSpec
INVARIANTS
    MirrorsInductive
    JobPostsOnce
    UncertainFences
    OwnEchoNeverHuman
    MirrorsAreTrue
PROPERTY JobsServed
CHECK_DEADLOCK FALSE
