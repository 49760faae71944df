\* One delivery of an endpoint that may hand out a receipt twice, two workers that
\* stall and crash, three claims a cycle, a revocation, a replay, retention.
CONSTANTS
    Event = {e1}
    Endpoint = {p1}
    Delivery <- MCDelivery
    EventOf <- MCEventOf
    EndpointOf <- MCEndpointOf
    Confirming = {p1}
    Worker = {w1, w2}
    MaxAttempts = 3
    MaxReplays = 1
    MaxFaults = 3
    None = None
SPECIFICATION FairSpec
INVARIANTS
    PostsAreCounted
    HolderIsCurrent
    PartnerInductive
PROPERTIES
    KeepsWebhookPromise
    DeliveryEnds
CHECK_DEADLOCK FALSE
