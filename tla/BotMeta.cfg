\* One META channel, native flow first: hand-offs, stamps ahead of the clock, windows.
CONSTANTS
    typebot = typebot
    flow = flow
    automation = automation
    c1 = c1
    c2 = c2
    w1 = w1
    w2 = w2
    Message = {1, 2, 3}
    Conversation = {c1, c2}
    ConversationOf <- TwoConversations
    Worker = {w1, w2}
    Bot = {flow, automation}
    EngineOf <- MCEngineOf
    FirstBot = flow
    Meta = TRUE
    MaxFaults = 1
    None = None
SPECIFICATION Spec
SYMMETRY Turns
INVARIANTS
    SessionOfBot
    NoneWaitsUnderHuman
CHECK_DEADLOCK FALSE
