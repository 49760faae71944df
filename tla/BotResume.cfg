\* A flow hands over; a Typebot replaces it; the operator gives the conversation to it.
CONSTANTS
    typebot = typebot
    flow = flow
    automation = automation
    c1 = c1
    c2 = c2
    w1 = w1
    w2 = w2
    Message = {1}
    Conversation = {c1}
    ConversationOf <- OneConversation
    Worker = {w1}
    Bot = {flow, typebot}
    EngineOf <- MCEngineOf
    FirstBot = flow
    Meta = FALSE
    MaxFaults = 2
    None = None
SPECIFICATION Spec
PROPERTY ResumeHolds
CHECK_DEADLOCK FALSE
