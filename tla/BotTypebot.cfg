\* One QR conversation, Typebot first: two messages, two turns, three disturbances;
\* safety and progress.
CONSTANTS
    typebot = typebot
    flow = flow
    automation = automation
    c1 = c1
    c2 = c2
    w1 = w1
    w2 = w2
    Message = {1, 2}
    Conversation = {c1}
    ConversationOf <- OneConversation
    Worker = {w1, w2}
    Bot = {typebot, flow}
    EngineOf <- MCEngineOf
    FirstBot = typebot
    Meta = FALSE
    MaxFaults = 3
    None = None
SPECIFICATION FairSpec
INVARIANTS
    OneVoice
    AskedAgainOnlyWhenPutBack
    WaitingHasBot
    BotInductive
PROPERTIES
    HeardInOrder
    KeepsReplyProtocol
    RunningEnds
    WaitingEnds
CHECK_DEADLOCK FALSE
