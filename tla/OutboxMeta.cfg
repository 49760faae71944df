\* One META conversation, an operator's message behind an automated one; safety
\* and progress.
CONSTANTS
    Message = {1, 2}
    Conversation = {"c1"}
    Worker = {w1, w2}
    Split = 2
    ConvOf <- MCConvOf
    Automation = {1}
    OptIn = {2}
    Template = {}
    Phone = {}
    PhoneConv <- MCPhoneConv
    Qr = FALSE
    MaxAttempts = 2
    PendingLimit = 2
    MaxFaults = 1
    None = None
SPECIFICATION FairSpec
INVARIANTS
    AtMostOnce
    FailedIsFinal
    ConversationOrder
    ArrivesInOrder
    ReceiptsConverge
PROPERTIES
    StateFollowsTable
    AdmissionRespectsLimit
    FrontMoves
    SendingEnds
CHECK_DEADLOCK FALSE
