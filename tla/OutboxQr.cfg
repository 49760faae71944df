\* A message typed on the phone around one of ours: observations that block, a
\* dispatch that must not be repeated, a ledger that recovery must close.
CONSTANTS
    Message = {1}
    Conversation = {"c1"}
    Worker = {w1, w2}
    Split = 1
    ConvOf <- MCConvOf
    Automation = {1}
    OptIn = {}
    Template = {}
    Phone = {p1}
    PhoneConv <- MCPhoneConv
    Qr = TRUE
    MaxAttempts = 2
    PendingLimit = 5
    MaxFaults = 2
    None = None
SPECIFICATION FairSpec
INVARIANTS
    Inductive
    OwnEchoNeverExternal
PROPERTIES
    KeepsPromise
    KeepsReplyProtocol
    BlockEnds
    SendingEnds
