\* Two conversations of a tenant that may have one pending message.
CONSTANTS
    Message = {1, 2}
    Conversation = {"c1", "c2"}
    Worker = {w1}
    Split = 1
    ConvOf <- MCConvOf
    Automation = {}
    OptIn = {}
    Template = {}
    Phone = {}
    PhoneConv <- MCPhoneConv
    Qr = FALSE
    MaxAttempts = 6
    PendingLimit = 1
    MaxFaults = 0
    None = None
SPECIFICATION FairSpec
PROPERTY LimitStopsOnlyAdmissions
CHECK_DEADLOCK FALSE
