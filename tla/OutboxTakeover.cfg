\* An operator's message behind an automated one, and a takeover.
CONSTANTS
    Message = {1, 2}
    Conversation = {"c1"}
    Worker = {w1}
    Split = 2
    ConvOf <- MCConvOf
    Automation = {1}
    OptIn = {}
    Template = {}
    Phone = {}
    PhoneConv <- MCPhoneConv
    Qr = FALSE
    MaxAttempts = 6
    PendingLimit = 5
    MaxFaults = 1
    None = None
SPECIFICATION Spec
INVARIANT TakeoverFreesOperator
