SPECIFICATION Spec
CONSTANTS
    Transports = {"web"}
    MaxAsk = 1
    MaxSay = 1
    MaxOpen = 1
INVARIANT HeldUntilAccepted
