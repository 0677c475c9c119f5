SPECIFICATION FairSpec
CONSTANTS
    Items = 3
    MaxSlices = 2
    WriteTimeout = 2
INVARIANTS NoSilentTruncation StopIsPrompt
PROPERTIES ImplementsDelivery StallEndsInTimeout
CHECK_DEADLOCK FALSE
