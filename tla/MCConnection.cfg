SPECIFICATION Spec
CONSTANTS
    DownCap = 2
    UpCap = 1
    MaxSent = 4
    MaxAsked = 3
PROPERTIES MessagesWhole RequestsWhole FarewellEnds Delivered
CHECK_DEADLOCK FALSE
