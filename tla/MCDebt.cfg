CONSTANTS
    Opened <- MCOpened
    Keys = {"a"}
    First = "a"
    Slots <- MCSlots
    Hands = {1}
    MaxVersion = 1
SPECIFICATION ScreenSpec
INVARIANT OwnWriteShown
CHECK_DEADLOCK FALSE
