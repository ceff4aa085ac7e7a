CONSTANTS
    Script <- HelloScript
    Inline = FALSE
    CycleTimes <- SlowClock
    ClearTimes <- UpToClear
    OtherTimes <- UpToOther
    MaxResets = 1
SPECIFICATION FairSpec
INVARIANTS TypeOK NoLostByte
PROPERTIES ImplementsFairConsole
