CONSTANTS
    Script <- ShortScript
    Inline = FALSE
    CycleTimes <- SketchClock
    ClearTimes <- OfClear
    OtherTimes <- OfOther
    MaxResets = 2
    BufferSize = 2
    MaxArrivals = 2
SPECIFICATION RigSpec
INVARIANTS ResetParks
PROPERTIES ImplementsConsole FreeRunCompletes
