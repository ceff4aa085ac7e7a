CONSTANTS
    b1 = b1
    b2 = b2
    Bus <- TwoBuses
    BufferSize = 2
    MaxArrivals = 3
SPECIFICATION FairSpec
INVARIANTS TypeOK FreeRunReset RoundCycles
           ReportCurrent NoBacklog
PROPERTIES ResetLongEnough LeavesFreeRun Responsive
