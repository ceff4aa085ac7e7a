CONSTANTS
    Page <- ErasedPage
    MaxResets = 2
SPECIFICATION FairSpec
INVARIANTS TypeOK NoContention NoLostByte PollReadsFlag StackBalanced
PROPERTIES CleanEdge ImplementsConsole ImplementsFairConsole
