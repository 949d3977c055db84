SPECIFICATION HostSpec
CONSTANTS
    Plans <- MCPlans
    MaxEntries = 3
    Name <- MCName
    Arg <- MCArg
    Null = Null
    Files = {3, 4, 5}
    Interests <- MCInterests
    States <- MCStates
    Pipes <- MCPipes
    MaxEvents = 2
INVARIANTS
    GreenIsEarned
    VerdictFitsTheChild
    NothingIsLeftBehind
    NothingLeaks
    EventsAreDue
    ChildHoldsItsEndsOnly
PROPERTIES
    LimitedRunsEnd
CHECK_DEADLOCK FALSE
