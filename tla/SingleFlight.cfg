SPECIFICATION FairSpec
CONSTANTS
    Callers = {c1, c2, c3}
    Flights = {f1, f2}
    NoFlight = NoFlight
INVARIANTS
    OneRun
    AbortedWhenAbandoned
PROPERTY
    EveryCallerReturns
