SPECIFICATION Spec
CONSTANTS
    Callers = {c1, c2, c3}
    Flights = {f1, f2}
    NoFlight = NoFlight
INVARIANT
    RejectedAtOnce
