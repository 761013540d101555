CONSTANTS
    Fds = {f1, f2}
    MaxEvents = 2
SPECIFICATION EventSpec
INVARIANTS
    EventTypeOK
    InterestAgrees
    BackendsDifferInTwoCases
PROPERTY
    ImplementsInterface
