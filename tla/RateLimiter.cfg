\* Two addresses, rates 0 to 3, three windows.
SPECIFICATION Spec
CONSTANTS
    Addresses = {a1, a2}
    Rates = {0, 1, 2, 3}
    Window = 2
    MaxTime = 5
    MaxRequests = 6
INVARIANTS
    TypeOK
    SpansWindow
PROPERTIES
    RefusesOnlyBusy
