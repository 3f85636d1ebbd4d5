SPECIFICATION Spec
CONSTANTS
    None = None
    Domains = {d1, d2}
    Procs = {p1, p2}
    Owners <- MCOwners
    p1 = p1
    p2 = p2
    i1 = i1
    i2 = i2
    Fronts = {f1, f2}
    MaxPending = 3
    MaxBytes = 3
    Large = 2
    MaxRequests = 2
CHECK_DEADLOCK FALSE
INVARIANTS
    IoBindingSound
    BudgetExact
PROPERTIES
    ReservationSettles
