\* One tunnel policy, prepared and committed; two faults.  A crash between
\* the active pointer and its proof is left to CloudSyncWedged.
SPECIFICATION Spec
CONSTANTS
    None = None
    A = A
    P = P
    B = B
    S = S
    Published = {A, P}
    Deliveries <- MCDeliveries
    ServerMode = FALSE
    Legacy = A
    MaxSeq = 2
    MaxFaults = 2
    CrashPoints = {"promote", "rejected", "clearReceipt", "storeOutcome",
                   "fetch", "mark", "unpoint", "storeWithdrawn", "grant",
                   "issue", "point", "store", "clearActive",
                   "clearProof", "clearMarker"}
INVARIANTS
    ActiveSound
    IssuanceIdempotent
PROPERTIES
    RejectionHolds
    WithdrawalCompletes
    DeliveryConverges
