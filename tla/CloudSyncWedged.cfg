\* sync-once is killed between the active pointer and the proof that belongs
\* to it.
SPECIFICATION Spec
CONSTANTS
    None = None
    A = A
    P = P
    B = B
    S = S
    Published = {A, P, B}
    Deliveries <- MCDeliveries
    ServerMode = FALSE
    Legacy = A
    MaxSeq = 2
    MaxFaults = 2
    CrashPoints = {"prove"}
PROPERTY
    ConfigurationRequested
