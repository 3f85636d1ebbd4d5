SPECIFICATION Spec
CONSTANTS
    None = None
    MaxTx = 2
    MaxErrors = 1
    MaxDeaths = 1
    UnknownProbeRefused = FALSE
INVARIANTS
  HandoverOrdered
  TransactionsAccounted
PROPERTIES
    GuardSparesSuccessor
    CarrierKept
    PredecessorOutlivesHandover
