SPECIFICATION FairSpec
CONSTANTS
  None = None
  Anywhere = Anywhere
  a = a
  b = b
  l = l
  x = x
  Prefixes <- MCPrefixes
  Owners <- MCOwners
  Decls <- MCDecls
  Callers = {c1}
  Procs = {}
  StoreOutcomes = {"kept"}
  Skew = 0
  FreshFor = 1
  MaxTime = 2
  MaxRevision = 0
  MaxPolicy = 1
  MaxIoEpoch = 0
  MaxSerial = 2
  MaxBoots = 1
  MaxFaults = 2
  DeviceLoss = FALSE
INVARIANTS
  TypeOK
  KernelSound
  TokensDominate
PROPERTIES
  FenceConsumed
  OwnerAdvances
  GuardedUndisturbed
  ExpiryFences
  CommitResolves
