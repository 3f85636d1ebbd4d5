SPECIFICATION Spec
CONSTANTS
  None = None
  Anywhere = Anywhere
  a = a
  b = b
  l = l
  x = x
  Prefixes <- MCPrefixes
  Owners <- OneOwner
  Decls <- OneDecl
  Callers = {c1}
  Procs = {p, q}
  StoreOutcomes = {"kept", "replaced"}
  Skew = 0
  FreshFor = 1
  MaxTime = 0
  MaxRevision = 0
  MaxPolicy = 0
  MaxIoEpoch = 2
  MaxSerial = 5
  MaxBoots = 2
  MaxFaults = 1
  DeviceLoss = TRUE
INVARIANTS
  DeviceOwnership
  IoExclusive
  ActivationProven
