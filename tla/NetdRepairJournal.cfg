SPECIFICATION Spec
CONSTANTS
  None = None
  Anywhere = Anywhere
  a = a
  b = b
  l = l
  x = x
  Prefixes <- MCPrefixes
  Owners <- OneOwner
  Decls <- MCDecls
  Callers = {c1}
  Procs = {}
  StoreOutcomes = {"kept"}
  Skew = 0
  FreshFor = 1
  MaxTime = 1
  MaxRevision = 0
  MaxPolicy = 1
  MaxIoEpoch = 0
  MaxSerial = 4
  MaxBoots = 1
  MaxFaults = 2
  DeviceLoss = TRUE
INVARIANT
  JournalLoadable
