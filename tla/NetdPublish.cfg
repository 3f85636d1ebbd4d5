SPECIFICATION FairSpec
CONSTANTS
  None = None
  Anywhere = Anywhere
  a = a
  b = b
  l = l
  x = x
  Prefixes <- MCPrefixes
  Owners <- TwoOwners
  Decls <- MCDecls
  Callers = {c1}
  Procs = {}
  StoreOutcomes = {"kept", "replaced"}
  Skew = 0
  FreshFor = 1
  MaxTime = 1
  MaxRevision = 1
  MaxPolicy = 1
  MaxIoEpoch = 0
  MaxSerial = 2
  MaxBoots = 1
  MaxFaults = 1
  DeviceLoss = FALSE
INVARIANTS
  PublicationSound
  JournalLoadable
PROPERTIES
  PublicationUndisturbed
  RepairsConverge
