SPECIFICATION Spec
CONSTANTS
  None = None
  p = p
  q = q
  Prefixes <- MCPrefixes
  Tables = {1, 2}
  FirstDecls <- MCFirst
  Decls <- MCDecls
  Procs = {c1, c2}
  Generations = {1}
  LowMtu = 1
  LeaseLen = 1
  DrainLen = 1
  MaxTime = 1
  MaxFaults = 1
INVARIANTS
  SessionSound
  DurableIsFiltered
  ResidueIsJournaled
PROPERTIES
  LivePathKept
CHECK_DEADLOCK FALSE
SYMMETRY Symmetry
