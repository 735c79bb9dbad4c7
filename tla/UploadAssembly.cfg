SPECIFICATION FairSpec
CONSTANTS
  NParts = 2
  Versions = {A, B}
  Checksum = A
  Requests = {client, tab, timer}
  OpsOf <- OneCompletes
  Faults = {"db", "storage", "disk", "media"}
  HlsRefused = FALSE
  MaxCrashes = 1
  Null = Null
  client = client
  timer = timer
INVARIANTS
  StoredAsDeclared
  CompletedRegistered
PROPERTIES
  RegisteredWhole
  ImplementsSession
  AssemblySettles
CHECK_DEADLOCK FALSE
