SPECIFICATION ClientFairSpec
CONSTANTS
  NParts = 2
  Versions = {A}
  Checksum = Null
  Requests = {client}
  OpsOf <- OneByOne
  Faults = {"db", "storage", "disk", "media"}
  HlsRefused = FALSE
  MaxCrashes = 1
  MaxRuns = 2
  MaxAttempts = 2
  Lossy = TRUE
  Null = Null
  A = A
  client = client
  late = late
PROPERTIES ConfirmedUnchanged CallsEnd
CHECK_DEADLOCK FALSE
