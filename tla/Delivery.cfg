SPECIFICATION DeliverySpec
CONSTANTS
  BoxLimit = 2
  MaxBoxes = 3
  MaxSourceHeight = 1080
  Refusal = Refusal
  Nowhere = Nowhere
  EmbedHosts = {"tube", "drive"}
  Uploads <- Files
  Links <- Typed
  Modes = {"ORIGINAL", "HLS", "REMUX"}
CONSTRAINT
  Followed
INVARIANTS
  LinkPlaysAsSubmitted
  FastStartExact
  VersionsPlay
