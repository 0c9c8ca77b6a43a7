SPECIFICATION Spec
CONSTANTS
  a = a
  b = b
  Drones <- MCDrones
  Sightings <- MCSightings
  Malformed <- MCMalformed
  Writers <- MCWriters
  Readers <- MCReaders
  Wanted <- MCWanted
  Nobody = nobody
  NoRow = norow
  Maxlen = 2
  MaxFrames <- OneEach
  MaxKills = 1
  LatchAfter = 2
  QueueMax = 1
  Hangs = TRUE
INVARIANTS
  AckedIdsHold
  ReadExactlyOnce
  SeenMeansLogged
  ClosedBehindCallbacks
CHECK_DEADLOCK FALSE
