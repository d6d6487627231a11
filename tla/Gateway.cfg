SPECIFICATION GatewaySpec
CONSTANTS
  Clients = {c1}
  c1 = c1
  MaxFrames = 3
  MaxSubs = 2
  MaxFaults = 2
  Daemons = {1, 2}
  NoDaemon = 0
  Former = 9
  MaxWaits = 1
  Faulty = {1}
  Ranges <- RangesOf
  Sources <- SourcesOf
  WallClock <- WallClockOf
  Horizon = 5
  Window = 7
  Every = 2
  Grace = 1
  MaxCrashes = 1
INVARIANTS
  InOrder DoneMeansAll CompletionAfterRecord
  OneOwner DoorSafe
  ScheduleSafe
PROPERTIES
  StartsMeant NobodyWaits
CHECK_DEADLOCK FALSE
