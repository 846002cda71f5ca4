CONSTANTS
  MaxRetry = 2
  Credentials = {good, bad}
  NoCredentials = NoCredentials
  Network = good
  BadBody = BadBody
  MaxEvents = 4
SPECIFICATION WifiSpec
INVARIANTS
  ModeMatches
  StationWasConnected
  AccessPointShown
PROPERTIES
  AttemptEnds
  StationKeepsTrying
