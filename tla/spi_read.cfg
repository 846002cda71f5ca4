CONSTANTS
  Bits = {1}
  WEL = 1
  Weight <- MCWeight
  Base = 2
  Chips <- MCChips
  Erase32K = 4
  BufSize = 13
  Sfdp <- MCSfdp
  UniqueId <- MCUniqueId
  Images <- MCImages
  Transfers <- MCTransfers
SPECIFICATION Spec
PROPERTY ReadsDeliver
VIEW Protocol
