CONSTANTS
  MinMatch = 4
  LastLiterals = 5
  MaxDistance = 7
  Margin = 16
  ByteMax = 3
  RunMask = 1
  PosMod = 8
  FastOffset = 3
  FastLength = 6
  Hash <- MCHash
  Hashes <- MCHashes
  Blocks <- MCBlocks
  Streams <- MCStreams
  Rooms <- MCRooms
  Sizes <- MCSizes
  Garbage = Garbage
  MaxBlock = 13
  MaxStream = 6
SPECIFICATION Lz4Spec
INVARIANTS
  InBounds
  RoundTrip
  BoundSuffices
