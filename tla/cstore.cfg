CONSTANTS
  Bits = {0}
  BlockSize = 2
  ChipSize = 5
  CacheLines = 2
  TickMod = 5
  Lz4Size <- MCLz4Size
  Images <- MCImages
  Calls <- MCCalls
SPECIFICATION LruSpec
INVARIANTS
  TypeOK
  OneLinePerBlock
  ChunksDisjoint
  CopiesUntilFlush
  NoRoomForFlush
  LruUntilWrap
PROPERTY Refines
VIEW Relevant
