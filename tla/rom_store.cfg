CONSTANTS
  SlotMax = 2
  SpiChip = SpiChip
  I2cChip = I2cChip
  Chips = {SpiChip, I2cChip}
  NoChip = NoChip
  BusOf <- MCBusOf
  Images = {img1, img2}
  NoImage = NoImage
  Labels = {}
  NoLabel = NoLabel
  Stores = {st1, st2}
  NoStore = NoStore
  Absent = Absent
SYMMETRY StoreSymmetry
SPECIFICATION Spec
INVARIANTS
  ActiveMatchesInserted
  InsertedHasData
  StoresOwned
  RecordWhole
CONSTRAINT OneUnsaved
VIEW Looked
PROPERTY ServedRomStays
