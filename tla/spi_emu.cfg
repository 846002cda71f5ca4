CONSTANTS
  SlotMax = 2
  Chips = {chip}
  NoChip = NoChip
  BusOf <- MCBusOf
  Images = {img}
  NoImage = NoImage
  Labels = {}
  NoLabel = NoLabel
  Stores = {st1, st2}
  NoStore = NoStore
  Absent = Absent
  TaskIds = {t1, t2}
  NoTask = NoTask
  TransmitTime = 2
  ErrorTime = 1
  ProcessTime = 1
  StopTime = 4
SPECIFICATION Spec
ACTION_CONSTRAINT NvsWorks
INVARIANTS StopMeansStopped OneTaskWithDriver NoFreedStore
PROPERTY StoppedTaskEnds
