CONSTANTS
  Slots = {0, 1}
  Chips = {"at24c", "w25q", "odd"}
  NoChip = "no chip"
  BusOf <- MCBusOf
  TaskIds = {"t1"}
  NoTask = "no task"
  LoopTime = 1
  StopTime = 2
  MaxBody = 2
  Streams <- MCStreams
  Capacity <- MCCapacity
  MaxImage = 3
  MaxTimeouts = 1
SPECIFICATION DeviceSpec
ACTION_CONSTRAINTS PinsFirst DeflatedAfterBoot
INVARIANTS FlagsShowPins I2cIsStopped InsertedIsEmulated FreedOnce HonestIsStored
PROPERTIES TargetComesBack RequestsEnd
