--------------------------- MODULE SpiFlashProofs ---------------------------
(***************************************************************************)
(* Theorems about SpiFlash, for every database of chips, every image and   *)
(* every transfer: what a command may do to the flash, and when.           *)
(***************************************************************************)
EXTENDS SpiFlash, TLAPS

SlotOK(s) ==
  \/ s = Empty
  \/ /\ s = [chip |-> s.chip, rom |-> s.rom]
     /\ s.chip \in Chips
     /\ s.rom \in [0 .. s.chip.size - 1 -> Byte]

(* The task runs only with a chip, the one that set_chip was called with. *)
FlashTypes ==
  /\ task \in {"on", "last", "off"} /\ (task # "off" => chip_info \in Chips)
  /\ handler.op = "set_chip" => handler.chip \in Chips
  /\ write_enable \in BOOLEAN /\ four_byte_mode \in BOOLEAN
  /\ status_reg \in [1 .. 3 -> Byte]
  /\ SlotOK(slot)

(* The flags are what the host's commands made them, the enable at most. *)
FlagsHeard ==
  /\ host = [enabled |-> host.enabled, wide |-> host.wide]
  /\ write_enable => host.enabled
  /\ host.wide = four_byte_mode

FlashInv == FlashTypes /\ FlagsHeard

----------------------------------------------------------------------------
(* Addresses: the units of a chip. *)

LEMMA FlashDivIs ==
  ASSUME NEW n \in Nat \ {0}, NEW a \in Nat
  PROVE  /\ a \div n \in Nat /\ n * (a \div n) <= a /\ a < n * (a \div n) + n
         /\ a % n \in 0 .. n - 1 /\ a % n = a - n * (a \div n)
OBVIOUS

LEMMA QuotientIs ==
  ASSUME NEW n \in Nat \ {0}, NEW a \in Nat, NEW k \in Nat
  PROVE  a \div n = k <=> a - n * k \in 0 .. n - 1
<1> DEFINE q == a \div n
<1>1. q \in Nat /\ n * q <= a /\ a < n * q + n
  BY FlashDivIs
<1> HIDE DEF q
<1>2. ASSUME n * k <= a, a < n * k + n PROVE q = k
  <2>1. ASSUME q >= k + 1 PROVE FALSE
    <3>1. n * q >= n * (k + 1)
      BY <1>1, <2>1
    <3> QED BY <1>1, <1>2, <3>1
  <2>2. ASSUME k >= q + 1 PROVE FALSE
    <3>1. n * k >= n * (q + 1)
      BY <1>1, <2>2
    <3> QED BY <1>1, <1>2, <3>1
  <2> QED BY <1>1, <2>1, <2>2
<1>3. n * k \in Nat
  OBVIOUS
<1> QED BY <1>1, <1>2, <1>3 DEF q

LEMMA AlignedIs ==
  ASSUME NEW n \in Nat \ {0}, NEW a \in Nat
  PROVE  Aligned(a, n) = n * (a \div n) /\ Aligned(a, n) \in Nat
<1>1. a \div n \in Nat /\ n * (a \div n) <= a /\ a % n = a - n * (a \div n)
  BY FlashDivIs
<1> QED BY <1>1 DEF Aligned

LEMMA QuotientLe ==
  ASSUME NEW n \in Nat \ {0}, NEW a \in Nat
  PROVE  a \div n \in 0 .. a
<1>1. a \div n \in Nat /\ n * (a \div n) <= a
  BY FlashDivIs
<1>2. n * (a \div n) >= a \div n
  BY <1>1
<1> QED BY <1>1, <1>2

LEMMA ShiftedNat ==
  ASSUME NEW a \in Nat, NEW byte \in Byte
  PROVE  Shifted(a, byte) \in Nat
<1>1. Base \in Nat /\ Weight[byte] \in Nat
  BY FlashAssumption
<1>2. a * Base \in Nat
  BY <1>1
<1> QED BY <1>1, <1>2 DEF Shifted

LEMMA DecodedNat ==
  ASSUME NEW bytes \in Seq(Byte), NEW n \in {3, 4}, Len(bytes) >= n
  PROVE  Decoded(bytes, n) \in Nat
<1>1. \A i \in 1 .. n : bytes[i] \in Byte
  OBVIOUS
<1>2. bytes[1] \in Byte /\ bytes[2] \in Byte /\ bytes[3] \in Byte /\ (n = 4 => bytes[4] \in Byte)
  BY <1>1
<1>3. Weight[bytes[1]] \in Nat
  BY <1>2, FlashAssumption
<1>4. Shifted(Weight[bytes[1]], bytes[2]) \in Nat
  BY <1>2, <1>3, ShiftedNat
<1>5. Shifted(Shifted(Weight[bytes[1]], bytes[2]), bytes[3]) \in Nat
  BY <1>2, <1>4, ShiftedNat
<1>6. n = 4 => Shifted(Shifted(Shifted(Weight[bytes[1]], bytes[2]), bytes[3]), bytes[4]) \in Nat
  BY <1>2, <1>5, ShiftedNat
<1> QED BY <1>5, <1>6 DEF Decoded

(* The sizes of a chip that the commands compute with. *)
LEMMA ChipSizes ==
  ASSUME NEW c \in Chips
  PROVE  /\ c.size \in Nat \ {0} /\ c.page \in Nat \ {0}
         /\ c.sector \in Nat \ {0} /\ c.block \in Nat \ {0}
         /\ c.four \in BOOLEAN /\ c.id \in Seq(Byte) /\ Len(c.id) = 3
BY FlashAssumption DEF IsChip

LEMMA AddrLenIs == ASSUME NEW cmd PROVE AddrLen(cmd) \in {3, 4}
BY DEF AddrLen

LEMMA AddrInChip ==
  ASSUME FlashTypes, task # "off", NEW t \in Transfers, Len(t.bytes) >= AddrLen(t.cmd)
  PROVE  Addr(t) \in 0 .. chip_info.size - 1
<1>1. t.bytes \in Seq(Byte) /\ AddrLen(t.cmd) \in {3, 4}
  BY FlashAssumption, AddrLenIs
<1>2. Decoded(t.bytes, AddrLen(t.cmd)) \in Nat
  BY <1>1, DecodedNat
<1>3. chip_info.size \in Nat \ {0}
  BY ChipSizes DEF FlashTypes
<1> QED BY <1>2, <1>3, FlashDivIs DEF Addr

----------------------------------------------------------------------------
(* The invariant. *)

LEMMA FlashInit == Init => FlashInv
<1> SUFFICES ASSUME Init PROVE FlashTypes /\ FlagsHeard
  BY DEF FlashInv
<1>1. FlashTypes
  BY DEF Init, FlashTypes, SlotOK, Byte, Idle
<1>2. FlagsHeard
  BY DEF Init, FlagsHeard
<1> QED BY <1>1, <1>2

(* What a transfer leaves of the handlers. *)
TaskGoesOn == task # "off" /\ task' \in {task, "off"} /\ UNCHANGED <<chip_info, handler>>

LEMMA SlotKept ==
  ASSUME FlashTypes, UNCHANGED slot
  PROVE  SlotOK(slot')
BY DEF FlashTypes

LEMMA EnableWriteTypes ==
  ASSUME FlashTypes, TaskGoesOn, NEW t, EnableWrite(t) PROVE FlashTypes'
<1>1. status_reg' \in [1 .. 3 -> Byte]
  BY FlashAssumption DEF FlashTypes, EnableWrite, Byte
<1> QED BY <1>1, SlotKept DEF FlashTypes, TaskGoesOn, EnableWrite

LEMMA DisableWriteTypes ==
  ASSUME FlashTypes, TaskGoesOn, NEW t, DisableWrite(t) PROVE FlashTypes'
<1>1. status_reg' \in [1 .. 3 -> Byte]
  BY DEF FlashTypes, DisableWrite, Byte
<1> QED BY <1>1, SlotKept DEF FlashTypes, TaskGoesOn, DisableWrite

LEMMA WriteStatusTypes ==
  ASSUME FlashTypes, TaskGoesOn, NEW t \in Transfers, WriteStatus(t) PROVE FlashTypes'
<1>1. t.bytes \in Seq(Byte) /\ t.bytes # <<>> /\ t.cmd \in DOMAIN StatusWrites
  BY FlashAssumption DEF WriteStatus, CanWriteStatus
<1>2. t.bytes[1] \in Byte /\ StatusWrites[t.cmd] \in 1 .. 3
  BY <1>1 DEF StatusWrites
<1>3. status_reg' \in [1 .. 3 -> Byte]
  BY <1>2 DEF FlashTypes, WriteStatus
<1> QED BY <1>3, SlotKept DEF FlashTypes, TaskGoesOn, WriteStatus

(* Neither a program nor an erase changes the size of the ROM. *)
LEMMA NewRom ==
  ASSUME FlashTypes, slot # Empty, NEW F, F \in [DOMAIN slot.rom -> Byte],
         slot' = [slot EXCEPT !.rom = F]
  PROVE  SlotOK(slot')
BY DEF FlashTypes, SlotOK

LEMMA RomIs ==
  ASSUME FlashTypes, slot # Empty
  PROVE  \A p \in DOMAIN slot.rom : p \in Nat /\ slot.rom[p] \in Byte
BY ChipSizes DEF FlashTypes, SlotOK

LEMMA ProgramTypes ==
  ASSUME FlashTypes, TaskGoesOn, NEW t, Program(t) PROVE FlashTypes'
<1> DEFINE data == Payload(t)
           hits(p) == {i \in DOMAIN data : PageAddr(Addr(t), i) = p}
           F == [p \in DOMAIN slot.rom |-> {b \in slot.rom[p] : \A i \in hits(p) : b \in data[i]}]
<1>1. slot # Empty /\ slot' = [slot EXCEPT !.rom = F]
  BY DEF Program, CanProgram, FlashTypes, SlotOK
<1>2. F \in [DOMAIN slot.rom -> Byte]
  BY <1>1, RomIs DEF Byte
<1>3. SlotOK(slot')
  BY <1>1, <1>2, NewRom
<1> QED BY <1>3 DEF FlashTypes, TaskGoesOn, Program

LEMMA EraseTypes ==
  ASSUME FlashTypes, TaskGoesOn, NEW t, Erase(t) PROVE FlashTypes'
<1> DEFINE F == [p \in DOMAIN slot.rom |->
                   IF p - EraseStart(t) \in 0 .. EraseSize(t.cmd) - 1 THEN FF ELSE slot.rom[p]]
<1>1. slot # Empty /\ slot' = [slot EXCEPT !.rom = F]
  BY DEF Erase, CanErase, FlashTypes, SlotOK
<1>2. F \in [DOMAIN slot.rom -> Byte]
  BY <1>1, RomIs DEF Byte, FF
<1>3. SlotOK(slot')
  BY <1>1, <1>2, NewRom
<1> QED BY <1>3 DEF FlashTypes, TaskGoesOn, Erase

LEMMA TransferTypes ==
  ASSUME FlashTypes, NEW t \in Transfers, Transfer(t) PROVE FlashTypes'
<1> USE SlotKept
<1>0. TaskGoesOn /\ Process(t)
  BY DEF Transfer, TaskGoesOn, FlashTypes
<1>1. CASE EnableWrite(t)      BY <1>0, <1>1, EnableWriteTypes
<1>2. CASE DisableWrite(t)     BY <1>0, <1>2, DisableWriteTypes
<1>3. CASE WriteStatus(t)      BY <1>0, <1>3, WriteStatusTypes
<1>4. CASE Program(t)          BY <1>0, <1>4, ProgramTypes
<1>5. CASE Erase(t)            BY <1>0, <1>5, EraseTypes
<1>6. CASE SetAddressMode(t)
  BY <1>0, <1>6 DEF SetAddressMode, TaskGoesOn, FlashTypes
<1>7. CASE SetPower(t)
  BY <1>0, <1>7 DEF SetPower, TaskGoesOn, FlashTypes
<1>8. CASE ResetCommand(t)
  BY <1>0, <1>8 DEF ResetCommand, Reset, TaskGoesOn, FlashTypes, Byte
<1>9. CASE Ignored(t)
  BY <1>0, <1>9 DEF Ignored, flags, TaskGoesOn, FlashTypes
<1> QED BY <1>0, <1>1, <1>2, <1>3, <1>4, <1>5, <1>6, <1>7, <1>8, <1>9 DEF Process

(* What a command leaves of the flags is what the host may count on. *)
LEMMA TransferHeard ==
  ASSUME FlagsHeard, NEW t \in Transfers, Transfer(t) PROVE FlagsHeard'
<1>0. host' = Heard(t) /\ Process(t)
  BY DEF Transfer
<1>1. CASE EnableWrite(t)
  BY <1>0, <1>1 DEF FlagsHeard, Heard, EnableWrite
<1>2. CASE DisableWrite(t)
  BY <1>0, <1>2 DEF FlagsHeard, Heard, DisableWrite
<1>3. CASE WriteStatus(t)
  BY <1>0, <1>3 DEF FlagsHeard, Heard, WriteStatus, CanWriteStatus, StatusWrites
<1>4. CASE Program(t)
  BY <1>0, <1>4 DEF FlagsHeard, Heard, Program, CanProgram, ProgramCmds
<1>5. CASE Erase(t)
  BY <1>0, <1>5 DEF FlagsHeard, Heard, Erase, CanErase, EraseCmds
<1>6. CASE SetAddressMode(t)
  BY <1>0, <1>6 DEF FlagsHeard, Heard, SetAddressMode
<1>7. CASE SetPower(t)
  BY <1>0, <1>7 DEF FlagsHeard, Heard, SetPower
<1>8. CASE ResetCommand(t)
  BY <1>0, <1>8 DEF FlagsHeard, Heard, ResetCommand, Reset
<1>9. CASE Ignored(t)
  BY <1>0, <1>9 DEF FlagsHeard, Heard, Ignored, Acts, flags
<1> QED BY <1>0, <1>1, <1>2, <1>3, <1>4, <1>5, <1>6, <1>7, <1>8, <1>9 DEF Process

(* What holds of the protocol's state always: see FlashTypes and FlagsHeard. *)
THEOREM FlashInvariance == Spec => []FlashInv
<1>1. FlashInv /\ [Next]_vars => FlashInv'
  <2> SUFFICES ASSUME FlashTypes, FlagsHeard, [Next]_vars PROVE FlashTypes' /\ FlagsHeard'
    BY DEF FlashInv
  <2> USE DEF Handler, Idle
  <2>1. ASSUME NEW i \in Images, InsertSlot(i) PROVE FlashTypes' /\ FlagsHeard'
    <3>1. SlotOK(slot') /\ i.chip \in Chips
      BY <2>1, FlashAssumption DEF InsertSlot, SlotOK
    <3> QED BY <2>1, <3>1 DEF InsertSlot, flags, FlashTypes, FlagsHeard
  <2>2. ASSUME NEW c \in Chips, SetChip(c) PROVE FlashTypes' /\ FlagsHeard'
    BY <2>2, SlotKept DEF SetChip, flags, FlashTypes, FlagsHeard
  <2>3. CASE Eject
    BY <2>3, SlotKept DEF Eject, flags, FlashTypes, FlagsHeard
  <2>4. CASE Stop
    BY <2>4, SlotKept DEF Stop, flags, FlashTypes, FlagsHeard
  <2>5. CASE Start
    <3>1. handler.chip.four \in BOOLEAN
      BY <2>5, ChipSizes DEF Start, FlashTypes
    <3> QED BY <2>5, <3>1, SlotKept DEF Start, Reset, FlashTypes, FlagsHeard, Byte
  <2>6. CASE Ejected
    BY <2>6 DEF Ejected, flags, FlashTypes, FlagsHeard, SlotOK
  <2>7. ASSUME NEW t \in Transfers, Transfer(t) PROVE FlashTypes' /\ FlagsHeard'
    BY <2>7, TransferTypes, TransferHeard
  <2>8. CASE UNCHANGED vars
    BY <2>8, SlotKept DEF vars, flags, FlashTypes, FlagsHeard
  <2> QED BY <2>1, <2>2, <2>3, <2>4, <2>5, <2>6, <2>7, <2>8 DEF Next
<1> QED BY <1>1, FlashInit, PTL DEF Spec

(* Only a transfer writes anything; the handlers exchange the slot as a whole. *)
LEMMA StepOfTask ==
  ASSUME Next, answer' # NoAnswer
  PROVE  \E t \in Transfers : Transfer(t) /\ answer'.sent = t
BY DEF Next, InsertSlot, SetChip, Eject, Stop, Start, Ejected, Handler, Transfer

(* A program, an erase or a status write needs a WRITE_ENABLE that no other has used, and
   that no WRITE_DISABLE, RESET or restart has taken back. *)
THEOREM WritesAreEnabled == Spec => EnabledOnce
<1> DEFINE A == /\ answer'.sent.cmd \notin {"none", "WRITE_ENABLE", "WRITE_DISABLE", "RESET"}
                /\ slot' # slot \/ status_reg' # status_reg
                => host.enabled
<1>1. FlashInv /\ [Next]_vars => [A]_vars
  <2> SUFFICES ASSUME FlashInv, Next,
                      answer'.sent.cmd \notin {"none", "WRITE_ENABLE", "WRITE_DISABLE", "RESET"},
                      slot' # slot \/ status_reg' # status_reg
               PROVE  host.enabled
    OBVIOUS
  <2>1. answer' # NoAnswer
    BY DEF NoAnswer, NoTransfer
  <2>2. PICK t \in Transfers : Transfer(t) /\ answer'.sent = t
    BY <2>1, StepOfTask
  <2>3. WriteStatus(t) \/ Program(t) \/ Erase(t)
    BY <2>2 DEF Transfer, Process, EnableWrite, DisableWrite, SetAddressMode, SetPower,
                ResetCommand, Ignored, flags
  <2>4. write_enable
    BY <2>3 DEF WriteStatus, CanWriteStatus, Program, CanProgram, Erase, CanErase
  <2> QED BY <2>4 DEF FlashInv, FlagsHeard
<1>2. Spec => [][A]_vars
  BY <1>1, FlashInvariance, PTL DEF Spec
<1> QED BY <1>2 DEF EnabledOnce
----------------------------------------------------------------------------
(* What a program and an erase change. *)

(* Every byte of a payload goes to the page of the address. *)
LEMMA PageAddrIn ==
  ASSUME chip_info.page \in Nat \ {0}, NEW a \in Nat, NEW i \in Nat \ {0}
  PROVE  PageAddr(a, i) \div chip_info.page = a \div chip_info.page
<1> DEFINE n == chip_info.page
           r == (a + i - 1) % n
<1>1. Aligned(a, n) = n * (a \div n) /\ Aligned(a, n) \in Nat /\ a \div n \in Nat
  BY AlignedIs, FlashDivIs
<1>2. r \in 0 .. n - 1
  <2>1. a + i - 1 \in Nat
    OBVIOUS
  <2> QED BY <2>1, FlashDivIs
<1>3. PageAddr(a, i) = Aligned(a, n) + r
  BY DEF PageAddr
<1> HIDE DEF n, r
<1>4. PageAddr(a, i) \in Nat /\ PageAddr(a, i) - n * (a \div n) \in 0 .. n - 1 /\ n \in Nat \ {0}
  BY <1>1, <1>2, <1>3 DEF n
<1> QED BY <1>1, <1>4, QuotientIs DEF n

(* The code's address is the one a flash chip reads: the digits of a number, most
   significant first, of the width the host has chosen. *)
LEMMA DigitsAre ==
  ASSUME NEW B \in Nat, NEW x1 \in Nat, NEW x2 \in Nat, NEW x3 \in Nat, NEW x4 \in Nat
  PROVE  /\ (x1 * B + x2) * B + x3 = x1 * B * B + x2 * B + x3
         /\ ((x1 * B + x2) * B + x3) * B + x4 = x1 * B * B * B + x2 * B * B + x3 * B + x4
OBVIOUS

LEMMA AddrIsTarget ==
  ASSUME FlashInv, task # "off", NEW t \in Transfers, Len(t.bytes) >= AddrLen(t.cmd)
  PROVE  Addr(t) = Target(t)
<1> DEFINE d(i) == Weight[t.bytes[i]]
<1>1. t.bytes \in Seq(Byte) /\ AddrLen(t.cmd) \in {3, 4} /\ Base \in Nat
  BY FlashAssumption, AddrLenIs
<1>2. \A i \in 1 .. AddrLen(t.cmd) : d(i) \in Nat
  <2>1. \A i \in 1 .. AddrLen(t.cmd) : t.bytes[i] \in Byte
    BY <1>1
  <2> QED BY <2>1, FlashAssumption
<1>3. AddrLen(t.cmd) = 4 <=> t.cmd \in FourByteCmds \/ host.wide \/ chip_info.four
  BY DEF AddrLen, FlashInv, FlagsHeard
<1>4. d(1) \in Nat /\ d(2) \in Nat /\ d(3) \in Nat /\ (AddrLen(t.cmd) = 4 => d(4) \in Nat)
  BY <1>1, <1>2
<1>5. CASE AddrLen(t.cmd) = 4
  <2>1. Decoded(t.bytes, 4) = ((d(1) * Base + d(2)) * Base + d(3)) * Base + d(4)
    BY DEF Decoded, Shifted
  <2>2. @ = d(1) * Base * Base * Base + d(2) * Base * Base + d(3) * Base + d(4)
    <3> HIDE DEF d
    <3> QED BY <1>1, <1>4, <1>5, DigitsAre
  <2> QED BY <1>3, <1>5, <2>1, <2>2 DEF Addr, Target
<1>6. CASE AddrLen(t.cmd) = 3
  <2>1. Decoded(t.bytes, 3) = (d(1) * Base + d(2)) * Base + d(3)
    BY DEF Decoded, Shifted
  <2>2. @ = d(1) * Base * Base + d(2) * Base + d(3)
    <3> HIDE DEF d
    <3> QED BY <1>1, <1>4, DigitsAre
  <2> QED BY <1>3, <1>6, <2>1, <2>2 DEF Addr, Target
<1> QED BY <1>1, <1>5, <1>6

LEMMA ProgramClears ==
  ASSUME FlashInv, task # "off", NEW t \in Transfers, Program(t)
  PROVE  ClearsInPage(t)
<1> DEFINE data == Payload(t)
           a == Target(t)
           hits(p) == {i \in DOMAIN data : PageAddr(Addr(t), i) = p}
           F == [p \in DOMAIN slot.rom |-> {b \in slot.rom[p] : \A i \in hits(p) : b \in data[i]}]
<1>1. slot # Empty /\ slot' = [slot EXCEPT !.rom = F]
  BY DEF Program, CanProgram, FlashInv, FlashTypes, SlotOK
<1>2. slot'.rom = F
  BY <1>1 DEF FlashInv, FlashTypes, SlotOK
<1>3. chip_info.page \in Nat \ {0}
  BY ChipSizes DEF FlashInv, FlashTypes
<1>4. /\ t.bytes \in Seq(Byte) /\ AddrLen(t.cmd) \in {3, 4}
      /\ Len(t.bytes) \in Nat /\ Len(t.bytes) > AddrLen(t.cmd)
  BY FlashAssumption, AddrLenIs DEF Program, CanProgram
<1>5. Addr(t) = a /\ Addr(t) \in Nat
  BY <1>4, AddrIsTarget, AddrInChip DEF FlashInv
<1>6. \A i \in DOMAIN data : i \in Nat \ {0}
  BY <1>4 DEF Payload
<1>7. \A i \in DOMAIN data : PageAddr(Addr(t), i) \div chip_info.page = a \div chip_info.page
  <2> HIDE DEF a, data
  <2> QED BY <1>3, <1>5, <1>6, PageAddrIn
<1>8. ASSUME NEW p \in DOMAIN slot.rom
      PROVE  IF p \in Unit(chip_info.page, a)
             THEN slot'.rom[p] \subseteq slot.rom[p] ELSE slot'.rom[p] = slot.rom[p]
  <2> HIDE DEF a
  <2>1. CASE p \in Unit(chip_info.page, a)
    BY <1>2, <2>1
  <2>2. CASE p \notin Unit(chip_info.page, a)
    <3>1. hits(p) = {}
      BY <1>7, <2>2 DEF Unit
    <3> QED BY <1>2, <2>2, <3>1
  <2> QED BY <2>1, <2>2
<1> QED BY <1>8 DEF ClearsInPage

(* The places that handle_erase sets are the aligned unit of the address. *)
LEMMA UnitIs ==
  ASSUME NEW n \in Nat \ {0}, NEW a \in Nat, NEW p \in Nat
  PROVE  p - Aligned(a, n) \in 0 .. n - 1 <=> p \div n = a \div n
<1>1. Aligned(a, n) = n * (a \div n) /\ a \div n \in Nat
  BY AlignedIs, FlashDivIs
<1>2. \A k \in Nat : p - n * k \in 0 .. n - 1 <=> p \div n = k
  BY QuotientIs
<1> QED BY <1>1, <1>2

LEMMA EraseSets ==
  ASSUME FlashInv, task # "off", NEW t \in Transfers, Erase(t)
  PROVE  ErasesUnit(t)
<1> DEFINE n == EraseSize(t.cmd)
           F == [p \in DOMAIN slot.rom |->
                   IF p - EraseStart(t) \in 0 .. n - 1 THEN FF ELSE slot.rom[p]]
<1>1. slot # Empty /\ slot' = [slot EXCEPT !.rom = F] /\ t.cmd \in EraseCmds
  BY DEF Erase, CanErase, FlashInv, FlashTypes, SlotOK
<1>2. slot'.rom = F
  BY <1>1 DEF FlashInv, FlashTypes, SlotOK
<1>3. /\ chip_info.size \in Nat \ {0} /\ chip_info.sector \in Nat \ {0}
      /\ chip_info.block \in Nat \ {0} /\ Erase32K \in Nat \ {0}
  BY ChipSizes, FlashAssumption DEF FlashInv, FlashTypes
<1>4. ASSUME NEW p \in DOMAIN slot.rom
      PROVE  slot'.rom[p] = IF p \in ErasedBy(t) THEN FF ELSE slot.rom[p]
  <2>1. p \in Nat
    BY <1>1, RomIs DEF FlashInv
  <2>2. p \in ErasedBy(t) <=> p - EraseStart(t) \in 0 .. n - 1
    <3>1. CASE IsChipErase(t.cmd)
      <4>1. n = chip_info.size /\ EraseStart(t) = 0
        BY <3>1 DEF EraseSize, EraseStart, IsChipErase
      <4>2. ErasedBy(t) = 0 .. chip_info.size - 1
        BY <3>1 DEF ErasedBy, IsChipErase
      <4> QED BY <1>3, <2>1, <4>1, <4>2
    <3>2. CASE ~IsChipErase(t.cmd)
      <4>1. Addr(t) = Target(t) /\ Addr(t) \in Nat
        BY <3>2, AddrIsTarget, AddrInChip DEF Erase, CanErase, FlashInv
      <4>2. EraseStart(t) = Aligned(Target(t), n)
        BY <3>2, <4>1 DEF EraseStart
      <4>3. ErasedBy(t) = Unit(n, Target(t)) /\ n \in Nat \ {0}
        BY <1>1, <1>3, <3>2 DEF ErasedBy, EraseSize, EraseCmds, IsChipErase
      <4>4. p - Aligned(Target(t), n) \in 0 .. n - 1 <=> p \div n = Target(t) \div n
        <5> HIDE DEF n
        <5> QED BY <2>1, <4>1, <4>3, UnitIs
      <4> QED BY <4>2, <4>3, <4>4 DEF Unit
    <3> QED BY <3>1, <3>2
  <2> QED BY <1>2, <2>2
<1> QED BY <1>4 DEF ErasesUnit

(* Only a program or an erase changes the ROM under a transfer. *)
LEMMA OnlyTheseWrite ==
  ASSUME NEW t, Process(t), slot' # slot
  PROVE  Program(t) \/ Erase(t)
BY DEF Process, EnableWrite, DisableWrite, WriteStatus, SetAddressMode, SetPower, ResetCommand, Ignored

(* What a command does to the ROM is what a flash chip would do: a program clears bits in
   the page of its address, an erase sets the unit of its address to 0xFF. *)
THEOREM WritesLikeFlash == Spec => ChangesLikeFlash
<1> DEFINE A == LET t == answer'.sent
                IN  answer' # NoAnswer /\ slot' # slot =>
                      IF t.cmd \in ProgramCmds THEN ClearsInPage(t)
                      ELSE t.cmd \in EraseCmds /\ ErasesUnit(t)
<1>1. FlashInv /\ [Next]_vars => [A]_vars
  <2> SUFFICES ASSUME FlashInv, Next, answer' # NoAnswer, slot' # slot
               PROVE  IF answer'.sent.cmd \in ProgramCmds THEN ClearsInPage(answer'.sent)
                      ELSE answer'.sent.cmd \in EraseCmds /\ ErasesUnit(answer'.sent)
    OBVIOUS
  <2>1. PICK t \in Transfers : Transfer(t) /\ answer'.sent = t
    BY StepOfTask
  <2>2. task # "off" /\ (Program(t) \/ Erase(t))
    BY <2>1, OnlyTheseWrite DEF Transfer
  <2>3. CASE Program(t)
    BY <2>1, <2>2, <2>3, ProgramClears DEF Program, CanProgram
  <2>4. CASE Erase(t)
    <3>1. t.cmd \in EraseCmds /\ t.cmd \notin ProgramCmds
      BY <2>4 DEF Erase, CanErase, EraseCmds, ProgramCmds
    <3> QED BY <2>1, <2>2, <2>4, <3>1, EraseSets
  <2> QED BY <2>2, <2>3, <2>4
<1>2. Spec => [][A]_vars
  BY <1>1, FlashInvariance, PTL DEF Spec
<1> QED BY <1>2 DEF ChangesLikeFlash
=============================================================================
