------------------------------ MODULE SpiFlash ------------------------------
(***************************************************************************)
(* main/spi_flash_emu.c: the command protocol of the SPI flash emulator,   *)
(* while the handlers of web_handlers.c change slot and chip under it.  A  *)
(* step of the task is one round of spi_emu_task: the host's transfer, in  *)
(* which it clocks rx in and the prepared tx_buf out, and then             *)
(* process_transaction.  That a stopped task is gone when the 200 ms of    *)
(* spi_flash_emu_stop are over is shown by SpiEmu and taken as given here. *)
(*                                                                         *)
(* Abstractions.  A byte is the set of its 1 bits, as in CStore; the ROM   *)
(* is its bytes, kept as a compressed store should keep them (CStore says  *)
(* how far it does).  An opcode is its name.  The raw path (slot->data) is *)
(* left out: rom_store_upload always sets data to NULL.  The statistics    *)
(* and the access log are left out.  A slot is inserted as it was uploaded *)
(* (what else it may hold then makes no difference to the protocol), and a *)
(* wait that times out is no round: the driver is taken to drop it.        *)
(***************************************************************************)
EXTENDS Integers, Sequences

CONSTANTS
  Bits,        (* The bit positions of a byte,                             *)
  WEL,         (*   and the one of them that is 0x02.                      *)
  Weight,      (* The number a byte stands for in an address.              *)
  Base,        (* How many numbers those are: 256.                         *)
  Chips,       (* spi_chip_db: records of sizes, address width and ID.      *)
  Erase32K,    (* 32 * 1024                                                *)
  BufSize,     (* SPI_BUF_SIZE                                             *)
  Sfdp,        (* The bytes of sfdp_header,                                *)
  UniqueId,    (*   and those of the unique ID.                            *)
  Images,      (* What may be in the socket: [chip, rom].                  *)
  Transfers    (* What the host may send: [cmd, bytes].                    *)

Byte == SUBSET Bits
FF   == Bits

ReadCmds    == {"READ_DATA", "FAST_READ", "DUAL_READ", "QUAD_READ", "DUAL_IO_READ",
                "QUAD_IO_READ", "READ_DATA_4B", "FAST_READ_4B"}
ProgramCmds == {"PAGE_PROGRAM", "PAGE_PROGRAM_4B"}
EraseCmds   == {"SECTOR_ERASE", "SECTOR_ERASE_4B", "BLOCK_ERASE_32K", "BLOCK_ERASE_64K",
                "BLOCK_ERASE_64K_4B", "CHIP_ERASE", "CHIP_ERASE_ALT"}
FourByteCmds == {"READ_DATA_4B", "FAST_READ_4B", "PAGE_PROGRAM_4B", "SECTOR_ERASE_4B",
                 "BLOCK_ERASE_64K_4B"}
StatusReads  == [READ_STATUS_1 |-> 1, READ_STATUS_2 |-> 2, READ_STATUS_3 |-> 3]
StatusWrites == [WRITE_STATUS_1 |-> 1, WRITE_STATUS_2 |-> 2, WRITE_STATUS_3 |-> 3]

NoTransfer == [cmd |-> "none", bytes |-> <<>>]
NoAnswer   == [sent |-> NoTransfer, got |-> <<>>]
NoChip == [size |-> 0, id |-> <<>>]
Idle   == [op |-> "none", chip |-> NoChip]
Empty  == [chip |-> NoChip, rom |-> <<>>]    (* rom_store_get_active() == NULL *)

(* Sizes are those of flash chips: each a multiple of the one before. *)
IsChip(c) ==
  /\ {c.size, c.page, c.sector, c.block} \subseteq Nat \ {0}
  /\ c.sector % c.page = 0 /\ c.block % c.sector = 0 /\ c.size % c.block = 0
  /\ Erase32K % c.sector = 0 /\ c.size % Erase32K = 0
  /\ c.four \in BOOLEAN /\ c.id \in Seq(Byte) /\ Len(c.id) = 3

ASSUME FlashAssumption ==
  /\ WEL \in Bits
  /\ Base \in Nat \ {0} /\ Weight \in [Byte -> 0 .. Base - 1]
  /\ Erase32K \in Nat \ {0} /\ BufSize \in Nat /\ BufSize >= 13
  /\ {Sfdp, UniqueId} \subseteq Seq(Byte) /\ Len(UniqueId) = 8
  /\ \A c \in Chips : IsChip(c)
  /\ \A i \in Images : /\ i = [chip |-> i.chip, rom |-> i.rom]
                       /\ i.chip \in Chips /\ i.rom \in [0 .. i.chip.size - 1 -> Byte]
  /\ \A t \in Transfers : t.bytes \in Seq(Byte) /\ 1 + Len(t.bytes) <= BufSize

VARIABLES
  chip_info,       (* s_ctx.chip_info, NoChip for NULL                     *)
  task,            (* "on": s_ctx.running; "last": stopped, but a transfer *)
                   (*   it waits for may still come; "off".                *)
  write_enable, four_byte_mode, powered_down,
  status_reg,      (* status_reg1 to status_reg3                           *)
  slot,            (* The active SPI slot: [chip, rom], or Empty.          *)
  tx_buf,          (* What the next transfer sends; tx_buf[1] is tx[0].    *)
  handler,         (* The call of a handler that is under way: [op, chip]. *)
  answer,          (* History: the transfer of the last step and what the  *)
                   (*   host got of it, or NoAnswer after other steps.     *)
  host             (* History: what the host's commands since the last     *)
                   (*   start allow: [enabled, wide], see Heard.           *)

flags == <<write_enable, four_byte_mode, powered_down, status_reg>>
vars  == <<chip_info, task, flags, slot, tx_buf, handler, answer, host>>

----------------------------------------------------------------------------
(* Addresses. *)

Shifted(a, byte) == a * Base + Weight[byte]

(* decode_address: the first n bytes, 3 or 4, the most significant one first. *)
Decoded(bytes, n) ==
  LET three == Shifted(Shifted(Weight[bytes[1]], bytes[2]), bytes[3])
  IN  IF n = 4 THEN Shifted(three, bytes[4]) ELSE three

AddrLen(cmd) == IF cmd \in FourByteCmds \/ four_byte_mode \/ chip_info.four THEN 4 ELSE 3

Dummy(cmd) == IF cmd \in {"READ_DATA", "READ_DATA_4B"} THEN 0
              ELSE IF cmd = "QUAD_IO_READ" THEN 3 ELSE 1

(* The address of a command and the bytes after it. *)
Addr(t)    == Decoded(t.bytes, AddrLen(t.cmd)) % chip_info.size
Payload(t) == SubSeq(t.bytes, AddrLen(t.cmd) + 1, Len(t.bytes))

(* The start of the group of n that holds a: a & ~(n - 1). *)
Aligned(a, n) == a - (a % n)

----------------------------------------------------------------------------
(* Life cycle, as far as the protocol sees it. *)

Reset ==
  /\ write_enable' = FALSE
  /\ powered_down' = FALSE
  /\ status_reg' = [r \in 1 .. 3 |-> {}]

Init ==
  /\ chip_info = NoChip /\ task = "off"
  /\ write_enable = FALSE /\ four_byte_mode = FALSE /\ powered_down = FALSE
  /\ status_reg = [r \in 1 .. 3 |-> {}]
  /\ slot = Empty
  /\ tx_buf = [i \in 1 .. BufSize |-> FF]
  /\ handler = Idle
  /\ answer = NoAnswer
  /\ host = [enabled |-> FALSE, wide |-> FALSE]

(* A handler: nothing of it is a transfer, and the server runs one at a time. *)
Handler(from, to) == handler = from /\ handler' = to /\ answer' = NoAnswer

(* handler_api_slot_insert: rom_store_insert switches the slot under the running task;
   spi_flash_emu_set_chip comes after it. *)
InsertSlot(image) ==
  /\ Handler(Idle, [op |-> "set_chip", chip |-> image.chip])
  /\ slot' = image
  /\ UNCHANGED <<chip_info, task, flags, tx_buf, host>>

(* handler_api_chip_set: the emulator takes a chip, whatever the slot is for. *)
SetChip(c) ==
  /\ Handler(Idle, [op |-> "set_chip", chip |-> c])
  /\ UNCHANGED <<chip_info, task, flags, slot, tx_buf, host>>

(* handler_api_slot_eject: it stops the emulator before rom_store_eject. *)
Eject ==
  /\ slot # Empty
  /\ Handler(Idle, [op |-> "eject", chip |-> NoChip])
  /\ UNCHANGED <<chip_info, task, flags, slot, tx_buf, host>>

(* spi_flash_emu_stop clears the flag and waits. *)
Stop ==
  /\ handler # Idle /\ task = "on"
  /\ Handler(handler, handler)
  /\ task' = "last"
  /\ UNCHANGED <<chip_info, flags, slot, tx_buf, host>>

(* spi_flash_emu_start; spi_slave_initialize may fail. *)
Start ==
  /\ handler.op = "set_chip" /\ task # "on"
  /\ Handler(handler, Idle)
  /\ Reset
  /\ chip_info' = handler.chip
  /\ four_byte_mode' = handler.chip.four
  /\ task' \in {"on", "off"}
  /\ host' = [enabled |-> FALSE, wide |-> handler.chip.four]
  /\ UNCHANGED <<slot, tx_buf>>

(* rom_store_eject *)
Ejected ==
  /\ handler.op = "eject" /\ task # "on"
  /\ Handler(handler, Idle)
  /\ task' = "off" /\ slot' = Empty
  /\ UNCHANGED <<chip_info, flags, tx_buf, host>>

----------------------------------------------------------------------------
(* tx_buf. *)

(* memcpy(buf + at, seq), as far as buf goes *)
Put(buf, at, seq) ==
  [i \in 1 .. BufSize |-> IF i - at \in DOMAIN seq THEN seq[i - at] ELSE buf[i]]

(* What spi_emu_task puts into tx_buf before it waits for a transfer. *)
Prepared == Put([i \in 1 .. BufSize |-> FF], 1, chip_info.id)

(* cstore_read: 0xFF past the end *)
RomBytes(a, n) ==
  [i \in 1 .. n |-> IF a + i - 1 \in DOMAIN slot.rom THEN slot.rom[a + i - 1] ELSE FF]

(* handle_read_command *)
ReadResponse(t, tx) ==
  LET header == 1 + AddrLen(t.cmd) + Dummy(t.cmd)
      len    == 1 + Len(t.bytes)
  IN  IF slot = Empty \/ len < header THEN tx
      ELSE Put(tx, header, RomBytes(Addr(t), len - header))

(* handle_read_sfdp *)
SfdpResponse(t, tx) ==
  IF 1 + Len(t.bytes) < 5 THEN tx
  ELSE LET a == Decoded(t.bytes, 3)
       IN  Put(tx, 5, [i \in 1 .. Len(t.bytes) - 4 |-> IF a + i \in DOMAIN Sfdp THEN Sfdp[a + i] ELSE FF])

(* What process_transaction leaves in tx_buf, after the transfer. *)
Response(t, tx) ==
  CASE t.cmd \in ReadCmds -> ReadResponse(t, tx)
    [] t.cmd = "READ_JEDEC_ID" -> Put(tx, 0, <<FF>> \o chip_info.id)
    [] t.cmd \in DOMAIN StatusReads -> Put(tx, 0, <<FF, status_reg[StatusReads[t.cmd]]>>)
    [] t.cmd = "READ_SFDP" -> SfdpResponse(t, tx)
    [] t.cmd = "RELEASE_PD" /\ Len(t.bytes) >= 3 -> Put(tx, 4, <<chip_info.id[3]>>)
    [] t.cmd = "READ_UNIQUE_ID" -> Put(tx, 5, UniqueId)
    [] OTHER -> tx

----------------------------------------------------------------------------
(* process_transaction: what the commands do. *)

EnableWrite(t) ==
  /\ t.cmd = "WRITE_ENABLE"
  /\ write_enable' = TRUE
  /\ status_reg' = [status_reg EXCEPT ![1] = @ \cup {WEL}]
  /\ UNCHANGED <<four_byte_mode, powered_down, slot>>

DisableWrite(t) ==
  /\ t.cmd = "WRITE_DISABLE"
  /\ write_enable' = FALSE
  /\ status_reg' = [status_reg EXCEPT ![1] = @ \ {WEL}]
  /\ UNCHANGED <<four_byte_mode, powered_down, slot>>

(* The tests that a command has to get through. *)
CanWriteStatus(t) ==
  t.cmd \in DOMAIN StatusWrites /\ write_enable /\ t.bytes # <<>>

CanProgram(t) ==
  t.cmd \in ProgramCmds /\ write_enable /\ slot # Empty /\ Len(t.bytes) > AddrLen(t.cmd)

IsChipErase(cmd) == cmd \in {"CHIP_ERASE", "CHIP_ERASE_ALT"}

CanErase(t) ==
  /\ t.cmd \in EraseCmds /\ write_enable /\ slot # Empty
  /\ IsChipErase(t.cmd) \/ Len(t.bytes) >= AddrLen(t.cmd)

(* Mutant: a status write does not use up the write enable. *)
WriteStatus_KeepsEnable(t) ==
  /\ CanWriteStatus(t)
  /\ status_reg' = [status_reg EXCEPT ![StatusWrites[t.cmd]] = t.bytes[1]]
  /\ UNCHANGED <<write_enable, four_byte_mode, powered_down, slot>>

WriteStatus(t) ==
  /\ CanWriteStatus(t)
  /\ status_reg' = [status_reg EXCEPT ![StatusWrites[t.cmd]] = t.bytes[1]]
  /\ write_enable' = FALSE
  /\ UNCHANGED <<four_byte_mode, powered_down, slot>>

(* Mutant: a program runs on into the next page. *)
PageAddr_NoWrap(a, i) == a + i - 1

(* The place that byte i of a payload is programmed to: within the page of the address. *)
PageAddr(a, i) == Aligned(a, chip_info.page) + ((a + i - 1) % chip_info.page)

(* handle_page_program *)
Program(t) ==
  /\ CanProgram(t)
  /\ LET data == Payload(t)
         hits(p) == {i \in DOMAIN data : PageAddr(Addr(t), i) = p}
     IN  slot' = [slot EXCEPT !.rom =
                    [p \in DOMAIN @ |-> {b \in @[p] : \A i \in hits(p) : b \in data[i]}]]
  /\ write_enable' = FALSE
  /\ UNCHANGED <<four_byte_mode, powered_down, status_reg>>

(* What handle_erase erases: the chip, or the unit that holds the address. *)
EraseSize(cmd) ==
  CASE IsChipErase(cmd) -> chip_info.size
    [] cmd \in {"SECTOR_ERASE", "SECTOR_ERASE_4B"} -> chip_info.sector
    [] cmd = "BLOCK_ERASE_32K" -> Erase32K
    [] cmd \in {"BLOCK_ERASE_64K", "BLOCK_ERASE_64K_4B"} -> chip_info.block

EraseStart(t) == IF IsChipErase(t.cmd) THEN 0 ELSE Aligned(Addr(t), EraseSize(t.cmd))

(* handle_erase *)
Erase(t) ==
  /\ CanErase(t)
  /\ slot' = [slot EXCEPT !.rom =
                [p \in DOMAIN @ |-> IF p - EraseStart(t) \in 0 .. EraseSize(t.cmd) - 1 THEN FF ELSE @[p]]]
  /\ write_enable' = FALSE
  /\ UNCHANGED <<four_byte_mode, powered_down, status_reg>>

SetAddressMode(t) ==
  /\ t.cmd \in {"ENTER_4BYTE_MODE", "EXIT_4BYTE_MODE"}
  /\ four_byte_mode' = (t.cmd = "ENTER_4BYTE_MODE")
  /\ UNCHANGED <<write_enable, powered_down, status_reg, slot>>

SetPower(t) ==
  /\ t.cmd \in {"POWER_DOWN", "RELEASE_PD"}
  /\ powered_down' = (t.cmd = "POWER_DOWN")
  /\ UNCHANGED <<write_enable, four_byte_mode, status_reg, slot>>

ResetCommand(t) ==
  /\ t.cmd = "RESET"
  /\ Reset
  /\ four_byte_mode' = FALSE
  /\ UNCHANGED slot

(* Everything else, and what returns early, leaves the flash as it is. *)
Acts(t) ==
  \/ t.cmd \in {"WRITE_ENABLE", "WRITE_DISABLE", "ENTER_4BYTE_MODE", "EXIT_4BYTE_MODE",
                "POWER_DOWN", "RELEASE_PD", "RESET"}
  \/ CanWriteStatus(t) \/ CanProgram(t) \/ CanErase(t)

Ignored(t) == ~Acts(t) /\ UNCHANGED <<flags, slot>>

Process(t) ==
  \/ EnableWrite(t) \/ DisableWrite(t) \/ WriteStatus(t) \/ Program(t) \/ Erase(t)
  \/ SetAddressMode(t) \/ SetPower(t) \/ ResetCommand(t) \/ Ignored(t)

(* What a flash chip would make of the commands it has had since it started: whether it
   would take a write, which it does once after each WRITE_ENABLE, and whether it is in
   4-byte mode. *)
Heard(t) ==
  [enabled |-> CASE t.cmd = "WRITE_ENABLE" -> TRUE
                 [] t.cmd \in {"WRITE_DISABLE", "RESET"} -> FALSE
                 [] OTHER -> host.enabled /\ UNCHANGED <<slot, status_reg>>,
   wide    |-> CASE t.cmd = "ENTER_4BYTE_MODE" -> TRUE
                 [] t.cmd \in {"EXIT_4BYTE_MODE", "RESET"} -> FALSE
                 [] OTHER -> host.wide]

(* A round of spi_emu_task. *)
Transfer(t) ==
  /\ task # "off"
  /\ answer' = [sent |-> t, got |-> SubSeq(Prepared, 1, 1 + Len(t.bytes))]
  /\ tx_buf' = Response(t, Prepared)
  /\ Process(t)
  /\ host' = Heard(t)
  /\ task' = IF task = "last" THEN "off" ELSE task
  /\ UNCHANGED <<chip_info, handler>>

Next ==
  \/ \E i \in Images : InsertSlot(i)
  \/ \E c \in Chips : SetChip(c)
  \/ Eject \/ Stop \/ Start \/ Ejected
  \/ \E t \in Transfers : Transfer(t)

Spec == Init /\ [][Next]_vars

----------------------------------------------------------------------------
(* Properties. *)

(* Each write takes a WRITE_ENABLE of its own: the flag that the code clears in three
   places, and keeps apart from the WEL bit, lets no second program, erase or status write
   through, nor one after WRITE_DISABLE, RESET or a restart. *)
EnabledOnce ==
  [][/\ answer'.sent.cmd \notin {"none", "WRITE_ENABLE", "WRITE_DISABLE", "RESET"}
     /\ slot' # slot \/ status_reg' # status_reg
     => host.enabled]_vars

(* The address a flash chip would read from a command: a number of 3 or 4 digits. *)
Target(t) ==
  LET d(i) == Weight[t.bytes[i]]
  IN  (IF t.cmd \in FourByteCmds \/ host.wide \/ chip_info.four
       THEN d(1) * Base * Base * Base + d(2) * Base * Base + d(3) * Base + d(4)
       ELSE d(1) * Base * Base + d(2) * Base + d(3)) % chip_info.size

(* The places of the aligned group of n that holds a. *)
Unit(n, a) == {p \in DOMAIN slot.rom : p \div n = a \div n}

(* What a flash chip erases by each command. *)
ErasedBy(t) ==
  CASE t.cmd \in {"SECTOR_ERASE", "SECTOR_ERASE_4B"} -> Unit(chip_info.sector, Target(t))
    [] t.cmd = "BLOCK_ERASE_32K" -> Unit(Erase32K, Target(t))
    [] t.cmd \in {"BLOCK_ERASE_64K", "BLOCK_ERASE_64K_4B"} -> Unit(chip_info.block, Target(t))
    [] OTHER -> 0 .. chip_info.size - 1

ClearsInPage(t) ==
  \A p \in DOMAIN slot.rom :
    IF p \in Unit(chip_info.page, Target(t))
    THEN slot'.rom[p] \subseteq slot.rom[p] ELSE slot'.rom[p] = slot.rom[p]

ErasesUnit(t) ==
  \A p \in DOMAIN slot.rom :
    slot'.rom[p] = IF p \in ErasedBy(t) THEN FF ELSE slot.rom[p]

(* What a transfer does to the ROM is what a flash chip would do, whatever the address, its
   width, the length, and the chips of slot and emulator, which differ while a handler is
   between them: a program clears bits in the page of its address only, an erase sets the
   aligned unit that holds its address, and no other command changes anything. *)
ChangesLikeFlash ==
  [][LET t == answer'.sent
     IN  answer' # NoAnswer /\ slot' # slot =>
           IF t.cmd \in ProgramCmds THEN ClearsInPage(t)
           ELSE t.cmd \in EraseCmds /\ ErasesUnit(t)]_vars

(* README.md:5: "insert them into a virtual socket, and the target system boots from
   them": a host that reads gets the bytes of the image. *)
ReadsDeliver ==
  [][LET t      == answer'.sent
         header == 1 + AddrLen(t.cmd) + Dummy(t.cmd)
     IN  t.cmd \in ReadCmds /\ slot # Empty /\ Len(answer'.got) > header =>
           SubSeq(answer'.got, header + 1, Len(answer'.got))
             = RomBytes(Addr(t), Len(answer'.got) - header)]_vars
=============================================================================
