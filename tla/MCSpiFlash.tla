----------------------------- MODULE MCSpiFlash -----------------------------
(***************************************************************************)
(* SpiFlash with bytes of one bit, which is also the WEL bit: addresses    *)
(* have 3 or 4 binary digits.  Small chips of 4 bytes take 3, large ones   *)
(* of 8 bytes take 4; a page has 2 bytes.                                  *)
(***************************************************************************)
EXTENDS SpiFlash

Zero == {}
One  == FF

MCWeight == [b \in Byte |-> IF b = Zero THEN 0 ELSE 1]

Small == [size |-> 4, page |-> 2, sector |-> 2, block |-> 4, four |-> FALSE, id |-> <<Zero, One, Zero>>]
Large == [size |-> 8, page |-> 2, sector |-> 2, block |-> 8, four |-> TRUE, id |-> <<Zero, Zero, One>>]

MCChips    == {Small, Large}
MCImages   == {[chip |-> c, rom |-> [p \in 0 .. c.size - 1 |-> Zero]] : c \in MCChips}
MCSfdp     == <<Zero, One>>
MCUniqueId == [i \in 1 .. 8 |-> Zero]

Strings(ns) == UNION {[1 .. n -> Byte] : n \in ns}
Uniform(ns) == {[i \in 1 .. n |-> b] : n \in ns, b \in Byte}

Send(cmds, strings) == [cmd : cmds, bytes : strings]

(* Programs of 3 bytes wrap within a page; short transfers end before, in and right
   after the address; reads and SFDP do not change anything, and a few will do. *)
MCTransfers ==
       Send({"WRITE_ENABLE", "WRITE_DISABLE", "ENTER_4BYTE_MODE", "EXIT_4BYTE_MODE",
             "POWER_DOWN", "RESET", "ENABLE_RESET"}, {<<>>})
  \cup Send({"RELEASE_PD", "READ_JEDEC_ID", "READ_STATUS_1", "READ_UNIQUE_ID"}, Uniform({3}))
  \cup Send({"WRITE_STATUS_1"}, Strings({0, 1}))
  \cup Send({"WRITE_STATUS_2", "WRITE_STATUS_3", "READ_STATUS_2", "READ_STATUS_3"}, {<<Zero>>})
  \cup Send({"PAGE_PROGRAM"}, {a \o <<One, Zero>> : a \in Strings({3, 4})})
  \cup Send({"PAGE_PROGRAM_4B"}, {a \o <<Zero, One, Zero>> : a \in Strings({4})})
  \cup Send(ProgramCmds, Uniform(2 .. 5))
  \cup Send({"SECTOR_ERASE"}, Strings({3, 4}))
  \cup Send(EraseCmds, Uniform(2 .. 4))
  \cup Send({"CHIP_ERASE"}, {<<>>})
  \cup Send(ReadCmds, Uniform({2, 5}))
  \cup Send({"READ_DATA", "QUAD_IO_READ"}, Uniform({4, 8}))
  \cup Send({"READ_SFDP"}, Uniform({3, 5}))

(* A view for TLC: nobody reads powered_down, the last answer or what is left in tx_buf. *)
Protocol == <<chip_info, task, write_enable, four_byte_mode, status_reg, slot, handler, host>>
=============================================================================
