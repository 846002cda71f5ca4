--------------------------- MODULE VolatileFlash ---------------------------
(***************************************************************************)
(* What the compressed store promises to the code that reads and programs  *)
(* it, with no cache, no LZ4 and no buffer: a flash device of NumBlocks    *)
(* sectors that holds two contents per sector, the one its users see (mem) *)
(* and the one it can fall back to (durable).                              *)
(*                                                                         *)
(*   - a read delivers, in order, what the addressed sectors hold;         *)
(*   - a program changes the addressed bytes of mem only;                  *)
(*   - an erase of a whole sector changes mem and durable;                 *)
(*   - at any step that touches another sector, a sector may fall back to  *)
(*     its durable content, or, when it is all 0xFF, become durable.       *)
(*                                                                         *)
(* It is weaker than a flash chip, on purpose: the last rule is what the   *)
(* implementation does (see CStore and the run cstore_lost_write).         *)
(***************************************************************************)
EXTENDS Naturals, Sequences

CONSTANTS
  Bits,       (* The bit positions of a byte; a byte is the set of its 1s. *)
  BlockSize,  (* Bytes in a sector.                                        *)
  ChipSize,   (* Bytes in the device.                                      *)
  Images,     (* The images a device may be created from.                  *)
  Calls       (* The calls its users make.                                 *)

VARIABLES
  mem,        (* mem[b]: the content a reader of sector b is given.        *)
  durable,    (* durable[b]: the content sector b can fall back to.        *)
  call,       (* The call in progress: what is left of it.                 *)
  dst         (* The bytes delivered by the last read call, so far.        *)

vars == <<mem, durable, call, dst>>

FF          == Bits
NumBlocks   == (ChipSize + BlockSize - 1) \div BlockSize
Blocks      == 0 .. NumBlocks - 1
Offsets     == 0 .. BlockSize - 1
ErasedBlock == [o \in Offsets |-> FF]
Idle        == [op |-> "none"]

Block(a)  == a \div BlockSize
Offset(a) == a % BlockSize

(* The bytes of sector b that exist on a chip of ChipSize bytes. *)
BlockLen(b) ==
  IF b * BlockSize + BlockSize > ChipSize
  THEN ChipSize - b * BlockSize
  ELSE BlockSize

Erased(b, d) == \A o \in 0 .. BlockLen(b) - 1 : d[o] = FF

(* The piece of the call that falls into the sector it has reached. *)
Chunk ==
  IF call.len < BlockSize - Offset(call.addr)
  THEN call.len
  ELSE BlockSize - Offset(call.addr)

Pending(op) == call.op = op /\ call.len > 0
InChip      == call.addr < ChipSize

Advance(n) ==
  call' = IF call.len = n
          THEN Idle
          ELSE [call EXCEPT !.addr = @ + n, !.len = @ - n]

(***************************************************************************)
(* While sector b is addressed, any set of other sectors may fall back     *)
(* (lost) and any set of other all-0xFF sectors may become durable         *)
(* (wiped).  Settled is mem after that, Kept is durable after that.        *)
(***************************************************************************)
Settled(lost, wiped) ==
  [b \in Blocks |-> IF b \in wiped THEN ErasedBlock
                    ELSE IF b \in lost THEN durable[b] ELSE mem[b]]

Kept(wiped) ==
  [b \in Blocks |-> IF b \in wiped THEN ErasedBlock ELSE durable[b]]

Evictable(b)   == SUBSET (Blocks \ {b})
Wipeable(b)    == SUBSET {c \in Blocks \ {b} : Erased(c, mem[c])}

----------------------------------------------------------------------------
Init ==
  /\ \E image \in Images : mem = image /\ durable = image
  /\ call = Idle
  /\ dst = <<>>

Start ==
  /\ call = Idle
  /\ \E c \in Calls : call' = c
  /\ dst' = <<>>
  /\ UNCHANGED <<mem, durable>>

Read ==
  LET b == Block(call.addr)
      o == Offset(call.addr)
      n == Chunk
  IN  /\ Pending("read") /\ InChip
      /\ \E lost \in Evictable(b), wiped \in Wipeable(b) :
           /\ mem' = Settled(lost, wiped)
           /\ durable' = Kept(wiped)
      /\ dst' = dst \o [k \in 1 .. n |-> mem[b][o + k - 1]]
      /\ Advance(n)

ReadPastEnd ==
  /\ Pending("read") /\ ~InChip
  /\ dst' = dst \o [k \in 1 .. call.len |-> FF]
  /\ call' = Idle
  /\ UNCHANGED <<mem, durable>>

(* A program clears bits when call.flash is set and overwrites otherwise. *)
Programmed(b, o, n, d) ==
  [i \in Offsets |-> IF i < o \/ i >= o + n THEN d[i]
                     ELSE IF call.flash THEN d[i] \cap call.src[b][i]
                     ELSE call.src[b][i]]

Write ==
  LET b == Block(call.addr)
      o == Offset(call.addr)
      n == Chunk
  IN  /\ Pending("write") /\ InChip
      /\ \E lost \in Evictable(b), wiped \in Wipeable(b) :
           /\ mem' = [Settled(lost, wiped) EXCEPT ![b] = Programmed(b, o, n, mem[b])]
           /\ durable' = Kept(wiped)
      /\ Advance(n)
      /\ UNCHANGED dst

EraseSector ==
  LET b == Block(call.addr)
  IN  /\ Pending("erase") /\ InChip
      /\ Offset(call.addr) = 0 /\ call.len >= BlockSize
      /\ mem' = [mem EXCEPT ![b] = ErasedBlock]
      /\ durable' = [durable EXCEPT ![b] = ErasedBlock]
      /\ Advance(BlockSize)
      /\ UNCHANGED dst

ErasePart ==
  LET b == Block(call.addr)
      o == Offset(call.addr)
      n == Chunk
  IN  /\ Pending("erase") /\ InChip
      /\ ~(o = 0 /\ call.len >= BlockSize)
      /\ \E lost \in Evictable(b), wiped \in Wipeable(b) :
           /\ mem' = [Settled(lost, wiped) EXCEPT
                        ![b] = [i \in Offsets |-> IF i < o \/ i >= o + n
                                                  THEN mem[b][i] ELSE FF]]
           /\ durable' = Kept(wiped)
      /\ Advance(n)
      /\ UNCHANGED dst

StopPastEnd ==
  /\ Pending("write") \/ Pending("erase")
  /\ ~InChip
  /\ call' = Idle
  /\ UNCHANGED <<mem, durable, dst>>

(* A flush makes all-0xFF sectors durable; other sectors keep both contents. *)
Flush ==
  /\ Pending("flush")
  /\ \E wiped \in SUBSET {c \in Blocks : Erased(c, mem[c])} : durable' = Kept(wiped)
  /\ Advance(1)
  /\ UNCHANGED <<mem, dst>>

Next ==
  \/ Start
  \/ Read \/ ReadPastEnd
  \/ Write
  \/ EraseSector \/ ErasePart
  \/ StopPastEnd
  \/ Flush

Spec == Init /\ [][Next]_vars
=============================================================================
