------------------------------ MODULE MCSpiEmu ------------------------------
(***************************************************************************)
(* SpiEmu with two slots, so that inserting one ejects the other, and time *)
(* in units of 50 ms.  Two task identities are enough to see a second task *)
(* beside the first.  No symmetry: the run checks liveness.                 *)
(***************************************************************************)
EXTENDS SpiEmu

MCBusOf(c) == IF c = NoChip THEN "NONE" ELSE "SPI"

(* A bound: the NVS takes every write.  No emulator looks at it; writes that fail are
   in the run of RomStore. *)
NvsWorks == unsaved' = {}
=============================================================================
