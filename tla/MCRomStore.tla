----------------------------- MODULE MCRomStore -----------------------------
(***************************************************************************)
(* RomStore with two slots: the README speaks of 4, ROM_SLOT_MAX is 1 in   *)
(* this commit, and two are what auto-eject and sharing need.              *)
(***************************************************************************)
EXTENDS RomStore, FiniteSets, TLC

CONSTANTS SpiChip, I2cChip

MCBusOf(c) == IF c = SpiChip THEN "SPI" ELSE IF c = I2cChip THEN "I2C" ELSE "NONE"

(* A bound: no second slot's save goes wrong while a first one's record is unsaved. *)
OneUnsaved == Cardinality(unsaved) <= 1

(* A view: what the last save of an unsaved slot was for is not looked at. *)
Looked == <<slots, active, heap, nvs, saving, unsaved, [i \in Slots \ unsaved |-> saved[i]]>>

StoreSymmetry == Permutations(Stores)
=============================================================================
