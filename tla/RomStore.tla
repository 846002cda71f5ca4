------------------------------ MODULE RomStore ------------------------------
(***************************************************************************)
(* main/rom_store.c: the ROM slots, which of them is served on which bus,  *)
(* the compressed stores they own and the metadata kept in NVS, with the   *)
(* power failing at any time.                                              *)
(*                                                                         *)
(* Every caller but the emulators, which only look, is an HTTP handler,    *)
(* and the server runs one handler at a time; so one operation follows the *)
(* other, and only save_slot_metadata is cut into steps, one per NVS       *)
(* write, for the power to fail in between.  Each write may also fail, as  *)
(* nobody looks at its result; one that nvs_commit does not bring to the   *)
(* flash is read by nobody before a restart, and so has failed as well.    *)
(* An image stands for its bytes and so for its size and its CRC.  The raw *)
(* data pointer of a slot is always NULL and `compressed' is cstore # NULL;*)
(* both are left out.                                                      *)
(***************************************************************************)
EXTENDS Integers, Sequences

CONSTANTS
  SlotMax,          (* ROM_SLOT_MAX                                        *)
  Chips, NoChip,    (* The chip types, and CHIP_NONE.                      *)
  BusOf(_),         (* chip_get_bus: "SPI", "I2C" or "NONE".               *)
  Images, NoImage,  (* What is uploaded, and the size and CRC of nothing.  *)
  Labels, NoLabel,  (* The labels, and the empty string.                   *)
  Stores, NoStore,  (* Addresses of a cstore_t, and NULL.                  *)
  Absent            (* The value of an NVS key that is not there.          *)

ASSUME SlotAssumption == SlotMax \in Nat \ {0}

ASSUME ValueAssumption ==
  /\ NoChip \notin Chips /\ NoLabel \notin Labels
  /\ NoImage \notin Images /\ NoStore \notin Stores
  /\ \A c \in Chips \cup {NoChip} : BusOf(c) \in {"SPI", "I2C", "NONE"}
  /\ Absent \notin Chips \cup {NoChip} \cup Images \cup {NoImage} \cup Labels \cup {NoLabel}

Slots    == 0 .. SlotMax - 1
NoSlot   == -1
Sockets  == {"SPI", "I2C"}
Keys     == {"chip", "size", "crc", "label"}
NoRecord == [k \in Keys |-> Absent]

VARIABLES
  slots,    (* s_slots                                                     *)
  active,   (* s_active_spi_slot and s_active_i2c_slot                     *)
  heap,     (* The compressed stores that are allocated.                   *)
  nvs,      (* nvs[i]: the record in the NVS namespace of slot i.          *)
  saving,   (* The NVS writes the running operation has left to do.        *)
  saved,    (* History: the record that the last save of a slot was for.   *)
  unsaved   (* History: slots whose last save did not go through.          *)

vars == <<slots, active, heap, nvs, saving, saved, unsaved>>

Cleared == [occupied |-> FALSE, inserted |-> FALSE, label |-> NoLabel, chip |-> NoChip,
            size |-> NoImage, crc |-> NoImage, cstore |-> NoStore]

(* Every test of the code for a bus is `== BUS_SPI'; all else is I2C. *)
Socket(chip) == IF BusOf(chip) = "SPI" THEN "SPI" ELSE "I2C"

SocketOf(i) == Socket(slots[i].chip)

----------------------------------------------------------------------------
(* save_slot_metadata(i) of slot s, as the writes it makes. *)

Put(i, key, value) == [slot |-> i, key |-> key, value |-> value]
EraseAll(i)        == [slot |-> i, key |-> "all", value |-> Absent]

(* The record that describes slot s. *)
Described(s) ==
  IF s.occupied
  THEN [k \in Keys |-> CASE k = "chip" -> s.chip [] k = "size" -> s.size
                         [] k = "crc" -> s.crc [] k = "label" -> s.label]
  ELSE NoRecord

(* Mutant: a slot that is empty leaves its record alone. *)
SaveSteps_KeepsRecord(i, s) ==
  IF s.occupied
  THEN <<Put(i, "chip", s.chip), Put(i, "size", s.size),
         Put(i, "crc", s.crc), Put(i, "label", s.label)>>
  ELSE <<>>

SaveSteps(i, s) ==
  IF s.occupied
  THEN <<Put(i, "chip", s.chip), Put(i, "size", s.size),
         Put(i, "crc", s.crc), Put(i, "label", s.label)>>
  ELSE <<EraseAll(i)>>

(* The namespace may fail to open, and then nothing is written. *)
SaveSlotMetadata(i, s) ==
  /\ saved' = [saved EXCEPT ![i] = Described(s)]
  /\ \/ saving' = SaveSteps(i, s) /\ unsaved' = unsaved \ {i}
     \/ saving' = <<>>            /\ unsaved' = unsaved \cup {i}

(* Each write is tried, whatever became of the one before. *)
NvsWrite ==
  /\ saving # <<>>
  /\ LET w == Head(saving)
     IN  \/ /\ nvs' = [nvs EXCEPT ![w.slot] = IF w.key = "all"
                                              THEN NoRecord
                                              ELSE [@ EXCEPT ![w.key] = w.value]]
            /\ UNCHANGED unsaved
         \/ UNCHANGED nvs /\ unsaved' = unsaved \cup {w.slot}
  /\ saving' = Tail(saving)
  /\ UNCHANGED <<slots, active, heap, saved>>

(* load_slot_metadata over a slot that rom_store_init has just zeroed. *)
Loaded(record) ==
  LET value(key, zero) == IF record[key] = Absent THEN zero ELSE record[key]
  IN  IF record["chip"] = Absent
      THEN Cleared
      ELSE [Cleared EXCEPT !.chip  = record["chip"],
                           !.size  = value("size", NoImage),
                           !.crc   = value("crc", NoImage),
                           !.label = value("label", NoLabel)]

----------------------------------------------------------------------------
Init ==
  /\ nvs = [i \in Slots |-> NoRecord]
  /\ slots = [i \in Slots |-> Loaded(nvs[i])]
  /\ active = [socket \in Sockets |-> NoSlot]
  /\ heap = {}
  /\ saving = <<>>
  /\ saved = nvs
  /\ unsaved = {}

(* The power fails, at any time, and rom_store_init runs. *)
PowerCycle ==
  /\ slots' = [i \in Slots |-> Loaded(nvs[i])]
  /\ active' = [socket \in Sockets |-> NoSlot]
  /\ heap' = {}
  /\ saving' = <<>>
  /\ unsaved' = unsaved \cup {saving[k].slot : k \in DOMAIN saving}
  /\ UNCHANGED <<nvs, saved>>

Ready == saving = <<>>

Uploaded(s, image, chip, label, store) ==
  [s EXCEPT !.occupied = TRUE, !.inserted = FALSE, !.chip = chip,
            !.size = image, !.crc = image, !.cstore = store,
            !.label = IF label = NoLabel THEN @ ELSE label]

(* rom_store_upload: the old image is freed before the new one is compressed, so
   the new store may be where the old one was. *)
Upload(i, image, chip, label) ==
  /\ Ready
  /\ ~slots[i].inserted
  /\ \E store \in Stores \ (heap \ {slots[i].cstore}) :
       LET s == Uploaded(slots[i], image, chip, label, store)
       IN  /\ slots' = [slots EXCEPT ![i] = s]
           /\ heap' = (heap \ {slots[i].cstore}) \cup {store}
           /\ SaveSlotMetadata(i, s)
  /\ UNCHANGED <<active, nvs>>

(* Mutant: the pointer to the image that was freed is left in the slot. *)
UploadNoMem_Dangling(i) ==
  /\ Ready
  /\ ~slots[i].inserted
  /\ heap' = heap \ {slots[i].cstore}
  /\ UNCHANGED <<slots, active, nvs, saving, saved, unsaved>>

(* Mutant: a slot that is served may be uploaded to. *)
UploadNoMem_NoGuard(i) ==
  /\ Ready
  /\ slots' = [slots EXCEPT ![i].cstore = NoStore]
  /\ heap' = heap \ {slots[i].cstore}
  /\ UNCHANGED <<active, nvs, saving, saved, unsaved>>

(* rom_store_upload when cstore_create fails: the slot has lost its image but
   keeps occupied and all else that described it. *)
UploadNoMem(i) ==
  /\ Ready
  /\ ~slots[i].inserted
  /\ slots' = [slots EXCEPT ![i].cstore = NoStore]
  /\ heap' = heap \ {slots[i].cstore}
  /\ UNCHANGED <<active, nvs, saving, saved, unsaved>>

Delete(i) ==
  /\ Ready
  /\ ~slots[i].inserted
  /\ slots' = [slots EXCEPT ![i] = Cleared]
  /\ heap' = heap \ {slots[i].cstore}
  /\ SaveSlotMetadata(i, Cleared)
  /\ UNCHANGED <<active, nvs>>

(* Mutant: the slot that was served stays inserted. *)
Insert_NoAutoEject(i) ==
  /\ Ready
  /\ slots[i].occupied /\ slots[i].cstore # NoStore
  /\ slots' = [slots EXCEPT ![i].inserted = TRUE]
  /\ active' = [active EXCEPT ![SocketOf(i)] = i]
  /\ UNCHANGED <<heap, nvs, saving, saved, unsaved>>

(* Mutant: occupied alone is taken for having an image. *)
Insert_NoDataTest(i) ==
  /\ Ready
  /\ slots[i].occupied
  /\ slots' = [j \in Slots |->
                 IF j = i THEN [slots[j] EXCEPT !.inserted = TRUE]
                 ELSE IF j = active[SocketOf(i)] THEN [slots[j] EXCEPT !.inserted = FALSE]
                 ELSE slots[j]]
  /\ active' = [active EXCEPT ![SocketOf(i)] = i]
  /\ UNCHANGED <<heap, nvs, saving, saved, unsaved>>

(* rom_store_insert: the slot served on the same socket is ejected. *)
Insert(i) ==
  /\ Ready
  /\ slots[i].occupied /\ slots[i].cstore # NoStore
  /\ slots' = [j \in Slots |->
                 IF j = i THEN [slots[j] EXCEPT !.inserted = TRUE]
                 ELSE IF j = active[SocketOf(i)] THEN [slots[j] EXCEPT !.inserted = FALSE]
                 ELSE slots[j]]
  /\ active' = [active EXCEPT ![SocketOf(i)] = i]
  /\ UNCHANGED <<heap, nvs, saving, saved, unsaved>>

Eject(i) ==
  /\ Ready
  /\ slots[i].inserted
  /\ slots' = [slots EXCEPT ![i].inserted = FALSE]
  /\ active' = [active EXCEPT ![SocketOf(i)] = IF @ = i THEN NoSlot ELSE @]
  /\ UNCHANGED <<heap, nvs, saving, saved, unsaved>>

SetLabel(i, label) ==
  /\ Ready
  /\ slots' = [slots EXCEPT ![i].label = label]
  /\ SaveSlotMetadata(i, [slots[i] EXCEPT !.label = label])
  /\ UNCHANGED <<active, heap, nvs>>

Next ==
  \/ PowerCycle
  \/ NvsWrite
  \/ \E i \in Slots :
       \/ \E image \in Images, chip \in Chips \cup {NoChip}, label \in Labels \cup {NoLabel} :
            Upload(i, image, chip, label)
       \/ UploadNoMem(i)
       \/ Delete(i)
       \/ Insert(i)
       \/ Eject(i)
       \/ \E label \in Labels \cup {NoLabel} : SetLabel(i, label)

Spec == Init /\ [][Next]_vars

----------------------------------------------------------------------------
(* Properties. *)

SlotType ==
  [occupied : BOOLEAN, inserted : BOOLEAN, label : Labels \cup {NoLabel},
   chip : Chips \cup {NoChip}, size : Images \cup {NoImage},
   crc : Images \cup {NoImage}, cstore : Stores \cup {NoStore}]

RecordOK(record) ==
  /\ DOMAIN record = Keys
  /\ record["chip"] \in Chips \cup {NoChip, Absent}
  /\ record["size"] \in Images \cup {NoImage, Absent}
  /\ record["crc"] \in Images \cup {NoImage, Absent}
  /\ record["label"] \in Labels \cup {NoLabel, Absent}

WriteType ==
  [slot : Slots, key : {"chip"}, value : Chips \cup {NoChip}]
    \cup [slot : Slots, key : {"size", "crc"}, value : Images \cup {NoImage}]
    \cup [slot : Slots, key : {"label"}, value : Labels \cup {NoLabel}]
    \cup [slot : Slots, key : {"all"}, value : {Absent}]

(* Type invariant. *)
TypeOK ==
  /\ slots \in [Slots -> SlotType]
  /\ active \in [Sockets -> Slots \cup {NoSlot}]
  /\ heap \subseteq Stores
  /\ DOMAIN nvs = Slots /\ \A i \in Slots : RecordOK(nvs[i])
  /\ saving \in Seq(WriteType)
  /\ DOMAIN saved = Slots /\ \A i \in Slots : RecordOK(saved[i])
  /\ unsaved \subseteq Slots

(* A slot is inserted exactly when the socket of its bus points at it: the flag
   the handlers guard with and the index the emulators go by never disagree, so
   at most one slot is inserted per socket (rom_store_insert, rom_store_eject). *)
ActiveMatchesInserted ==
  \A i \in Slots, socket \in Sockets :
    active[socket] = i <=> slots[i].inserted /\ SocketOf(i) = socket

(* What a socket points at has an image that is allocated: rom_store_get_active
   never hands the emulators a slot without one, or one that was freed. *)
InsertedHasData ==
  \A i \in Slots : slots[i].inserted => slots[i].occupied /\ slots[i].cstore \in heap

(* Each allocated store belongs to one slot and each slot's store is allocated:
   no operation leaks an image, frees one twice or leaves a dangling pointer,
   failed uploads included. *)
StoresOwned ==
  /\ heap = {slots[i].cstore : i \in Slots} \ {NoStore}
  /\ \A i, j \in Slots : slots[i].cstore = slots[j].cstore /\ i # j
                           => slots[i].cstore = NoStore

(* While a slot stays inserted, its image and chip stay what they are: no
   handler changes a ROM under the emulator that serves it. *)
ServedRomStays ==
  [][\A i \in Slots :
       slots[i].inserted /\ slots'[i].inserted
         => /\ slots'[i].cstore = slots[i].cstore
            /\ slots'[i].chip = slots[i].chip
            /\ slots'[i].cstore \in heap']_vars

(* Between operations, the record of a slot is exactly what its last save was for, and
   that is what the slot is: the size and the CRC of one image, its chip and its label.
   It holds again after any number of saves that were cut short by a power failure or by
   a write that failed, as soon as one goes through; in between, the slot is unsaved. *)
RecordWhole ==
  Ready =>
    \A i \in Slots \ unsaved :
      /\ nvs[i] = saved[i]
      /\ slots[i].occupied => nvs[i] = Described(slots[i])
=============================================================================
