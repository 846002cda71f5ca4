-------------------------- MODULE RomStoreProofs ---------------------------
(***************************************************************************)
(* RomStore for any number of slots, chips, images and stores.             *)
(*                                                                         *)
(* The four invariants lean on each other: that an upload or a delete, the *)
(* operations that free a store, cannot hit a slot a socket points at is   *)
(* seen only from the `inserted' flag, so ActiveMatchesInserted is what    *)
(* ties their guard to the sockets; and that the store freed is not that   *)
(* of another, inserted, slot is StoresOwned.  RInv, their conjunction, is *)
(* inductive.                                                              *)
(***************************************************************************)
EXTENDS RomStore, TLAPS

RInv ==
  /\ TypeOK
  /\ ActiveMatchesInserted
  /\ InsertedHasData
  /\ StoresOwned

(* What slot i becomes of an operation does not touch the other slots. *)
OnlySlot(i) == \A j \in Slots \ {i} : slots'[j] = slots[j]

----------------------------------------------------------------------------
(* Types. *)

LEMMA NoSlotIsNotASlot == NoSlot \notin Slots
BY SlotAssumption DEF NoSlot, Slots

LEMMA ClearedType == Cleared \in SlotType
BY DEF Cleared, SlotType

LEMMA SocketType == \A chip : Socket(chip) \in Sockets
BY DEF Socket, Sockets

LEMMA LoadedType ==
  ASSUME NEW record, RecordOK(record)
  PROVE  /\ Loaded(record) \in SlotType
         /\ ~Loaded(record).inserted
         /\ ~Loaded(record).occupied
         /\ Loaded(record).cstore = NoStore
<1>1. CASE record["chip"] = Absent
  <2>1. Loaded(record) = Cleared
    BY <1>1 DEF Loaded
  <2> QED BY <2>1, ClearedType DEF Cleared
<1>2. CASE record["chip"] # Absent
  <2> DEFINE value(key, zero) == IF record[key] = Absent THEN zero ELSE record[key]
  <2>1. Loaded(record) = [occupied |-> FALSE, inserted |-> FALSE,
                          label |-> value("label", NoLabel), chip |-> record["chip"],
                          size |-> value("size", NoImage), crc |-> value("crc", NoImage),
                          cstore |-> NoStore]
    BY <1>2 DEF Loaded, Cleared
  <2>2. /\ record["chip"] \in Chips \cup {NoChip}
        /\ value("label", NoLabel) \in Labels \cup {NoLabel}
        /\ value("size", NoImage) \in Images \cup {NoImage}
        /\ value("crc", NoImage) \in Images \cup {NoImage}
    BY <1>2 DEF RecordOK
  <2> HIDE DEF value
  <2> QED BY <2>1, <2>2 DEF SlotType
<1> QED BY <1>1, <1>2

LEMMA SaveStepsType ==
  ASSUME NEW i \in Slots, NEW s \in SlotType
  PROVE  SaveSteps(i, s) \in Seq(WriteType)
<1>1. /\ Put(i, "chip", s.chip) \in WriteType
      /\ Put(i, "size", s.size) \in WriteType
      /\ Put(i, "crc", s.crc) \in WriteType
      /\ Put(i, "label", s.label) \in WriteType
      /\ EraseAll(i) \in WriteType
  BY DEF Put, EraseAll, WriteType, SlotType
<1> QED BY <1>1 DEF SaveSteps

(* What a save leaves of its variables' types. *)
SavingTypes ==
  /\ saving \in Seq(WriteType)
  /\ DOMAIN saved = Slots /\ \A j \in Slots : RecordOK(saved[j])
  /\ unsaved \subseteq Slots

LEMMA DescribedType ==
  ASSUME NEW s \in SlotType
  PROVE  RecordOK(Described(s))
BY DEF Described, NoRecord, RecordOK, Keys, SlotType

LEMMA SaveType ==
  ASSUME TypeOK, NEW i \in Slots, NEW s \in SlotType, SaveSlotMetadata(i, s)
  PROVE  SavingTypes'
<1>1. saving' = SaveSteps(i, s) \/ saving' = <<>>
  BY DEF SaveSlotMetadata
<1>2. <<>> \in Seq(WriteType) /\ SaveSteps(i, s) \in Seq(WriteType)
  BY SaveStepsType
<1>3. unsaved' \subseteq unsaved \cup {i} /\ unsaved \subseteq Slots
  BY DEF SaveSlotMetadata, TypeOK
<1>4. DOMAIN saved' = Slots /\ \A j \in Slots : RecordOK(saved'[j])
  BY DescribedType DEF SaveSlotMetadata, TypeOK
<1> QED BY <1>1, <1>2, <1>3, <1>4 DEF SavingTypes

(* A write leaves the record of every slot of its type. *)
LEMMA NvsWriteType ==
  ASSUME TypeOK, NvsWrite
  PROVE  TypeOK'
<1>1. Head(saving) \in WriteType /\ Tail(saving) \in Seq(WriteType)
  BY DEF TypeOK, NvsWrite
<1> DEFINE w == Head(saving)
<1>2. w.slot \in Slots /\ w.key \in Keys \cup {"all"}
  BY <1>1 DEF WriteType, Keys
<1>3. ASSUME NEW i \in Slots PROVE RecordOK(nvs'[i])
  <2>1. CASE w.slot # i \/ UNCHANGED nvs
    BY <2>1, <1>2 DEF NvsWrite, TypeOK
  <2> SUFFICES ASSUME w.slot = i,
                      nvs' = [nvs EXCEPT ![i] = IF w.key = "all" THEN NoRecord
                                                ELSE [@ EXCEPT ![w.key] = w.value]]
               PROVE  RecordOK(nvs'[i])
    BY <2>1 DEF NvsWrite
  <2>2. CASE w.slot = i /\ w.key = "all"
    <3>1. nvs'[i] = NoRecord
      BY <2>2 DEF TypeOK
    <3> QED BY <3>1 DEF NoRecord, RecordOK, Keys
  <2>3. CASE w.slot = i /\ w.key # "all"
    <3>1. nvs'[i] = [nvs[i] EXCEPT ![w.key] = w.value]
      BY <2>3 DEF TypeOK
    <3>2. RecordOK(nvs[i])
      BY DEF TypeOK
    <3>3. \/ w.key = "chip" /\ w.value \in Chips \cup {NoChip}
          \/ w.key \in {"size", "crc"} /\ w.value \in Images \cup {NoImage}
          \/ w.key = "label" /\ w.value \in Labels \cup {NoLabel}
      BY <1>1, <2>3 DEF WriteType
    <3> QED BY <3>1, <3>2, <3>3 DEF RecordOK, Keys
  <2> QED BY <2>1, <2>2, <2>3
<1>4. DOMAIN nvs' = Slots
  BY DEF NvsWrite, TypeOK
<1>5. unsaved' \subseteq Slots
  BY <1>2 DEF NvsWrite, TypeOK
<1> QED BY <1>1, <1>3, <1>4, <1>5 DEF NvsWrite, TypeOK

----------------------------------------------------------------------------
(* Steps that touch one slot. *)

(* A slot that is not inserted, before or after, may change in any way as far
   as the sockets are concerned. *)
LEMMA IdleSlotStep ==
  ASSUME RInv, NEW i \in Slots,
         ~slots[i].inserted, ~slots'[i].inserted, OnlySlot(i),
         UNCHANGED active
  PROVE  ActiveMatchesInserted'
<1> SUFFICES ASSUME NEW j \in Slots, NEW socket \in Sockets
             PROVE  active[socket] = j
                      <=> slots'[j].inserted /\ Socket(slots'[j].chip) = socket
  BY DEF ActiveMatchesInserted, SocketOf
<1>1. active[socket] = j <=> slots[j].inserted /\ Socket(slots[j].chip) = socket
  BY DEF RInv, ActiveMatchesInserted, SocketOf
<1>2. CASE j = i
  BY <1>1, <1>2
<1>3. CASE j # i
  BY <1>1, <1>3 DEF OnlySlot
<1> QED BY <1>2, <1>3

(* Slot i, which is not inserted, frees the store it has and takes one that
   is free then, or none. *)
LEMMA StoreStep ==
  ASSUME RInv, TypeOK', NEW i \in Slots,
         ~slots[i].inserted, ~slots'[i].inserted, OnlySlot(i),
         slots'[i].cstore \in {NoStore} \cup (Stores \ (heap \ {slots[i].cstore})),
         heap' = (heap \ {slots[i].cstore}) \cup ({slots'[i].cstore} \ {NoStore})
  PROVE  InsertedHasData' /\ StoresOwned'
<1>1. /\ heap = {slots[j].cstore : j \in Slots} \ {NoStore}
      /\ \A j, k \in Slots : slots[j].cstore = slots[k].cstore /\ j # k
                               => slots[j].cstore = NoStore
  BY DEF RInv, StoresOwned
<1>2. \A j \in Slots : slots[j].cstore \in Stores \cup {NoStore}
  BY DEF RInv, TypeOK, SlotType
<1>3. ASSUME NEW j \in Slots, slots'[j].inserted
      PROVE  slots'[j].occupied /\ slots'[j].cstore \in heap'
  <2>1. j # i /\ slots'[j] = slots[j]
    BY <1>3 DEF OnlySlot
  <2>2. slots[j].occupied /\ slots[j].cstore \in heap
    BY <1>3, <2>1 DEF RInv, InsertedHasData
  <2>3. slots[j].cstore # slots[i].cstore
    BY <1>1, <2>1, <2>2
  <2> QED BY <2>1, <2>2, <2>3
<1>4. \A j, k \in Slots : slots'[j].cstore = slots'[k].cstore /\ j # k
                            => slots'[j].cstore = NoStore
  <2> SUFFICES ASSUME NEW j \in Slots, NEW k \in Slots,
                      slots'[j].cstore = slots'[k].cstore, j # k,
                      slots'[j].cstore # NoStore
               PROVE  FALSE
    OBVIOUS
  <2>1. CASE j # i /\ k # i
    BY <1>1, <2>1 DEF OnlySlot
  <2>2. CASE j = i
    <3>1. slots[k].cstore = slots'[i].cstore
      BY <2>2 DEF OnlySlot
    <3>2. slots[k].cstore \in heap /\ slots[k].cstore # slots[i].cstore
      BY <1>1, <3>1, <2>2
    <3> QED BY <3>1, <3>2, <2>2
  <2>3. CASE k = i
    <3>1. slots[j].cstore = slots'[i].cstore
      BY <2>3 DEF OnlySlot
    <3>2. slots[j].cstore \in heap /\ slots[j].cstore # slots[i].cstore
      BY <1>1, <3>1, <2>3
    <3> QED BY <3>1, <3>2, <2>3
  <2> QED BY <2>1, <2>2, <2>3
<1>5. heap' = {slots'[j].cstore : j \in Slots} \ {NoStore}
  <2>1. ASSUME NEW store \in heap'
        PROVE  store # NoStore /\ \E j \in Slots : slots'[j].cstore = store
    <3>1. CASE store = slots'[i].cstore
      BY <3>1, ValueAssumption, <2>1 DEF TypeOK
    <3>2. CASE store # slots'[i].cstore
      <4>1. store \in heap /\ store # slots[i].cstore
        BY <3>2, <2>1
      <4>2. PICK j \in Slots : slots[j].cstore = store
        BY <4>1, <1>1
      <4> QED BY <4>1, <4>2, <1>1 DEF OnlySlot
    <3> QED BY <3>1, <3>2
  <2>2. ASSUME NEW j \in Slots, slots'[j].cstore # NoStore
        PROVE  slots'[j].cstore \in heap'
    <3>1. CASE j = i
      BY <3>1, <2>2
    <3>2. CASE j # i
      <4>1. slots'[j] = slots[j] /\ slots[j].cstore \in heap
        BY <3>2, <2>2, <1>1 DEF OnlySlot
      <4>2. slots[j].cstore # slots[i].cstore
        BY <4>1, <3>2, <2>2, <1>1
      <4> QED BY <4>1, <4>2
    <3> QED BY <3>1, <3>2
  <2> QED BY <2>1, <2>2
<1> QED BY <1>3, <1>4, <1>5 DEF InsertedHasData, StoresOwned

----------------------------------------------------------------------------
(* The invariant holds initially, and again after every power cycle. *)

LEMMA Booted ==
  ASSUME NEW records, DOMAIN records = Slots, \A i \in Slots : RecordOK(records[i]),
         NEW booted, booted = [i \in Slots |-> Loaded(records[i])]
  PROVE  /\ booted \in [Slots -> SlotType]
         /\ \A i \in Slots : ~booted[i].inserted /\ booted[i].cstore = NoStore
BY LoadedType

LEMMA InitInv == Init => RInv
<1> SUFFICES ASSUME Init PROVE RInv
  OBVIOUS
<1>1. \A i \in Slots : RecordOK(nvs[i])
  BY DEF Init, RecordOK, NoRecord, Keys
<1>2. /\ slots \in [Slots -> SlotType]
      /\ \A i \in Slots : ~slots[i].inserted /\ slots[i].cstore = NoStore
  BY <1>1, Booted DEF Init
<1>3. TypeOK
  BY <1>1, <1>2 DEF Init, TypeOK
<1>4. ActiveMatchesInserted
  BY <1>2, NoSlotIsNotASlot DEF Init, ActiveMatchesInserted
<1>5. InsertedHasData /\ StoresOwned
  BY <1>2 DEF Init, InsertedHasData, StoresOwned
<1> QED BY <1>3, <1>4, <1>5 DEF RInv

LEMMA PowerCycleStep == RInv /\ PowerCycle => RInv'
<1> SUFFICES ASSUME RInv, PowerCycle PROVE RInv'
  OBVIOUS
<1>1. DOMAIN nvs = Slots /\ \A i \in Slots : RecordOK(nvs[i])
  BY DEF RInv, TypeOK
<1>2. /\ slots' \in [Slots -> SlotType]
      /\ \A i \in Slots : ~slots'[i].inserted /\ slots'[i].cstore = NoStore
  BY <1>1, Booted DEF PowerCycle
<1>3. TypeOK'
  <2>1. \A k \in DOMAIN saving : saving[k] \in WriteType
    BY DEF RInv, TypeOK
  <2>2. {saving[k].slot : k \in DOMAIN saving} \subseteq Slots
    BY <2>1 DEF WriteType
  <2> QED BY <1>1, <1>2, <2>2 DEF PowerCycle, RInv, TypeOK
<1>4. ActiveMatchesInserted'
  BY <1>2, NoSlotIsNotASlot DEF PowerCycle, ActiveMatchesInserted
<1>5. InsertedHasData' /\ StoresOwned'
  BY <1>2 DEF PowerCycle, InsertedHasData, StoresOwned
<1> QED BY <1>3, <1>4, <1>5 DEF RInv

LEMMA NvsWriteStep == RInv /\ NvsWrite => RInv'
<1> SUFFICES ASSUME RInv, NvsWrite PROVE RInv'
  OBVIOUS
<1>1. TypeOK'
  BY NvsWriteType DEF RInv
<1>2. UNCHANGED <<slots, active, heap>>
  BY DEF NvsWrite
<1> QED BY <1>1, <1>2 DEF RInv, ActiveMatchesInserted, InsertedHasData, StoresOwned, SocketOf

----------------------------------------------------------------------------
(* The operations. *)

LEMMA UploadStep ==
  ASSUME RInv, NEW i \in Slots, NEW image \in Images, NEW chip \in Chips \cup {NoChip},
         NEW label \in Labels \cup {NoLabel}, Upload(i, image, chip, label)
  PROVE  RInv'
<1>1. PICK store \in Stores \ (heap \ {slots[i].cstore}) :
        LET s == Uploaded(slots[i], image, chip, label, store)
        IN  /\ slots' = [slots EXCEPT ![i] = s]
            /\ heap' = (heap \ {slots[i].cstore}) \cup {store}
            /\ SaveSlotMetadata(i, s)
  BY DEF Upload
<1> DEFINE s == Uploaded(slots[i], image, chip, label, store)
<1>2. slots \in [Slots -> SlotType] /\ ~slots[i].inserted
  BY DEF RInv, TypeOK, Upload
<1>3. s \in SlotType /\ ~s.inserted /\ s.cstore = store
  <2> DEFINE old == slots[i]
  <2>1. old \in SlotType
    BY <1>2
  <2>2. label # NoLabel => label \in Labels
    OBVIOUS
  <2> HIDE DEF old
  <2> DEFINE new == Uploaded(old, image, chip, label, store)
  <2>3. new = [old EXCEPT !.occupied = TRUE, !.inserted = FALSE, !.chip = chip,
                          !.size = image, !.crc = image, !.cstore = store,
                          !.label = IF label = NoLabel THEN @ ELSE label]
    BY DEF Uploaded
  <2> HIDE DEF new
  <2>4. new = [occupied |-> TRUE, inserted |-> FALSE,
               label |-> IF label = NoLabel THEN old.label ELSE label, chip |-> chip,
               size |-> image, crc |-> image, cstore |-> store]
    BY <2>1, <2>3 DEF SlotType
  <2>5. (IF label = NoLabel THEN old.label ELSE label) \in Labels \cup {NoLabel}
    BY <2>1, <2>2 DEF SlotType
  <2>6. new \in SlotType /\ ~new.inserted /\ new.cstore = store
    BY <2>4, <2>5 DEF SlotType
  <2> QED BY <2>6 DEF old, new
<1>4. slots'[i] = s /\ OnlySlot(i) /\ slots' \in [Slots -> SlotType]
  BY <1>1, <1>2, <1>3 DEF OnlySlot
<1>5. TypeOK'
  <2>1. SavingTypes'
    BY <1>1, <1>3, SaveType DEF RInv
  <2> QED BY <1>1, <1>4, <2>1 DEF RInv, TypeOK, SavingTypes, Upload
<1>6. ActiveMatchesInserted'
  BY <1>2, <1>3, <1>4, IdleSlotStep DEF Upload
<1>7. InsertedHasData' /\ StoresOwned'
  <2>1. store # NoStore
    BY ValueAssumption
  <2>2. heap' = (heap \ {slots[i].cstore}) \cup ({slots'[i].cstore} \ {NoStore})
    BY <1>1, <1>3, <1>4, <2>1
  <2>3. slots'[i].cstore \in {NoStore} \cup (Stores \ (heap \ {slots[i].cstore}))
    BY <1>3, <1>4
  <2> QED BY <1>2, <1>3, <1>4, <1>5, <2>2, <2>3, StoreStep
<1> QED BY <1>5, <1>6, <1>7 DEF RInv

LEMMA UploadNoMemStep ==
  ASSUME RInv, NEW i \in Slots, UploadNoMem(i)
  PROVE  RInv'
<1>1. slots \in [Slots -> SlotType] /\ ~slots[i].inserted
  BY DEF RInv, TypeOK, UploadNoMem
<1>2. /\ slots'[i] = [slots[i] EXCEPT !.cstore = NoStore]
      /\ OnlySlot(i)
      /\ slots'[i] \in SlotType /\ ~slots'[i].inserted /\ slots'[i].cstore = NoStore
  BY <1>1 DEF UploadNoMem, OnlySlot, SlotType
<1>3. TypeOK'
  BY <1>1, <1>2 DEF RInv, TypeOK, UploadNoMem
<1>4. ActiveMatchesInserted'
  BY <1>1, <1>2, IdleSlotStep DEF UploadNoMem
<1>5. heap' = (heap \ {slots[i].cstore}) \cup ({slots'[i].cstore} \ {NoStore})
  BY <1>2 DEF UploadNoMem
<1>6. InsertedHasData' /\ StoresOwned'
  BY <1>1, <1>2, <1>3, <1>5, StoreStep
<1> QED BY <1>3, <1>4, <1>6 DEF RInv

LEMMA DeleteStep ==
  ASSUME RInv, NEW i \in Slots, Delete(i)
  PROVE  RInv'
<1>1. slots \in [Slots -> SlotType] /\ ~slots[i].inserted
  BY DEF RInv, TypeOK, Delete
<1>2. slots'[i] = Cleared /\ OnlySlot(i) /\ slots' \in [Slots -> SlotType]
  BY <1>1, ClearedType DEF Delete, OnlySlot
<1>3. ~slots'[i].inserted /\ slots'[i].cstore = NoStore
  BY <1>2 DEF Cleared
<1>4. TypeOK'
  <2>1. SavingTypes'
    BY ClearedType, SaveType DEF RInv, Delete
  <2> QED BY <1>2, <2>1 DEF RInv, TypeOK, SavingTypes, Delete
<1>5. ActiveMatchesInserted'
  BY <1>1, <1>2, <1>3, IdleSlotStep DEF Delete
<1>6. heap' = (heap \ {slots[i].cstore}) \cup ({slots'[i].cstore} \ {NoStore})
  BY <1>3 DEF Delete
<1>7. InsertedHasData' /\ StoresOwned'
  BY <1>1, <1>2, <1>3, <1>4, <1>6, StoreStep
<1> QED BY <1>4, <1>5, <1>7 DEF RInv

LEMMA SetLabelStep ==
  ASSUME RInv, NEW i \in Slots, NEW label \in Labels \cup {NoLabel}, SetLabel(i, label)
  PROVE  RInv'
<1> DEFINE s == [slots[i] EXCEPT !.label = label]
<1>1. slots \in [Slots -> SlotType]
  BY DEF RInv, TypeOK
<1>2. s \in SlotType
  BY <1>1 DEF SlotType
<1>3. slots' = [slots EXCEPT ![i] = s]
  BY DEF SetLabel
<1>4. TypeOK'
  <2>1. SavingTypes'
    BY <1>2, SaveType DEF RInv, SetLabel
  <2> QED BY <1>1, <1>2, <1>3, <2>1 DEF RInv, TypeOK, SavingTypes, SetLabel
<1>5. \A j \in Slots : /\ slots'[j].inserted = slots[j].inserted
                       /\ slots'[j].occupied = slots[j].occupied
                       /\ slots'[j].cstore = slots[j].cstore
                       /\ slots'[j].chip = slots[j].chip
  BY <1>1, <1>3 DEF SlotType
<1>6. ActiveMatchesInserted'
  BY <1>5 DEF RInv, ActiveMatchesInserted, SocketOf, SetLabel
<1>7. InsertedHasData'
  BY <1>5 DEF RInv, InsertedHasData, SetLabel
<1>8. StoresOwned'
  <2>1. {slots'[j].cstore : j \in Slots} = {slots[j].cstore : j \in Slots}
    BY <1>5
  <2> QED BY <1>5, <2>1 DEF RInv, StoresOwned, SetLabel
<1> QED BY <1>4, <1>6, <1>7, <1>8 DEF RInv

(* Insert and Eject change the `inserted' flag of slots and nothing else. *)
LEMMA FlagStep ==
  ASSUME RInv, NEW on \in [Slots -> BOOLEAN],
         slots' = [j \in Slots |-> [slots[j] EXCEPT !.inserted = on[j]]],
         UNCHANGED heap,
         \A j \in Slots : on[j] => slots[j].occupied /\ slots[j].cstore \in heap
  PROVE  /\ slots' \in [Slots -> SlotType]
         /\ \A j \in Slots : /\ slots'[j].inserted = on[j]
                            /\ slots'[j].cstore = slots[j].cstore
                            /\ slots'[j].chip = slots[j].chip
         /\ InsertedHasData' /\ StoresOwned'
<1>1. slots \in [Slots -> SlotType]
  BY DEF RInv, TypeOK
<1>2. ASSUME NEW j \in Slots
      PROVE  /\ slots'[j] \in SlotType
             /\ slots'[j].inserted = on[j]
             /\ slots'[j].occupied = slots[j].occupied
             /\ slots'[j].cstore = slots[j].cstore
             /\ slots'[j].chip = slots[j].chip
  BY <1>1 DEF SlotType
<1>3. slots' \in [Slots -> SlotType]
  BY <1>2
<1>4. InsertedHasData'
  BY <1>2 DEF InsertedHasData
<1>5. {slots'[j].cstore : j \in Slots} = {slots[j].cstore : j \in Slots}
  BY <1>2
<1>6. StoresOwned'
  <2>1. heap' = {slots'[j].cstore : j \in Slots} \ {NoStore}
    BY <1>5 DEF RInv, StoresOwned
  <2>2. ASSUME NEW j \in Slots, NEW k \in Slots,
               slots'[j].cstore = slots'[k].cstore, j # k
        PROVE  slots'[j].cstore = NoStore
    BY <1>2, <2>2 DEF RInv, StoresOwned
  <2> QED BY <2>1, <2>2 DEF StoresOwned
<1> QED BY <1>2, <1>3, <1>4, <1>6

LEMMA InsertStep ==
  ASSUME RInv, NEW i \in Slots, Insert(i)
  PROVE  RInv'
<1> DEFINE on == [j \in Slots |-> IF j = i THEN TRUE
                                 ELSE IF j = active[SocketOf(i)] THEN FALSE
                                 ELSE slots[j].inserted]
<1>1. slots \in [Slots -> SlotType] /\ active \in [Sockets -> Slots \cup {NoSlot}]
  BY DEF RInv, TypeOK
<1>2. on \in [Slots -> BOOLEAN]
  BY <1>1 DEF SlotType
<1>3. slots' = [j \in Slots |-> [slots[j] EXCEPT !.inserted = on[j]]]
  <2>1. ASSUME NEW j \in Slots
        PROVE  [slots[j] EXCEPT !.inserted = on[j]] =
                 IF j = i THEN [slots[j] EXCEPT !.inserted = TRUE]
                 ELSE IF j = active[SocketOf(i)] THEN [slots[j] EXCEPT !.inserted = FALSE]
                 ELSE slots[j]
    BY <1>1 DEF SlotType
  <2> HIDE DEF on
  <2> QED BY <2>1 DEF Insert
<1>4. slots[i].occupied /\ slots[i].cstore \in heap
  BY DEF Insert, RInv, StoresOwned
<1>5. \A j \in Slots : on[j] => slots[j].occupied /\ slots[j].cstore \in heap
  BY <1>4 DEF RInv, InsertedHasData
<1>6. UNCHANGED heap
  BY DEF Insert
<1> HIDE DEF on
<1>7. /\ slots' \in [Slots -> SlotType]
      /\ \A j \in Slots : slots'[j].inserted = on[j] /\ slots'[j].chip = slots[j].chip
      /\ InsertedHasData' /\ StoresOwned'
  BY <1>2, <1>3, <1>5, <1>6, FlagStep
<1>8. SocketOf(i) \in Sockets
  BY SocketType DEF SocketOf
<1>9. TypeOK'
  BY <1>1, <1>7, <1>8 DEF RInv, TypeOK, Insert
<1>10. ActiveMatchesInserted'
  <2> SUFFICES ASSUME NEW j \in Slots, NEW socket \in Sockets
               PROVE  active'[socket] = j <=> on[j] /\ SocketOf(j) = socket
    BY <1>7 DEF ActiveMatchesInserted, SocketOf
  <2>1. active[socket] = j <=> slots[j].inserted /\ SocketOf(j) = socket
    BY DEF RInv, ActiveMatchesInserted
  <2>2. active'[socket] = (IF socket = SocketOf(i) THEN i ELSE active[socket])
    BY <1>1, <1>8 DEF Insert
  <2>3. CASE j = i
    BY <2>1, <2>2, <2>3 DEF on
  <2>4. CASE j # i /\ socket = SocketOf(i)
    <3>1. on[j] = (IF j = active[socket] THEN FALSE ELSE slots[j].inserted)
      BY <2>4 DEF on
    <3> QED BY <2>1, <2>2, <2>4, <3>1
  <2>5. CASE j # i /\ socket # SocketOf(i)
    <3>1. SocketOf(j) = socket => j # active[SocketOf(i)]
      BY <1>8, <2>5 DEF RInv, ActiveMatchesInserted
    <3>2. SocketOf(j) = socket => on[j] = slots[j].inserted
      BY <2>5, <3>1 DEF on
    <3> QED BY <2>1, <2>2, <2>5, <3>2
  <2> QED BY <2>3, <2>4, <2>5
<1> QED BY <1>7, <1>9, <1>10 DEF RInv

LEMMA EjectStep ==
  ASSUME RInv, NEW i \in Slots, Eject(i)
  PROVE  RInv'
<1> DEFINE on == [j \in Slots |-> IF j = i THEN FALSE ELSE slots[j].inserted]
<1>1. slots \in [Slots -> SlotType] /\ active \in [Sockets -> Slots \cup {NoSlot}]
  BY DEF RInv, TypeOK
<1>2. on \in [Slots -> BOOLEAN]
  BY <1>1 DEF SlotType
<1>3. slots' = [j \in Slots |-> [slots[j] EXCEPT !.inserted = on[j]]]
  <2>1. ASSUME NEW j \in Slots PROVE [slots[j] EXCEPT !.inserted = slots[j].inserted] = slots[j]
    BY <1>1 DEF SlotType
  <2>2. ASSUME NEW j \in Slots PROVE slots'[j] = [slots[j] EXCEPT !.inserted = on[j]]
    BY <1>1, <2>1 DEF Eject
  <2> QED BY <1>1, <2>2 DEF Eject
<1>4. \A j \in Slots : on[j] => slots[j].occupied /\ slots[j].cstore \in heap
  BY DEF RInv, InsertedHasData
<1>5. UNCHANGED heap
  BY DEF Eject
<1> HIDE DEF on
<1>6. /\ slots' \in [Slots -> SlotType]
      /\ \A j \in Slots : slots'[j].inserted = on[j] /\ slots'[j].chip = slots[j].chip
      /\ InsertedHasData' /\ StoresOwned'
  BY <1>2, <1>3, <1>4, <1>5, FlagStep
<1>7. SocketOf(i) \in Sockets
  BY SocketType DEF SocketOf
<1>8. TypeOK'
  BY <1>1, <1>6, <1>7 DEF RInv, TypeOK, Eject
<1>9. ActiveMatchesInserted'
  <2> SUFFICES ASSUME NEW j \in Slots, NEW socket \in Sockets
               PROVE  active'[socket] = j <=> on[j] /\ SocketOf(j) = socket
    BY <1>6 DEF ActiveMatchesInserted, SocketOf
  <2>1. active[socket] = j <=> slots[j].inserted /\ SocketOf(j) = socket
    BY DEF RInv, ActiveMatchesInserted
  <2>2. active[SocketOf(i)] = i
    BY <1>7 DEF RInv, ActiveMatchesInserted, Eject
  <2>3. active'[socket] = (IF socket = SocketOf(i) THEN NoSlot ELSE active[socket])
    BY <1>1, <1>7, <2>2 DEF Eject
  <2>4. CASE j = i
    BY <2>1, <2>3, <2>4, NoSlotIsNotASlot DEF on
  <2>5. CASE j # i
    BY <2>1, <2>2, <2>3, <2>5, NoSlotIsNotASlot DEF on
  <2> QED BY <2>4, <2>5
<1> QED BY <1>6, <1>8, <1>9 DEF RInv

----------------------------------------------------------------------------
LEMMA NextInv == RInv /\ [Next]_vars => RInv'
<1> SUFFICES ASSUME RInv, [Next]_vars PROVE RInv'
  OBVIOUS
<1>1. CASE PowerCycle
  BY <1>1, PowerCycleStep
<1>2. CASE NvsWrite
  BY <1>2, NvsWriteStep
<1>3. ASSUME NEW i \in Slots,
             \E image \in Images, chip \in Chips \cup {NoChip},
                label \in Labels \cup {NoLabel} : Upload(i, image, chip, label)
      PROVE  RInv'
  BY <1>3, UploadStep
<1>4. ASSUME NEW i \in Slots, UploadNoMem(i) PROVE RInv'
  BY <1>4, UploadNoMemStep
<1>5. ASSUME NEW i \in Slots, Delete(i) PROVE RInv'
  BY <1>5, DeleteStep
<1>6. ASSUME NEW i \in Slots, Insert(i) PROVE RInv'
  BY <1>6, InsertStep
<1>7. ASSUME NEW i \in Slots, Eject(i) PROVE RInv'
  BY <1>7, EjectStep
<1>8. ASSUME NEW i \in Slots, \E label \in Labels \cup {NoLabel} : SetLabel(i, label)
      PROVE  RInv'
  BY <1>8, SetLabelStep
<1>9. CASE UNCHANGED vars
  BY <1>9 DEF vars, RInv, TypeOK, ActiveMatchesInserted, InsertedHasData, StoresOwned, SocketOf
<1> QED BY <1>1, <1>2, <1>3, <1>4, <1>5, <1>6, <1>7, <1>8, <1>9 DEF Next

(* RInv holds in every reachable state of rom_store.c, power failures included. *)
THEOREM RomInvariance == Spec => []RInv
<1>1. Init => RInv
  BY InitInv
<1>2. RInv /\ [Next]_vars => RInv'
  BY NextInv
<1> QED BY <1>1, <1>2, PTL DEF Spec

(* Every variable keeps its type, whatever record a power failure leaves in the
   NVS for load_slot_metadata to read. *)
THEOREM RomTypeCorrect == Spec => []TypeOK
<1>1. RInv => TypeOK
  BY DEF RInv
<1> QED BY <1>1, RomInvariance, PTL

(* The flag that guards upload and delete and the index the emulators serve
   from always agree (rom_store_insert, rom_store_eject). *)
THEOREM SocketsAgree == Spec => []ActiveMatchesInserted
<1>1. RInv => ActiveMatchesInserted
  BY DEF RInv
<1> QED BY <1>1, RomInvariance, PTL

(* No slot a socket points at is without an image, or has one that was freed. *)
THEOREM ServedSlotsHaveData == Spec => []InsertedHasData
<1>1. RInv => InsertedHasData
  BY DEF RInv
<1> QED BY <1>1, RomInvariance, PTL

(* No operation leaks a compressed store, shares one or frees one twice. *)
THEOREM NoLeakNoDoubleFree == Spec => []StoresOwned
<1>1. RInv => StoresOwned
  BY DEF RInv
<1> QED BY <1>1, RomInvariance, PTL

(* No operation replaces, frees or retypes the image of a slot that stays
   inserted. *)
THEOREM NoChangeUnderEmulator == Spec => ServedRomStays
<1> DEFINE Stays ==
      \A i \in Slots :
        slots[i].inserted /\ slots'[i].inserted
          => /\ slots'[i].cstore = slots[i].cstore
             /\ slots'[i].chip = slots[i].chip
             /\ slots'[i].cstore \in heap'
<1>1. RInv /\ RInv' /\ [Next]_vars => [Stays]_vars
  <2> SUFFICES ASSUME RInv, RInv', Next, NEW i \in Slots,
                      slots[i].inserted, slots'[i].inserted
               PROVE  /\ slots'[i].cstore = slots[i].cstore
                      /\ slots'[i].chip = slots[i].chip
                      /\ slots'[i].cstore \in heap'
    OBVIOUS
  <2>1. slots'[i].cstore \in heap'
    BY DEF RInv, InsertedHasData
  <2>2. slots \in [Slots -> SlotType]
    BY DEF RInv, TypeOK
  <2>3. CASE PowerCycle
    BY <2>3, LoadedType DEF PowerCycle, RInv, TypeOK
  <2>4. CASE NvsWrite
    BY <2>1, <2>4 DEF NvsWrite
  <2>5. ASSUME NEW k \in Slots,
               \/ UploadNoMem(k) \/ Delete(k)
               \/ \E image \in Images, chip \in Chips \cup {NoChip},
                     label \in Labels \cup {NoLabel} : Upload(k, image, chip, label)
        PROVE  slots'[i] = slots[i]
    <3>1. ~slots[k].inserted
      BY <2>5 DEF UploadNoMem, Delete, Upload
    <3>2. i # k
      BY <3>1
    <3> QED BY <2>2, <2>5, <3>2 DEF UploadNoMem, Delete, Upload
  <2>6. ASSUME NEW k \in Slots, Insert(k) \/ Eject(k)
        PROVE  slots'[i].cstore = slots[i].cstore /\ slots'[i].chip = slots[i].chip
    BY <2>2, <2>6 DEF Insert, Eject, SlotType
  <2>7. ASSUME NEW k \in Slots, NEW label \in Labels \cup {NoLabel}, SetLabel(k, label)
        PROVE  slots'[i].cstore = slots[i].cstore /\ slots'[i].chip = slots[i].chip
    BY <2>2, <2>7 DEF SetLabel, SlotType
  <2> QED BY <2>1, <2>3, <2>4, <2>5, <2>6, <2>7 DEF Next
<1>2. Spec => [][Stays]_vars
  BY <1>1, RomInvariance, PTL DEF Spec
<1> QED BY <1>2 DEF ServedRomStays

----------------------------------------------------------------------------
(* The records.  Between two writes of a save that has not failed, the keys written so
   far are those of the slot; so they all are when it is through, whatever record it has
   begun with. *)
Whole(i) ==
  /\ nvs[i] = saved[i]
  /\ slots[i].occupied => nvs[i] = Described(slots[i])

Written(i, keys) == i \notin unsaved => \A key \in keys : nvs[i][key] = Described(slots[i])[key]

SavingSlot(i) ==
  /\ saved[i] = Described(slots[i])
  /\ \/ saving = <<EraseAll(i)>> /\ ~slots[i].occupied
     \/ /\ slots[i].occupied
        /\ LET s == slots[i]
           IN  \/ saving = <<Put(i, "chip", s.chip), Put(i, "size", s.size),
                             Put(i, "crc", s.crc), Put(i, "label", s.label)>>
               \/ /\ saving = <<Put(i, "size", s.size), Put(i, "crc", s.crc),
                                Put(i, "label", s.label)>>
                  /\ Written(i, {"chip"})
               \/ /\ saving = <<Put(i, "crc", s.crc), Put(i, "label", s.label)>>
                  /\ Written(i, {"chip", "size"})
               \/ /\ saving = <<Put(i, "label", s.label)>>
                  /\ Written(i, {"chip", "size", "crc"})

RecordInv ==
  \/ saving = <<>> /\ \A j \in Slots \ unsaved : Whole(j)
  \/ \E i \in Slots : SavingSlot(i) /\ \A j \in Slots \ (unsaved \cup {i}) : Whole(j)

(* The writes that are left are all for the slot that is being saved. *)
LEMMA SavingIsOf ==
  ASSUME NEW i \in Slots, SavingSlot(i)
  PROVE  saving # <<>> /\ Head(saving).slot = i /\ 1 \in DOMAIN saving /\ saving[1].slot = i
BY DEF SavingSlot, Put, EraseAll

(* A slot that keeps what describes it, and its record, is as whole as it was. *)
LEMMA WholeStays ==
  ASSUME NEW j \in Slots, Whole(j), nvs'[j] = nvs[j], saved'[j] = saved[j],
         slots'[j].occupied = slots[j].occupied, slots'[j].chip = slots[j].chip,
         slots'[j].size = slots[j].size, slots'[j].crc = slots[j].crc,
         slots'[j].label = slots[j].label
  PROVE  Whole(j)'
<1> DEFINE d(o, c, z, r, l) ==
             IF o THEN [k \in Keys |-> CASE k = "chip" -> c [] k = "size" -> z
                                          [] k = "crc" -> r [] k = "label" -> l]
             ELSE NoRecord
<1>1. \A x : Described(x) = d(x.occupied, x.chip, x.size, x.crc, x.label)
  BY DEF Described
<1> HIDE DEF d
<1>2. Described(slots'[j]) = Described(slots[j])
  BY <1>1
<1> QED BY <1>2 DEF Whole

(* A restart cuts the save that is under way, and leaves the other records alone. *)
LEMMA RestartKeepsRecords ==
  ASSUME RInv, RecordInv, PowerCycle
  PROVE  RecordInv'
<1>1. \A j \in Slots : ~slots'[j].occupied
  BY LoadedType DEF PowerCycle, RInv, TypeOK
<1>2. \A j \in Slots \ unsaved' : Whole(j)
  <2>1. CASE saving = <<>>
    BY <2>1, SavingIsOf DEF PowerCycle, RecordInv
  <2>2. CASE saving # <<>>
    <3>1. PICK i \in Slots : SavingSlot(i) /\ \A j \in Slots \ (unsaved \cup {i}) : Whole(j)
      BY <2>2 DEF RecordInv
    <3>2. i \in unsaved' /\ unsaved \subseteq unsaved'
      BY <3>1, SavingIsOf DEF PowerCycle
    <3> QED BY <3>1, <3>2
  <2> QED BY <2>1, <2>2
<1>3. \A j \in Slots \ unsaved' : Whole(j)'
  BY <1>1, <1>2 DEF Whole, PowerCycle
<1> QED BY <1>3 DEF RecordInv, PowerCycle

(* An operation that saves slot i: its write sequence starts, or fails to. *)
LEMMA SaveKeepsRecords ==
  ASSUME RInv, RecordInv, Ready, NEW i \in Slots, NEW s,
         slots' = [slots EXCEPT ![i] = s], SaveSlotMetadata(i, s), UNCHANGED nvs
  PROVE  RecordInv'
<1>1. slots'[i] = s /\ \A j \in Slots \ {i} : slots'[j] = slots[j]
  BY DEF RInv, TypeOK
<1>2. \A j \in Slots \ unsaved : Whole(j)
  BY SavingIsOf DEF RecordInv, Ready
<1>3. saved'[i] = Described(s) /\ \A j \in Slots \ {i} : saved'[j] = saved[j]
  BY DEF SaveSlotMetadata, RInv, TypeOK
<1>4. \A j \in Slots \ (unsaved' \cup {i}) : Whole(j)'
  <2> SUFFICES ASSUME NEW j \in Slots, j # i, j \notin unsaved' PROVE Whole(j)'
    OBVIOUS
  <2>1. j \notin unsaved
    BY DEF SaveSlotMetadata
  <2> QED BY <1>1, <1>2, <1>3, <2>1 DEF Whole
<1>5. CASE saving' = SaveSteps(i, s) /\ unsaved' = unsaved \ {i}
  <2>1. SavingSlot(i)'
    BY <1>1, <1>3, <1>5 DEF SavingSlot, SaveSteps
  <2> QED BY <1>4, <2>1 DEF RecordInv
<1>6. CASE saving' = <<>> /\ unsaved' = unsaved \cup {i}
  BY <1>4, <1>6 DEF RecordInv
<1> QED BY <1>5, <1>6 DEF SaveSlotMetadata

(* An operation that saves nothing changes nothing that describes a slot. *)
LEMMA QuietKeepsRecords ==
  ASSUME RecordInv, Ready, UNCHANGED <<nvs, saving, saved, unsaved>>,
         \A j \in Slots : /\ slots'[j].occupied = slots[j].occupied
                          /\ slots'[j].chip = slots[j].chip
                          /\ slots'[j].size = slots[j].size
                          /\ slots'[j].crc = slots[j].crc
                          /\ slots'[j].label = slots[j].label
  PROVE  RecordInv'
<1>1. \A j \in Slots \ unsaved : Whole(j)
  BY SavingIsOf DEF RecordInv, Ready
<1>2. ASSUME NEW j \in Slots \ unsaved PROVE Whole(j)'
  BY <1>1, WholeStays
<1> QED BY <1>2 DEF RecordInv, Ready

(* One write of a save. *)
LEMMA WriteKeepsRecords ==
  ASSUME RInv, RecordInv, NvsWrite
  PROVE  RecordInv'
<1>1. PICK i \in Slots : SavingSlot(i) /\ \A j \in Slots \ (unsaved \cup {i}) : Whole(j)
  BY DEF RecordInv, NvsWrite
<1> DEFINE d == Described(slots[i])
           w == Head(saving)
<1>2. /\ slots' = slots /\ saved' = saved /\ saving' = Tail(saving)
      /\ w.slot = i /\ unsaved \subseteq unsaved' /\ saved[i] = d
  BY <1>1, SavingIsOf DEF NvsWrite, SavingSlot
<1>3. DOMAIN nvs = Slots /\ DOMAIN nvs[i] = Keys
  BY DEF RInv, TypeOK, RecordOK
<1>4. \A j \in Slots \ {i} : nvs'[j] = nvs[j]
  BY <1>2, <1>3 DEF NvsWrite
<1>5. \A j \in Slots \ (unsaved' \cup {i}) : Whole(j)'
  BY <1>1, <1>2, <1>4 DEF Whole
<1>6. i \notin unsaved' =>
        nvs'[i] = IF w.key = "all" THEN NoRecord ELSE [nvs[i] EXCEPT ![w.key] = w.value]
  BY <1>2, <1>3 DEF NvsWrite
<1>7. i \notin unsaved' => i \notin unsaved
  BY <1>2
<1>8. CASE saving = <<EraseAll(i)>> /\ ~slots[i].occupied
  <2>1. w.key = "all" /\ saving' = <<>>
    BY <1>2, <1>8 DEF EraseAll
  <2>2. i \notin unsaved' => Whole(i)'
    BY <1>2, <1>6, <1>8, <2>1 DEF Whole, Described
  <2> QED BY <1>5, <2>1, <2>2 DEF RecordInv
<1>9. CASE slots[i].occupied
  <2> DEFINE P(key) == Put(i, key, d[key])
  <2>1. d = [k \in Keys |-> CASE k = "chip" -> slots[i].chip [] k = "size" -> slots[i].size
                              [] k = "crc" -> slots[i].crc [] k = "label" -> slots[i].label]
    BY <1>9 DEF Described
  <2>2. /\ d["chip"] = slots[i].chip /\ d["size"] = slots[i].size
        /\ d["crc"] = slots[i].crc /\ d["label"] = slots[i].label
    <3> HIDE DEF d
    <3> QED BY <2>1 DEF Keys
  <2>3. \/ saving = <<P("chip"), P("size"), P("crc"), P("label")>>
        \/ saving = <<P("size"), P("crc"), P("label")>> /\ Written(i, {"chip"})
        \/ saving = <<P("crc"), P("label")>> /\ Written(i, {"chip", "size"})
        \/ saving = <<P("label")>> /\ Written(i, {"chip", "size", "crc"})
    <3> HIDE DEF d
    <3> QED BY <1>1, <1>9, <2>2 DEF SavingSlot
  <2>4. ASSUME NEW k \in Keys, w = P(k), NEW keys \in SUBSET Keys, Written(i, keys)
        PROVE  Written(i, keys \cup {k})'
    <3>1. w.key = k /\ w.value = d[k] /\ k # "all"
      BY <2>4 DEF Put, Keys
    <3>2. i \notin unsaved' => nvs'[i] = [nvs[i] EXCEPT ![k] = d[k]]
      BY <1>6, <3>1
    <3>3. i \notin unsaved' => \A key \in keys : nvs[i][key] = d[key]
      BY <1>7, <2>4 DEF Written
    <3>4. i \notin unsaved' => \A key \in keys \cup {k} : nvs'[i][key] = d[key]
      <4> HIDE DEF d
      <4> QED BY <1>3, <3>2, <3>3
    <3> QED BY <1>2, <3>4 DEF Written
  <2>5. {"chip", "size", "crc", "label"} = Keys /\ slots'[i] = slots[i] /\ Described(slots'[i]) = d
    BY <1>2 DEF Keys
  <2>6. ASSUME saving' # <<>>, NEW rest, saving' = rest,
               \/ rest = <<P("size"), P("crc"), P("label")>> /\ Written(i, {"chip"})'
               \/ rest = <<P("crc"), P("label")>> /\ Written(i, {"chip", "size"})'
               \/ rest = <<P("label")>> /\ Written(i, {"chip", "size", "crc"})'
        PROVE  RecordInv'
    <3>1. SavingSlot(i)'
      <4> HIDE DEF d
      <4> QED BY <1>2, <1>9, <2>2, <2>5, <2>6 DEF SavingSlot
    <3> QED BY <1>5, <3>1 DEF RecordInv
  <2>7. CASE saving = <<P("chip"), P("size"), P("crc"), P("label")>>
    <3>1. w = P("chip") /\ saving' = <<P("size"), P("crc"), P("label")>>
      BY <1>2, <2>7
    <3>2. Written(i, {})
      BY DEF Written
    <3>3. Written(i, {} \cup {"chip"})'
      BY <2>4, <2>5, <3>1, <3>2
    <3>4. {} \cup {"chip"} = {"chip"}
      OBVIOUS
    <3> QED BY <2>6, <3>1, <3>3, <3>4
  <2>8. CASE saving = <<P("size"), P("crc"), P("label")>> /\ Written(i, {"chip"})
    <3>1. w = P("size") /\ saving' = <<P("crc"), P("label")>>
      BY <1>2, <2>8
    <3>2. Written(i, {"chip"} \cup {"size"})'
      BY <2>4, <2>5, <2>8, <3>1
    <3>3. {"chip"} \cup {"size"} = {"chip", "size"}
      OBVIOUS
    <3> QED BY <2>6, <3>1, <3>2, <3>3
  <2>9. CASE saving = <<P("crc"), P("label")>> /\ Written(i, {"chip", "size"})
    <3>1. w = P("crc") /\ saving' = <<P("label")>>
      BY <1>2, <2>9
    <3>2. Written(i, {"chip", "size"} \cup {"crc"})'
      BY <2>4, <2>5, <2>9, <3>1
    <3>3. {"chip", "size"} \cup {"crc"} = {"chip", "size", "crc"}
      OBVIOUS
    <3> QED BY <2>6, <3>1, <3>2, <3>3
  <2>10. CASE saving = <<P("label")>> /\ Written(i, {"chip", "size", "crc"})
    <3>1. w = P("label") /\ saving' = <<>>
      BY <1>2, <2>10
    <3>2. Written(i, {"chip", "size", "crc"} \cup {"label"})'
      BY <2>4, <2>5, <2>10, <3>1
    <3>3. {"chip", "size", "crc"} \cup {"label"} = Keys
      BY <2>5
    <3>4. ASSUME i \notin unsaved' PROVE Whole(i)'
      <4>1. nvs'[i] = [nvs[i] EXCEPT !["label"] = w.value]
        BY <1>6, <3>1, <3>4 DEF Put
      <4>2. \A key \in Keys : nvs'[i][key] = d[key]
        BY <2>5, <3>2, <3>3, <3>4 DEF Written
      <4>3. nvs'[i] = d
        <5>1. d = [key \in Keys |-> d[key]]
          BY <2>1
        <5> HIDE DEF d, w
        <5>2. nvs'[i] = [key \in Keys |-> nvs'[i][key]]
          BY <1>3, <4>1
        <5> QED BY <4>2, <5>1, <5>2
      <4> QED BY <1>2, <2>5, <4>3 DEF Whole
    <3> QED BY <1>5, <3>1, <3>4 DEF RecordInv
  <2> QED BY <2>3, <2>7, <2>8, <2>9, <2>10
<1> QED BY <1>1, <1>8, <1>9 DEF SavingSlot

LEMMA NextKeepsRecords == RInv /\ RecordInv /\ [Next]_vars => RecordInv'
<1> SUFFICES ASSUME RInv, RecordInv, [Next]_vars PROVE RecordInv'
  OBVIOUS
<1>1. slots \in [Slots -> SlotType]
  BY DEF RInv, TypeOK
<1>2. CASE PowerCycle
  BY <1>2, RestartKeepsRecords
<1>3. CASE NvsWrite
  BY <1>3, WriteKeepsRecords
<1>4. ASSUME NEW i \in Slots, NEW image, NEW chip, NEW label, Upload(i, image, chip, label)
      PROVE  RecordInv'
  <2>1. PICK s : slots' = [slots EXCEPT ![i] = s] /\ SaveSlotMetadata(i, s)
    BY <1>4 DEF Upload
  <2> QED BY <1>4, <2>1, SaveKeepsRecords DEF Upload
<1>5. ASSUME NEW i \in Slots, UploadNoMem(i) \/ Insert(i) \/ Eject(i)
      PROVE  RecordInv'
  <2>1. \A j \in Slots : /\ slots'[j].occupied = slots[j].occupied
                         /\ slots'[j].chip = slots[j].chip
                         /\ slots'[j].size = slots[j].size
                         /\ slots'[j].crc = slots[j].crc
                         /\ slots'[j].label = slots[j].label
    BY <1>1, <1>5 DEF UploadNoMem, Insert, Eject, SlotType
  <2> QED BY <1>5, <2>1, QuietKeepsRecords DEF UploadNoMem, Insert, Eject
<1>6. ASSUME NEW i \in Slots, Delete(i) PROVE RecordInv'
  BY <1>6, SaveKeepsRecords DEF Delete
<1>7. ASSUME NEW i \in Slots, NEW label, SetLabel(i, label) PROVE RecordInv'
  <2> DEFINE s == [slots[i] EXCEPT !.label = label]
  <2>1. slots' = [slots EXCEPT ![i] = s] /\ SaveSlotMetadata(i, s)
    BY <1>7 DEF SetLabel
  <2> HIDE DEF s
  <2> QED BY <1>7, <2>1, SaveKeepsRecords DEF SetLabel
<1>8. CASE UNCHANGED vars
  BY <1>8 DEF vars, RecordInv, SavingSlot, Written, Whole
<1> QED BY <1>2, <1>3, <1>4, <1>5, <1>6, <1>7, <1>8 DEF Next

(* A record is that of one image, the one its slot was last saved with (save_slot_metadata),
   whichever writes of earlier saves failed or were cut off by a power failure; only while
   the last save of the slot has not gone through may it mix two. *)
THEOREM RecordsAreWhole == Spec => []RecordWhole
<1>1. Init => RecordInv
  <2> SUFFICES ASSUME Init PROVE RecordInv
    OBVIOUS
  <2>1. \A i \in Slots : saved[i] = nvs[i] /\ slots[i] = Cleared
    BY DEF Init, Loaded, NoRecord, Keys
  <2>2. \A i \in Slots : Whole(i)
    BY <2>1 DEF Whole, Cleared
  <2> QED BY <2>2 DEF Init, RecordInv
<1>2. RInv /\ RecordInv /\ [Next]_vars => RecordInv'
  BY NextKeepsRecords
<1>3. RecordInv => RecordWhole
  BY SavingIsOf DEF RecordInv, RecordWhole, Ready, Whole
<1> QED BY <1>1, <1>2, <1>3, RomInvariance, PTL DEF Spec
=============================================================================
