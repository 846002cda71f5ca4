------------------------------- MODULE SpiEmu -------------------------------
(***************************************************************************)
(* The life cycle of the SPI flash emulator: spi_flash_emu_start, _stop    *)
(* and _set_chip (main/spi_flash_emu.c) as the HTTP handlers call them     *)
(* (main/web_handlers.c), beside the task that serves the host on the      *)
(* other core, over the slots of RomStore.                                 *)
(*                                                                         *)
(* There is no lock and no join: stop clears `running', waits 200 ms and   *)
(* takes the task to be gone.  So time is part of the model, in units;     *)
(* a task that is ready runs at once (it has priority 24 and core 1 for    *)
(* itself), while the handler may be late at any step.  What a transfer    *)
(* does is SpiFlash; here it takes up to ProcessTime and uses the store.   *)
(***************************************************************************)
EXTENDS Integers, Sequences, FiniteSets

CONSTANTS
  SlotMax, Chips, NoChip, BusOf(_), Images, NoImage, Labels, NoLabel,
  Stores, NoStore, Absent,    (* RomStore                                  *)
  TaskIds, NoTask,  (* The tasks that may exist, and the handle NULL.      *)
  TransmitTime,     (* The timeout of spi_slave_transmit: 100 ms.          *)
  ErrorTime,        (* The delay after an error: 10 ms, rounded up.        *)
  ProcessTime,      (* How long process_transaction takes at most.         *)
  StopTime          (* The wait of spi_flash_emu_stop: 200 ms.             *)

ASSUME EmuAssumption ==
  /\ NoTask \notin TaskIds
  /\ {TransmitTime, ErrorTime, ProcessTime, StopTime} \subseteq Nat \ {0}

(* Stop waits for longer than a task takes from one look at running to the next. *)
ASSUME StopTimeAssumption ==
  /\ TransmitTime + ErrorTime < StopTime
  /\ TransmitTime + ProcessTime < StopTime

VARIABLES
  slots, active, heap, nvs, saving, saved, unsaved,  (* RomStore           *)
  chip_info, running, task,   (* s_ctx                                     *)
  driver,   (* Whether the SPI slave driver is installed.                  *)
  tasks,    (* Each task: where it is, for how long yet, and the store of  *)
            (*   the slot it serves a transfer from.                       *)
  http      (* The handler: what it does next, and with what.              *)

rom   == <<slots, active, heap, nvs, saving, saved, unsaved>>
emu   == <<chip_info, running, task, driver>>
vars  == <<rom, emu, tasks, http>>

Rom == INSTANCE RomStore

SpiChips == {c \in Chips : BusOf(c) = "SPI"}

NotThere == [pc |-> "none", left |-> 0, store |-> NoStore]
At(pc, left) == [pc |-> pc, left |-> left, store |-> NoStore]
Idle == [pc |-> "idle"]

Live == {t \in TaskIds : tasks[t].pc # "none"}

Init ==
  /\ Rom!Init
  /\ chip_info = NoChip /\ running = FALSE /\ task = NoTask /\ driver = FALSE
  /\ tasks = [t \in TaskIds |-> NotThere]
  /\ http = Idle

----------------------------------------------------------------------------
(* spi_emu_task *)

(* while (ctx->running) *)
TaskLoop(t) ==
  /\ tasks[t].pc = "loop"
  /\ tasks' = [tasks EXCEPT ![t] = IF running THEN At("transmit", TransmitTime) ELSE NotThere]
  /\ UNCHANGED <<rom, emu, http>>

(* Mutant: a task that gets no transfer waits for the next without a look at running. *)
TimeOut_Again(t) ==
  /\ tasks[t].pc = "transmit" /\ tasks[t].left = 0
  /\ tasks' = [tasks EXCEPT ![t] = At("transmit", TransmitTime)]
  /\ UNCHANGED <<rom, emu, http>>

(* spi_slave_transmit times out, or ends with a transfer of no whole byte. *)
TimeOut(t) ==
  /\ tasks[t].pc = "transmit" /\ tasks[t].left = 0
  /\ tasks' = [tasks EXCEPT ![t] = At("loop", 0)]
  /\ UNCHANGED <<rom, emu, http>>

TransmitError(t) ==
  /\ tasks[t].pc = "transmit"
  /\ tasks' = [tasks EXCEPT ![t] = At("delay", ErrorTime)]
  /\ UNCHANGED <<rom, emu, http>>

(* A transfer has taken place; its command looks up the slot it is for. *)
Received(t) ==
  /\ tasks[t].pc = "transmit" /\ driver
  /\ tasks' = [tasks EXCEPT ![t] =
                 [pc |-> "process", left |-> ProcessTime,
                  store |-> IF active["SPI"] = Rom!NoSlot THEN NoStore
                            ELSE slots[active["SPI"]].cstore]]
  /\ UNCHANGED <<rom, emu, http>>

(* process_transaction returns, or the delay after an error is over. *)
Resume(t) ==
  /\ \/ tasks[t].pc = "process"
     \/ tasks[t].pc = "delay" /\ tasks[t].left = 0
  /\ tasks' = [tasks EXCEPT ![t] = At("loop", 0)]
  /\ UNCHANGED <<rom, emu, http>>

TaskStep(t) == TaskLoop(t) \/ TimeOut(t) \/ TransmitError(t) \/ Received(t) \/ Resume(t)

(* Time goes by, as long as no task is due to do something. *)
Tick ==
  /\ \A t \in Live : tasks[t].left > 0
  /\ Live # {} \/ http.pc = "wait"
  /\ tasks' = [t \in TaskIds |-> IF t \in Live THEN [tasks[t] EXCEPT !.left = @ - 1] ELSE tasks[t]]
  /\ http' = IF http.pc = "wait" /\ http.left > 0 THEN [http EXCEPT !.left = @ - 1] ELSE http
  /\ UNCHANGED <<rom, emu>>

----------------------------------------------------------------------------
(* The handlers.  The one that runs has the operation in `http': it stops the
   emulator (pc "stop", then "wait") and goes on with what is in `then'.        *)

Free == http.pc = "idle" /\ saving = <<>>

(* spi_flash_emu_set_chip *)
SetChip(c) == http' = [pc |-> "stop", then |-> "start", arg |-> c]

(* handler_api_slot_insert *)
InsertSlot(i) ==
  /\ Free
  /\ Rom!Insert(i)
  /\ IF BusOf(slots[i].chip) = "SPI" THEN SetChip(slots[i].chip) ELSE UNCHANGED http
  /\ UNCHANGED <<emu, tasks>>

(* handler_api_chip_set *)
ChipSet(c) ==
  /\ Free
  /\ SetChip(c)
  /\ UNCHANGED <<rom, emu, tasks>>

(* Mutant: the slot is ejected without stopping the emulator first. *)
EjectSlot_NoStop(i) ==
  /\ Free
  /\ slots[i].inserted /\ BusOf(slots[i].chip) = "SPI"
  /\ http' = [pc |-> "eject", then |-> "eject", arg |-> i]
  /\ UNCHANGED <<rom, emu, tasks>>

(* handler_api_slot_eject: of a slot on the SPI bus, *)
EjectSlot(i) ==
  /\ Free
  /\ slots[i].inserted /\ BusOf(slots[i].chip) = "SPI"
  /\ http' = [pc |-> "stop", then |-> "eject", arg |-> i]
  /\ UNCHANGED <<rom, emu, tasks>>

(* of any other, and the handlers that have nothing to do with the emulator. *)
StoreOnly ==
  /\ \/ /\ Free
        /\ \E i \in Rom!Slots :
             \/ \E image \in Images, c \in Chips : Rom!Upload(i, image, c, NoLabel)
             \/ Rom!UploadNoMem(i)
             \/ Rom!Delete(i)
             \/ BusOf(slots[i].chip) # "SPI" /\ Rom!Eject(i)
     \/ Rom!NvsWrite
  /\ UNCHANGED <<emu, tasks, http>>

(* Mutant: stop does not wait. *)
Stop_NoWait ==
  /\ http.pc = "stop"
  /\ running' = FALSE /\ task' = NoTask /\ driver' = FALSE
  /\ http' = [http EXCEPT !.pc = http.then]
  /\ UNCHANGED <<rom, chip_info, tasks>>

(* spi_flash_emu_stop *)
Stop ==
  /\ http.pc = "stop"
  /\ running' = FALSE
  /\ IF running /\ task # NoTask
     THEN /\ http' = [pc |-> "wait", then |-> http.then, arg |-> http.arg, left |-> StopTime]
          /\ UNCHANGED driver
     ELSE /\ http' = [http EXCEPT !.pc = http.then]
          /\ driver' = (driver /\ ~running)
  /\ UNCHANGED <<rom, chip_info, task, tasks>>

(* vTaskDelay returns. *)
Stopped ==
  /\ http.pc = "wait" /\ http.left = 0
  /\ task' = NoTask /\ driver' = FALSE
  /\ http' = [pc |-> http.then, then |-> http.then, arg |-> http.arg]
  /\ UNCHANGED <<rom, chip_info, running, tasks>>

(* spi_flash_emu_start: spi_slave_initialize fails when the driver is installed already
   and may fail for other reasons; nobody looks whether the task could be created. *)
StartFails ==
  /\ http.pc = "start"
  /\ chip_info' = http.arg
  /\ http' = Idle
  /\ UNCHANGED <<rom, running, task, driver, tasks>>

Start ==
  /\ http.pc = "start" /\ ~driver
  /\ chip_info' = http.arg
  /\ running' = TRUE /\ driver' = TRUE
  /\ \/ \E t \in TaskIds \ Live :
          /\ task' = t
          /\ tasks' = [tasks EXCEPT ![t] = At("loop", 0)]
     \/ UNCHANGED <<task, tasks>>
  /\ http' = Idle
  /\ UNCHANGED rom

(* The rest of handler_api_slot_eject. *)
Eject ==
  /\ http.pc = "eject"
  /\ Rom!Eject(http.arg)
  /\ http' = Idle
  /\ UNCHANGED <<emu, tasks>>

HttpRequest ==
  \/ \E i \in Rom!Slots : InsertSlot(i) \/ EjectSlot(i)
  \/ \E c \in SpiChips : ChipSet(c)

HttpGoesOn == Stop \/ Stopped \/ StartFails \/ Start \/ Eject

Next ==
  \/ \E t \in TaskIds : TaskStep(t)
  \/ Tick
  \/ HttpRequest \/ HttpGoesOn \/ StoreOnly

(* The scheduler runs a task that is ready, and time goes by; that a request comes, or
   that the host makes a transfer, is nobody's duty. *)
Fairness ==
  /\ WF_vars(Tick)
  /\ WF_vars(HttpGoesOn)
  /\ \A t \in TaskIds : WF_vars(TaskLoop(t)) /\ WF_vars(TimeOut(t)) /\ WF_vars(Resume(t))

Spec == Init /\ [][Next]_vars /\ Fairness

----------------------------------------------------------------------------
(* Properties. *)

(* When stop is over, it is: no task is left, whatever it was doing when running was
   cleared, and the driver can be installed again. *)
StopMeansStopped ==
  http.pc \in {"start", "eject"} => Live = {} /\ ~running /\ ~driver /\ task = NoTask

(* There is at most one task, and never one that waits for the host on a driver that has
   been freed: restarts by insert, chip change and failed starts included. *)
OneTaskWithDriver ==
  /\ Cardinality(Live) <= 1
  /\ Live # {} => driver

(* The image a command is answered from is not freed before the command is through,
   although upload and delete ask for nothing but that the slot is not inserted. *)
NoFreedStore ==
  \A t \in TaskIds : tasks[t].store # NoStore => tasks[t].store \in heap

(* A task ends once the emulator is stopped. *)
StoppedTaskEnds == ~running ~> Live = {}
=============================================================================
