----------------------------- MODULE I2cEeprom -----------------------------
(***************************************************************************)
(* The life cycle of main/i2c_eeprom_emu.c under the handlers.  As in      *)
(* SpiEmu, stop clears `running', waits 200 ms and takes the task to be    *)
(* gone; the task looks at `running' every 100 ms.                         *)
(*                                                                         *)
(* That is all the task does, and the receive callback returns at once:    *)
(* both want slot->data, which rom_store_upload sets to NULL for every     *)
(* image, so that the lines that serve a host are never reached.           *)
(***************************************************************************)
EXTENDS HttpServer, Integers

CONSTANTS
  TaskIds, NoTask,
  LoopTime,    (* The delay of the task: 100 ms.                           *)
  StopTime     (* The wait of i2c_eeprom_emu_stop: 200 ms.                 *)

(* Stop waits for longer than the task sleeps. *)
ASSUME I2cAssumption ==
  /\ LoopTime \in Nat /\ StopTime \in Nat /\ LoopTime < StopTime
  /\ NoTask \notin TaskIds

VARIABLES
  chip_info, running, task, handle,   (* s_ctx; handle: whether not NULL   *)
  port,      (* Whether the driver is installed on the port.               *)
  tasks,     (* For each task the time it still sleeps, or Gone.           *)
  failed     (* History: the last start failed.                            *)

emu     == <<chip_info, running, task, handle>>
i2cVars == <<emu, port, tasks, failed>>

Gone == -1
Live == {t \in TaskIds : tasks[t] # Gone}

(* i2c_eeprom_emu_init: memset of s_ctx *)
ContextCleared == chip_info' = NoChip /\ running' = FALSE /\ task' = NoTask /\ handle' = FALSE

I2cInit ==
  /\ chip_info = NoChip /\ running = FALSE /\ task = NoTask /\ handle = FALSE
  /\ port = FALSE /\ failed = FALSE
  /\ tasks = [t \in TaskIds |-> Gone]

(* i2c_emu_task: while (ctx->running), the delay, continue *)
TaskLoop(t) ==
  /\ tasks[t] = 0
  /\ tasks' = [tasks EXCEPT ![t] = IF running THEN LoopTime ELSE Gone]
  /\ UNCHANGED <<serverVars, emu, port, failed>>

(* Time goes by, as long as no task is due. *)
Waiting == request.pc = "i2c_wait"
Tick ==
  /\ \A t \in Live : tasks[t] > 0
  /\ Live # {} \/ Waiting
  /\ tasks' = [t \in TaskIds |-> IF t \in Live THEN tasks[t] - 1 ELSE Gone]
  /\ request' = IF Waiting /\ request.left > 0 THEN [request EXCEPT !.left = @ - 1] ELSE request
  /\ UNCHANGED <<main, slots, early, emu, port, failed>>

(* The handler stops the emulator and goes on with `then'. *)
StopThen(then, arg) == [pc |-> "i2c_stop", then |-> then, arg |-> arg, left |-> StopTime]

(* handler_api_slot_insert, with i2c_eeprom_emu_set_chip; of any other bus than I2C this
   emulator is left as it is. *)
InsertSlot(i) ==
  /\ slots[i].filled
  /\ Accept(IF BusOf(slots[i].chip) = "I2C" THEN StopThen("i2c_start", slots[i].chip) ELSE Idle)
  /\ slots' = Inserted(i)
  /\ UNCHANGED i2cVars

(* handler_api_chip_set *)
ChipSet(chip) ==
  /\ BusOf(chip) = "I2C"
  /\ Accept(StopThen("i2c_start", chip))
  /\ UNCHANGED <<slots, i2cVars>>

(* Mutant: the I2C emulator is stopped whatever is ejected. *)
EjectSlot_AnyBus(i) ==
  /\ slots[i].inserted
  /\ Accept(StopThen("i2c_eject", i))
  /\ UNCHANGED <<slots, i2cVars>>

(* handler_api_slot_eject *)
EjectSlot(i) ==
  /\ slots[i].inserted
  /\ IF BusOf(slots[i].chip) = "I2C"
     THEN Accept(StopThen("i2c_eject", i)) /\ UNCHANGED slots
     ELSE Accept(Idle) /\ slots' = Ejected(i)
  /\ UNCHANGED i2cVars

(* i2c_del_slave_device, of a handle that is not NULL *)
DriverFreed == port' = (port /\ ~handle) /\ handle' = FALSE

(* i2c_eeprom_emu_stop *)
I2cStop ==
  /\ request.pc = "i2c_stop"
  /\ running' = FALSE
  /\ IF running /\ task # NoTask
     THEN Goes([request EXCEPT !.pc = "i2c_wait"]) /\ UNCHANGED <<handle, port>>
     ELSE /\ Goes([request EXCEPT !.pc = request.then])
          /\ IF running THEN DriverFreed ELSE UNCHANGED <<handle, port>>
  /\ UNCHANGED <<slots, chip_info, task, tasks, failed>>

(* Mutant: the handle is cleared but the driver stays. *)
I2cStopped_KeepsDriver ==
  /\ Waiting /\ request.left = 0
  /\ task' = NoTask /\ handle' = FALSE
  /\ Goes([request EXCEPT !.pc = request.then])
  /\ UNCHANGED <<slots, chip_info, running, port, tasks, failed>>

(* vTaskDelay returns. *)
I2cStopped ==
  /\ Waiting /\ request.left = 0
  /\ task' = NoTask
  /\ DriverFreed
  /\ Goes([request EXCEPT !.pc = request.then])
  /\ UNCHANGED <<slots, chip_info, running, tasks, failed>>

(* i2c_eeprom_emu_start: i2c_new_slave_device fails when the port is taken, and may fail
   for want of memory; the handlers do not look. *)
I2cStartFails ==
  /\ request.pc = "i2c_start"
  /\ chip_info' = request.arg
  /\ failed' = TRUE
  /\ Goes(Idle)
  /\ UNCHANGED <<slots, running, task, handle, port, tasks>>

(* Nor does anybody look whether the task could be created. *)
I2cStart ==
  /\ request.pc = "i2c_start" /\ ~port
  /\ chip_info' = request.arg
  /\ running' = TRUE /\ handle' = TRUE /\ port' = TRUE /\ failed' = FALSE
  /\ \/ \E t \in TaskIds \ Live : task' = t /\ tasks' = [tasks EXCEPT ![t] = 0]
     \/ UNCHANGED <<task, tasks>>
  /\ Goes(Idle)
  /\ UNCHANGED slots

(* The rest of handler_api_slot_eject. *)
I2cEject ==
  /\ request.pc = "i2c_eject"
  /\ slots' = Ejected(request.arg)
  /\ Goes(Idle)
  /\ UNCHANGED i2cVars

I2cGoesOn == I2cStop \/ I2cStopped \/ I2cStartFails \/ I2cStart \/ I2cEject
=============================================================================
