------------------------------- MODULE Device -------------------------------
(***************************************************************************)
(* app_main (main/main.c) beside the HTTP server and its handlers for the  *)
(* pins, the I2C emulator and the upload.  The server is started before    *)
(* gpio_control_init and i2c_eeprom_emu_init have run, so a handler may    *)
(* run first, and be undone; `early' says that one has.  The power may     *)
(* fail at any time, or app_main abort on an error: both start over.       *)
(***************************************************************************)
EXTENDS GpioControl, I2cEeprom, Upload

deviceVars == <<serverVars, gpioVars, i2cVars, bufs>>

Boot == [pc |-> "boot"]

DeviceInit ==
  /\ main = Boot /\ request = Idle /\ early = FALSE
  /\ slots = [i \in Slots |-> EmptySlot]
  /\ GpioInit /\ I2cInit
  /\ bufs = NoBufs

(* NVS, rom_store_init, access_log_init, the network and sse_manager_init are through:
   web_server_start. *)
ServerStarts ==
  /\ main.pc = "boot"
  /\ main' = Perform("init", InitCalls)
  /\ UNCHANGED <<request, slots, early, gpioVars, i2cVars, bufs>>

(* gpio_control_init; spi_flash_emu_init follows it, for SpiEmu. *)
MainGpio ==
  /\ \/ SetLevel(main) /\ main' = [main EXCEPT !.set = TRUE]
     \/ SetFlag(main) /\ main' = Called(main, [pc |-> "i2c"])
  /\ UNCHANGED <<request, slots, early, i2cVars, bufs>>

(* i2c_eeprom_emu_init *)
MainI2c ==
  /\ main.pc = "i2c"
  /\ ContextCleared
  /\ main' = [pc |-> "running"]
  /\ UNCHANGED <<request, slots, early, port, tasks, failed, gpioVars, bufs>>

Restart ==
  /\ main # Boot
  /\ main' = Boot /\ request' = Idle /\ early' = FALSE
  /\ slots' = [i \in Slots |-> EmptySlot]
  /\ level' = [pin \in Pins |-> 0] /\ shown' = [pin \in Pins |-> 1]
  /\ ContextCleared
  /\ port' = FALSE /\ failed' = FALSE /\ tasks' = [t \in TaskIds |-> Gone]
  /\ bufs' = NoBufs

MainGoesOn == ServerStarts \/ MainGpio \/ MainI2c

Requests ==
  /\ request = Idle
  /\ \/ (\E what \in DOMAIN Calls : GpioAction(what)) /\ UNCHANGED <<i2cVars, bufs>>
     \/ /\ \/ \E i \in Slots : InsertSlot(i) \/ EjectSlot(i)
           \/ \E chip \in Chips : ChipSet(chip)
        /\ UNCHANGED <<gpioVars, bufs>>
     \/ (\E i \in Slots : DeleteSlot(i)) /\ UNCHANGED <<gpioVars, i2cVars, bufs>>
     \/ /\ \E i \in Slots, total \in 1 .. MaxBody : UploadRequest(i, total)
        /\ UNCHANGED <<gpioVars, i2cVars>>

HttpGoesOn ==
  \/ GpioGoesOn /\ UNCHANGED <<i2cVars, bufs>>
  \/ I2cGoesOn /\ UNCHANGED <<gpioVars, bufs>>
  \/ UploadGoesOn /\ UNCHANGED <<gpioVars, i2cVars>>

DeviceNext ==
  \/ MainGoesOn \/ Requests \/ HttpGoesOn \/ Restart
  \/ UploadClient /\ UNCHANGED <<gpioVars, i2cVars>>
  \/ (Tick \/ \E t \in TaskIds : TaskLoop(t)) /\ UNCHANGED <<gpioVars, bufs>>

(* The scheduler runs the tasks, time goes by, and a receive returns within its timeout; no
   client has to send anything. *)
DeviceSpec ==
  /\ DeviceInit /\ [][DeviceNext]_deviceVars
  /\ WF_deviceVars(HttpGoesOn)
  /\ WF_deviceVars(Tick /\ UNCHANGED <<gpioVars, bufs>>)
  /\ \A t \in TaskIds : WF_deviceVars(TaskLoop(t) /\ UNCHANGED <<gpioVars, bufs>>)

----------------------------------------------------------------------------
(* Properties. *)

(* What GET /api/gpio shows is what the pins are, once app_main is through: unless a
   request came before, whose two writes have mixed with the two of gpio_control_init
   (gpio_control.c:28, main.c:82). *)
FlagsShowPins ==
  main.pc = "running" /\ request.pc # "gpio" /\ ~early => shown = level

(* A pulse, a sequence or a power cycle leaves the target running, even one that began
   while app_main was still initialising the pins (gpio_control.c:61-118). *)
TargetComesBack ==
  [][request.pc = "gpio" /\ request' = Idle /\ main' # Boot
     => /\ request.what \in {"pulse", "sequence"} => level'["reset"] = 1
        /\ request.what = "cycle" => level'["power"] = 1]_deviceVars

(* When i2c_eeprom_emu_stop is over, so is the task, and the port is free again
   (i2c_eeprom_emu.c:224-241). *)
I2cIsStopped ==
  request.pc \in {"i2c_start", "i2c_eject"} /\ ~early =>
    Live = {} /\ ~running /\ ~handle /\ ~port /\ task = NoTask

(* A slot that is shown inserted on the I2C bus has its emulator running and its driver
   installed, whatever was inserted, ejected, deleted, uploaded or set before it on this
   bus or another; unless the start failed, which no handler looks at
   (web_handlers.c:500). *)
InsertedIsEmulated ==
  request = Idle /\ main.pc = "running" /\ ~early /\ ~failed =>
    \A i \in Slots : slots[i].inserted /\ BusOf(slots[i].chip) = "I2C" => running /\ handle /\ port

(* Whichever of its exits the upload takes, it has freed what there was by then, and that
   once (web_handlers.c:265-413); and what it reads or writes meanwhile is not freed yet. *)
BuffersInUse ==
  CASE request.pc = "recv" -> {"buf"}
    [] request.pc \in {"inflate", "full"} -> {"buf", "decompressed", "decomp"}
    [] request.pc = "store" -> {request.final}
    [] OTHER -> {}
FreedOnce ==
  /\ request = Idle => bufs = NoBufs
  /\ \A b \in Buffers : bufs[b] \in {0, 1}
  /\ \A b \in BuffersInUse : bufs[b] = 1

(* What an honest client has sent is in the slot, as much of it as the chip has room for, when
   the upload is answered with success: the size and the buffer that rom_store_upload is
   given are those of the image, deflated or not.  A longer image is cut off and the
   answer is still a success (compressed_store.c:72-91). *)
HonestIsStored ==
  request.pc = "stored" /\ request.image # "none" /\ Honest(request.body) =>
    LET slot == slots[request.slot]
    IN  /\ slot.filled /\ request.image = "right"
        /\ request.size = Taken(slot.chip, request.body.makes)

(* Every request is answered, whatever the client and the tasks do; but for the upload of a
   stream that makes more than it has declared, or is damaged so that it does: the loop at
   web_handlers.c:373 then never ends, and with it the server's only task. *)
Overlong == request.pc = "full" /\ ~Honest(request.body)
RequestsEnd == request # Idle ~> request = Idle \/ Overlong
=============================================================================
