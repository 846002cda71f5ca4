---------------------------- MODULE GpioControl ----------------------------
(***************************************************************************)
(* main/gpio_control.c: the two pins that hold the target in reset and     *)
(* switch its power, and the flags that are shown for them.  Pin and flag  *)
(* are written one after the other, by the handler of a request and, at    *)
(* boot, by app_main: two tasks, and no lock.  A delay is the time between *)
(* two steps, which may be any.                                            *)
(***************************************************************************)
EXTENDS HttpServer

VARIABLES
  level,    (* What gpio_set_level has made of a pin.                      *)
  shown     (* What s_reset_asserted and s_power_on say of it.             *)

gpioVars == <<level, shown>>

Pins == {"reset", "power"}
Set(pin, value) == [pin |-> pin, level |-> value]

(* reset_assert and reset_release, power_on and power_off *)
Assert   == Set("reset", 0)
Release  == Set("reset", 1)
PowerOn  == Set("power", 1)
PowerOff == Set("power", 0)

(* Mutant: the pulse ends with the pin asserted. *)
Calls_PulseOnly ==
  [assert |-> <<Assert>>,            release |-> <<Release>>,
   pulse  |-> <<Assert>>,            sequence |-> <<Assert, Release>>,
   on     |-> <<PowerOn>>,           off |-> <<PowerOff>>,
   cycle  |-> <<PowerOff, PowerOn>>]

(* What handler_api_gpio_action has done by each of its actions. *)
Calls ==
  [assert |-> <<Assert>>,            release |-> <<Release>>,
   pulse  |-> <<Assert, Release>>,   sequence |-> <<Assert, Release>>,
   on     |-> <<PowerOn>>,           off |-> <<PowerOff>>,
   cycle  |-> <<PowerOff, PowerOn>>]

(* gpio_control_init *)
InitCalls == <<Release, PowerOn>>

Perform(what, calls) == [pc |-> "gpio", what |-> what, calls |-> calls, set |-> FALSE]

(* The steps of the task that is at p: gpio_set_level, *)
SetLevel(p) ==
  /\ p.pc = "gpio" /\ ~p.set
  /\ level' = [level EXCEPT ![Head(p.calls).pin] = Head(p.calls).level]
  /\ UNCHANGED shown

(* Mutant: the flag of the power pin is left as it is. *)
SetFlag_ResetOnly(p) ==
  /\ p.pc = "gpio" /\ p.set
  /\ shown' = [shown EXCEPT !["reset"] = IF Head(p.calls).pin = "reset" THEN Head(p.calls).level ELSE @]
  /\ UNCHANGED level

(* and the flag. *)
SetFlag(p) ==
  /\ p.pc = "gpio" /\ p.set
  /\ shown' = [shown EXCEPT ![Head(p.calls).pin] = Head(p.calls).level]
  /\ UNCHANGED level

(* Where it is after that. *)
Called(p, done) ==
  IF Len(p.calls) = 1 THEN done ELSE [p EXCEPT !.calls = Tail(@), !.set = FALSE]

GpioInit ==
  /\ level = [pin \in Pins |-> 0]
  /\ shown = [pin \in Pins |-> 1]

(* handler_api_gpio_action *)
GpioAction(what) == Accept(Perform(what, Calls[what])) /\ UNCHANGED <<slots, gpioVars>>

GpioGoesOn ==
  /\ \/ SetLevel(request) /\ Goes([request EXCEPT !.set = TRUE])
     \/ SetFlag(request) /\ Goes(Called(request, Idle))
  /\ UNCHANGED slots
=============================================================================
