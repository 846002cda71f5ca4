------------------------------ MODULE MCDevice ------------------------------
(***************************************************************************)
(* Device with two slots, a chip of each bus and one of none, and streams  *)
(* whose declared size is right, too small, no power of two, missing or    *)
(* too large, or that are damaged.  The I2C chip is too small for some.    *)
(***************************************************************************)
EXTENDS Device

MCBusOf(chip) == CASE chip = "at24c" -> "I2C" [] chip = "w25q" -> "SPI" [] OTHER -> "NONE"

MCCapacity(chip) == IF chip = "at24c" THEN 1 ELSE 2

MCStreams ==
  {[declared |-> declared, makes |-> 2, sound |-> TRUE] : declared \in {0, 1, 2, 3, 5}}
    \cup {[declared |-> 1, makes |-> 1, sound |-> FALSE]}

(* Bounds: the pins are worked on while the slots are empty only, an upload begins, once
   app_main is through, with the pins high only, and before it is, no body is deflated.
   Pins and slots have no state in common. *)
Begins(pc) == request = Idle /\ request'.pc = pc
PinsFirst ==
  /\ Begins("gpio") => \A i \in Slots : ~slots[i].filled
  /\ Begins("recv") /\ main.pc = "running" => \A pin \in Pins : level[pin] = 1 /\ shown[pin] = 1
DeflatedAfterBoot == request'.pc = "output" => main.pc = "running"
=============================================================================
