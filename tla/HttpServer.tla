----------------------------- MODULE HttpServer -----------------------------
(***************************************************************************)
(* What the handlers of main/web_handlers.c share.  The server of ESP-IDF  *)
(* is one task: it runs the handler of one request at a time, to its end.  *)
(* It takes requests from web_server_start on, while app_main              *)
(* (main/main.c) goes on with what it has yet to initialise.               *)
(*                                                                         *)
(* Of the ROM slots (RomStore) only what the handlers here look at is      *)
(* kept: whether there is an image, the chip it is for, and the inserted   *)
(* flag, of which RomStore shows that one slot has it per socket at most.  *)
(***************************************************************************)
EXTENDS Naturals, Sequences, FiniteSets

CONSTANTS
  Slots,
  Chips, NoChip,
  BusOf(_)          (* "SPI", "I2C" or, of an id nobody knows, "NONE".     *)

VARIABLES
  main,      (* Where app_main is.                                         *)
  request,   (* Where the handler is, and what it goes on with.            *)
  slots,     (* s_slots: [filled, chip, inserted]                          *)
  early      (* History: a request was taken before app_main was through.  *)

serverVars == <<main, request, slots, early>>

Idle      == [pc |-> "idle"]
EmptySlot == [filled |-> FALSE, chip |-> NoChip, inserted |-> FALSE]

(* The handler of a request the server takes goes on with `rest'. *)
Accept(rest) ==
  /\ main.pc # "boot" /\ request = Idle
  /\ request' = rest
  /\ early' = (early \/ main.pc # "running")
  /\ UNCHANGED main

Goes(rest) ==
  /\ request' = rest
  /\ UNCHANGED <<main, early>>

(* Every test of rom_store.c for a bus is `== BUS_SPI'; all else is I2C. *)
SocketOf(i) == IF BusOf(slots[i].chip) = "SPI" THEN "SPI" ELSE "I2C"

(* rom_store_insert ejects what is inserted on the same bus. *)
Inserted(i) ==
  [j \in Slots |->
     IF SocketOf(j) = SocketOf(i) THEN [slots[j] EXCEPT !.inserted = (j = i)] ELSE slots[j]]

(* rom_store_eject *)
Ejected(i) == [slots EXCEPT ![i].inserted = FALSE]

(* handler_api_slot_delete; a slot that is inserted is not deleted. *)
DeleteSlot(i) ==
  /\ Accept(Idle)
  /\ ~slots[i].inserted
  /\ slots' = [slots EXCEPT ![i] = EmptySlot]
=============================================================================
