------------------------------- MODULE Upload -------------------------------
(***************************************************************************)
(* handler_api_slot_upload of main/web_handlers.c: it receives a body,     *)
(* with timeouts and errors, inflates it if the client has deflated it,    *)
(* and hands it to rom_store_upload; every exit has to free what has been  *)
(* allocated by then.                                                      *)
(*                                                                         *)
(* Of a body the model knows how long it is and, when it is deflated, the  *)
(* size the client declares, the size the stream makes, and whether the    *)
(* stream is sound.  tinfl_decompress is external: it wants a buffer whose *)
(* size is a power of two, has the whole input from the first call on, and *)
(* of a stream that is not sound may make anything.                        *)
(***************************************************************************)
EXTENDS HttpServer, Integers

CONSTANTS
  MaxBody,        (* Bound: of the length of a body.                       *)
  Streams,        (* What a deflated body may be: [declared, makes, sound] *)
  Capacity(_),    (* total_size of a chip of a known bus.                  *)
  MaxImage,       (* 64 MiB                                                *)
  MaxTimeouts     (* 10: one more in a row, and the upload is aborted.     *)

VARIABLE bufs     (* Of each buffer, how often it was allocated more than freed. *)

Buffers == {"buf", "decompressed", "decomp"}
NoBufs  == [b \in Buffers |-> 0]

Allocated(new) == [b \in Buffers |-> IF b = new THEN bufs[b] + 1 ELSE bufs[b]]
Freed(old)     == [b \in Buffers |-> IF b \in old THEN bufs[b] - 1 ELSE bufs[b]]

PowerOfTwo(n) == \E k \in 0 .. n : 2 ^ k = n

(* A body of n bytes that is not deflated. *)
Raw(n) == [declared |-> n, makes |-> n, sound |-> TRUE]

(* The client declares what it sends. *)
Honest(body) == body.sound /\ body.makes <= body.declared

(* How much of an image of `size' bytes the store of a chip takes: what the chip has room
   for, and of a chip nobody knows all. *)
Taken(chip, size) ==
  IF BusOf(chip) = "NONE" \/ size <= Capacity(chip) THEN size ELSE Capacity(chip)

(* The handler answers, having freed what is in `old'. *)
Answer(old) == Goes(Idle) /\ bufs' = Freed(old) /\ UNCHANGED slots

(* A slot that is inserted is refused; so is a body there is no memory for.  Nothing is
   allocated then. *)
UploadRequest(i, total) ==
  /\ ~slots[i].inserted
  /\ Accept([pc |-> "recv", slot |-> i, total |-> total, got |-> 0, timeouts |-> 0])
  /\ bufs' = Allocated("buf")
  /\ UNCHANGED slots

Receives == request.pc = "recv" /\ request.got < request.total

(* httpd_req_recv *)
Received ==
  /\ Receives
  /\ \E got \in request.got + 1 .. request.total :
       Goes([request EXCEPT !.got = got, !.timeouts = 0])
  /\ UNCHANGED <<slots, bufs>>

(* Mutant: the timeouts are counted up to the bound and no further. *)
RecvTimeout_Saturates ==
  /\ Receives
  /\ Goes([request EXCEPT !.timeouts = IF @ < MaxTimeouts THEN @ + 1 ELSE @])
  /\ UNCHANGED <<slots, bufs>>

RecvTimeout ==
  /\ Receives
  /\ IF request.timeouts + 1 > MaxTimeouts
     THEN Answer({"buf"})
     ELSE Goes([request EXCEPT !.timeouts = @ + 1]) /\ UNCHANGED <<slots, bufs>>

RecvError == Receives /\ Answer({"buf"})

(* The whole body is there, and the handler reads what the headers and the query say.  It
   goes on with `final' and `size', final_buf and final_size; `image' is what that buffer
   holds: "right", the beginning of what the client means, "garbage", or "none" of it. *)
Complete == request.pc = "recv" /\ request.got = request.total

Holds(pc, body, image) ==
  [pc |-> pc, slot |-> request.slot, body |-> body, final |-> "buf", size |-> request.got, image |-> image]

TakeRaw ==
  /\ Complete
  /\ Goes(Holds("store", Raw(request.got), "right"))
  /\ UNCHANGED <<slots, bufs>>

(* The declared size is none, or too large, or there is no memory for the output. *)
Deflated(body) ==
  /\ Complete
  /\ \/ body.declared \notin 1 .. MaxImage /\ Answer({"buf"})
     \/ body.declared \in 1 .. MaxImage /\ Answer({"buf"})
     \/ /\ body.declared \in 1 .. MaxImage
        /\ Goes(Holds("output", body, "none"))
        /\ bufs' = Allocated("decompressed")
        /\ UNCHANGED slots

(* Mutant: when the decompressor cannot be allocated the output buffer stays. *)
Decompressor_Leaks ==
  /\ request.pc = "output"
  /\ \/ Answer({"buf"})
     \/ Goes([request EXCEPT !.pc = "inflate"]) /\ bufs' = Allocated("decomp") /\ UNCHANGED slots

Decompressor ==
  /\ request.pc = "output"
  /\ \/ Answer({"decompressed", "buf"})
     \/ Goes([request EXCEPT !.pc = "inflate"]) /\ bufs' = Allocated("decomp") /\ UNCHANGED slots

(* Mutant: the size stays that of the deflated body. *)
Inflates_KeepsSize(image, size) ==
  /\ Goes([request EXCEPT !.pc = "inflated", !.image = image])
  /\ bufs' = Freed({"decomp"})
  /\ UNCHANGED slots

(* The loop ends, with `size' bytes in the output, *)
Inflates(image, size) ==
  /\ Goes([request EXCEPT !.pc = "inflated", !.image = image, !.size = size])
  /\ bufs' = Freed({"decomp"})
  /\ UNCHANGED slots

(* or the output buffer is full and there is input left: the call is made again, with no
   room, and again, for ever. *)
Full == Goes([request EXCEPT !.pc = "full"]) /\ UNCHANGED <<slots, bufs>>

Inflate ==
  /\ request.pc = "inflate"
  /\ LET body == request.body
     IN  IF ~PowerOfTwo(body.declared) THEN Inflates("none", 0)
         ELSE IF ~body.sound
              THEN Inflates("none", 0) \/ Full \/ \E size \in 0 .. body.declared : Inflates("garbage", size)
         ELSE IF body.makes <= body.declared THEN Inflates("right", body.makes)
         ELSE Inflates("right", body.declared) \/ Full

(* decomp_ok, or not *)
Inflated ==
  /\ request.pc = "inflated"
  /\ IF request.image = "none"
     THEN Answer({"decompressed", "buf"})
     ELSE /\ Goes([request EXCEPT !.pc = "store", !.final = "decompressed"])
          /\ bufs' = Freed({"buf"})
          /\ UNCHANGED slots

(* rom_store_upload, for the chip the query names, frees the old image first, and may have no
   memory for the new one.  What the chip has no room for is left out, and no error. *)
Store ==
  /\ request.pc = "store"
  /\ \/ /\ slots' = [slots EXCEPT ![request.slot] = EmptySlot]
        /\ Goes([request EXCEPT !.pc = "stored", !.image = "none"])
     \/ \E chip \in Chips :
          /\ slots' = [slots EXCEPT ![request.slot] = [filled |-> TRUE, chip |-> chip, inserted |-> FALSE]]
          /\ Goes([request EXCEPT !.pc = "stored", !.size = Taken(chip, @)])
  /\ UNCHANGED bufs

(* final_buf is freed, whatever became of it. *)
Stored == request.pc = "stored" /\ Answer({request.final})

(* What the client does, and what the handler does by itself: a receive that gets nothing
   times out. *)
UploadClient == Received \/ RecvError
UploadGoesOn ==
  \/ RecvTimeout \/ TakeRaw \/ Decompressor \/ Inflate \/ Inflated \/ Store \/ Stored
  \/ \E body \in Streams : Deflated(body)
=============================================================================
