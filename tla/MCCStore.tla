------------------------------ MODULE MCCStore ------------------------------
(***************************************************************************)
(* CStore under every call its header offers: 2 full sectors of 2 bytes    *)
(* and a short one of 1 byte behind 2 cache lines, bytes of 1 bit; reads,  *)
(* writes that cross sectors with and without flash semantics, partial and *)
(* whole erases, calls that run over the end of the chip, and flushes.     *)
(***************************************************************************)
EXTENDS CStoreLRU

Blank == [o \in Offsets |-> FF]
Zero  == [o \in Offsets |-> {}]
Mixed == [o \in Offsets |-> IF o = 0 THEN {} ELSE FF]

(* A run of equal bytes compresses to one byte; anything else expands. *)
MCLz4Size(chunk) ==
  IF \A i, j \in DOMAIN chunk : chunk[i] = chunk[j] THEN 1 ELSE BlockSize + 1

MCImages ==
  {[b \in Blocks |-> IF b = 0 THEN Mixed ELSE Blank],
   [b \in Blocks |-> IF b = 1 THEN Zero ELSE Mixed]}

Payload(d) == [b \in Blocks |-> d]

MCCalls ==
       [op : {"read"}, addr : {1}, len : {1, ChipSize + 1}]
  \cup [op : {"write"}, addr : {1, ChipSize - 1}, len : {2}, src : {Payload(Mixed)}, flash : {TRUE}]
  \cup [op : {"write"}, addr : {0, 1}, len : {3}, src : {Payload(Zero), Payload(Blank)}, flash : {FALSE}]
  \cup [op : {"erase"}, addr : {0, 1}, len : {4}]
  \cup [op : {"erase"}, addr : {4}, len : {1, 3}]
  \cup [op : {"flush"}, addr : {0}, len : {CacheLines}]

(* A view for TLC: once the tick has overflowed, neither LruNext nor a property looks at
   what was used before. *)
Relevant ==
  <<store, cache, tick, call, dst, wrapped, flushed, IF wrapped THEN <<>> ELSE <<used, since>>>>
=============================================================================
