--------------------------- MODULE DropOldestLog ---------------------------
(***************************************************************************)
(* What the access log promises: a first-in first-out queue of at most     *)
(* Capacity entries.  A push into a full queue drops the oldest entry and  *)
(* counts it, so that no entry disappears without being counted.           *)
(***************************************************************************)
EXTENDS Naturals, Sequences

CONSTANTS
  Capacity,  (* How many entries the log holds.                            *)
  Entries,   (* The entries that may be logged.                            *)
  CountMod   (* The count of lost entries is kept modulo CountMod.         *)

VARIABLES
  pending,   (* The entries not read yet, oldest first.                    *)
  lost,      (* How many entries were dropped since the log was cleared.   *)
  out        (* What the last pop delivered: <<>>, or <<entry>>.           *)

vars == <<pending, lost, out>>

Init == pending = <<>> /\ lost = 0 /\ out = <<>>

Push(e) ==
  /\ IF Len(pending) = Capacity
     THEN pending' = Append(Tail(pending), e) /\ lost' = (lost + 1) % CountMod
     ELSE pending' = Append(pending, e)       /\ lost' = lost
  /\ UNCHANGED out

Pop ==
  /\ IF pending = <<>>
     THEN pending' = pending       /\ out' = <<>>
     ELSE pending' = Tail(pending) /\ out' = <<Head(pending)>>
  /\ UNCHANGED lost

Clear ==
  /\ pending' = <<>> /\ lost' = 0
  /\ UNCHANGED out

Next == (\E e \in Entries : Push(e)) \/ Pop \/ Clear

Spec == Init /\ [][Next]_vars
=============================================================================
