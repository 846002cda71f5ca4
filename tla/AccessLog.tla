----------------------------- MODULE AccessLog -----------------------------
(***************************************************************************)
(* main/access_log.c: the ring buffer of accesses, one call at a time.     *)
(* AccessLogTasks cuts the same calls into their accesses to memory.       *)
(***************************************************************************)
EXTENDS LogRing, Sequences

CONSTANTS
  Entries,   (* The entries that may be logged,                            *)
  Zero       (*   and what memset makes of one.                            *)

VARIABLES
  entries,   (* s_log.entries                                              *)
  out        (* What the last pop gave.                                    *)

vars == <<entries, write_idx, read_idx, overflow_count, out>>

Init ==
  /\ entries = [i \in Indices |-> Zero]
  /\ EmptyRing
  /\ out = <<>>

Push(e) ==
  /\ IF After(write_idx) = read_idx
     THEN overflow_count' = (overflow_count + 1) % CountMod /\ read_idx' = After(read_idx)
     ELSE UNCHANGED <<overflow_count, read_idx>>
  /\ entries' = [entries EXCEPT ![write_idx] = e]
  /\ write_idx' = After(write_idx)
  /\ UNCHANGED out

(* Mutant: the entry stays in the ring. *)
Pop_Stays ==
  /\ out' = IF read_idx = write_idx THEN <<>> ELSE <<entries[read_idx]>>
  /\ UNCHANGED <<entries, read_idx, write_idx, overflow_count>>

Pop ==
  /\ IF read_idx = write_idx
     THEN out' = <<>> /\ UNCHANGED read_idx
     ELSE out' = <<entries[read_idx]>> /\ read_idx' = After(read_idx)
  /\ UNCHANGED <<entries, write_idx, overflow_count>>

Clear ==
  /\ read_idx' = write_idx
  /\ overflow_count' = 0
  /\ UNCHANGED <<entries, write_idx, out>>

Next == (\E e \in Entries : Push(e)) \/ Pop \/ Clear

Spec == Init /\ [][Next]_vars

----------------------------------------------------------------------------
(* Properties. *)

(* Both indices are inside the ring, and the entries are what was logged. *)
TypeOK ==
  /\ write_idx \in Indices /\ read_idx \in Indices
  /\ entries \in [Indices -> Entries \cup {Zero}]
  /\ overflow_count \in 0 .. CountMod - 1

(* The entries that wait, oldest first: as many as access_log_available says. *)
Pending == [k \in 1 .. Available |-> entries[(read_idx + k - 1) % N]]

Log == INSTANCE DropOldestLog WITH
         Capacity <- N - 1, pending <- Pending, lost <- overflow_count

(* The ring buffer is a drop-oldest queue of N - 1 entries, through any number of
   wraps of its indices: order, capacity, what is dropped and what is counted. *)
Refines == Log!Spec
=============================================================================
