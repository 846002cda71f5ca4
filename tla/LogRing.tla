------------------------------ MODULE LogRing ------------------------------
(***************************************************************************)
(* main/access_log.c: the indices of the ring buffer, which AccessLog and  *)
(* AccessLogTasks share.  One place always stays free: equal indices mean  *)
(* that nothing waits.                                                     *)
(***************************************************************************)
EXTENDS Naturals

CONSTANTS
  N,         (* ACCESS_LOG_ENTRIES                                         *)
  CountMod   (* Values of a uint32_t: overflow_count is modulo CountMod.   *)

ASSUME RingAssumption == N \in Nat /\ N >= 2 /\ CountMod \in Nat \ {0}

VARIABLES write_idx, read_idx, overflow_count  (* s_log *)

Indices == 0 .. N - 1

After(i) == (i + 1) % N

(* access_log_available, of a read and a write index. *)
Between(r, w) == IF w >= r THEN w - r ELSE N - r + w

(* What access_log_init makes of the indices and the count. *)
EmptyRing == write_idx = 0 /\ read_idx = 0 /\ overflow_count = 0

(* access_log_available *)
Available == Between(read_idx, write_idx)
=============================================================================
