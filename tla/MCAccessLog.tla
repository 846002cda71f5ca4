---------------------------- MODULE MCAccessLog ----------------------------
(***************************************************************************)
(* The ring buffer at both grains: AccessLogTasks, whose steps are single  *)
(* accesses to memory, and AccessLog, whose steps are calls, on a ring of  *)
(* its own.  Only one of the two leaves its initial state, so that TLC     *)
(* explores one beside the other and not their product.                    *)
(***************************************************************************)
EXTENDS AccessLogTasks

CONSTANTS Entries, Zero
VARIABLES entries, out, ring_write, ring_read, ring_count

Calls == INSTANCE AccessLog WITH
           write_idx <- ring_write, read_idx <- ring_read, overflow_count <- ring_count

callVars == <<entries, ring_write, ring_read, ring_count, out>>

BothInit == TasksInit /\ Calls!Init

BothNext ==
  \/ Calls!Init /\ TasksNext /\ UNCHANGED callVars
  \/ TasksInit /\ Calls!Next /\ UNCHANGED tasksVars

BothSpec == BothInit /\ [][BothNext]_<<tasksVars, callVars>>

(* The calls implement a drop-oldest queue (access_log.c), as AccessLog states it. *)
Refines == Calls!Refines

RelevantOrCalls == <<Relevant, callVars>>
=============================================================================
