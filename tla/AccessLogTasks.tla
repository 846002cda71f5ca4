--------------------------- MODULE AccessLogTasks ---------------------------
(***************************************************************************)
(* The ring buffer of main/access_log.c under its tasks.  The SPI task     *)
(* pushes; the broadcast task and the handler of /api/log pop, and the     *)
(* handler of /api/stats/reset clears.  Nothing is locked: a step is one   *)
(* access to s_log, in the order of the source, and everything else a task *)
(* knows is in registers of its own.  An entry is its number and is copied *)
(* in two halves.                                                          *)
(***************************************************************************)
EXTENDS LogRing, Sequences

CONSTANTS
  Consumers,  (* The tasks that pop,                                       *)
  Clearers,   (*   and those of them that also clear.                      *)
  MaxPush     (* Bound of the exploration: how many entries are pushed.    *)

ASSUME TasksAssumption ==
  /\ MaxPush \in Nat
  /\ Clearers \subseteq Consumers

VARIABLES
  lo, hi,  (* s_log.entries, half by half; 0 stands for what memset left.  *)
  push,    (* The producer: where it is in access_log_push, its registers. *)
  pop,     (* The same of each consumer.                                   *)
  pushed,  (* How many entries have been published.                        *)
  popped,  (* History: what the pops delivered, as pairs of halves.        *)
  cleared, (* History: how many entries the clears dropped,                *)
  full,    (*   whether a push has found the ring full,                    *)
  shared   (*   and whether two consumers have been in a call at once.     *)

ring == <<lo, hi, write_idx, read_idx, overflow_count>>
history == <<popped, cleared, full, shared>>
tasksVars == <<ring, push, pop, pushed, history>>

(* The number of the entry being pushed. *)
Entry == pushed + 1

TasksInit ==
  /\ lo = [i \in Indices |-> 0] /\ hi = [i \in Indices |-> 0]
  /\ EmptyRing
  /\ push = [pc |-> "idle", next |-> 0, reg |-> 0]
  /\ pop = [c \in Consumers |-> [pc |-> "idle", reg |-> 0, lo |-> 0, hi |-> 0]]
  /\ pushed = 0 /\ popped = <<>> /\ cleared = 0 /\ full = FALSE /\ shared = FALSE

----------------------------------------------------------------------------
(* access_log_push *)

Pushing(from, to) == push.pc = from /\ push' = [push EXCEPT !.pc = to]

PushBegins ==
  /\ pushed < MaxPush
  /\ push.pc = "idle"
  /\ push' = [push EXCEPT !.pc = "test", !.next = After(write_idx)]
  /\ UNCHANGED <<ring, pop, pushed, history>>

PushTest ==
  /\ Pushing("test", IF push.next = read_idx THEN "count" ELSE "lo")
  /\ full' = (full \/ push.next = read_idx)
  /\ UNCHANGED <<ring, pop, pushed, popped, cleared, shared>>

PushLoadCount ==
  /\ push.pc = "count"
  /\ push' = [push EXCEPT !.pc = "counted", !.reg = overflow_count]
  /\ UNCHANGED <<ring, pop, pushed, history>>

PushStoreCount ==
  /\ Pushing("counted", "drop")
  /\ overflow_count' = (push.reg + 1) % CountMod
  /\ UNCHANGED <<lo, hi, write_idx, read_idx, pop, pushed, history>>

PushLoadRead ==
  /\ push.pc = "drop"
  /\ push' = [push EXCEPT !.pc = "dropped", !.reg = read_idx]
  /\ UNCHANGED <<ring, pop, pushed, history>>

PushStoreRead ==
  /\ Pushing("dropped", "lo")
  /\ read_idx' = After(push.reg)
  /\ UNCHANGED <<lo, hi, write_idx, overflow_count, pop, pushed, history>>

PushLo ==
  /\ Pushing("lo", "hi")
  /\ lo' = [lo EXCEPT ![write_idx] = Entry]
  /\ UNCHANGED <<hi, write_idx, read_idx, overflow_count, pop, pushed, history>>

PushHi ==
  /\ Pushing("hi", "publish")
  /\ hi' = [hi EXCEPT ![write_idx] = Entry]
  /\ UNCHANGED <<lo, write_idx, read_idx, overflow_count, pop, pushed, history>>

PushPublish ==
  /\ Pushing("publish", "idle")
  /\ write_idx' = push.next
  /\ pushed' = pushed + 1
  /\ UNCHANGED <<lo, hi, read_idx, overflow_count, pop, history>>

Pushes == \/ PushBegins \/ PushTest \/ PushLoadCount \/ PushStoreCount
          \/ PushLoadRead \/ PushStoreRead \/ PushLo \/ PushHi \/ PushPublish

----------------------------------------------------------------------------
(* access_log_pop *)

Popping(c, from, to) == pop[c].pc = from /\ pop' = [pop EXCEPT ![c].pc = to]

(* A consumer enters a call. *)
Enter(c) == shared' = (shared \/ \E d \in Consumers \ {c} : pop[d].pc # "idle")

(* Load read_idx: to test it, *)
PopBegins(c) ==
  /\ pop[c].pc = "idle" /\ Enter(c)
  /\ pop' = [pop EXCEPT ![c].pc = "test", ![c].reg = read_idx]
  /\ UNCHANGED <<ring, push, pushed, popped, cleared, full>>

(* or to copy from it, or to advance it. *)
PopLoadRead(c, from, to) ==
  /\ pop[c].pc = from
  /\ pop' = [pop EXCEPT ![c].pc = to, ![c].reg = read_idx]
  /\ UNCHANGED <<ring, push, pushed, history>>

(* Mutant: the test for an empty ring is gone. *)
PopTest_Never(c) ==
  /\ Popping(c, "test", "copy")
  /\ UNCHANGED <<ring, push, pushed, history>>

PopTest(c) ==
  /\ Popping(c, "test", IF pop[c].reg = write_idx THEN "idle" ELSE "copy")
  /\ UNCHANGED <<ring, push, pushed, history>>

PopLo(c) ==
  /\ pop[c].pc = "lo"
  /\ pop' = [pop EXCEPT ![c].pc = "hi", ![c].lo = lo[pop[c].reg]]
  /\ UNCHANGED <<ring, push, pushed, history>>

PopHi(c) ==
  /\ pop[c].pc = "hi"
  /\ pop' = [pop EXCEPT ![c].pc = "advance", ![c].hi = hi[pop[c].reg]]
  /\ UNCHANGED <<ring, push, pushed, history>>

PopStoreRead(c) ==
  /\ Popping(c, "advanced", "idle")
  /\ read_idx' = After(pop[c].reg)
  /\ popped' = Append(popped, <<pop[c].lo, pop[c].hi>>)
  /\ UNCHANGED <<lo, hi, write_idx, overflow_count, push, pushed, cleared, full, shared>>

Pops(c) == \/ PopBegins(c) \/ PopTest(c)
           \/ PopLoadRead(c, "copy", "lo") \/ PopLo(c) \/ PopHi(c)
           \/ PopLoadRead(c, "advance", "advanced") \/ PopStoreRead(c)

----------------------------------------------------------------------------
(* access_log_clear *)

ClearLoadWrite(c) ==
  /\ pop[c].pc = "idle" /\ Enter(c)
  /\ pop' = [pop EXCEPT ![c].pc = "clear", ![c].reg = write_idx]
  /\ UNCHANGED <<ring, push, pushed, popped, cleared, full>>

ClearStoreRead(c) ==
  /\ Popping(c, "clear", "uncount")
  /\ read_idx' = pop[c].reg
  /\ cleared' = cleared + Between(read_idx, pop[c].reg)
  /\ UNCHANGED <<lo, hi, write_idx, overflow_count, push, pushed, popped, full, shared>>

ClearCount(c) ==
  /\ Popping(c, "uncount", "idle")
  /\ overflow_count' = 0
  /\ UNCHANGED <<lo, hi, write_idx, read_idx, push, pushed, history>>

Clears(c) == ClearLoadWrite(c) \/ ClearStoreRead(c) \/ ClearCount(c)

TasksNext == Pushes \/ (\E c \in Consumers : Pops(c)) \/ (\E c \in Clearers : Clears(c))

TasksSpec == TasksInit /\ [][TasksNext]_tasksVars

(* A view for TLC: once the ring was full or shared, neither TasksNext nor FifoUntilFull
   looks at what was popped or cleared before. *)
Relevant ==
  <<ring, push, pop, pushed, full, shared,
    IF full \/ shared THEN <<>> ELSE <<popped, cleared>>>>

----------------------------------------------------------------------------
(* Properties. *)

(* Nobody is in the middle of a call. *)
Quiet == push.pc = "idle" /\ \A c \in Consumers : pop[c].pc = "idle"

(* What is logged is delivered whole, once and in order, and what is neither delivered
   nor cleared still waits: one producer and one consumer at a time need no lock
   (access_log.h:11), as long as the ring was never full. *)
FifoUntilFull ==
  ~full /\ ~shared =>
    /\ \A k \in DOMAIN popped : popped[k][1] = popped[k][2]
    /\ \A j, k \in DOMAIN popped : j < k => popped[j][1] < popped[k][1]
    /\ Quiet => pushed = Len(popped) + Available + cleared
=============================================================================
