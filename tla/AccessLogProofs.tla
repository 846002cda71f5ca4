-------------------------- MODULE AccessLogProofs --------------------------
(***************************************************************************)
(* The access log for every number of entries, in three settings.  As      *)
(* whole calls it is a drop-oldest queue: Pending is a view of the ring    *)
(* from read_idx on, and each call changes that view as the queue of       *)
(* DropOldestLog changes.  Under its own tasks, cut into accesses to       *)
(* memory, it is first-in first-out until a push finds it full.  Under     *)
(* the tasks of the SSE manager it is the same queue; there the count of   *)
(* clients is off by no more than the races.                               *)
(***************************************************************************)
EXTENDS SseManager, AccessLogTasks, FiniteSetTheorems, TLAPS

(* An entry of the ring, written or not. *)
Slot == Entries \cup {Zero}

(* Adding two indices goes around the ring at most once. *)
LEMMA Wraps ==
  ASSUME NEW i \in Indices, NEW k \in 0 .. N
  PROVE  /\ (i + k) % N = IF i + k < N THEN i + k ELSE i + k - N
         /\ (i + k) % N \in Indices
  BY RingAssumption, SMT DEF Indices

(* The index after one. *)
LEMMA AfterIndex ==
  ASSUME NEW i \in Indices
  PROVE  /\ After(i) = IF i + 1 = N THEN 0 ELSE i + 1
         /\ After(i) \in Indices
<1>1. 1 \in 0 .. N
  BY RingAssumption, SMT
<1>2. After(i) = (IF i + 1 < N THEN i + 1 ELSE i + 1 - N) /\ After(i) \in Indices
  BY <1>1, Wraps DEF After
<1>3. QED
  BY <1>2, RingAssumption, SMT DEF Indices

(* The index k places on from i. *)
On(i, k) == IF i + k < N THEN i + k ELSE i + k - N

(* The entries that wait are a sequence of as many as access_log_available says. *)
PendingShape ==
  /\ Available \in 0 .. N - 1
  /\ Pending \in Seq(Slot) /\ Len(Pending) = Available
  /\ \A k \in 1 .. Available : Pending[k] = entries[On(read_idx, k - 1)]

LEMMA PendingIsSeq == TypeOK => PendingShape
<1> SUFFICES ASSUME TypeOK PROVE PendingShape
  OBVIOUS
<1>1. Available \in 0 .. N - 1
  BY RingAssumption, SMT DEF TypeOK, Indices, Available, Between
<1>2. ASSUME NEW k \in 1 .. Available
      PROVE  /\ (read_idx + k - 1) % N = On(read_idx, k - 1)
             /\ (read_idx + k - 1) % N \in Indices
  <2>1. k - 1 \in 0 .. N /\ read_idx \in Indices /\ read_idx + (k - 1) = read_idx + k - 1
    BY <1>1, RingAssumption, SMT DEF TypeOK, Indices
  <2>2. QED
    BY <2>1, Wraps DEF On
<1>3. \A k \in 1 .. Available : Pending[k] = entries[(read_idx + k - 1) % N]
  BY DEF Pending
<1>4. \A i \in Indices : entries[i] \in Slot
  BY DEF TypeOK, Slot
<1>5. Pending \in [1 .. Available -> Slot]
  BY <1>2, <1>4 DEF Pending
<1>6. Pending \in Seq(Slot) /\ Len(Pending) = Available
  BY <1>1, <1>5, SMT
<1>7. QED
  BY <1>1, <1>2, <1>3, <1>6 DEF PendingShape

----------------------------------------------------------------------------

(* A call keeps the ring well formed. *)
LEMMA TypeStep ==
  ASSUME TypeOK, [Next]_vars
  PROVE  TypeOK'
<1>1. ASSUME NEW e \in Entries, Push(e)
      PROVE  TypeOK'
  <2>1. After(write_idx) \in Indices /\ After(read_idx) \in Indices
    BY AfterIndex DEF TypeOK
  <2>2. (overflow_count + 1) % CountMod \in 0 .. CountMod - 1
    BY RingAssumption, SMT DEF TypeOK
  <2>3. entries' \in [Indices -> Entries \cup {Zero}]
    BY <1>1 DEF Push, TypeOK
  <2>4. QED
    BY <1>1, <2>1, <2>2, <2>3 DEF Push, TypeOK
<1>2. CASE Pop
  BY <1>2, AfterIndex DEF Pop, TypeOK
<1>3. CASE Clear
  BY <1>3, RingAssumption, SMT DEF Clear, TypeOK
<1>4. CASE UNCHANGED vars
  BY <1>4 DEF vars, TypeOK
<1>5. QED
  BY <1>1, <1>2, <1>3, <1>4 DEF Next

(* The same of the state after a step. *)
LEMMA PendingIsSeqPrimed == TypeOK' => PendingShape'
  BY PendingIsSeq, PTL

(* A push into a ring with a free place adds to what waits. *)
LEMMA PushAdds ==
  ASSUME TypeOK, TypeOK', NEW e \in Entries, Push(e), After(write_idx) # read_idx
  PROVE  Len(Pending) # N - 1 /\ Pending' = Append(Pending, e)
<1> PendingShape /\ PendingShape'
  BY PendingIsSeq, PendingIsSeqPrimed
<1>1. After(write_idx) = IF write_idx + 1 = N THEN 0 ELSE write_idx + 1
  BY AfterIndex DEF TypeOK
<1>2. Available # N - 1 /\ Available' = Available + 1
  BY <1>1, RingAssumption, SMT DEF TypeOK, Push, Indices, Available, Between
<1>3. \A k \in 1 .. Available : On(read_idx, k - 1) # write_idx /\ On(read_idx, k - 1) \in Indices
  BY RingAssumption, SMT DEF TypeOK, Indices, Available, Between, On
<1>4. On(read_idx, Available) = write_idx
  BY RingAssumption, SMT DEF TypeOK, Indices, Available, Between, On
<1>5. \A k \in 1 .. Available + 1 : Pending'[k] = IF k = Available + 1 THEN e ELSE Pending[k]
  <2>1. read_idx' = read_idx /\ entries' = [entries EXCEPT ![write_idx] = e]
        /\ entries \in [Indices -> Slot] /\ write_idx \in Indices /\ Available \in Nat
    BY RingAssumption DEF Push, TypeOK, PendingShape, Slot
  <2>2. ASSUME NEW k \in 1 .. Available + 1
        PROVE  Pending'[k] = entries'[On(read_idx, k - 1)]
    BY <1>2, <2>1 DEF PendingShape, On
  <2>3. ASSUME NEW k \in 1 .. Available + 1
        PROVE  Pending'[k] = IF k = Available + 1 THEN e ELSE Pending[k]
    <3>1. CASE k = Available + 1
      BY <1>4, <2>1, <2>2, <3>1
    <3>2. CASE k # Available + 1
      <4>1. k \in 1 .. Available
        BY <2>1, <3>2
      <4> QED BY <1>3, <2>1, <2>2, <3>2, <4>1 DEF PendingShape
    <3> QED BY <3>1, <3>2
  <2> QED BY <2>3
<1>6. e \in Slot
  BY DEF Slot
<1>7. QED
  BY <1>2, <1>5, <1>6 DEF PendingShape

(* A push into a full ring drops the oldest of what waits and adds to the rest. *)
LEMMA PushDrops ==
  ASSUME TypeOK, TypeOK', NEW e \in Entries, Push(e), After(write_idx) = read_idx
  PROVE  Len(Pending) = N - 1 /\ Pending' = Append(Tail(Pending), e)
<1> PendingShape /\ PendingShape'
  BY PendingIsSeq, PendingIsSeqPrimed
<1>1. /\ After(write_idx) = IF write_idx + 1 = N THEN 0 ELSE write_idx + 1
      /\ After(read_idx) = IF read_idx + 1 = N THEN 0 ELSE read_idx + 1
  BY AfterIndex DEF TypeOK
<1>2. Available = N - 1 /\ Available' = N - 1
  BY <1>1, RingAssumption, SMT DEF TypeOK, Push, Indices, Available, Between
<1>3. \A k \in 1 .. N - 2 :
         /\ On(read_idx', k - 1) = On(read_idx, k)
         /\ On(read_idx, k) # write_idx /\ On(read_idx, k) \in Indices
  <2>1. read_idx' = After(read_idx) /\ read_idx \in 0 .. N - 1 /\ N \in Nat /\ N >= 2
        /\ read_idx = (IF write_idx + 1 = N THEN 0 ELSE write_idx + 1)
        /\ write_idx \in 0 .. N - 1
    BY <1>1, RingAssumption DEF TypeOK, Push, Indices
  <2> QED BY <1>1, <2>1, SMT DEF Indices, On
<1>4. On(read_idx', N - 2) = write_idx
  BY <1>1, RingAssumption, SMT DEF TypeOK, Push, Indices, On
<1>5. Pending'[N - 1] = e
  BY <1>2, <1>4, RingAssumption, SMT DEF PendingShape, Push, TypeOK, On
<1>6. \A k \in 1 .. N - 2 : Pending'[k] = Pending[k + 1]
  <2> TAKE k \in 1 .. N - 2
  <2>1. Pending'[k] = entries'[On(read_idx', k - 1)]
    BY <1>2, RingAssumption, SMT DEF PendingShape, On
  <2>2. Pending[k + 1] = entries[On(read_idx, k)]
    BY <1>2, RingAssumption, SMT DEF PendingShape, On
  <2>3. QED
    BY <1>3, <2>1, <2>2 DEF Push, TypeOK
<1>7. Tail(Pending) \in Seq(Slot) /\ Len(Tail(Pending)) = N - 2
      /\ \A k \in 1 .. N - 2 : Tail(Pending)[k] = Pending[k + 1]
  BY <1>2, RingAssumption, SMT DEF PendingShape
<1>8. e \in Slot
  BY DEF Slot
<1>9. QED
  BY <1>2, <1>5, <1>6, <1>7, <1>8, RingAssumption, SMT DEF PendingShape

(* A pop takes the oldest of what waits. *)
LEMMA PopTakes ==
  ASSUME TypeOK, TypeOK', Pop, read_idx # write_idx
  PROVE  /\ Pending # <<>> /\ Pending' = Tail(Pending)
         /\ entries[read_idx] = Head(Pending)
<1> PendingShape /\ PendingShape'
  BY PendingIsSeq, PendingIsSeqPrimed
<1> /\ read_idx' = After(read_idx)
    /\ UNCHANGED <<entries, write_idx>>
  BY DEF Pop
<1>1. After(read_idx) = IF read_idx + 1 = N THEN 0 ELSE read_idx + 1
  BY AfterIndex DEF TypeOK
<1>2. Available \in Nat \ {0} /\ Available' = Available - 1
  BY <1>1, RingAssumption, SMT DEF TypeOK, Indices, Available, Between
<1>3. On(read_idx, 0) = read_idx
  BY RingAssumption, SMT DEF TypeOK, Indices, On
<1>4. Pending # <<>> /\ Head(Pending) = Pending[1]
  BY <1>2, SMT DEF PendingShape
<1>5. Pending[1] = entries[read_idx]
  BY <1>2, <1>3, SMT DEF PendingShape, On
<1>6. \A k \in 1 .. Available - 1 : Pending'[k] = Pending[k + 1]
  <2> TAKE k \in 1 .. Available - 1
  <2>1. Pending'[k] = entries[On(read_idx', k - 1)]
    BY <1>2, RingAssumption, SMT DEF PendingShape, On
  <2>2. Pending[k + 1] = entries[On(read_idx, k)]
    BY <1>2, RingAssumption, SMT DEF PendingShape, On
  <2>3. On(read_idx', k - 1) = On(read_idx, k)
    BY <1>1, <1>2, RingAssumption, SMT DEF TypeOK, Indices, On, PendingShape
  <2>4. QED
    BY <2>1, <2>2, <2>3
<1>7. Pending' = Tail(Pending)
  <2>1. Tail(Pending) \in Seq(Slot) /\ Len(Tail(Pending)) = Available - 1
        /\ \A k \in 1 .. Available - 1 : Tail(Pending)[k] = Pending[k + 1]
    BY <1>2, <1>4, SMT DEF PendingShape
  <2>2. QED
    BY <1>2, <1>6, <2>1, SMT DEF PendingShape
<1>8. QED
  BY <1>4, <1>5, <1>7

(* When both indices are equal nothing waits. *)
LEMMA EmptyWhenEqual ==
  ASSUME TypeOK
  PROVE  /\ read_idx = write_idx <=> Available = 0
         /\ read_idx = write_idx <=> Pending = <<>>
<1> PendingShape
  BY PendingIsSeq
<1>1. read_idx = write_idx <=> Available = 0
  BY RingAssumption, SMT DEF TypeOK, Indices, Available, Between
<1>2. QED
  BY <1>1, SMT DEF PendingShape

(* The same of the state after a step. *)
EmptyIfEqual == read_idx = write_idx => Pending = <<>>

LEMMA EmptyPrimed == TypeOK' => EmptyIfEqual'
<1>1. TypeOK => EmptyIfEqual
  BY EmptyWhenEqual DEF EmptyIfEqual
<1>2. QED
  BY <1>1, PTL

(* Nothing is seen of a step that leaves the ring as it is. *)
LEMMA PendingUnchanged ==
  ASSUME UNCHANGED <<entries, write_idx, read_idx>>
  PROVE  Pending' = Pending
  BY DEF Pending, Available, Between

----------------------------------------------------------------------------

(* access_log_init leaves an empty ring. *)
LEMMA InitRing ==
  ASSUME Init
  PROVE  TypeOK /\ Log!Init
<1>1. TypeOK
  BY RingAssumption, SMT DEF Init, EmptyRing, TypeOK, Indices
<1>2. Pending = <<>>
  BY <1>1, EmptyWhenEqual DEF Init, EmptyRing
<1>3. QED
  BY <1>1, <1>2 DEF Init, EmptyRing, Log!Init

(* Every call on the ring is the same call on the queue. *)
LEMMA StepSimulation ==
  ASSUME TypeOK, TypeOK', [Next]_vars
  PROVE  [Log!Next]_(Log!vars)
<1>1. ASSUME NEW e \in Entries, Push(e)
      PROVE  Log!Push(e)
  <2>1. CASE After(write_idx) = read_idx
    BY <1>1, <2>1, PushDrops DEF Push, Log!Push
  <2>2. CASE After(write_idx) # read_idx
    BY <1>1, <2>2, PushAdds DEF Push, Log!Push
  <2>3. QED
    BY <2>1, <2>2
<1>2. ASSUME Pop
      PROVE  Log!Pop
  <2>1. CASE read_idx = write_idx
    BY <1>2, <2>1, EmptyWhenEqual, PendingUnchanged DEF Pop, Log!Pop
  <2>2. CASE read_idx # write_idx
    BY <1>2, <2>2, PopTakes DEF Pop, Log!Pop
  <2>3. QED
    BY <2>1, <2>2
<1>3. ASSUME Clear
      PROVE  Log!Clear
  <2>1. (Pending = <<>>)'
    BY <1>3, EmptyPrimed DEF Clear, EmptyIfEqual
  <2>2. QED
    BY <1>3, <2>1 DEF Clear, Log!Clear
<1>4. CASE UNCHANGED vars
  BY <1>4, PendingUnchanged DEF vars, Log!vars
<1>5. QED
  BY <1>1, <1>2, <1>3, <1>4 DEF Next, Log!Next

(* access_log.c keeps its indices inside the ring and its count in 32 bits. *)
THEOREM LogTypeCorrect == Spec => []TypeOK
<1>1. Init => TypeOK
  BY InitRing
<1>2. TypeOK /\ [Next]_vars => TypeOK'
  BY TypeStep
<1>3. QED
  BY <1>1, <1>2, PTL DEF Spec

(* The ring buffer of access_log.c is a drop-oldest queue of N - 1 entries, through any
   number of wraps, for any number of entries and any width of its counter. *)
THEOREM LogImplementation == Spec => Refines
<1>1. Init => Log!Init
  BY InitRing
<1>2. TypeOK /\ TypeOK' /\ [Next]_vars => [Log!Next]_(Log!vars)
  BY StepSimulation
<1>3. QED
  BY <1>1, <1>2, LogTypeCorrect, PTL DEF Spec, Refines, Log!Spec

----------------------------------------------------------------------------
(***************************************************************************)
(* The ring under its tasks, one access to memory at a time.               *)
(***************************************************************************)

ProducerPcs == {"idle", "test", "count", "counted", "drop", "dropped", "lo", "hi", "publish"}
ConsumerPcs == {"idle", "test", "copy", "lo", "hi", "advance", "advanced", "clear", "uncount"}

(* Every index a task loads, computes or stores is inside the ring, and the count of what
   was dropped in its 32 bits. *)
TasksTypeOK ==
  /\ lo \in [Indices -> Nat] /\ hi \in [Indices -> Nat]
  /\ write_idx \in Indices /\ read_idx \in Indices
  /\ overflow_count \in 0 .. CountMod - 1
  /\ push = [pc |-> push.pc, next |-> push.next, reg |-> push.reg]
  /\ push.pc \in ProducerPcs /\ push.next \in Indices
  /\ push.pc = "dropped" => push.reg \in Indices
  /\ push.pc = "counted" => push.reg \in Nat
  /\ pop \in [Consumers -> [pc : ConsumerPcs, reg : Indices, lo : Nat, hi : Nat]]
  /\ pushed \in Nat /\ cleared \in Nat /\ popped \in Seq(Nat \X Nat)
  /\ full \in BOOLEAN /\ shared \in BOOLEAN

LEMMA PopUpdate ==
  ASSUME NEW c \in Consumers, NEW pc \in ConsumerPcs, NEW i \in Indices, NEW l \in Nat, NEW h \in Nat,
         TasksTypeOK
  PROVE  /\ [pop EXCEPT ![c].pc = pc]
              \in [Consumers -> [pc : ConsumerPcs, reg : Indices, lo : Nat, hi : Nat]]
         /\ [pop EXCEPT ![c].pc = pc, ![c].reg = i]
              \in [Consumers -> [pc : ConsumerPcs, reg : Indices, lo : Nat, hi : Nat]]
         /\ [pop EXCEPT ![c].pc = pc, ![c].lo = l]
              \in [Consumers -> [pc : ConsumerPcs, reg : Indices, lo : Nat, hi : Nat]]
         /\ [pop EXCEPT ![c].pc = pc, ![c].hi = h]
              \in [Consumers -> [pc : ConsumerPcs, reg : Indices, lo : Nat, hi : Nat]]
BY DEF TasksTypeOK

LEMMA TasksTypeInit == TasksInit => TasksTypeOK
<1> SUFFICES ASSUME TasksInit PROVE TasksTypeOK
  OBVIOUS
<1>1. 0 \in Indices
  BY RingAssumption DEF Indices
<1>2. pop \in [Consumers -> [pc : ConsumerPcs, reg : Indices, lo : Nat, hi : Nat]]
  BY <1>1 DEF TasksInit, ConsumerPcs
<1> QED BY <1>1, <1>2 DEF TasksInit, EmptyRing, TasksTypeOK, ProducerPcs

LEMMA BetweenNat ==
  ASSUME NEW r \in Indices, NEW w \in Indices
  PROVE  Between(r, w) \in 0 .. N - 1
BY RingAssumption DEF Indices, Between

LEMMA TasksTypeStep == TasksTypeOK /\ [TasksNext]_tasksVars => TasksTypeOK'
<1> SUFFICES ASSUME TasksTypeOK, [TasksNext]_tasksVars PROVE TasksTypeOK'
  OBVIOUS
<1> USE DEF tasksVars, ring, history
<1>1. CASE Pushes
  <2>1. After(write_idx) \in Indices /\ After(read_idx) \in Indices
    BY AfterIndex DEF TasksTypeOK
  <2>2. push.pc = "dropped" => After(push.reg) \in Indices
    BY AfterIndex DEF TasksTypeOK
  <2>3. Entry \in Nat
    BY DEF Entry, TasksTypeOK
  <2> USE DEF TasksTypeOK, ProducerPcs
  <2>4. CASE PushBegins      BY <2>1, <2>4 DEF PushBegins
  <2>5. CASE PushTest        BY <2>5 DEF PushTest, Pushing
  <2>6. CASE PushLoadCount
    <3>1. push' = [pc |-> "counted", next |-> push.next, reg |-> overflow_count]
      BY <2>6 DEF PushLoadCount
    <3>2. overflow_count \in Nat
      BY RingAssumption
    <3> QED BY <2>6, <3>1, <3>2 DEF PushLoadCount
  <2>7. CASE PushStoreCount
    <3>1. push' = [pc |-> "drop", next |-> push.next, reg |-> push.reg]
      BY <2>7 DEF PushStoreCount, Pushing
    <3>2. overflow_count' \in 0 .. CountMod - 1
      <4> HIDE DEF TasksTypeOK, ProducerPcs
      <4>1. push.reg \in Nat
        BY <2>7 DEF PushStoreCount, Pushing, TasksTypeOK
      <4>2. (push.reg + 1) % CountMod \in 0 .. CountMod - 1
        BY <4>1, RingAssumption
      <4> QED BY <2>7, <4>2 DEF PushStoreCount
    <3> QED BY <2>7, <3>1, <3>2 DEF PushStoreCount
  <2>8. CASE PushLoadRead    BY <2>8 DEF PushLoadRead
  <2>9. CASE PushStoreRead   BY <2>2, <2>9 DEF PushStoreRead, Pushing
  <2>10. CASE PushLo         BY <2>3, <2>10 DEF PushLo, Pushing
  <2>11. CASE PushHi         BY <2>3, <2>11 DEF PushHi, Pushing
  <2>12. CASE PushPublish
    <3>1. push' = [push EXCEPT !.pc = "idle"] /\ write_idx' = push.next /\ pushed' = pushed + 1
      BY <2>12 DEF PushPublish, Pushing
    <3>2. UNCHANGED <<lo, hi, read_idx, overflow_count, pop, popped, cleared, full, shared>>
      BY <2>12 DEF PushPublish
    <3>3. push' = [pc |-> "idle", next |-> push.next, reg |-> push.reg]
      BY <3>1
    <3>4. write_idx' \in Indices /\ pushed' \in Nat
      BY <3>1
    <3> QED BY <3>1, <3>2, <3>3, <3>4
  <2> QED BY <1>1, <2>4, <2>5, <2>6, <2>7, <2>8, <2>9, <2>10, <2>11, <2>12 DEF Pushes
<1>2. ASSUME NEW c \in Consumers, Pops(c) PROVE TasksTypeOK'
  <2>1. /\ pop[c].reg \in Indices /\ pop[c].lo \in Nat /\ pop[c].hi \in Nat
        /\ lo[pop[c].reg] \in Nat /\ hi[pop[c].reg] \in Nat /\ After(pop[c].reg) \in Indices
    BY AfterIndex DEF TasksTypeOK
  <2>2. CASE PopBegins(c)
    <3>1. pop' \in [Consumers -> [pc : ConsumerPcs, reg : Indices, lo : Nat, hi : Nat]]
      <4>1. /\ pop' = [pop EXCEPT ![c].pc = "test", ![c].reg = read_idx]
            /\ "test" \in ConsumerPcs /\ read_idx \in Indices
        BY <2>2 DEF PopBegins, ConsumerPcs, TasksTypeOK
      <4> QED BY <2>1, <4>1, PopUpdate
    <3> QED BY <2>2, <3>1 DEF PopBegins, Enter, TasksTypeOK
  <2>3. CASE PopTest(c)
    <3>1. pop' \in [Consumers -> [pc : ConsumerPcs, reg : Indices, lo : Nat, hi : Nat]]
      <4>1. PICK to \in {"idle", "copy"} : pop' = [pop EXCEPT ![c].pc = to]
        BY <2>3 DEF PopTest, Popping
      <4>2. to \in ConsumerPcs
        BY DEF ConsumerPcs
      <4> QED BY <2>1, <4>1, <4>2, PopUpdate
    <3> QED BY <2>3, <3>1 DEF PopTest, TasksTypeOK
  <2>4. ASSUME NEW from, NEW to \in ConsumerPcs, PopLoadRead(c, from, to) PROVE TasksTypeOK'
    <3>1. pop' \in [Consumers -> [pc : ConsumerPcs, reg : Indices, lo : Nat, hi : Nat]]
      <4>1. pop' = [pop EXCEPT ![c].pc = to, ![c].reg = read_idx] /\ read_idx \in Indices
        BY <2>4 DEF PopLoadRead, TasksTypeOK
      <4> QED BY <2>1, <2>4, <4>1, PopUpdate
    <3> QED BY <2>4, <3>1 DEF PopLoadRead, TasksTypeOK
  <2>5. CASE PopLo(c)
    <3>1. pop' \in [Consumers -> [pc : ConsumerPcs, reg : Indices, lo : Nat, hi : Nat]]
      <4>1. pop' = [pop EXCEPT ![c].pc = "hi", ![c].lo = lo[pop[c].reg]] /\ "hi" \in ConsumerPcs
        BY <2>5 DEF PopLo, ConsumerPcs
      <4> QED BY <2>1, <4>1, PopUpdate
    <3> QED BY <2>5, <3>1 DEF PopLo, TasksTypeOK
  <2>6. CASE PopHi(c)
    <3>1. pop' \in [Consumers -> [pc : ConsumerPcs, reg : Indices, lo : Nat, hi : Nat]]
      <4>1. /\ pop' = [pop EXCEPT ![c].pc = "advance", ![c].hi = hi[pop[c].reg]]
            /\ "advance" \in ConsumerPcs
        BY <2>6 DEF PopHi, ConsumerPcs
      <4> QED BY <2>1, <4>1, PopUpdate
    <3> QED BY <2>6, <3>1 DEF PopHi, TasksTypeOK
  <2>7. CASE PopStoreRead(c)
    <3>1. pop' \in [Consumers -> [pc : ConsumerPcs, reg : Indices, lo : Nat, hi : Nat]]
      <4>1. pop' = [pop EXCEPT ![c].pc = "idle"] /\ "idle" \in ConsumerPcs
        BY <2>7 DEF PopStoreRead, Popping, ConsumerPcs
      <4> QED BY <2>1, <4>1, PopUpdate
    <3>2. popped' \in Seq(Nat \X Nat)
      BY <2>1, <2>7 DEF PopStoreRead, TasksTypeOK
    <3> QED BY <2>1, <2>7, <3>1, <3>2 DEF PopStoreRead, TasksTypeOK
  <2>8. "lo" \in ConsumerPcs /\ "advanced" \in ConsumerPcs
    BY DEF ConsumerPcs
  <2> QED BY <1>2, <2>2, <2>3, <2>4, <2>5, <2>6, <2>7, <2>8 DEF Pops
<1>3. ASSUME NEW c \in Consumers, Clears(c) PROVE TasksTypeOK'
  <2>1. pop[c].reg \in Indices /\ pop[c].lo \in Nat /\ pop[c].hi \in Nat
    BY DEF TasksTypeOK
  <2>2. CASE ClearLoadWrite(c)
    <3>1. pop' \in [Consumers -> [pc : ConsumerPcs, reg : Indices, lo : Nat, hi : Nat]]
      <4>1. /\ pop' = [pop EXCEPT ![c].pc = "clear", ![c].reg = write_idx]
            /\ "clear" \in ConsumerPcs /\ write_idx \in Indices
        BY <2>2 DEF ClearLoadWrite, ConsumerPcs, TasksTypeOK
      <4> QED BY <2>1, <4>1, PopUpdate
    <3> QED BY <2>2, <3>1 DEF ClearLoadWrite, Enter, TasksTypeOK
  <2>3. CASE ClearStoreRead(c)
    <3>1. pop' \in [Consumers -> [pc : ConsumerPcs, reg : Indices, lo : Nat, hi : Nat]]
      BY <2>1, <2>3, PopUpdate DEF ClearStoreRead, Popping, ConsumerPcs
    <3>2. cleared' \in Nat
      <4>1. Between(read_idx, pop[c].reg) \in 0 .. N - 1 /\ cleared \in Nat
        BY <2>1, BetweenNat DEF TasksTypeOK
      <4> QED BY <2>3, <4>1, RingAssumption DEF ClearStoreRead
    <3> QED BY <2>1, <2>3, <3>1, <3>2 DEF ClearStoreRead, TasksTypeOK
  <2>4. CASE ClearCount(c)
    <3>1. pop' \in [Consumers -> [pc : ConsumerPcs, reg : Indices, lo : Nat, hi : Nat]]
      BY <2>1, <2>4, PopUpdate DEF ClearCount, Popping, ConsumerPcs
    <3>2. 0 \in 0 .. CountMod - 1
      BY RingAssumption
    <3> QED BY <2>4, <3>1, <3>2 DEF ClearCount, TasksTypeOK
  <2> QED BY <1>3, <2>2, <2>3, <2>4 DEF Clears
<1>4. CASE UNCHANGED tasksVars
  BY <1>4 DEF TasksTypeOK
<1> QED BY <1>1, <1>2, <1>3, <1>4, TasksAssumption DEF TasksNext

(* However the tasks interleave, and however full the ring is, no access is outside of it
   (access_log.c takes no lock around its indices), and the count of what was dropped,
   whose load and store others can come between, stays in its 32 bits. *)
THEOREM TasksTypeCorrect == TasksSpec => []TasksTypeOK
BY TasksTypeInit, TasksTypeStep, PTL DEF TasksSpec

----------------------------------------------------------------------------
(***************************************************************************)
(* One producer and one consumer.  The numbers of the entries that wait    *)
(* follow from their places: the oldest is Oldest, and the ring holds them *)
(* whole and in order.  What the tasks have in their registers agrees with *)
(* the indices, because only the consumer moves read_idx as long as no     *)
(* push finds the ring full.                                               *)
(***************************************************************************)

Busy(c) == pop[c].pc # "idle"

OneConsumer == \A c, d \in Consumers : Busy(c) /\ Busy(d) => c = d

Oldest      == pushed + 1 - Available
NumberAt(i) == pushed + 1 - Between(i, write_idx)
Waits(i)    == Between(read_idx, i) < Available

ProducerOK ==
  /\ push.pc \in {"idle", "test", "lo", "hi", "publish"}
  /\ push.pc # "idle" => push.next = After(write_idx)
  /\ push.pc \in {"lo", "hi", "publish"} => push.next # read_idx
  /\ push.pc \in {"hi", "publish"} => lo[write_idx] = Entry
  /\ push.pc = "publish" => hi[write_idx] = Entry

ConsumerOK(p) ==
  /\ p.pc \in {"test", "lo", "hi", "advanced"} => p.reg = read_idx
  /\ p.pc \in {"copy", "lo", "hi", "advance", "advanced"} => Available # 0
  /\ p.pc \in {"hi", "advance", "advanced"} => p.lo = Oldest
  /\ p.pc \in {"advance", "advanced"} => p.hi = Oldest
  /\ p.pc = "clear" => Between(read_idx, p.reg) + Between(p.reg, write_idx) = Available

RingIsWhole == \A i \in Indices : Waits(i) => lo[i] = NumberAt(i) /\ hi[i] = NumberAt(i)

InOrder(s) ==
  /\ \A k \in DOMAIN s : s[k][1] = s[k][2]
  /\ \A j, k \in DOMAIN s : j < k => s[j][1] < s[k][1]

Delivered ==
  /\ InOrder(popped)
  /\ \A k \in DOMAIN popped : popped[k][1] < Oldest
  /\ pushed = Len(popped) + Available + cleared

Fifo ==
  /\ OneConsumer /\ ProducerOK
  /\ \A c \in Consumers : ConsumerOK(pop[c])
  /\ RingIsWhole /\ Delivered

FifoInv == TasksTypeOK /\ (~full /\ ~shared => Fifo)

----------------------------------------------------------------------------
(* Places of the ring. *)

LEMMA BetweenEqual ==
  ASSUME NEW r \in Indices, NEW w \in Indices
  PROVE  Between(r, w) = 0 <=> r = w
BY RingAssumption DEF Indices, Between

(* A place more is taken. *)
LEMMA BetweenNext ==
  ASSUME NEW r \in Indices, NEW w \in Indices, After(w) # r
  PROVE  Between(r, After(w)) = Between(r, w) + 1
<1>1. After(w) = IF w + 1 = N THEN 0 ELSE w + 1
  BY AfterIndex
<1> QED BY <1>1, RingAssumption DEF Indices, Between

(* A place less is taken. *)
LEMMA BetweenLess ==
  ASSUME NEW r \in Indices, NEW w \in Indices, r # w
  PROVE  Between(After(r), w) = Between(r, w) - 1 /\ After(w) # After(r)
<1>1. /\ After(r) = IF r + 1 = N THEN 0 ELSE r + 1
      /\ After(w) = IF w + 1 = N THEN 0 ELSE w + 1
  BY AfterIndex
<1> QED BY <1>1, RingAssumption DEF Indices, Between

(* What waits when read_idx goes on to m, between it and write_idx, waited before. *)
LEMMA BetweenGoesOn ==
  ASSUME NEW r \in Indices, NEW m \in Indices, NEW w \in Indices, NEW i \in Indices,
         Between(r, m) + Between(m, w) = Between(r, w)
  PROVE  /\ Between(m, i) < Between(m, w) => Between(r, i) < Between(r, w)
         /\ After(w) # r => After(w) # m
<1>1. After(w) = IF w + 1 = N THEN 0 ELSE w + 1
  BY AfterIndex
<1> QED BY <1>1, RingAssumption DEF Indices, Between

(* A place that waits lies before write_idx. *)
LEMMA WaitsBefore ==
  ASSUME NEW r \in Indices, NEW w \in Indices, NEW i \in Indices, Between(r, i) < Between(r, w)
  PROVE  i # w /\ (After(w) # r => After(w) # i)
<1>1. After(w) = IF w + 1 = N THEN 0 ELSE w + 1
  BY AfterIndex
<1> QED BY <1>1, RingAssumption DEF Indices, Between

(* Of the places before After(w), the last is w. *)
LEMMA WaitsNext ==
  ASSUME NEW r \in Indices, NEW w \in Indices, NEW i \in Indices, After(w) # r,
         Between(r, i) < Between(r, w) + 1
  PROVE  i = w \/ Between(r, i) < Between(r, w)
BY RingAssumption DEF Indices, Between

LEMMA BetweenOne ==
  ASSUME NEW w \in Indices
  PROVE  Between(w, After(w)) = 1
<1>1. After(w) = IF w + 1 = N THEN 0 ELSE w + 1
  BY AfterIndex
<1> QED BY <1>1, RingAssumption DEF Indices, Between

----------------------------------------------------------------------------
(* The producer. *)

(* A step that leaves the indices and what is behind them alone. *)
LEMMA SameRing ==
  ASSUME RingIsWhole, Delivered, UNCHANGED <<lo, hi, write_idx, read_idx, pushed, popped, cleared>>
  PROVE  RingIsWhole' /\ Delivered' /\ Available' = Available /\ Oldest' = Oldest
BY DEF RingIsWhole, Delivered, Available, Oldest, Waits, NumberAt, InOrder

LEMMA SameConsumers ==
  ASSUME OneConsumer, \A c \in Consumers : ConsumerOK(pop[c]),
         UNCHANGED <<pop, write_idx, read_idx, pushed>>
  PROVE  OneConsumer' /\ \A c \in Consumers : ConsumerOK(pop[c])'
BY DEF OneConsumer, Busy, ConsumerOK, Available, Oldest

(* A push writes to the free place at write_idx, where nothing waits. *)
LEMMA FreePlace ==
  ASSUME TasksTypeOK, RingIsWhole, UNCHANGED <<write_idx, read_idx, pushed>>,
         \A i \in Indices \ {write_idx} : lo'[i] = lo[i] /\ hi'[i] = hi[i]
  PROVE  RingIsWhole'
<1>1. \A i \in Indices : Waits(i) => i # write_idx
  BY WaitsBefore DEF Waits, Available, TasksTypeOK
<1> QED BY <1>1 DEF RingIsWhole, Waits, NumberAt, Available

LEMMA FifoPublish ==
  ASSUME TasksTypeOK, Fifo, PushPublish
  PROVE  Fifo'
<1> DEFINE r == read_idx
           w == write_idx
<1>1. /\ r \in Indices /\ w \in Indices /\ pushed \in Nat
      /\ write_idx' = After(w) /\ After(w) # r /\ After(w) \in Indices
      /\ pushed' = pushed + 1 /\ push'.pc = "idle"
      /\ lo[w] = Entry /\ hi[w] = Entry
      /\ UNCHANGED <<lo, hi, read_idx, pop, popped, cleared>>
  BY AfterIndex DEF TasksTypeOK, Fifo, ProducerOK, PushPublish, Pushing, history
<1>2. /\ Available \in Nat /\ Available' = Available + 1 /\ Oldest' = Oldest
  BY <1>1, BetweenNext, BetweenNat, RingAssumption DEF Available, Oldest
<1>3. ASSUME NEW i \in Indices, Waits(i)'
      PROVE  lo'[i] = NumberAt(i)' /\ hi'[i] = NumberAt(i)'
  <2>1. Between(r, i) < Between(r, w) + 1
    BY <1>1, <1>2, <1>3 DEF Waits, Available
  <2>2. CASE i = w
    <3>1. NumberAt(i)' = pushed + 1
      BY <1>1, <2>2, BetweenOne DEF NumberAt
    <3> QED BY <1>1, <2>2, <3>1 DEF Entry
  <2>3. CASE i # w
    <3>1. Waits(i)
      BY <1>1, <2>1, <2>3, WaitsNext DEF Waits, Available
    <3>2. After(w) # i
      BY <1>1, <3>1, WaitsBefore DEF Waits, Available
    <3>3. Between(i, After(w)) = Between(i, w) + 1
      BY <1>1, <3>2, BetweenNext
    <3>4. Between(i, w) \in Nat
      BY <1>1, BetweenNat, RingAssumption
    <3>5. NumberAt(i)' = NumberAt(i)
      BY <1>1, <3>3, <3>4 DEF NumberAt
    <3> QED BY <1>1, <3>1, <3>5 DEF Fifo, RingIsWhole
  <2> QED BY <2>2, <2>3
<1>4. ASSUME NEW c \in Consumers PROVE ConsumerOK(pop[c])'
  <2>1. ConsumerOK(pop[c]) /\ pop[c].reg \in Indices
    BY DEF Fifo, TasksTypeOK
  <2>2. pop[c].pc = "clear" => Between(pop[c].reg, After(w)) = Between(pop[c].reg, w) + 1
    <3>1. SUFFICES ASSUME pop[c].pc = "clear"
                   PROVE  Between(pop[c].reg, After(w)) = Between(pop[c].reg, w) + 1
      OBVIOUS
    <3>2. Between(r, pop[c].reg) + Between(pop[c].reg, w) = Between(r, w)
      BY <2>1, <3>1 DEF ConsumerOK, Available
    <3>3. After(w) # pop[c].reg
      BY <1>1, <2>1, <3>2, BetweenGoesOn
    <3> QED BY <1>1, <2>1, <3>3, BetweenNext
  <2>3. Between(r, pop[c].reg) \in Nat /\ Between(pop[c].reg, w) \in Nat
    BY <1>1, <2>1, BetweenNat, RingAssumption
  <2> QED BY <1>1, <1>2, <2>1, <2>2, <2>3 DEF ConsumerOK
<1>5. Delivered'
  <2>1. Len(popped) \in Nat /\ cleared \in Nat
    BY DEF TasksTypeOK
  <2> QED BY <1>1, <1>2, <2>1 DEF Fifo, Delivered, InOrder
<1> QED BY <1>1, <1>3, <1>4, <1>5 DEF Fifo, ProducerOK, RingIsWhole, OneConsumer, Busy

LEMMA FifoPush ==
  ASSUME FifoInv, Pushes, ~full', ~shared'
  PROVE  Fifo'
<1>1. Fifo /\ TasksTypeOK
  BY DEF FifoInv, Pushes, PushBegins, PushTest, PushLoadCount, PushStoreCount, PushLoadRead,
         PushStoreRead, PushLo, PushHi, PushPublish, history
<1> DEFINE Kept == UNCHANGED <<write_idx, read_idx, pop, pushed, popped, cleared>>
<1>2. ASSUME Kept, RingIsWhole', ProducerOK' PROVE Fifo'
  <2>1. OneConsumer' /\ \A c \in Consumers : ConsumerOK(pop[c])'
    BY <1>1, <1>2, SameConsumers DEF Fifo
  <2>2. Delivered'
    BY <1>1, <1>2 DEF Fifo, Delivered, Available, Oldest, InOrder
  <2> QED BY <1>2, <2>1, <2>2 DEF Fifo
<1>3. ASSUME Kept, UNCHANGED <<lo, hi>>, ProducerOK' PROVE Fifo'
  BY <1>1, <1>2, <1>3, SameRing DEF Fifo
<1>4. CASE PushBegins
  BY <1>1, <1>3, <1>4 DEF PushBegins, Fifo, ProducerOK, ring, history, TasksTypeOK
<1>5. CASE PushTest
  BY <1>1, <1>3, <1>5 DEF PushTest, Pushing, Fifo, ProducerOK, ring, TasksTypeOK
<1>6. CASE PushLoadCount \/ PushStoreCount \/ PushLoadRead \/ PushStoreRead
  BY <1>1, <1>6 DEF PushLoadCount, PushStoreCount, PushLoadRead, PushStoreRead, Pushing, Fifo, ProducerOK
<1>7. CASE PushLo
  <2>1. ProducerOK' /\ Kept
    BY <1>1, <1>7 DEF PushLo, Pushing, Fifo, ProducerOK, Entry, TasksTypeOK, history
  <2>2. \A i \in Indices \ {write_idx} : lo'[i] = lo[i] /\ hi'[i] = hi[i]
    BY <1>1, <1>7 DEF PushLo, TasksTypeOK
  <2> QED BY <1>1, <1>2, <2>1, <2>2, FreePlace DEF Fifo
<1>8. CASE PushHi
  <2>1. ProducerOK' /\ Kept
    BY <1>1, <1>8 DEF PushHi, Pushing, Fifo, ProducerOK, Entry, TasksTypeOK, history
  <2>2. \A i \in Indices \ {write_idx} : lo'[i] = lo[i] /\ hi'[i] = hi[i]
    BY <1>1, <1>8 DEF PushHi, TasksTypeOK
  <2> QED BY <1>1, <1>2, <2>1, <2>2, FreePlace DEF Fifo
<1>9. CASE PushPublish
  BY <1>1, <1>9, FifoPublish
<1> QED BY <1>4, <1>5, <1>6, <1>7, <1>8, <1>9 DEF Pushes

----------------------------------------------------------------------------
(* The consumer. *)

(* Who is in a call, or enters one without making the ring shared, is alone. *)
Alone(c) == \A d \in Consumers \ {c} : pop[d].pc = "idle"

LEMMA BusyIsAlone ==
  ASSUME OneConsumer, NEW c \in Consumers, Busy(c)
  PROVE  Alone(c)
BY DEF OneConsumer, Busy, Alone

LEMMA EntersAlone ==
  ASSUME NEW c \in Consumers, Enter(c), ~shared'
  PROVE  Alone(c)
BY DEF Enter, Alone

(* What is to be shown of a step of a consumer that is alone. *)
LEMMA ConsumerStep ==
  ASSUME TasksTypeOK, NEW c \in Consumers, Alone(c),
         \A d \in Consumers \ {c} : pop'[d] = pop[d],
         ConsumerOK(pop[c])'
  PROVE  OneConsumer' /\ \A d \in Consumers : ConsumerOK(pop[d])'
<1>1. \A d \in Consumers \ {c} : pop'[d].pc = "idle"
  BY DEF Alone
<1>2. OneConsumer'
  BY <1>1 DEF OneConsumer, Busy
<1>3. \A d \in Consumers \ {c} : ConsumerOK(pop[d])'
  BY <1>1 DEF ConsumerOK
<1> QED BY <1>2, <1>3

LEMMA SameProducer ==
  ASSUME ProducerOK, UNCHANGED <<push, lo, hi, write_idx, read_idx, pushed>>
  PROVE  ProducerOK'
BY DEF ProducerOK, Entry

(* The oldest entry is where read_idx is. *)
LEMMA OldestIsNext ==
  ASSUME TasksTypeOK, RingIsWhole, Available # 0
  PROVE  lo[read_idx] = Oldest /\ hi[read_idx] = Oldest
<1>1. Between(read_idx, read_idx) = 0 /\ Available \in Nat
  BY BetweenEqual, BetweenNat, RingAssumption DEF TasksTypeOK, Available
<1>2. Waits(read_idx)
  BY <1>1 DEF Waits
<1> QED BY <1>2 DEF RingIsWhole, NumberAt, Oldest, Available, TasksTypeOK

(* A delivered entry comes after those delivered before. *)
LEMMA AppendInOrder ==
  ASSUME NEW s \in Seq(Nat \X Nat), InOrder(s), NEW n \in Nat, \A k \in DOMAIN s : s[k][1] < n
  PROVE  /\ InOrder(Append(s, <<n, n>>))
         /\ \A k \in DOMAIN Append(s, <<n, n>>) : Append(s, <<n, n>>)[k][1] < n + 1
<1> DEFINE t == Append(s, <<n, n>>)
<1>1. /\ Len(s) \in Nat /\ DOMAIN s = 1 .. Len(s) /\ DOMAIN t = 1 .. Len(s) + 1
      /\ \A k \in 1 .. Len(s) : t[k] = s[k] /\ s[k] \in Nat \X Nat
      /\ t[Len(s) + 1] = <<n, n>>
  OBVIOUS
<1> HIDE DEF t
<1>2. \A k \in 1 .. Len(s) : t[k][1] = s[k][1] /\ t[k][2] = s[k][2] /\ s[k][1] \in Nat /\ s[k][1] < n
  BY <1>1
<1>3. t[Len(s) + 1][1] = n /\ t[Len(s) + 1][2] = n
  BY <1>1
<1>4. \A k \in DOMAIN t : k \in 1 .. Len(s) \/ k = Len(s) + 1
  BY <1>1
<1>5. ASSUME NEW k \in DOMAIN t PROVE t[k][1] = t[k][2] /\ t[k][1] < n + 1
  BY <1>1, <1>2, <1>3, <1>4 DEF InOrder
<1>6. ASSUME NEW j \in DOMAIN t, NEW k \in DOMAIN t, j < k PROVE t[j][1] < t[k][1]
  <2>1. j \in 1 .. Len(s)
    BY <1>1, <1>4, <1>6
  <2>2. CASE k \in 1 .. Len(s)
    BY <1>1, <1>2, <1>6, <2>1, <2>2 DEF InOrder
  <2>3. CASE k = Len(s) + 1
    BY <1>2, <1>3, <2>1, <2>3
  <2> QED BY <1>4, <2>2, <2>3
<1> QED BY <1>5, <1>6 DEF InOrder, t

LEMMA FifoStoreRead ==
  ASSUME TasksTypeOK, Fifo, NEW c \in Consumers, PopStoreRead(c)
  PROVE  Fifo'
<1> DEFINE r == read_idx
           w == write_idx
<1>1. /\ pop[c].pc = "advanced" /\ pop[c].reg = r /\ Available # 0
      /\ pop[c].lo = Oldest /\ pop[c].hi = Oldest
  BY DEF PopStoreRead, Popping, Fifo, ConsumerOK
<1>2. /\ read_idx' = After(r) /\ popped' = Append(popped, <<Oldest, Oldest>>)
      /\ pop' = [pop EXCEPT ![c].pc = "idle"]
      /\ UNCHANGED <<lo, hi, write_idx, push, pushed, cleared>>
  BY <1>1 DEF PopStoreRead, Popping
<1>3. /\ r \in Indices /\ w \in Indices /\ After(r) \in Indices /\ r # w
      /\ pushed \in Nat /\ cleared \in Nat /\ popped \in Seq(Nat \X Nat) /\ Len(popped) \in Nat
  BY <1>1, AfterIndex, BetweenEqual DEF TasksTypeOK, Available
<1>4. Available \in Nat /\ Available' = Available - 1 /\ Oldest' = Oldest + 1 /\ After(w) # After(r)
  <2> DEFINE before == Between(r, w)
             then   == Between(After(r), w)
  <2>1. before \in Nat /\ then = before - 1 /\ After(w) # After(r)
    BY <1>3, BetweenLess, BetweenNat, RingAssumption
  <2>2. /\ Available = before /\ Available' = then
        /\ Oldest = pushed + 1 - before /\ Oldest' = pushed + 1 - then
    BY <1>2 DEF Available, Oldest
  <2> HIDE DEF before, then
  <2> QED BY <1>3, <2>1, <2>2
<1>5. Oldest \in Nat
  BY <1>1, <1>3, <1>4 DEF TasksTypeOK
<1>6. Between(r, After(r)) + Between(After(r), w) = Between(r, w)
  BY <1>3, BetweenOne, BetweenLess, BetweenNat, RingAssumption
<1>7. \A i \in Indices : Waits(i)' => Waits(i)
  BY <1>2, <1>3, <1>6, BetweenGoesOn DEF Waits, Available
<1>8. RingIsWhole'
  BY <1>2, <1>7 DEF Fifo, RingIsWhole, NumberAt
<1>9. ProducerOK'
  BY <1>2, <1>4 DEF Fifo, ProducerOK, Entry
<1>10. OneConsumer' /\ \A d \in Consumers : ConsumerOK(pop[d])'
  <2>1. Alone(c)
    BY <1>1, BusyIsAlone DEF Fifo, Busy
  <2>2. pop'[c].pc = "idle" /\ \A d \in Consumers \ {c} : pop'[d] = pop[d]
    BY <1>2 DEF TasksTypeOK
  <2> QED BY <2>1, <2>2, ConsumerStep DEF ConsumerOK
<1>11. Delivered'
  <2>1. InOrder(popped') /\ \A k \in DOMAIN popped' : popped'[k][1] < Oldest + 1
    BY <1>2, <1>3, <1>5, AppendInOrder DEF Fifo, Delivered
  <2>2. Len(popped') = Len(popped) + 1
    BY <1>2, <1>3
  <2>3. pushed' = Len(popped') + Available' + cleared'
    BY <1>2, <1>3, <1>4, <2>2 DEF Fifo, Delivered
  <2> QED BY <1>4, <2>1, <2>3 DEF Delivered
<1> QED BY <1>8, <1>9, <1>10, <1>11 DEF Fifo

LEMMA FifoClearStore ==
  ASSUME TasksTypeOK, Fifo, NEW c \in Consumers, ClearStoreRead(c)
  PROVE  Fifo'
<1> DEFINE r == read_idx
           w == write_idx
           m == pop[c].reg
<1>1. pop[c].pc = "clear" /\ Between(r, m) + Between(m, w) = Between(r, w)
  BY DEF ClearStoreRead, Popping, Fifo, ConsumerOK, Available
<1>2. /\ read_idx' = m /\ cleared' = cleared + Between(r, m)
      /\ pop' = [pop EXCEPT ![c].pc = "uncount"]
      /\ UNCHANGED <<lo, hi, write_idx, push, pushed, popped>>
  BY DEF ClearStoreRead, Popping
<1>3. /\ r \in Indices /\ w \in Indices /\ m \in Indices
      /\ pushed \in Nat /\ cleared \in Nat /\ popped \in Seq(Nat \X Nat) /\ Len(popped) \in Nat
  BY DEF TasksTypeOK
<1>4. /\ Between(r, m) \in Nat /\ Between(m, w) \in Nat /\ Between(r, w) \in Nat
      /\ Available = Between(r, w) /\ Available' = Between(m, w)
  <2>1. \A i, j \in Indices : Between(i, j) \in Nat
    BY BetweenNat
  <2> QED BY <1>2, <1>3, <2>1 DEF Available
<1>5. \A i \in Indices : Waits(i)' => Waits(i)
  BY <1>1, <1>2, <1>3, BetweenGoesOn DEF Waits, Available
<1>6. RingIsWhole'
  BY <1>2, <1>5 DEF Fifo, RingIsWhole, NumberAt
<1>7. ProducerOK'
  <2>1. After(w) # r => After(w) # m
    BY <1>1, <1>3, BetweenGoesOn
  <2> QED BY <1>2, <2>1 DEF Fifo, ProducerOK, Entry
<1>8. OneConsumer' /\ \A d \in Consumers : ConsumerOK(pop[d])'
  <2>1. Alone(c)
    BY <1>1, BusyIsAlone DEF Fifo, Busy
  <2>2. pop'[c].pc = "uncount" /\ \A d \in Consumers \ {c} : pop'[d] = pop[d]
    BY <1>2 DEF TasksTypeOK
  <2> QED BY <2>1, <2>2, ConsumerStep DEF ConsumerOK
<1>9. Delivered'
  <2>1. Oldest <= Oldest' /\ Oldest \in Int /\ Oldest' \in Int
    BY <1>1, <1>2, <1>3, <1>4 DEF Oldest
  <2>2. \A k \in DOMAIN popped : popped[k][1] \in Nat /\ popped[k][1] < Oldest
    BY <1>3 DEF Fifo, Delivered
  <2>3. \A k \in DOMAIN popped' : popped'[k][1] < Oldest'
    BY <1>2, <2>1, <2>2
  <2>4. pushed' = Len(popped') + Available' + cleared'
    BY <1>1, <1>2, <1>3, <1>4 DEF Fifo, Delivered
  <2> QED BY <1>2, <2>3, <2>4 DEF Fifo, Delivered, InOrder
<1> QED BY <1>6, <1>7, <1>8, <1>9 DEF Fifo

(* The steps of a consumer that only load. *)
LEMMA FifoLoad ==
  ASSUME TasksTypeOK, Fifo, NEW c \in Consumers, Alone(c),
         \A d \in Consumers \ {c} : pop'[d] = pop[d],
         UNCHANGED <<lo, hi, write_idx, read_idx, push, pushed, popped, cleared>>,
         ConsumerOK(pop'[c])
  PROVE  Fifo'
<1>1. RingIsWhole' /\ Delivered' /\ Available' = Available /\ Oldest' = Oldest /\ ProducerOK'
  BY SameRing, SameProducer DEF Fifo
<1>2. ConsumerOK(pop[c])'
  BY <1>1 DEF ConsumerOK
<1>3. OneConsumer' /\ \A d \in Consumers : ConsumerOK(pop[d])'
  BY <1>2, ConsumerStep
<1> QED BY <1>1, <1>3 DEF Fifo

LEMMA FifoPop ==
  ASSUME FifoInv, NEW c \in Consumers, Pops(c) \/ Clears(c), ~full', ~shared'
  PROVE  Fifo'
<1> USE DEF history, ring
<1>1. Fifo /\ TasksTypeOK
  BY DEF FifoInv, TasksTypeOK, Pops, PopBegins, PopTest, PopLoadRead, PopLo, PopHi, PopStoreRead, Enter,
         Clears, ClearLoadWrite, ClearStoreRead, ClearCount
<1>2. /\ ConsumerOK(pop[c]) /\ pop[c].reg \in Indices
      /\ pop[c] \in [pc : ConsumerPcs, reg : Indices, lo : Nat, hi : Nat]
      /\ read_idx \in Indices /\ write_idx \in Indices
  BY <1>1 DEF Fifo, TasksTypeOK
<1>3. Busy(c) => Alone(c)
  BY <1>1, BusyIsAlone DEF Fifo
<1>4. c \in DOMAIN pop
  BY <1>1 DEF TasksTypeOK
<1> DEFINE p == pop[c]
<1>5. ASSUME NEW q, pop' = [pop EXCEPT ![c] = q], Alone(c), ConsumerOK(q),
             UNCHANGED <<lo, hi, write_idx, read_idx, push, pushed, popped, cleared>>
      PROVE  Fifo'
  BY <1>1, <1>4, <1>5, FifoLoad
<1>6. CASE PopBegins(c)
  <2> DEFINE q == [p EXCEPT !.pc = "test", !.reg = read_idx]
  <2>1. Alone(c) /\ pop' = [pop EXCEPT ![c] = q]
    BY <1>6, EntersAlone DEF PopBegins
  <2>2. ConsumerOK(q)
    BY <1>2 DEF ConsumerOK
  <2> QED BY <1>5, <1>6, <2>1, <2>2 DEF PopBegins
<1>7. CASE PopTest(c)
  <2> DEFINE q == [p EXCEPT !.pc = IF p.reg = write_idx THEN "idle" ELSE "copy"]
  <2>1. Alone(c) /\ pop' = [pop EXCEPT ![c] = q] /\ p.pc = "test"
    BY <1>3, <1>7 DEF PopTest, Popping, Busy
  <2>2. p.reg = read_idx /\ (p.reg # write_idx => Available # 0)
    BY <1>2, <2>1, BetweenEqual DEF ConsumerOK, Available
  <2>3. ConsumerOK(q)
    BY <1>2, <2>2 DEF ConsumerOK
  <2> QED BY <1>5, <1>7, <2>1, <2>3 DEF PopTest
<1>8. CASE PopLoadRead(c, "copy", "lo")
  <2> DEFINE q == [p EXCEPT !.pc = "lo", !.reg = read_idx]
  <2>1. Alone(c) /\ pop' = [pop EXCEPT ![c] = q] /\ p.pc = "copy"
    BY <1>3, <1>8 DEF PopLoadRead, Busy
  <2>2. ConsumerOK(q)
    BY <1>2, <2>1 DEF ConsumerOK
  <2> QED BY <1>5, <1>8, <2>1, <2>2 DEF PopLoadRead
<1>9. CASE PopLo(c)
  <2> DEFINE q == [p EXCEPT !.pc = "hi", !.lo = lo[p.reg]]
  <2>1. Alone(c) /\ pop' = [pop EXCEPT ![c] = q] /\ p.pc = "lo"
    BY <1>3, <1>9 DEF PopLo, Busy
  <2>2. lo[p.reg] = Oldest
    BY <1>1, <1>2, <2>1, OldestIsNext DEF ConsumerOK, Fifo
  <2>3. ConsumerOK(q)
    BY <1>2, <2>1, <2>2 DEF ConsumerOK
  <2> QED BY <1>5, <1>9, <2>1, <2>3 DEF PopLo
<1>10. CASE PopHi(c)
  <2> DEFINE q == [p EXCEPT !.pc = "advance", !.hi = hi[p.reg]]
  <2>1. Alone(c) /\ pop' = [pop EXCEPT ![c] = q] /\ p.pc = "hi"
    BY <1>3, <1>10 DEF PopHi, Busy
  <2>2. hi[p.reg] = Oldest
    BY <1>1, <1>2, <2>1, OldestIsNext DEF ConsumerOK, Fifo
  <2>3. ConsumerOK(q)
    BY <1>2, <2>1, <2>2 DEF ConsumerOK
  <2> QED BY <1>5, <1>10, <2>1, <2>3 DEF PopHi
<1>11. CASE PopLoadRead(c, "advance", "advanced")
  <2> DEFINE q == [p EXCEPT !.pc = "advanced", !.reg = read_idx]
  <2>1. Alone(c) /\ pop' = [pop EXCEPT ![c] = q] /\ p.pc = "advance"
    BY <1>3, <1>11 DEF PopLoadRead, Busy
  <2>2. ConsumerOK(q)
    BY <1>2, <2>1 DEF ConsumerOK
  <2> QED BY <1>5, <1>11, <2>1, <2>2 DEF PopLoadRead
<1>12. CASE PopStoreRead(c)
  BY <1>1, <1>12, FifoStoreRead
<1>13. CASE ClearLoadWrite(c)
  <2> DEFINE q == [p EXCEPT !.pc = "clear", !.reg = write_idx]
  <2>1. Alone(c) /\ pop' = [pop EXCEPT ![c] = q]
    BY <1>13, EntersAlone DEF ClearLoadWrite
  <2>2. Between(write_idx, write_idx) = 0 /\ Between(read_idx, write_idx) \in Nat
    BY <1>2, BetweenEqual, BetweenNat, RingAssumption
  <2>3. ConsumerOK(q)
    BY <1>2, <2>2 DEF ConsumerOK, Available
  <2> QED BY <1>5, <1>13, <2>1, <2>3 DEF ClearLoadWrite
<1>14. CASE ClearStoreRead(c)
  BY <1>1, <1>14, FifoClearStore
<1>15. CASE ClearCount(c)
  <2> DEFINE q == [p EXCEPT !.pc = "idle"]
  <2>1. Alone(c) /\ pop' = [pop EXCEPT ![c] = q]
    BY <1>3, <1>15 DEF ClearCount, Popping, Busy
  <2>2. ConsumerOK(q)
    BY <1>2 DEF ConsumerOK
  <2> QED BY <1>5, <1>15, <2>1, <2>2 DEF ClearCount
<1> QED BY <1>6, <1>7, <1>8, <1>9, <1>10, <1>11, <1>12, <1>13, <1>14, <1>15 DEF Pops, Clears

LEMMA FifoInit == TasksInit => FifoInv
<1> SUFFICES ASSUME TasksInit PROVE TasksTypeOK /\ Fifo
  BY DEF FifoInv
<1>1. TasksTypeOK
  BY TasksTypeInit
<1>2. Available = 0
  BY <1>1, BetweenEqual DEF TasksInit, EmptyRing, TasksTypeOK, Available
<1>3. \A i \in Indices : ~Waits(i)
  <2> TAKE i \in Indices
  <2>1. Between(read_idx, i) \in Nat
    BY <1>1, BetweenNat, RingAssumption DEF TasksTypeOK
  <2> QED BY <1>2, <2>1 DEF Waits
<1> QED BY <1>1, <1>2, <1>3 DEF TasksInit, Fifo, OneConsumer, Busy, ProducerOK, ConsumerOK,
                              RingIsWhole, Delivered, InOrder

(* The inductive invariant of the ring under its tasks, see above. *)
THEOREM FifoInvariance == TasksSpec => []FifoInv
<1>1. FifoInv /\ [TasksNext]_tasksVars => FifoInv'
  <2> SUFFICES ASSUME FifoInv, [TasksNext]_tasksVars, ~full', ~shared' PROVE Fifo'
    BY TasksTypeStep DEF FifoInv
  <2>1. CASE Pushes
    BY <2>1, FifoPush
  <2>2. ASSUME NEW c \in Consumers, Pops(c) \/ Clears(c) PROVE Fifo'
    BY <2>2, FifoPop
  <2>3. CASE UNCHANGED tasksVars
    <3>1. Fifo /\ UNCHANGED <<lo, hi, write_idx, read_idx, push, pop, pushed, popped, cleared>>
      BY <2>3 DEF tasksVars, ring, history, FifoInv
    <3> QED BY <3>1, SameRing, SameProducer, SameConsumers DEF Fifo
  <2> QED BY <2>1, <2>2, <2>3, TasksAssumption DEF TasksNext
<1> QED BY <1>1, FifoInit, PTL DEF TasksSpec

(* One producer and one consumer at a time need no lock as long as the ring was never
   full: what access_log_push is given comes out whole, once and in order. *)
THEOREM LockFreeFifo == TasksSpec => []FifoUntilFull
<1>1. FifoInv => FifoUntilFull
  BY DEF FifoInv, Fifo, Delivered, InOrder, FifoUntilFull
<1> QED BY <1>1, FifoInvariance, PTL

----------------------------------------------------------------------------
(***************************************************************************)
(* The SSE manager.  What relates the count to the table is CountInv: each *)
(* of the two tasks holds a loaded count while it is at "count", and the   *)
(* entry it is about to free may be gone while it is at "drop".            *)
(***************************************************************************)

Both == Updating(bcast) /\ Updating(http)

Other(who) == IF who = "bcast" THEN http ELSE bcast
Who == {"bcast", "http"}

TaskPcs == {"delay", "access", "periodic", "idle", "hello", "send", "drop", "count"}

TaskOK(t) ==
  /\ t \in [pc : TaskPcs, i : 0 .. MaxClients, then : TaskPcs \ {"hello", "drop", "count"},
            count : Int, n : Nat, due : SUBSET Periodic, fd : Sockets \cup {NoSocket}]
  /\ t.pc \in {"send", "drop"} => t.fd = NoSocket
  /\ t.pc \in {"hello", "drop"} => t.i # MaxClients
  /\ t.pc = "count" /\ t.fd = NoSocket => t.i # MaxClients

(* The shapes of the state, and that the entry a client is greeted for stays free. *)
SseTypeOK ==
  /\ clients \in [Indexes -> [fd : Sockets \cup {NoSocket}, ours : BOOLEAN]]
  /\ \A i \in Indexes : clients[i].fd = NoSocket => clients[i] = Free
  /\ s_client_count \in Int /\ open \subseteq Sockets /\ races \in Nat
  /\ \A who \in Who : TaskOK(Task(who))
  /\ bcast.pc # "hello" /\ bcast.fd = NoSocket
  /\ http.pc = "hello" => clients[http.i] = Free /\ http.fd # NoSocket

(* How far the count, and one that a task has loaded and changed, are off. *)
Excess    == s_client_count - Cardinality(Active)
Loaded(t) == t.count - Cardinality(Active)

Within(x, k) == -k <= x /\ x <= k

(* A race counts from the moment both tasks update the table, but does no harm before one
   of them is done. *)
Slack == IF Both THEN races - 1 ELSE races

(* The entry that t is about to free is free already. *)
Gone(t) == t.pc = "drop" /\ clients[t.i].fd = NoSocket

TaskCounts(t, u) ==
  /\ t.pc = "count" /\ u.pc = "count" => Within(Loaded(t), races)
  /\ t.pc = "count" /\ u.pc # "count" => Within(Loaded(t), Slack) /\ Within(Excess, Slack + 1)
  /\ t.pc # "count" /\ u.pc # "count" => Within(Excess, Slack)
  /\ Gone(t) /\ u.pc # "count" => Within(Excess - 1, Slack)
  /\ Gone(t) /\ u.pc = "count" => Within(Excess - 1, races)

CountInv ==
  /\ Both => races > 0
  /\ \A who \in Who : TaskCounts(Task(who), Other(who))

SseInv == SseTypeOK /\ CountInv

----------------------------------------------------------------------------
(* The number of active entries. *)

LEMMA ActiveFinite ==
  /\ IsFiniteSet(Active) /\ Cardinality(Active) \in Nat
<1>1. IsFiniteSet(Indexes)
  BY FS_Interval, SseAssumption DEF Indexes
<1>2. Active \subseteq Indexes
  BY DEF Active
<1> QED BY <1>1, <1>2, FS_Subset, FS_CardinalityType

LEMMA ActiveFreed ==
  ASSUME clients \in [Indexes -> [fd : Sockets \cup {NoSocket}, ours : BOOLEAN]],
         NEW i \in Indexes, clients' = [clients EXCEPT ![i] = Free]
  PROVE  Cardinality(Active') = IF i \in Active THEN Cardinality(Active) - 1 ELSE Cardinality(Active)
<1>1. Active' = Active \ {i}
  BY DEF Active, Free
<1> QED BY <1>1, ActiveFinite, FS_RemoveElement

LEMMA ActiveFilled ==
  ASSUME clients \in [Indexes -> [fd : Sockets \cup {NoSocket}, ours : BOOLEAN]],
         NEW i \in Indexes, clients[i] = Free, NEW fd \in Sockets,
         clients' = [clients EXCEPT ![i] = [fd |-> fd, ours |-> TRUE]]
  PROVE  Cardinality(Active') = Cardinality(Active) + 1
<1>1. Active' = Active \cup {i} /\ i \notin Active
  BY SseAssumption DEF Active, Free
<1> QED BY <1>1, ActiveFinite, FS_AddElement

----------------------------------------------------------------------------
(* A step of one task leaves the other where it is. *)

LEMMA GoesTo ==
  ASSUME NEW who \in Who, NEW to, Goes(who, to)
  PROVE  /\ Task(who)' = to /\ Other(who)' = Other(who)
         /\ races' = IF Updating(to) /\ Updating(Other(who)) /\ ~Both THEN races + 1 ELSE races
         /\ Both' <=> Updating(to) /\ Updating(Other(who))
         /\ Both <=> Updating(Task(who)) /\ Updating(Other(who))
<1>1. CASE who = "bcast"
  BY <1>1 DEF Goes, BcastGoes, Races, Task, Other, Both
<1>2. CASE who = "http"
  BY <1>2 DEF Goes, HttpGoes, Races, Task, Other, Both
<1> QED BY <1>1, <1>2 DEF Who

(* CountInv in terms of one task and the other. *)
LEMMA CountOfBoth ==
  \A who \in Who :
    CountInv <=> /\ Both => races > 0
                 /\ TaskCounts(Task(who), Other(who)) /\ TaskCounts(Other(who), Task(who))
BY DEF CountInv, Who, Task, Other

LEMMA CountOfBothNext ==
  (\A who \in Who :
     CountInv <=> /\ Both => races > 0
                  /\ TaskCounts(Task(who), Other(who)) /\ TaskCounts(Other(who), Task(who)))'
BY CountOfBoth, PTL

LEMMA TasksAre ==
  ASSUME SseTypeOK, NEW who \in Who
  PROVE  /\ TaskOK(Task(who)) /\ TaskOK(Other(who))
         /\ Excess \in Int /\ Loaded(Task(who)) \in Int /\ Loaded(Other(who)) \in Int
         /\ races \in Nat /\ Cardinality(Active) \in Nat
<1>1. TaskOK(Task(who)) /\ TaskOK(Other(who))
  BY DEF SseTypeOK, Who, Task, Other
<1> QED BY <1>1, ActiveFinite DEF SseTypeOK, TaskOK, Excess, Loaded

LEMMA CountSame ==
  ASSUME SseTypeOK, \A i \in Indexes : clients'[i].fd = clients[i].fd
  PROVE  Active' = Active
BY DEF Active

(* Steps of neither task. *)
LEMMA OthersCount ==
  ASSUME SseInv, UNCHANGED <<s_client_count, bcast, http, races>>,
         \A i \in Indexes : clients'[i].fd = clients[i].fd
  PROVE  CountInv'
<1>1. Active' = Active
  BY CountSame DEF SseInv
<1>2. \A who \in Who : /\ Task(who)' = Task(who) /\ Other(who)' = Other(who)
                       /\ (Task(who).pc = "drop" => Task(who).i \in Indexes)
  <2> TAKE who \in Who
  <2>1. TaskOK(Task(who))
    BY TasksAre DEF SseInv
  <2>2. Task(who).pc = "drop" => Task(who).i \in Indexes
    BY <2>1, SseAssumption DEF TaskOK, Indexes
  <2> QED BY <2>2 DEF Task, Other
<1>3. \A who \in Who : Gone(Task(who))' <=> Gone(Task(who))
  BY <1>2 DEF Gone
<1> QED BY <1>1, <1>2, <1>3 DEF SseInv, CountInv, TaskCounts, Both, Slack, Excess, Loaded

(* Steps of a task that has nothing to do with the table, before and after. *)
LEMMA QuietCount ==
  ASSUME SseInv, NEW who \in Who, NEW to, Goes(who, to), ~Updating(Task(who)), ~Updating(to),
         UNCHANGED <<table, open>>
  PROVE  CountInv'
<1>1. /\ Task(who)' = to /\ Other(who)' = Other(who) /\ races' = races
      /\ ~Both /\ ~Both'
  BY GoesTo
<1>2. Active' = Active /\ Excess' = Excess /\ Loaded(Other(who))' = Loaded(Other(who))
  BY <1>1 DEF Active, table, Excess, Loaded
<1>3. /\ to.pc # "drop" /\ to.pc # "count" /\ Task(who).pc # "drop" /\ Task(who).pc # "count"
  BY DEF Updating
<1>4. Gone(Other(who))' <=> Gone(Other(who))
  BY <1>1 DEF Gone, table
<1>5. Slack' = Slack
  BY <1>1 DEF Slack
<1>6. TaskCounts(Task(who), Other(who)) /\ TaskCounts(Other(who), Task(who))
  BY CountOfBoth DEF SseInv
<1>7. TaskCounts(Task(who), Other(who))'
  BY <1>1, <1>2, <1>3, <1>5, <1>6 DEF TaskCounts, Gone
<1>8. TaskCounts(Other(who), Task(who))'
  BY <1>1, <1>2, <1>3, <1>4, <1>5, <1>6 DEF TaskCounts
<1> QED BY <1>1, <1>7, <1>8, CountOfBothNext

(* The result of a send is not ESP_OK, and the task decides to free the entry. *)
LEMMA FailCount ==
  ASSUME SseInv, NEW who \in Who, Task(who).pc = "send", Task(who).i # MaxClients,
         clients[Task(who).i].fd # NoSocket,
         Goes(who, [Task(who) EXCEPT !.pc = "drop"]), UNCHANGED <<table, open>>
  PROVE  CountInv'
<1> DEFINE t == Task(who)
           u == Other(who)
           to == [t EXCEPT !.pc = "drop"]
<1>1. t \in [pc : TaskPcs, i : 0 .. MaxClients, then : TaskPcs \ {"hello", "drop", "count"},
            count : Int, n : Nat, due : SUBSET Periodic, fd : Sockets \cup {NoSocket}]
  BY TasksAre DEF SseInv, TaskOK
<1>2. to.pc = "drop" /\ to.i = t.i
  BY <1>1
<1>3. /\ Task(who)' = to /\ Other(who)' = u /\ ~Both
      /\ races' = IF Updating(u) THEN races + 1 ELSE races
      /\ Both' <=> Updating(u)
  BY <1>2, GoesTo DEF Updating
<1>4. Slack' = Slack /\ Slack = races
  BY <1>3, TasksAre DEF Slack, SseInv
<1>5. Active' = Active /\ Excess' = Excess /\ Loaded(u)' = Loaded(u)
  BY <1>3 DEF Active, table, Excess, Loaded
<1>6. Gone(u)' <=> Gone(u)
  BY <1>3 DEF Gone, table
<1>7. ~Gone(Task(who))'
  BY <1>2, <1>3 DEF Gone, table
<1>8. TaskCounts(t, u) /\ TaskCounts(u, t)
  BY CountOfBoth DEF SseInv
<1>9. TaskCounts(Task(who), Other(who))'
  BY <1>2, <1>3, <1>4, <1>5, <1>7, <1>8 DEF TaskCounts
<1>10. TaskCounts(Other(who), Task(who))'
  BY <1>2, <1>3, <1>4, <1>5, <1>6, <1>8 DEF TaskCounts
<1> QED BY <1>3, <1>9, <1>10, CountOfBothNext, TasksAre DEF SseInv

(* The entry is freed, and the count loaded. *)
LEMMA DropCount ==
  ASSUME SseInv, NEW who \in Who, DropClient(who)
  PROVE  CountInv'
<1> DEFINE t == Task(who)
           u == Other(who)
           to == [t EXCEPT !.pc = "count", !.count = s_client_count - 1]
<1>1. /\ t \in [pc : TaskPcs, i : 0 .. MaxClients, then : TaskPcs \ {"hello", "drop", "count"},
               count : Int, n : Nat, due : SUBSET Periodic, fd : Sockets \cup {NoSocket}]
      /\ t.i \in Indexes /\ t.pc = "drop" /\ (u.pc = "drop" => u.i \in Indexes)
  BY TasksAre, SseAssumption DEF SseInv, TaskOK, DropClient, Indexes
<1>2. to.pc = "count" /\ to.count = s_client_count - 1
  BY <1>1
<1>3. /\ Task(who)' = to /\ Other(who)' = u /\ races' = races /\ (Both' <=> Both)
      /\ (Both <=> Updating(u))
  BY <1>1, <1>2, GoesTo DEF Updating, DropClient
<1>4. Slack' = Slack
  BY <1>3 DEF Slack
<1>5. /\ clients \in [Indexes -> [fd : Sockets \cup {NoSocket}, ours : BOOLEAN]]
      /\ clients' = [clients EXCEPT ![t.i] = Free] /\ s_client_count' = s_client_count
  BY DEF DropClient, SseInv, SseTypeOK
<1>6. /\ t.i \in Active <=> ~Gone(t)
      /\ Cardinality(Active') = IF Gone(t) THEN Cardinality(Active) ELSE Cardinality(Active) - 1
  BY <1>1, <1>5, ActiveFreed DEF Gone, Active
<1>7. /\ Cardinality(Active) \in Nat /\ s_client_count \in Int /\ races \in Nat
      /\ Excess \in Int /\ Loaded(u) \in Int /\ Slack \in Int
      /\ Slack = IF Updating(u) THEN races - 1 ELSE races
  BY <1>3, TasksAre DEF SseInv, SseTypeOK, Slack
<1>8. /\ Excess' = IF Gone(t) THEN Excess ELSE Excess + 1
      /\ Loaded(u)' = IF Gone(t) THEN Loaded(u) ELSE Loaded(u) + 1
      /\ Loaded(Task(who))' = IF Gone(t) THEN Excess - 1 ELSE Excess
  <2>1. u.count \in Int
    BY TasksAre DEF SseInv, TaskOK
  <2> QED BY <1>2, <1>3, <1>5, <1>6, <1>7, <2>1 DEF Excess, Loaded
<1>9. TaskCounts(t, u) /\ TaskCounts(u, t)
  BY CountOfBoth DEF SseInv
<1>10. ~Gone(Task(who))'
  BY <1>2, <1>3 DEF Gone
<1>11. Gone(u)' => u.pc = "drop" /\ (Gone(u) \/ ~Gone(t))
  BY <1>1, <1>3, <1>5 DEF Gone
<1>12. u.pc \in {"drop", "count"} <=> Updating(u)
  BY DEF Updating
<1>13. TaskCounts(Task(who), Other(who))'
  BY <1>1, <1>2, <1>3, <1>4, <1>7, <1>8, <1>9, <1>10, <1>12 DEF TaskCounts, Within
<1>14. TaskCounts(Other(who), Task(who))'
  BY <1>1, <1>2, <1>3, <1>4, <1>7, <1>8, <1>9, <1>11, <1>12 DEF TaskCounts, Within
<1> QED BY <1>3, <1>13, <1>14, CountOfBothNext, CountOfBoth DEF SseInv

(* The count is stored: what it is off by is what the loaded one was off by. *)
LEMMA StoreIsCounted ==
  ASSUME SseInv, NEW who \in Who, StoreCount(who)
  PROVE  CountInv'
<1> DEFINE t == Task(who)
           u == Other(who)
           to == IF t.fd # NoSocket THEN At("idle")
                 ELSE [t EXCEPT !.pc = "send", !.i = @ + 1, !.count = 0]
<1>1. /\ t \in [pc : TaskPcs, i : 0 .. MaxClients, then : TaskPcs \ {"hello", "drop", "count"},
               count : Int, n : Nat, due : SUBSET Periodic, fd : Sockets \cup {NoSocket}]
      /\ t.pc = "count" /\ (u.pc = "drop" => u.i \in Indexes)
  BY TasksAre, SseAssumption DEF SseInv, TaskOK, StoreCount, Indexes
<1>2. to.pc \in {"idle", "send"}
  BY <1>1 DEF At
<1>3. /\ Task(who)' = to /\ Other(who)' = u /\ races' = races /\ ~Both'
      /\ (Both <=> Updating(u))
  BY <1>1, <1>2, GoesTo DEF Updating, StoreCount
<1>4. /\ Cardinality(Active) \in Nat /\ races \in Nat
      /\ Excess \in Int /\ Loaded(t) \in Int /\ Loaded(u) \in Int
      /\ Slack' = races /\ Slack = IF Updating(u) THEN races - 1 ELSE races
  BY <1>3, TasksAre DEF SseInv, Slack
<1>5. /\ Excess' = Loaded(t) /\ Loaded(u)' = Loaded(u) /\ (Gone(u)' <=> Gone(u))
      /\ clients' = clients /\ open' = open
  BY <1>3 DEF StoreCount, Excess, Loaded, Active, Gone
<1>6. TaskCounts(t, u) /\ TaskCounts(u, t)
  BY CountOfBoth DEF SseInv
<1>7. u.pc \in {"drop", "count"} <=> Updating(u)
  BY DEF Updating
<1>8. Gone(u) => u.pc = "drop"
  BY DEF Gone
<1>9. TaskCounts(Task(who), Other(who))'
  BY <1>1, <1>2, <1>3, <1>4, <1>5, <1>6, <1>7 DEF TaskCounts, Within, Gone
<1>10. TaskCounts(Other(who), Task(who))'
  BY <1>1, <1>2, <1>3, <1>4, <1>5, <1>6, <1>7, <1>8 DEF TaskCounts, Within
<1> QED BY <1>3, <1>9, <1>10, CountOfBothNext

(* A client is added, and the count loaded. *)
LEMMA AddedIsCounted ==
  ASSUME SseInv, ClientAdded
  PROVE  CountInv'
<1> DEFINE to == [http EXCEPT !.pc = "count", !.count = s_client_count + 1]
<1>1. /\ http \in [pc : TaskPcs, i : 0 .. MaxClients, then : TaskPcs \ {"hello", "drop", "count"},
                  count : Int, n : Nat, due : SUBSET Periodic, fd : Sockets \cup {NoSocket}]
      /\ http.i \in Indexes /\ http.pc = "hello" /\ (bcast.pc = "drop" => bcast.i \in Indexes)
      /\ clients[http.i] = Free /\ http.fd \in Sockets
  BY SseAssumption DEF SseInv, SseTypeOK, Who, Task, TaskOK, ClientAdded, Indexes
<1>2. to.pc = "count" /\ to.count = s_client_count + 1
  BY <1>1
<1>3. "http" \in Who /\ Task("http") = http /\ Other("http") = bcast /\ Goes("http", to)
  BY DEF Who, Task, Other, Goes, ClientAdded
<1>4. /\ http' = to /\ bcast' = bcast
      /\ races' = (IF Updating(bcast) THEN races + 1 ELSE races)
      /\ ~Both /\ (Both' <=> Updating(bcast))
  BY <1>1, <1>2, <1>3, GoesTo DEF Updating, Task, Other
<1>5. /\ clients \in [Indexes -> [fd : Sockets \cup {NoSocket}, ours : BOOLEAN]]
      /\ clients' = [clients EXCEPT ![http.i] = [fd |-> http.fd, ours |-> TRUE]]
      /\ s_client_count' = s_client_count
  BY DEF ClientAdded, SseInv, SseTypeOK
<1>6. Cardinality(Active') = Cardinality(Active) + 1
  BY <1>1, <1>5, ActiveFilled
<1>7. /\ Cardinality(Active) \in Nat /\ s_client_count \in Int /\ races \in Nat
      /\ Excess \in Int /\ Loaded(bcast) \in Int /\ Slack = races /\ Slack' = races
      /\ bcast.count \in Int
  BY <1>3, <1>4, TasksAre DEF SseInv, SseTypeOK, Slack, TaskOK
<1>8. /\ Excess' = Excess - 1 /\ Loaded(bcast)' = Loaded(bcast) - 1 /\ Loaded(http)' = Excess
  BY <1>2, <1>4, <1>5, <1>6, <1>7 DEF Excess, Loaded
<1>9. TaskCounts(http, bcast) /\ TaskCounts(bcast, http)
  BY <1>3, CountOfBoth DEF SseInv
<1>10. Gone(bcast)' => Gone(bcast) /\ bcast.pc = "drop"
  BY <1>1, <1>4, <1>5, SseAssumption DEF Gone
<1>11. bcast.pc \in {"drop", "count"} <=> Updating(bcast)
  BY DEF Updating
<1>12. TaskCounts(http, bcast)'
  BY <1>1, <1>2, <1>4, <1>7, <1>8, <1>9, <1>11 DEF TaskCounts, Within, Gone
<1>13. TaskCounts(bcast, http)'
  BY <1>1, <1>2, <1>4, <1>7, <1>8, <1>9, <1>10, <1>11 DEF TaskCounts, Within
<1> QED BY <1>3, <1>4, <1>7, <1>12, <1>13, CountOfBothNext DEF Task, Other

(* What a task sends goes to one entry after the other. *)
LEMMA SendIsCounted ==
  ASSUME SseInv, NEW who \in Who, SendNext(who)
  PROVE  CountInv'
<1> DEFINE t == Task(who)
<1>1. /\ t \in [pc : TaskPcs, i : 0 .. MaxClients, then : TaskPcs \ {"hello", "drop", "count"},
               count : Int, n : Nat, due : SUBSET Periodic, fd : Sockets \cup {NoSocket}]
      /\ t.pc = "send" /\ ~Updating(t)
  BY TasksAre DEF SseInv, TaskOK, SendNext, Updating
<1>2. UNCHANGED <<table, open>>
  BY DEF SendNext
<1>3. CASE t.i = MaxClients
  <2> DEFINE to == [t EXCEPT !.pc = t.then, !.i = 0]
  <2>1. Goes(who, to)
    BY <1>3 DEF SendNext
  <2>2. ~Updating(to)
    BY <1>1 DEF Updating
  <2> QED BY <1>1, <1>2, <2>1, <2>2, QuietCount
<1>4. CASE t.i # MaxClients /\ clients[t.i].fd # NoSocket
  <2>1. Goes(who, [t EXCEPT !.pc = "drop"])
    BY <1>4 DEF SendNext, SocketSend, ESP_OK
  <2> QED BY <1>1, <1>2, <1>4, <2>1, FailCount
<1>5. CASE t.i # MaxClients /\ clients[t.i].fd = NoSocket
  <2> DEFINE to == [t EXCEPT !.i = @ + 1]
  <2>1. Goes(who, to)
    BY <1>5 DEF SendNext
  <2>2. ~Updating(to)
    BY <1>1 DEF Updating
  <2> QED BY <1>1, <1>2, <2>1, <2>2, QuietCount
<1> QED BY <1>3, <1>4, <1>5

LEMMA SendsAreCounted ==
  ASSUME SseInv, NEW who \in Who, Sends(who)
  PROVE  CountInv'
BY SendIsCounted, DropCount, StoreIsCounted DEF Sends

LEMMA BroadcastIsCounted ==
  ASSUME SseInv, Broadcast
  PROVE  CountInv'
<1>1. "bcast" \in Who /\ Task("bcast") = bcast
  BY DEF Who, Task
<1>2. ASSUME NEW to, BcastGoes(to), ~Updating(bcast), ~Updating(to), UNCHANGED <<table, open>>
      PROVE  CountInv'
  <2>1. Goes("bcast", to)
    BY <1>2 DEF Goes
  <2> QED BY <1>1, <1>2, <2>1, QuietCount
<1>3. /\ bcast \in [pc : TaskPcs, i : 0 .. MaxClients, then : TaskPcs \ {"hello", "drop", "count"},
                   count : Int, n : Nat, due : SUBSET Periodic, fd : Sockets \cup {NoSocket}]
  BY <1>1 DEF SseInv, SseTypeOK, TaskOK
<1>4. CASE Sends("bcast")
  BY <1>1, <1>4, SendsAreCounted
<1>5. ASSUME NEW events \in SUBSET Periodic, Poll(events) PROVE CountInv'
  <2>1. ~Updating([At("access") EXCEPT !.due = events]) /\ ~Updating(bcast)
    BY <1>5 DEF Updating, At, Poll
  <2> QED BY <1>2, <1>5, <2>1 DEF Poll
<1>6. CASE SendAccess
  <2> DEFINE to == IF read_idx = write_idx THEN [At("periodic") EXCEPT !.due = bcast.due]
                   ELSE [bcast EXCEPT !.pc = "send", !.then = "access", !.n = @ + 1]
  <2>1. ~Updating(to) /\ ~Updating(bcast)
    BY <1>3, <1>6 DEF Updating, At, SendAccess
  <2>2. BcastGoes(to) /\ UNCHANGED <<table, open>>
    BY <1>6 DEF SendAccess
  <2> QED BY <1>2, <2>1, <2>2
<1>7. CASE BatchFull
  <2>1. ~Updating([At("periodic") EXCEPT !.due = bcast.due]) /\ ~Updating(bcast)
    BY <1>7 DEF Updating, At, BatchFull
  <2> QED BY <1>2, <1>7, <2>1 DEF BatchFull
<1>8. CASE SendPeriodic
  <2>1. PICK event \in bcast.due : BcastGoes([bcast EXCEPT !.pc = "send", !.due = @ \ {event}])
    BY <1>8 DEF SendPeriodic
  <2>2. ~Updating([bcast EXCEPT !.pc = "send", !.due = @ \ {event}]) /\ ~Updating(bcast)
    BY <1>3, <1>8 DEF Updating, SendPeriodic
  <2> QED BY <1>2, <1>8, <2>1, <2>2 DEF SendPeriodic
<1>9. CASE RoundEnds
  <2>1. ~Updating(At("delay")) /\ ~Updating(bcast)
    BY <1>9 DEF Updating, At, RoundEnds
  <2> QED BY <1>2, <1>9, <2>1 DEF RoundEnds
<1> QED BY <1>4, <1>5, <1>6, <1>7, <1>8, <1>9 DEF Broadcast

LEMMA HttpIsCounted ==
  ASSUME SseInv, HttpRequest \/ HttpGoesOn
  PROVE  CountInv'
<1>1. "http" \in Who /\ Task("http") = http
  BY DEF Who, Task
<1>2. ASSUME NEW to, HttpGoes(to), ~Updating(http), ~Updating(to), UNCHANGED <<table, open>>
      PROVE  CountInv'
  <2>1. Goes("http", to)
    BY <1>2 DEF Goes
  <2> QED BY <1>1, <1>2, <2>1, QuietCount
<1>3. CASE HttpGoesOn
  BY <1>1, <1>3, SendsAreCounted, AddedIsCounted DEF HttpGoesOn
<1>4. CASE NotifySlotChange
  <2>1. ~Updating([At("idle") EXCEPT !.pc = "send"]) /\ ~Updating(http)
    BY <1>4 DEF Updating, At, NotifySlotChange
  <2> QED BY <1>2, <1>4, <2>1 DEF NotifySlotChange
<1>5. CASE ResetStats
  <2>1. UNCHANGED <<table, open, bcast, http, races>>
    BY <1>5 DEF ResetStats
  <2> QED BY <2>1, OthersCount DEF table
<1>6. ASSUME NEW fd \in Sockets, AddClient(fd) PROVE CountInv'
  <2>1. PICK i \in Indexes \ Active :
          HttpGoes([At("idle") EXCEPT !.pc = "hello", !.fd = fd, !.i = i])
    BY <1>6 DEF AddClient
  <2> DEFINE to == [At("idle") EXCEPT !.pc = "hello", !.fd = fd, !.i = i]
  <2>2. ~Updating(to) /\ ~Updating(http) /\ HttpGoes(to) /\ UNCHANGED <<table, open>>
    BY <1>6, <2>1 DEF Updating, At, AddClient
  <2> QED BY <1>2, <2>2
<1>7. ASSUME NEW fd \in Sockets, Accept(fd) PROVE CountInv'
  <2>1. \A i \in Indexes : clients'[i] = [clients[i] EXCEPT !.ours = @ /\ clients[i].fd # fd]
    BY <1>7 DEF Accept
  <2>2. \A i \in Indexes : clients[i] \in [fd : Sockets \cup {NoSocket}, ours : BOOLEAN]
    BY DEF SseInv, SseTypeOK
  <2>3. \A i \in Indexes : clients'[i].fd = clients[i].fd
    BY <2>1, <2>2
  <2> QED BY <1>7, <2>3, OthersCount DEF Accept
<1> QED BY <1>3, <1>4, <1>5, <1>6, <1>7 DEF HttpRequest

(* CountInv is kept by every step. *)
LEMMA CountStep ==
  ASSUME SseInv, [SseNext]_sseVars
  PROVE  CountInv'
<1>1. CASE Broadcast
  BY <1>1, BroadcastIsCounted
<1>2. CASE HttpRequest \/ HttpGoesOn
  BY <1>2, HttpIsCounted
<1>3. ASSUME NEW fd \in Sockets, Disconnect(fd) PROVE CountInv'
  BY <1>3, OthersCount DEF Disconnect, table
<1>4. CASE Access
  BY <1>4, OthersCount DEF Access, table
<1>5. CASE UNCHANGED sseVars
  BY <1>5, OthersCount DEF sseVars, table
<1> QED BY <1>1, <1>2, <1>3, <1>4, <1>5 DEF SseNext

----------------------------------------------------------------------------
(* The shapes. *)

Shape == [pc : TaskPcs, i : 0 .. MaxClients, then : TaskPcs \ {"hello", "drop", "count"},
          count : Int, n : Nat, due : SUBSET Periodic, fd : Sockets \cup {NoSocket}]

LEMMA AtOK ==
  ASSUME NEW pc \in TaskPcs \ {"hello", "drop", "count"}
  PROVE  /\ At(pc) \in Shape /\ TaskOK(At(pc)) /\ At(pc).fd = NoSocket /\ At(pc).pc = pc
BY SseAssumption DEF At, TaskOK, Shape, TaskPcs

LEMMA SendsType ==
  ASSUME SseTypeOK, NEW who \in Who, Sends(who)
  PROVE  /\ \E to : /\ Goes(who, to) /\ TaskOK(to) /\ to.pc # "hello"
                    /\ (to.fd = Task(who).fd \/ to.fd = NoSocket)
         /\ clients' \in [Indexes -> [fd : Sockets \cup {NoSocket}, ours : BOOLEAN]]
         /\ \A i \in Indexes : clients'[i] = clients[i] \/ clients'[i] = Free
         /\ s_client_count' \in Int /\ open' = open
<1> DEFINE t == Task(who)
<1> USE DEF Shape
<1>1. /\ TaskOK(t) /\ t \in Shape
      /\ clients \in [Indexes -> [fd : Sockets \cup {NoSocket}, ours : BOOLEAN]]
      /\ s_client_count \in Int /\ MaxClients \in Nat
  BY TasksAre, SseAssumption DEF SseTypeOK, TaskOK
<1>2. CASE SendNext(who)
  <2>1. t.pc = "send" /\ UNCHANGED <<table, open>>
    BY <1>2 DEF SendNext
  <2>2. CASE t.i = MaxClients
    <3> DEFINE to == [t EXCEPT !.pc = t.then, !.i = 0]
    <3>1. Goes(who, to)
      BY <1>2, <2>2 DEF SendNext
    <3>2. to \in Shape
      <4>1. 0 \in 0 .. MaxClients /\ t.then \in TaskPcs
        BY <1>1
      <4> QED BY <1>1, <4>1
    <3>3. to.pc = t.then /\ to.i = 0 /\ to.fd = t.fd /\ t.fd = NoSocket
      BY <1>1, <2>1 DEF TaskOK
    <3>4. t.then \notin {"hello", "drop", "count"}
      BY <1>1
    <3>5. TaskOK(to) /\ to.pc # "hello" /\ to.fd = t.fd
      BY <3>2, <3>3, <3>4 DEF TaskOK
    <3> QED BY <1>1, <2>1, <3>1, <3>5 DEF table
  <2>3. CASE t.i # MaxClients /\ clients[t.i].fd # NoSocket
    <3> DEFINE to == [t EXCEPT !.pc = "drop"]
    <3>1. Goes(who, to)
      BY <1>2, <2>3 DEF SendNext, SocketSend, ESP_OK
    <3>2. TaskOK(to) /\ to.pc # "hello" /\ to.fd = t.fd
      BY <1>1, <2>1, <2>3 DEF TaskOK, TaskPcs
    <3> QED BY <1>1, <2>1, <3>1, <3>2 DEF table
  <2>4. CASE t.i # MaxClients /\ clients[t.i].fd = NoSocket
    <3> DEFINE to == [t EXCEPT !.i = @ + 1]
    <3>1. Goes(who, to)
      BY <1>2, <2>4 DEF SendNext
    <3>2. t.i + 1 \in 0 .. MaxClients
      BY <1>1, <2>4
    <3>3. to \in Shape /\ to.pc = "send" /\ to.fd = t.fd
      BY <1>1, <2>1, <3>2
    <3>4. TaskOK(to) /\ to.pc # "hello" /\ to.fd = t.fd
      BY <1>1, <2>1, <3>3 DEF TaskOK
    <3> QED BY <1>1, <2>1, <3>1, <3>4 DEF table
  <2> QED BY <2>2, <2>3, <2>4
<1>3. CASE DropClient(who)
  <2> DEFINE to == [t EXCEPT !.pc = "count", !.count = s_client_count - 1]
  <2>1. t.pc = "drop" /\ Goes(who, to) /\ UNCHANGED <<s_client_count, open>>
    BY <1>3 DEF DropClient
  <2>2. TaskOK(to) /\ to.pc # "hello" /\ to.fd = t.fd
    <3>1. s_client_count - 1 \in Int /\ "count" \in TaskPcs
      BY <1>1 DEF TaskPcs
    <3>2. to \in Shape
      BY <1>1, <3>1
    <3>3. to.pc = "count" /\ to.fd = t.fd /\ to.i = t.i
      BY <1>1
    <3>4. t.fd = NoSocket /\ t.i # MaxClients
      BY <1>1, <2>1 DEF TaskOK
    <3> QED BY <3>2, <3>3, <3>4 DEF TaskOK
  <2>3. clients' = [clients EXCEPT ![t.i] = Free] /\ Free \in [fd : Sockets \cup {NoSocket}, ours : BOOLEAN]
    BY <1>3 DEF DropClient, Free
  <2> QED BY <1>1, <2>1, <2>2, <2>3
<1>4. CASE StoreCount(who)
  <2>1. t.pc = "count" /\ UNCHANGED <<clients, open>> /\ s_client_count' = t.count
    BY <1>4 DEF StoreCount
  <2>2. CASE t.fd # NoSocket
    <3>1. Goes(who, At("idle"))
      BY <1>4, <2>2 DEF StoreCount
    <3>2. TaskOK(At("idle")) /\ At("idle").pc # "hello" /\ At("idle").fd = NoSocket
      BY AtOK DEF TaskPcs
    <3> QED BY <1>1, <2>1, <3>1, <3>2
  <2>3. CASE t.fd = NoSocket
    <3> DEFINE to == [t EXCEPT !.pc = "send", !.i = @ + 1, !.count = 0]
    <3>1. Goes(who, to)
      BY <1>4, <2>3 DEF StoreCount
    <3>2. t.i + 1 \in 0 .. MaxClients
      BY <1>1, <2>1, <2>3 DEF TaskOK
    <3>3. to.pc = "send" /\ to.fd = t.fd
      BY <1>1
    <3>4. to \in Shape
      <4>1. "send" \in TaskPcs /\ 0 \in Int
        BY DEF TaskPcs
      <4> QED BY <1>1, <3>2, <4>1
    <3>5. TaskOK(to) /\ to.pc # "hello" /\ to.fd = t.fd
      BY <2>3, <3>3, <3>4 DEF TaskOK
    <3> QED BY <1>1, <2>1, <3>1, <3>5
  <2> QED BY <2>2, <2>3
<1> QED BY <1>2, <1>3, <1>4 DEF Sends

(* What has to be shown of a step of each task. *)
LEMMA BcastType ==
  ASSUME SseTypeOK, NEW to, BcastGoes(to), TaskOK(to), to.pc # "hello", to.fd = NoSocket,
         clients' \in [Indexes -> [fd : Sockets \cup {NoSocket}, ours : BOOLEAN]],
         \A i \in Indexes : clients'[i] = clients[i] \/ clients'[i] = Free,
         s_client_count' \in Int, open' = open
  PROVE  SseTypeOK'
<1>1. bcast' = to /\ http' = http /\ races' \in Nat
  BY DEF BcastGoes, Races, SseTypeOK
<1>2. \A who \in Who : TaskOK(Task(who)')
  BY <1>1 DEF SseTypeOK, Who, Task
<1>3. \A i \in Indexes : clients'[i].fd = NoSocket => clients'[i] = Free
  BY DEF SseTypeOK
<1>4. http.pc = "hello" => clients'[http.i] = Free
  <2>1. TaskOK(http)
    BY DEF SseTypeOK, Who, Task
  <2>2. http.pc = "hello" => http.i \in Indexes
    BY <2>1, SseAssumption DEF TaskOK, Indexes
  <2> QED BY <2>2 DEF SseTypeOK
<1> QED BY <1>1, <1>2, <1>3, <1>4 DEF SseTypeOK, TaskOK

LEMMA HttpType ==
  ASSUME SseTypeOK, NEW to, HttpGoes(to), TaskOK(to),
         to.pc = "hello" => clients'[to.i] = Free /\ to.fd # NoSocket,
         clients' \in [Indexes -> [fd : Sockets \cup {NoSocket}, ours : BOOLEAN]],
         \A i \in Indexes : clients'[i].fd = NoSocket => clients'[i] = Free,
         s_client_count' \in Int, open' = open
  PROVE  SseTypeOK'
<1>1. http' = to /\ bcast' = bcast /\ races' \in Nat
  BY DEF HttpGoes, Races, SseTypeOK
<1>2. \A who \in Who : TaskOK(Task(who)')
  BY <1>1 DEF SseTypeOK, Who, Task
<1> QED BY <1>1, <1>2 DEF SseTypeOK, TaskOK

LEMMA SseTypeStep ==
  ASSUME SseTypeOK, [SseNext]_sseVars
  PROVE  SseTypeOK'
<1>1. /\ "bcast" \in Who /\ Task("bcast") = bcast /\ "http" \in Who /\ Task("http") = http
      /\ \A to : (Goes("bcast", to) => BcastGoes(to)) /\ (Goes("http", to) => HttpGoes(to))
  BY DEF Who, Task, Goes
<1>2. /\ clients \in [Indexes -> [fd : Sockets \cup {NoSocket}, ours : BOOLEAN]]
      /\ \A i \in Indexes : clients[i].fd = NoSocket => clients[i] = Free
      /\ s_client_count \in Int /\ bcast.fd = NoSocket
      /\ TaskOK(bcast) /\ bcast \in Shape
  BY <1>1 DEF SseTypeOK, TaskOK, Shape
<1>3. CASE Sends("bcast")
  <2>1. PICK to : /\ BcastGoes(to) /\ TaskOK(to) /\ to.pc # "hello" /\ to.fd = NoSocket
    BY <1>1, <1>2, <1>3, SendsType
  <2> QED BY <1>1, <1>3, <2>1, SendsType, BcastType
<1>4. CASE Sends("http")
  <2>1. PICK to : HttpGoes(to) /\ TaskOK(to) /\ to.pc # "hello"
    BY <1>1, <1>4, SendsType
  <2>2. \A i \in Indexes : clients'[i].fd = NoSocket => clients'[i] = Free
    BY <1>1, <1>2, <1>4, SendsType
  <2> QED BY <1>1, <1>4, <2>1, <2>2, SendsType, HttpType
(* The broadcast task, when it does not send. *)
<1>5. ASSUME NEW to, BcastGoes(to), TaskOK(to), to.pc # "hello", to.fd = NoSocket, UNCHANGED <<table, open>>
      PROVE  SseTypeOK'
  BY <1>2, <1>5, BcastType DEF table
<1>6. ASSUME NEW pc \in {"delay", "access", "periodic"}, NEW due \in SUBSET Periodic
      PROVE  /\ TaskOK(At(pc)) /\ At(pc).pc # "hello" /\ At(pc).fd = NoSocket
             /\ TaskOK([At(pc) EXCEPT !.due = due]) /\ [At(pc) EXCEPT !.due = due].pc # "hello"
             /\ [At(pc) EXCEPT !.due = due].fd = NoSocket
  <2>1. At(pc) \in Shape /\ TaskOK(At(pc)) /\ At(pc).fd = NoSocket /\ At(pc).pc = pc
    BY AtOK DEF TaskPcs
  <2>2. [At(pc) EXCEPT !.due = due] \in Shape
    BY <2>1 DEF Shape
  <2>3. [At(pc) EXCEPT !.due = due].pc = pc /\ [At(pc) EXCEPT !.due = due].fd = NoSocket
    BY DEF At
  <2> QED BY <2>1, <2>2, <2>3 DEF TaskOK, Shape
<1>7. bcast.due \in SUBSET Periodic /\ bcast.n \in Nat
  BY <1>2 DEF Shape
<1>8. ASSUME NEW events \in SUBSET Periodic, Poll(events) PROVE SseTypeOK'
  BY <1>5, <1>6, <1>8 DEF Poll
<1>9. CASE SendAccess
  <2>1. CASE read_idx = write_idx
    BY <1>5, <1>6, <1>7, <1>9, <2>1 DEF SendAccess
  <2>2. CASE read_idx # write_idx
    <3> DEFINE to == [bcast EXCEPT !.pc = "send", !.then = "access", !.n = @ + 1]
    <3>1. BcastGoes(to) /\ UNCHANGED <<table, open>>
      BY <1>9, <2>2 DEF SendAccess
    <3>2. to \in Shape
      <4>1. "send" \in TaskPcs /\ "access" \in TaskPcs \ {"hello", "drop", "count"} /\ bcast.n + 1 \in Nat
        BY <1>7 DEF TaskPcs
      <4> QED BY <1>2, <4>1 DEF Shape
    <3>3. to.pc = "send" /\ to.fd = NoSocket
      BY <1>2 DEF Shape
    <3> QED BY <1>5, <3>1, <3>2, <3>3 DEF TaskOK, Shape
  <2> QED BY <2>1, <2>2
<1>10. CASE BatchFull
  BY <1>5, <1>6, <1>7, <1>10 DEF BatchFull
<1>11. CASE SendPeriodic
  <2>1. PICK event \in bcast.due : BcastGoes([bcast EXCEPT !.pc = "send", !.due = @ \ {event}])
    BY <1>11 DEF SendPeriodic
  <2> DEFINE to == [bcast EXCEPT !.pc = "send", !.due = @ \ {event}]
  <2>2. to \in Shape
    BY <1>2, <1>7 DEF Shape, TaskPcs
  <2>3. to.pc = "send" /\ to.fd = NoSocket
    BY <1>2 DEF Shape
  <2> QED BY <1>5, <1>11, <2>1, <2>2, <2>3 DEF SendPeriodic, TaskOK, Shape
<1>12. CASE RoundEnds
  BY <1>5, <1>6, <1>12 DEF RoundEnds
(* The server's task. *)
<1>13. At("idle") \in Shape
  BY AtOK DEF TaskPcs, At
<1>14. CASE ClientAdded
  <2> DEFINE to == [http EXCEPT !.pc = "count", !.count = s_client_count + 1]
  <2>1. http \in Shape /\ http.pc = "hello" /\ http.fd \in Sockets /\ http.i \in Indexes
    BY <1>1, <1>14, SseAssumption DEF SseTypeOK, TaskOK, Shape, ClientAdded, Indexes
  <2>2. to \in Shape
    <3>1. s_client_count + 1 \in Int /\ "count" \in TaskPcs
      BY <1>2 DEF TaskPcs
    <3> QED BY <2>1, <3>1 DEF Shape
  <2>3. to.pc = "count" /\ to.fd = http.fd /\ to.fd # NoSocket
    BY <2>1, SseAssumption DEF Shape
  <2>4. TaskOK(to)
    BY <2>2, <2>3 DEF TaskOK, Shape
  <2>5. /\ clients' = [clients EXCEPT ![http.i] = [fd |-> http.fd, ours |-> TRUE]]
        /\ HttpGoes(to) /\ UNCHANGED <<s_client_count, open>>
    BY <1>14 DEF ClientAdded
  <2>6. clients' \in [Indexes -> [fd : Sockets \cup {NoSocket}, ours : BOOLEAN]]
    BY <1>2, <2>1, <2>5
  <2>7. \A i \in Indexes : clients'[i].fd = NoSocket => clients'[i] = Free
    BY <1>2, <2>1, <2>5, SseAssumption
  <2> QED BY <1>2, <2>3, <2>4, <2>5, <2>6, <2>7, HttpType
<1>15. CASE NotifySlotChange
  <2> DEFINE to == [At("idle") EXCEPT !.pc = "send"]
  <2>1. to \in Shape
    BY <1>13 DEF Shape, TaskPcs
  <2>2. to.pc = "send" /\ to.fd = NoSocket
    BY DEF At
  <2> QED BY <1>2, <1>15, <2>1, <2>2, HttpType DEF NotifySlotChange, TaskOK, Shape, table
<1>16. ASSUME NEW fd \in Sockets, AddClient(fd) PROVE SseTypeOK'
  <2>1. PICK i \in Indexes \ Active :
          HttpGoes([At("idle") EXCEPT !.pc = "hello", !.fd = fd, !.i = i])
    BY <1>16 DEF AddClient
  <2> DEFINE to == [At("idle") EXCEPT !.pc = "hello", !.fd = fd, !.i = i]
  <2>2. to.pc = "hello" /\ to.i = i /\ to.fd = fd
    BY DEF At
  <2>3. i \in 0 .. MaxClients /\ i # MaxClients
    BY SseAssumption DEF Indexes
  <2>4. TaskOK(to)
    <3>1. "hello" \in TaskPcs
      BY DEF TaskPcs
    <3>2. to \in Shape
      BY <1>13, <2>3, <3>1 DEF Shape
    <3> QED BY <2>2, <2>3, <3>2 DEF TaskOK, Shape
  <2>5. clients'[to.i] = Free /\ to.fd # NoSocket /\ UNCHANGED <<table, open>>
    BY <1>2, <1>16, <2>2, SseAssumption DEF Active, AddClient, table
  <2> QED BY <1>2, <2>1, <2>4, <2>5, HttpType DEF table
<1>17. ASSUME NEW fd \in Sockets, Accept(fd) PROVE SseTypeOK'
  <2>1. clients' = [i \in Indexes |-> [clients[i] EXCEPT !.ours = @ /\ clients[i].fd # fd]]
        /\ open' \subseteq Sockets /\ http.pc = "idle" /\ UNCHANGED <<s_client_count, bcast, http, races>>
    BY <1>17 DEF Accept, SseTypeOK
  <2>2. ASSUME NEW i \in Indexes
        PROVE  /\ clients'[i] \in [fd : Sockets \cup {NoSocket}, ours : BOOLEAN]
               /\ clients'[i].fd = NoSocket => clients'[i] = Free
    <3>1. /\ clients[i] \in [fd : Sockets \cup {NoSocket}, ours : BOOLEAN]
          /\ (clients[i].fd = NoSocket => clients[i] = Free)
      BY <1>2
    <3>2. clients'[i] = [fd |-> clients[i].fd, ours |-> clients[i].ours /\ clients[i].fd # fd]
      BY <2>1, <3>1
    <3> QED BY <3>1, <3>2 DEF Free
  <2>3. clients' \in [Indexes -> [fd : Sockets \cup {NoSocket}, ours : BOOLEAN]]
    BY <2>1, <2>2
  <2> QED BY <2>1, <2>2, <2>3 DEF SseTypeOK, Task
<1>18. CASE ResetStats
  BY <1>18 DEF ResetStats, table, SseTypeOK, Task
<1>19. ASSUME NEW fd \in Sockets, Disconnect(fd) PROVE SseTypeOK'
  BY <1>19 DEF Disconnect, table, SseTypeOK, Task
<1>20. CASE Access
  BY <1>20 DEF Access, table, SseTypeOK, Task
<1>21. CASE UNCHANGED sseVars
  BY <1>21 DEF sseVars, table, SseTypeOK, Task
<1> QED BY <1>3, <1>4, <1>8, <1>9, <1>10, <1>11, <1>12, <1>14, <1>15, <1>16, <1>17, <1>18, <1>19, <1>20, <1>21
        DEF SseNext, Broadcast, HttpRequest, HttpGoesOn

LEMMA SseTypeInit == SseInit => SseTypeOK
<1> SUFFICES ASSUME SseInit PROVE SseTypeOK
  OBVIOUS
<1>1. TaskOK(At("delay")) /\ TaskOK(At("idle")) /\ At("delay").fd = NoSocket
      /\ At("delay").pc = "delay" /\ At("idle").pc = "idle"
  BY AtOK DEF TaskPcs
<1> QED BY <1>1 DEF SseInit, SseTypeOK, Free, Who, Task

LEMMA SseInitInv == SseInit => SseInv
<1> SUFFICES ASSUME SseInit PROVE SseInv
  OBVIOUS
<1>1. Active = {} /\ Cardinality(Active) = 0
  BY FS_EmptySet DEF SseInit, Active, Free
<1>2. \A who \in Who : Task(who).pc \notin {"drop", "count"} /\ Other(who).pc \notin {"drop", "count"}
  BY DEF SseInit, Who, Task, Other, At
<1>3. Excess = 0 /\ races = 0 /\ Slack = 0
  BY <1>1 DEF SseInit, Excess, Slack, Both, Updating, At
<1>4. CountInv
  BY <1>2, <1>3 DEF CountInv, TaskCounts, Gone, Within, SseInit, Both, Updating, At
<1> QED BY <1>4, SseTypeInit DEF SseInv

(* The inductive invariant of the client table under its two tasks, see above. *)
THEOREM SseInvariance == SseSpec => []SseInv
<1>1. SseInv /\ [SseNext]_sseVars => SseInv'
  <2> SUFFICES ASSUME SseInv, [SseNext]_sseVars PROVE SseInv'
    OBVIOUS
  <2>1. SseTypeOK'
    BY SseTypeStep DEF SseInv
  <2>2. CountInv'
    BY CountStep
  <2> QED BY <2>1, <2>2 DEF SseInv
<1> QED BY <1>1, SseInitInv, PTL DEF SseSpec

(* The count of clients is off by no more than the number of times both tasks changed the
   table at once: s_client_count-- and s_client_count++ lose an update in no other way. *)
THEOREM CountIsOffByRaces == SseSpec => []CountOffByRaces
<1>1. SseInv => CountOffByRaces
  <2> SUFFICES ASSUME SseInv, ~Updating(bcast), ~Updating(http)
               PROVE  s_client_count - Cardinality(Active) \in -races .. races
    BY DEF CountOffByRaces
  <2>1. "bcast" \in Who /\ Task("bcast") = bcast /\ Other("bcast") = http
    BY DEF Who, Task, Other
  <2>2. Within(Excess, races)
    BY <2>1 DEF SseInv, CountInv, TaskCounts, Updating, Slack, Both
  <2>3. Excess \in Int /\ races \in Nat
    BY <2>1, TasksAre DEF SseInv
  <2> QED BY <2>2, <2>3 DEF Within, Excess
<1> QED BY <1>1, SseInvariance, PTL

(* Every step of the tasks is a call on the log, or leaves it alone. *)
LEMMA SseStepsLog == [SseNext]_sseVars => [Next]_vars
BY DEF SseNext, Broadcast, Sends, SendNext, DropClient, StoreCount, Poll, SendAccess, BatchFull, SendPeriodic,
       RoundEnds, HttpRequest, HttpGoesOn, NotifySlotChange, AddClient, ClientAdded, Accept, ResetStats,
       Disconnect, Access, Next, log, sseVars, vars

(* Under the SSE manager, too, the log is a drop-oldest queue: what the broadcast task
   sends comes out in the order of the accesses, and what is lost is counted. *)
THEOREM LogUnderSse == SseSpec => Refines
<1>1. SseSpec => Spec
  <2>1. SseInit => Init
    BY DEF SseInit
  <2> QED BY <2>1, SseStepsLog, PTL DEF SseSpec, Spec
<1> QED BY <1>1, LogImplementation, PTL
=============================================================================
