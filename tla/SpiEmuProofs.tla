--------------------------- MODULE SpiEmuProofs ---------------------------
(***************************************************************************)
(* SpiEmu for any number of tasks and any times that StopTimeAssumption    *)
(* allows.  What makes the wait of spi_flash_emu_stop long enough is       *)
(* InTime: while it lasts, no task is further from its next look at        *)
(* `running' than the handler is from the end of the wait.                 *)
(***************************************************************************)
EXTENDS SpiEmu, FiniteSetTheorems, TLAPS

HttpShape ==
  \/ http = Idle
  \/ /\ http = [pc |-> http.pc, then |-> http.then, arg |-> http.arg]
     /\ http.pc \in {"stop", "start", "eject"}
     /\ http.then \in {"start", "eject"}
     /\ "eject" \in {http.pc, http.then} => http.arg \in Rom!Slots
  \/ /\ http = [pc |-> "wait", then |-> http.then, arg |-> http.arg, left |-> http.left]
     /\ http.then \in {"start", "eject"}
     /\ http.then = "eject" => http.arg \in Rom!Slots
     /\ http.left \in Nat

TaskShape(s) ==
  /\ s = [pc |-> s.pc, left |-> s.left, store |-> s.store]
  /\ s.pc \in {"none", "loop", "transmit", "delay", "process"}
  /\ s.left \in Nat
  /\ s.pc = "loop" => s.left = 0
  /\ s.pc = "transmit" => s.left <= TransmitTime
  /\ s.pc = "delay" => s.left <= ErrorTime
  /\ s.pc = "process" => s.left <= ProcessTime

Shapes ==
  /\ running \in BOOLEAN /\ driver \in BOOLEAN
  /\ task \in TaskIds \cup {NoTask}
  /\ DOMAIN tasks = TaskIds
  /\ \A t \in TaskIds : TaskShape(tasks[t])
  /\ HttpShape

OneTask == \A t, u \in Live : t = u

Waiting == http.pc = "wait"

(* The driver is there as long as the emulator runs, or stop waits for its task; and
   who finds the handle NULL can take the task to be gone. *)
Installed ==
  /\ running => driver
  /\ Live # {} => driver /\ task # NoTask
  /\ driver => running \/ Waiting
  /\ task # NoTask => running \/ Waiting
  /\ http.pc \in {"wait", "start", "eject"} => ~running

(* The task s looks at running before `left' is over. *)
Before(s, left) ==
  /\ s.pc = "transmit" => s.left + ErrorTime < left /\ s.left + ProcessTime < left
  /\ s.pc \in {"delay", "process"} => s.left < left
  /\ s.pc = "loop" => 0 < left

InTime == Waiting => \A t \in TaskIds : Before(tasks[t], http.left)

EInv == Shapes /\ OneTask /\ Installed /\ InTime

----------------------------------------------------------------------------
LEMMA Times ==
  /\ TransmitTime \in Nat /\ ErrorTime \in Nat /\ ProcessTime \in Nat /\ StopTime \in Nat
  /\ 0 < StopTime /\ ErrorTime < StopTime /\ ProcessTime < StopTime
  /\ TransmitTime + ErrorTime < StopTime /\ TransmitTime + ProcessTime < StopTime
BY EmuAssumption, StopTimeAssumption, SMT

LEMMA InitEInv == Init => EInv
<1> SUFFICES ASSUME Init PROVE EInv
  OBVIOUS
<1>1. TaskShape(NotThere) /\ Live = {} /\ ~Waiting
  BY DEF TaskShape, NotThere, Init, Live, Waiting, Idle
<1>2. Shapes
  BY <1>1 DEF Init, Shapes, HttpShape
<1> QED BY <1>1, <1>2 DEF Init, EInv, OneTask, Installed, InTime, Idle

(* A step of task t alone, which ends it or leaves it as far from its next look. *)
LEMMA OneTaskStep ==
  ASSUME EInv, NEW t \in Live, NEW s,
         TaskShape(s),
         Waiting => Before(s, http.left),
         tasks' = [tasks EXCEPT ![t] = s], UNCHANGED <<emu, http>>
  PROVE  EInv'
<1>1. t \in TaskIds /\ tasks[t].pc # "none"
  BY DEF Live
<1>2. DOMAIN tasks' = TaskIds /\ tasks'[t] = s /\ \A u \in TaskIds \ {t} : tasks'[u] = tasks[u]
  BY <1>1 DEF EInv, Shapes
<1>3. Live' \subseteq Live
  BY <1>1, <1>2 DEF Live
<1>4. HttpShape'
  BY DEF EInv, Shapes, HttpShape
<1>5. \A u \in TaskIds : TaskShape(tasks'[u])
  BY <1>2 DEF EInv, Shapes
<1>6. Shapes'
  BY <1>2, <1>4, <1>5 DEF EInv, Shapes, emu, TaskShape
<1>7. OneTask'
  BY <1>3 DEF EInv, OneTask
<1>8. Installed'
  BY <1>3, <1>1 DEF EInv, Installed, emu, Waiting
<1>9. InTime'
  <2> SUFFICES ASSUME Waiting', NEW u \in TaskIds PROVE Before(tasks'[u], http'.left)
    BY DEF InTime, Before
  <2>1. Waiting /\ http' = http
    BY DEF Waiting
  <2> QED BY <1>2, <2>1 DEF EInv, InTime
<1> QED BY <1>6, <1>7, <1>8, <1>9 DEF EInv

LEMMA TaskStepInv ==
  ASSUME EInv, NEW t \in TaskIds, TaskStep(t)
  PROVE  EInv'
<1>0. /\ TaskShape(tasks[t])
      /\ Waiting => Before(tasks[t], http.left) /\ http.left \in Nat
  BY DEF EInv, Shapes, InTime, HttpShape, Waiting, Idle
<1>1. CASE TaskLoop(t)
  <2>1. t \in Live
    BY <1>1 DEF TaskLoop, Live
  <2> DEFINE s == IF running THEN At("transmit", TransmitTime) ELSE NotThere
  <2>2. TaskShape(s)
    BY Times, SMT DEF TaskShape, At, NotThere
  <2>3. Waiting => Before(s, http.left)
    BY DEF Before, NotThere, EInv, Installed, Waiting
  <2>4. tasks' = [tasks EXCEPT ![t] = s] /\ UNCHANGED <<emu, http>>
    BY <1>1 DEF TaskLoop
  <2> HIDE DEF s
  <2> QED BY <2>1, <2>2, <2>3, <2>4, OneTaskStep
<1>2. CASE TimeOut(t) \/ Resume(t)
  <2>1. t \in Live
    BY <1>2 DEF TimeOut, Resume, Live
  <2>2. TaskShape(At("loop", 0))
    BY DEF TaskShape, At
  <2>3. Waiting => Before(At("loop", 0), http.left)
    <3> SUFFICES ASSUME Waiting PROVE 0 < http.left
      BY DEF Before, At
    <3>1. CASE TimeOut(t)
      BY <1>0, <3>1, Times, SMT DEF Before, TimeOut
    <3>2. CASE Resume(t)
      BY <1>0, <3>2, SMT DEF Before, Resume, TaskShape
    <3> QED BY <1>2, <3>1, <3>2
  <2>4. tasks' = [tasks EXCEPT ![t] = At("loop", 0)] /\ UNCHANGED <<emu, http>>
    BY <1>2 DEF TimeOut, Resume
  <2> QED BY <2>1, <2>2, <2>3, <2>4, OneTaskStep
<1>3. CASE TransmitError(t)
  <2>1. t \in Live
    BY <1>3 DEF TransmitError, Live
  <2>2. TaskShape(At("delay", ErrorTime))
    BY Times, SMT DEF TaskShape, At
  <2>3. Waiting => Before(At("delay", ErrorTime), http.left)
    BY <1>0, <1>3, Times, SMT DEF Before, At, TransmitError, TaskShape
  <2>4. tasks' = [tasks EXCEPT ![t] = At("delay", ErrorTime)] /\ UNCHANGED <<emu, http>>
    BY <1>3 DEF TransmitError
  <2> QED BY <2>1, <2>2, <2>3, <2>4, OneTaskStep
<1>4. CASE Received(t)
  <2>1. t \in Live
    BY <1>4 DEF Received, Live
  <2>2. PICK store : /\ tasks' = [tasks EXCEPT ![t] = [pc |-> "process", left |-> ProcessTime, store |-> store]]
                     /\ UNCHANGED <<emu, http>>
    BY <1>4 DEF Received
  <2> DEFINE s == [pc |-> "process", left |-> ProcessTime, store |-> store]
  <2>3. TaskShape(s)
    BY Times, SMT DEF TaskShape
  <2>4. Waiting => Before(s, http.left)
    BY <1>0, <1>4, Times, SMT DEF Before, Received, TaskShape
  <2> QED BY <2>1, <2>2, <2>3, <2>4, OneTaskStep
<1> QED BY <1>1, <1>2, <1>3, <1>4 DEF TaskStep

LEMMA TickInv ==
  ASSUME EInv, Tick
  PROVE  EInv'
<1>1. DOMAIN tasks' = TaskIds
  BY DEF Tick
<1>2. ASSUME NEW t \in TaskIds
      PROVE  IF t \in Live
             THEN /\ tasks[t].left \in Nat /\ tasks[t].left > 0
                  /\ tasks'[t] = [pc |-> tasks[t].pc, left |-> tasks[t].left - 1, store |-> tasks[t].store]
             ELSE tasks'[t] = tasks[t]
  <2>1. TaskShape(tasks[t])
    BY DEF EInv, Shapes
  <2>2. tasks[t] = [pc |-> tasks[t].pc, left |-> tasks[t].left, store |-> tasks[t].store]
    BY <2>1 DEF TaskShape
  <2>3. [tasks[t] EXCEPT !.left = @ - 1]
          = [pc |-> tasks[t].pc, left |-> tasks[t].left - 1, store |-> tasks[t].store]
    BY <2>2
  <2>4. tasks'[t] = IF t \in Live THEN [tasks[t] EXCEPT !.left = @ - 1] ELSE tasks[t]
    BY DEF Tick
  <2> QED BY <2>1, <2>3, <2>4 DEF Tick, TaskShape
<1>3. Live' = Live
  <2>1. ASSUME NEW t \in TaskIds PROVE tasks'[t].pc = tasks[t].pc
    <3>1. CASE t \in Live
      <4>1. tasks'[t] = [pc |-> tasks[t].pc, left |-> tasks[t].left - 1, store |-> tasks[t].store]
        BY <1>2, <3>1
      <4> QED BY <4>1
    <3>2. CASE t \notin Live
      BY <1>2, <3>2
    <3> QED BY <3>1, <3>2
  <2> QED BY <2>1 DEF Live
<1>4. \A t \in TaskIds : TaskShape(tasks'[t])
  <2> TAKE t \in TaskIds
  <2>1. TaskShape(tasks[t])
    BY DEF EInv, Shapes
  <2>2. CASE t \notin Live
    BY <1>2, <2>1, <2>2
  <2>3. CASE t \in Live
    <3> DEFINE s == tasks'[t]
    <3>1. /\ tasks[t].left \in Nat /\ tasks[t].left > 0
          /\ s = [pc |-> tasks[t].pc, left |-> tasks[t].left - 1, store |-> tasks[t].store]
      BY <1>2, <2>3
    <3>2. s.pc = tasks[t].pc /\ s.left = tasks[t].left - 1 /\ s.store = tasks[t].store
      BY <3>1
    <3>3. s = [pc |-> s.pc, left |-> s.left, store |-> s.store]
      BY <3>1, <3>2
    <3> DEFINE r == tasks[t]
    <3>4. /\ r.pc \in {"none", "loop", "transmit", "delay", "process"}
          /\ r.left \in Nat /\ r.left > 0
          /\ r.pc = "loop" => r.left = 0
          /\ r.pc = "transmit" => r.left <= TransmitTime
          /\ r.pc = "delay" => r.left <= ErrorTime
          /\ r.pc = "process" => r.left <= ProcessTime
      BY <2>1, <3>1 DEF TaskShape
    <3>5. s.pc = r.pc /\ s.left = r.left - 1
      BY <3>2
    <3> HIDE DEF s, r
    <3>6. /\ s.pc \in {"none", "loop", "transmit", "delay", "process"}
          /\ s.left \in Nat
          /\ s.pc = "loop" => s.left = 0
          /\ s.pc = "transmit" => s.left <= TransmitTime
          /\ s.pc = "delay" => s.left <= ErrorTime
          /\ s.pc = "process" => s.left <= ProcessTime
      BY <3>4, <3>5, Times, SMT
    <3> QED BY <3>3, <3>6 DEF TaskShape, s
  <2> QED BY <2>2, <2>3
<1>5. /\ http'.pc = http.pc
      /\ HttpShape'
      /\ Waiting => http.left \in Nat /\ http'.left = IF http.left > 0 THEN http.left - 1 ELSE 0
  <2>1. CASE Waiting
    <3>1. /\ http = [pc |-> "wait", then |-> http.then, arg |-> http.arg, left |-> http.left]
          /\ http.then \in {"start", "eject"} /\ http.left \in Nat
          /\ http.then = "eject" => http.arg \in Rom!Slots
      BY <2>1 DEF EInv, Shapes, HttpShape, Waiting, Idle
    <3>2. CASE http.left > 0
      <4>1. http' = [pc |-> "wait", then |-> http.then, arg |-> http.arg, left |-> http.left - 1]
        BY <2>1, <3>1, <3>2 DEF Tick, Waiting
      <4>2. http.left - 1 \in Nat
        BY <3>1, <3>2, SMT
      <4> QED BY <2>1, <3>1, <3>2, <4>1, <4>2 DEF HttpShape, Waiting
    <3>3. CASE ~(http.left > 0)
      <4>1. http' = http
        BY <3>3 DEF Tick
      <4>2. http.left = 0
        BY <3>1, <3>3, SMT
      <4> QED BY <2>1, <3>1, <3>3, <4>1, <4>2 DEF HttpShape, Waiting
    <3> QED BY <3>2, <3>3
  <2>2. CASE ~Waiting
    <3>1. http' = http
      BY <2>2 DEF Tick, Waiting
    <3> QED BY <3>1, <2>2 DEF EInv, Shapes, HttpShape
  <2> QED BY <2>1, <2>2
<1>6. Shapes'
  BY <1>1, <1>4, <1>5 DEF EInv, Shapes, Tick, emu
<1>7. OneTask' /\ Installed'
  BY <1>3, <1>5 DEF EInv, OneTask, Installed, Waiting, Tick, emu
<1>8. InTime'
  <2> SUFFICES ASSUME Waiting', NEW t \in TaskIds PROVE Before(tasks'[t], http'.left)
    BY DEF InTime, Before
  <2>1. Waiting
    BY <1>5 DEF Waiting
  <2>2. Before(tasks[t], http.left) /\ TaskShape(tasks[t])
    BY <2>1 DEF EInv, InTime, Shapes
  <2>3. CASE t \notin Live
    <3>1. tasks'[t].pc = "none"
      BY <1>2, <2>3 DEF Live
    <3> QED BY <3>1 DEF Before
  <2>4. CASE t \in Live
    <3>1. tasks'[t].pc = tasks[t].pc /\ tasks'[t].left = tasks[t].left - 1 /\ tasks[t].left > 0 /\ tasks[t].left \in Nat
      <4>1. /\ tasks[t].left \in Nat /\ tasks[t].left > 0
            /\ tasks'[t] = [pc |-> tasks[t].pc, left |-> tasks[t].left - 1, store |-> tasks[t].store]
        BY <1>2, <2>4
      <4> QED BY <4>1
    <3>2. http.left \in Nat /\ http'.left = IF http.left > 0 THEN http.left - 1 ELSE 0
      BY <2>1, <1>5
    <3> DEFINE s == tasks[t]
               s1 == tasks'[t]
    <3>3. Before(s, http.left) /\ TaskShape(s)
      BY <2>2
    <3>4. s1.pc = s.pc /\ s1.left = s.left - 1 /\ s.left > 0 /\ s.left \in Nat
      BY <3>1
    <3> HIDE DEF s, s1
    <3>5. s.pc # "loop" /\ (s.pc = "loop" => s.left = 0)
      BY <3>3, <3>4, SMT DEF TaskShape
    <3>6. Before(s1, http'.left)
      BY <3>2, <3>3, <3>4, <3>5, Times, SMT DEF Before
    <3> QED BY <3>6 DEF s1
  <2> QED BY <2>3, <2>4
<1> QED BY <1>6, <1>7, <1>8 DEF EInv

----------------------------------------------------------------------------
(* The handlers. *)

(* A handler that does not come to the emulator, or begins to stop it. *)
LEMMA RequestInv ==
  ASSUME EInv, UNCHANGED <<emu, tasks>>,
         \/ UNCHANGED http
         \/ /\ http.pc = "idle"
            /\ \E then \in {"start", "eject"} : \E arg :
                 /\ then = "eject" => arg \in Rom!Slots
                 /\ http' = [pc |-> "stop", then |-> then, arg |-> arg]
  PROVE  EInv'
<1>1. Live' = Live /\ running' = running /\ driver' = driver /\ task' = task
  BY DEF Live, emu
<1>2. CASE UNCHANGED http
  BY <1>1, <1>2 DEF EInv, Shapes, TaskShape, HttpShape, OneTask, Installed, InTime, Waiting, Before
<1>3. CASE ~UNCHANGED http
  <2>0. PICK then \in {"start", "eject"} :
             \E arg : /\ then = "eject" => arg \in Rom!Slots
                     /\ http' = [pc |-> "stop", then |-> then, arg |-> arg]
    BY <1>3
  <2>1. PICK arg : /\ then = "eject" => arg \in Rom!Slots
                   /\ http' = [pc |-> "stop", then |-> then, arg |-> arg]
    BY <2>0
  <2>2. HttpShape' /\ ~Waiting' /\ ~Waiting
    BY <1>3, <2>1 DEF HttpShape, Waiting
  <2>3. Shapes'
    BY <1>1, <2>2 DEF EInv, Shapes, TaskShape
  <2> QED BY <1>1, <2>1, <2>2, <2>3 DEF EInv, OneTask, Installed, InTime, Waiting
<1> QED BY <1>2, <1>3

LEMMA StopInv ==
  ASSUME EInv, Stop
  PROVE  EInv'
<1>1. /\ http = [pc |-> "stop", then |-> http.then, arg |-> http.arg]
      /\ http.then \in {"start", "eject"}
      /\ http.then = "eject" => http.arg \in Rom!Slots
  BY DEF EInv, Shapes, HttpShape, Stop, Idle
<1>2. Live' = Live /\ tasks' = tasks /\ task' = task /\ running' = FALSE
  BY DEF Live, Stop
<1>3. ~Waiting
  BY DEF Stop, Waiting
<1>4. CASE running /\ task # NoTask
  <2>1. http' = [pc |-> "wait", then |-> http.then, arg |-> http.arg, left |-> StopTime] /\ driver' = driver
    BY <1>4 DEF Stop
  <2>2. HttpShape' /\ Waiting' /\ http'.left = StopTime
    BY <1>1, <2>1, Times DEF HttpShape, Waiting
  <2>3. Shapes'
    BY <1>2, <2>1, <2>2 DEF EInv, Shapes, TaskShape
  <2>4. ASSUME NEW t \in TaskIds PROVE Before(tasks[t], StopTime)
    <3>1. TaskShape(tasks[t])
      BY DEF EInv, Shapes
    <3> QED BY <3>1, Times, SMT DEF TaskShape, Before
  <2>5. InTime'
    BY <1>2, <2>2, <2>4 DEF InTime, Before
  <2> QED BY <1>2, <1>3, <1>4, <2>1, <2>2, <2>3, <2>5 DEF EInv, OneTask, Installed
<1>5. CASE ~(running /\ task # NoTask)
  <2>1. http' = [pc |-> http.then, then |-> http.then, arg |-> http.arg] /\ driver' = (driver /\ ~running)
    <3>1. http' = [http EXCEPT !.pc = http.then] /\ driver' = (driver /\ ~running)
      BY <1>5 DEF Stop
    <3> QED BY <1>1, <3>1
  <2>2. HttpShape' /\ ~Waiting'
    BY <1>1, <2>1 DEF HttpShape, Waiting
  <2>3. Live = {} /\ driver' = FALSE /\ task = NoTask
    BY <1>3, <1>5, <2>1 DEF EInv, Shapes, Installed
  <2>4. Shapes'
    BY <1>2, <2>2, <2>3 DEF EInv, Shapes, TaskShape
  <2> QED BY <1>2, <2>2, <2>3, <2>4 DEF EInv, OneTask, Installed, InTime
<1> QED BY <1>4, <1>5

(* The wait is over, and so is the task. *)
LEMMA WaitIsEnough ==
  ASSUME EInv, Waiting, http.left = 0
  PROVE  Live = {}
<1> SUFFICES ASSUME NEW t \in Live PROVE FALSE
  OBVIOUS
<1>1. t \in TaskIds /\ tasks[t].pc # "none"
  BY DEF Live
<1>2. TaskShape(tasks[t]) /\ Before(tasks[t], 0)
  BY <1>1 DEF EInv, Shapes, InTime
<1> QED BY <1>1, <1>2, Times, SMT DEF TaskShape, Before

LEMMA StoppedInv ==
  ASSUME EInv, Stopped
  PROVE  EInv'
<1>1. Waiting /\ http.left = 0
  BY DEF Stopped, Waiting
<1>2. Live = {} /\ Live' = Live
  BY <1>1, WaitIsEnough DEF Live, Stopped
<1>3. /\ http.then \in {"start", "eject"} /\ ~running
      /\ http.then = "eject" => http.arg \in Rom!Slots
  BY <1>1 DEF EInv, Shapes, HttpShape, Waiting, Idle, Installed
<1>4. HttpShape' /\ ~Waiting' /\ http'.pc \in {"start", "eject"}
  BY <1>3 DEF Stopped, HttpShape, Waiting
<1>5. Shapes'
  BY <1>4 DEF EInv, Shapes, TaskShape, Stopped
<1> QED BY <1>2, <1>3, <1>4, <1>5 DEF EInv, OneTask, Installed, InTime, Stopped

LEMMA StartFailsInv ==
  ASSUME EInv, StartFails
  PROVE  EInv'
<1>1. Live' = Live /\ ~Waiting /\ ~Waiting' /\ HttpShape'
  BY DEF Live, StartFails, Waiting, Idle, HttpShape
<1>2. Shapes'
  BY <1>1 DEF EInv, Shapes, TaskShape, StartFails
<1> QED BY <1>1, <1>2 DEF EInv, OneTask, Installed, InTime, StartFails, Idle

LEMMA StartInv ==
  ASSUME EInv, Start
  PROVE  EInv'
<1>1. ~Waiting /\ ~Waiting' /\ HttpShape' /\ http'.pc = "idle"
  BY DEF Start, Waiting, Idle, HttpShape
<1>2. Live = {}
  BY DEF EInv, Installed, Start
<1>3. CASE UNCHANGED <<task, tasks>>
  <2>1. Shapes'
    BY <1>1, <1>3 DEF EInv, Shapes, TaskShape, Start
  <2>2. Live' = {}
    BY <1>2, <1>3 DEF Live
  <2> QED BY <1>1, <2>1, <2>2 DEF EInv, OneTask, Installed, InTime, Start
<1>4. CASE ~UNCHANGED <<task, tasks>>
  <2>1. PICK t \in TaskIds : task' = t /\ tasks' = [tasks EXCEPT ![t] = At("loop", 0)]
    BY <1>4 DEF Start
  <2>2. DOMAIN tasks' = TaskIds /\ tasks'[t] = At("loop", 0) /\ \A u \in TaskIds \ {t} : tasks'[u] = tasks[u]
    BY <2>1 DEF EInv, Shapes
  <2>3. Live' = {t}
    BY <1>2, <2>2 DEF Live, At
  <2>4. TaskShape(At("loop", 0))
    BY DEF TaskShape, At
  <2>5. \A u \in TaskIds : TaskShape(tasks'[u])
    BY <2>2, <2>4 DEF EInv, Shapes
  <2>6. Shapes'
    BY <1>1, <2>1, <2>2, <2>5 DEF EInv, Shapes, TaskShape, Start
  <2>7. task' # NoTask
    BY <2>1, EmuAssumption
  <2> QED BY <1>1, <2>3, <2>6, <2>7 DEF EInv, OneTask, Installed, InTime, Start
<1> QED BY <1>3, <1>4

LEMMA EjectInv ==
  ASSUME EInv, Eject
  PROVE  EInv'
<1>1. Live' = Live /\ ~Waiting /\ ~Waiting' /\ HttpShape'
  BY DEF Live, Eject, Waiting, Idle, HttpShape
<1>2. Shapes'
  BY <1>1 DEF EInv, Shapes, TaskShape, Eject, emu
<1> QED BY <1>1, <1>2 DEF EInv, OneTask, Installed, InTime, Eject, emu, Idle

LEMMA NextEInv == EInv /\ [Next]_vars => EInv'
<1> SUFFICES ASSUME EInv, [Next]_vars PROVE EInv'
  OBVIOUS
<1>1. CASE \E t \in TaskIds : TaskStep(t)
  BY <1>1, TaskStepInv
<1>2. CASE Tick
  BY <1>2, TickInv
<1>3. CASE HttpRequest
  <2>1. CASE \E i \in Rom!Slots : InsertSlot(i) \/ EjectSlot(i)
    BY <2>1, RequestInv DEF InsertSlot, EjectSlot, Free, SetChip
  <2>2. CASE \E c \in SpiChips : ChipSet(c)
    BY <2>2, RequestInv DEF ChipSet, Free, SetChip
  <2> QED BY <1>3, <2>1, <2>2 DEF HttpRequest
<1>4. CASE HttpGoesOn
  BY <1>4, StopInv, StoppedInv, StartFailsInv, StartInv, EjectInv DEF HttpGoesOn
<1>5. CASE StoreOnly
  BY <1>5, RequestInv DEF StoreOnly
<1>6. CASE UNCHANGED vars
  BY <1>6, RequestInv DEF vars
<1> QED BY <1>1, <1>2, <1>3, <1>4, <1>5, <1>6 DEF Next

(* EInv is an invariant of the life cycle, whatever the handlers and the host do. *)
THEOREM EmuInvariance == Spec => []EInv
<1>1. Init => EInv
  BY InitEInv
<1>2. EInv /\ [Next]_vars => EInv'
  BY NextEInv
<1> QED BY <1>1, <1>2, PTL DEF Spec

(* When spi_flash_emu_stop has returned the task is gone and the driver is freed. *)
THEOREM StopIsStopped == Spec => []StopMeansStopped
<1>1. EInv => StopMeansStopped
  BY DEF EInv, Installed, StopMeansStopped, Waiting, Shapes
<1> QED BY <1>1, EmuInvariance, PTL

(* There is one task at most, and it has its driver. *)
THEOREM NeverTwoTasks == Spec => []OneTaskWithDriver
<1>1. EInv => OneTaskWithDriver
  <2> SUFFICES ASSUME EInv PROVE Cardinality(Live) <= 1
    BY DEF EInv, Installed, OneTaskWithDriver
  <2>1. CASE Live = {}
    BY <2>1, FS_EmptySet
  <2>2. CASE Live # {}
    <3>1. PICK t : Live = {t}
      BY <2>2 DEF EInv, OneTask
    <3> QED BY <3>1, FS_Singleton
  <2> QED BY <2>1, <2>2
<1> QED BY <1>1, EmuInvariance, PTL

----------------------------------------------------------------------------
(* The slots of SpiEmu are those of RomStore, without power failures: each step is an
   operation of rom_store.c, a write of the NVS, or nothing to it. *)
THEOREM SlotsAreRomStore == Spec => Rom!Spec
<1>1. Init => Rom!Init
  BY DEF Init
<1>2. EInv /\ [Next]_vars => [Rom!Next]_(Rom!vars)
  <2> SUFFICES ASSUME EInv, [Next]_vars PROVE Rom!Next \/ UNCHANGED rom
    BY DEF Rom!vars, rom
  <2>1. CASE \E t \in TaskIds : TaskStep(t)
    BY <2>1 DEF TaskStep, TaskLoop, TimeOut, TransmitError, Received, Resume
  <2>2. CASE Tick
    BY <2>2 DEF Tick
  <2>3. CASE HttpRequest
    BY <2>3 DEF HttpRequest, InsertSlot, EjectSlot, ChipSet, Rom!Next
  <2>4. CASE Stop \/ Stopped \/ StartFails \/ Start
    BY <2>4 DEF Stop, Stopped, StartFails, Start
  <2>5. CASE Eject
    <3>1. http.arg \in Rom!Slots
      BY <2>5 DEF EInv, Shapes, HttpShape, Idle, Eject
    <3> QED BY <2>5, <3>1 DEF Eject, Rom!Next
  <2>6. CASE StoreOnly
    BY <2>6 DEF StoreOnly, Rom!Next
  <2>7. CASE UNCHANGED vars
    BY <2>7 DEF vars
  <2> QED BY <2>1, <2>2, <2>3, <2>4, <2>5, <2>6, <2>7 DEF Next, HttpGoesOn
<1> QED BY <1>1, <1>2, EmuInvariance, PTL DEF Spec, Rom!Spec

----------------------------------------------------------------------------
(* The image a command is answered from.  What upload and delete do to the slots is
   RomStore's business: RomInv, which RomInvariance (RomStoreProofs) shows of Rom!Spec
   and SlotsAreRomStore of Spec, is the premise here.                        *)
RomInv ==
  /\ Rom!TypeOK
  /\ Rom!ActiveMatchesInserted
  /\ Rom!InsertedHasData
  /\ Rom!StoresOwned

(* A store in use is allocated; and while no handler has begun to stop the task, it is
   that of the slot in the socket. *)
InUse(store) ==
  store # NoStore =>
    /\ store \in heap
    /\ http.pc = "idle" => active["SPI"] \in Rom!Slots /\ store = slots[active["SPI"]].cstore

Serves ==
  \A t \in TaskIds : InUse(tasks[t].store) /\ (t \notin Live => tasks[t].store = NoStore)

LEMMA SpiSocket == RomInv => /\ slots \in [Rom!Slots -> Rom!SlotType]
                            /\ active["SPI"] \in Rom!Slots \cup {Rom!NoSlot}
                            /\ \A i \in Rom!Slots : active["SPI"] = i
                                 <=> slots[i].inserted /\ BusOf(slots[i].chip) = "SPI"
BY DEF RomInv, Rom!TypeOK, Rom!ActiveMatchesInserted, Rom!Sockets, Rom!SocketOf, Rom!Socket

(* Handlers that free a store do not free that of the slot in the socket. *)
LEMMA FreesAnother ==
  ASSUME RomInv, NEW i \in Rom!Slots, ~slots[i].inserted,
         heap \ {slots[i].cstore} \subseteq heap',
         UNCHANGED <<active, http>>, \A j \in Rom!Slots \ {i} : slots'[j] = slots[j],
         NEW store, InUse(store), http.pc = "idle"
  PROVE  InUse(store)'
<1> SUFFICES ASSUME store # NoStore
             PROVE  store \in heap' /\ active'["SPI"] \in Rom!Slots
                      /\ store = slots'[active'["SPI"]].cstore
  BY DEF InUse
<1>1. /\ store \in heap
      /\ active["SPI"] \in Rom!Slots /\ store = slots[active["SPI"]].cstore
  BY DEF InUse
<1>2. active["SPI"] # i
  BY <1>1, SpiSocket
<1>3. slots[i].cstore # store
  BY <1>1, <1>2 DEF RomInv, Rom!StoresOwned
<1> QED BY <1>1, <1>2, <1>3

LEMMA StoreOnlyServes ==
  ASSUME RomInv, Serves, StoreOnly
  PROVE  Serves'
<1>1. Live' = Live /\ tasks' = tasks /\ http' = http
  BY DEF StoreOnly, Live
<1> SUFFICES ASSUME NEW store, InUse(store) PROVE InUse(store)'
  BY <1>1 DEF Serves
<1>2. CASE Rom!NvsWrite
  BY <1>1, <1>2 DEF Rom!NvsWrite, InUse
<1>3. ASSUME NEW i \in Rom!Slots, Free,
             \/ \E image \in Images, c \in Chips : Rom!Upload(i, image, c, NoLabel)
             \/ Rom!UploadNoMem(i)
             \/ Rom!Delete(i)
      PROVE  InUse(store)'
  <2>1. /\ ~slots[i].inserted /\ heap \ {slots[i].cstore} \subseteq heap'
        /\ UNCHANGED active /\ \A j \in Rom!Slots \ {i} : slots'[j] = slots[j]
    BY <1>3 DEF Rom!Upload, Rom!UploadNoMem, Rom!Delete, RomInv, Rom!TypeOK
  <2> QED BY <1>1, <1>3, <2>1, FreesAnother DEF Free
<1>4. ASSUME NEW i \in Rom!Slots, Free, BusOf(slots[i].chip) # "SPI", Rom!Eject(i)
      PROVE  InUse(store)'
  <2>1. active'["SPI"] = active["SPI"] /\ heap' = heap
    BY <1>4 DEF Rom!Eject, RomInv, Rom!TypeOK, Rom!Sockets, Rom!SocketOf, Rom!Socket
  <2>2. \A j \in Rom!Slots : slots'[j].cstore = slots[j].cstore
    BY <1>4 DEF Rom!Eject, RomInv, Rom!TypeOK, Rom!SlotType
  <2> QED BY <1>1, <2>1, <2>2 DEF InUse
<1> QED BY <1>2, <1>3, <1>4 DEF StoreOnly

LEMMA InsertServes ==
  ASSUME RomInv, Serves, NEW i \in Rom!Slots, InsertSlot(i)
  PROVE  Serves'
<1>1. Live' = Live /\ tasks' = tasks /\ heap' = heap
  BY DEF InsertSlot, Live, Rom!Insert
<1> SUFFICES ASSUME NEW store, InUse(store) PROVE InUse(store)'
  BY <1>1 DEF Serves
<1>2. CASE BusOf(slots[i].chip) = "SPI"
  BY <1>1, <1>2 DEF InsertSlot, SetChip, InUse
<1>3. CASE BusOf(slots[i].chip) # "SPI"
  <2>1. active'["SPI"] = active["SPI"] /\ http' = http
    BY <1>3 DEF InsertSlot, Rom!Insert, RomInv, Rom!TypeOK, Rom!Sockets, Rom!SocketOf, Rom!Socket
  <2>2. \A j \in Rom!Slots : slots'[j].cstore = slots[j].cstore
    BY DEF InsertSlot, Rom!Insert, RomInv, Rom!TypeOK, Rom!SlotType
  <2> QED BY <1>1, <2>1, <2>2 DEF InUse
<1> QED BY <1>2, <1>3

LEMMA TaskServes ==
  ASSUME RomInv, EInv, Serves, NEW t \in TaskIds, TaskStep(t)
  PROVE  Serves'
<1>1. UNCHANGED <<rom, http>> /\ DOMAIN tasks = TaskIds /\ t \in Live
  BY DEF TaskStep, TaskLoop, TimeOut, TransmitError, Received, Resume, EInv, Shapes, Live
<1>2. \A store : InUse(store) => InUse(store)'
  BY <1>1 DEF InUse, rom
<1>3. InUse(NoStore)'
  BY DEF InUse
<1>4. CASE Received(t)
  <2> DEFINE store == IF active["SPI"] = Rom!NoSlot THEN NoStore ELSE slots[active["SPI"]].cstore
             s == [pc |-> "process", left |-> ProcessTime, store |-> store]
  <2>1. tasks' = [tasks EXCEPT ![t] = s]
    BY <1>4 DEF Received
  <2>2. tasks'[t] = s /\ \A u \in TaskIds \ {t} : tasks'[u] = tasks[u]
    BY <1>1, <2>1
  <2>3. InUse(store)
    BY SpiSocket DEF InUse, RomInv, Rom!InsertedHasData
  <2>4. s.store = store /\ s.pc = "process"
    OBVIOUS
  <2> HIDE DEF store, s
  <2>5. t \in Live' /\ \A u \in TaskIds \ {t} : u \in Live' <=> u \in Live
    BY <2>2, <2>4 DEF Live
  <2> QED BY <1>2, <2>2, <2>3, <2>4, <2>5 DEF Serves
<1>5. CASE ~Received(t)
  <2>1. PICK s : tasks' = [tasks EXCEPT ![t] = s] /\ s.store = NoStore
    <3>1. \/ tasks' = [tasks EXCEPT ![t] = NotThere]
          \/ \E pc, left : tasks' = [tasks EXCEPT ![t] = At(pc, left)]
      BY <1>5 DEF TaskStep, TaskLoop, TimeOut, TransmitError, Resume
    <3>2. NotThere.store = NoStore /\ \A pc, left : At(pc, left).store = NoStore
      BY DEF NotThere, At
    <3> QED BY <3>1, <3>2
  <2>2. tasks'[t] = s /\ \A u \in TaskIds \ {t} : tasks'[u] = tasks[u]
    BY <1>1, <2>1
  <2>3. \A u \in TaskIds \ {t} : u \in Live' <=> u \in Live
    BY <2>2 DEF Live
  <2> QED BY <1>2, <1>3, <2>1, <2>2, <2>3 DEF Serves
<1> QED BY <1>4, <1>5

(* A step in which each task keeps its store and the slots stay as they are. *)
LEMMA KeepsServing ==
  ASSUME Serves, UNCHANGED rom, http.pc = "idle" \/ http'.pc # "idle",
         \A t \in TaskIds : tasks'[t].store = tasks[t].store /\ (t \in Live => t \in Live')
  PROVE  Serves'
<1>1. \A store : InUse(store) => InUse(store)'
  BY DEF InUse, rom
<1> QED BY <1>1 DEF Serves

(* A step that may leave the slots and the handler in any state, as no task is there. *)
LEMMA NobodyServed ==
  ASSUME Serves, Live = {},
         \A t \in TaskIds : tasks'[t] = tasks[t] \/ tasks'[t] = At("loop", 0)
  PROVE  Serves'
<1>1. ASSUME NEW t \in TaskIds PROVE tasks'[t].store = NoStore
  BY DEF Serves, At
<1> QED BY <1>1 DEF Serves, InUse

LEMMA NextServes ==
  ASSUME RomInv, EInv, Serves, [Next]_vars
  PROVE  Serves'
<1>1. CASE \E t \in TaskIds : TaskStep(t)
  BY <1>1, TaskServes
<1>2. CASE Tick
  <2>1. UNCHANGED rom /\ http'.pc = http.pc
    BY <1>2 DEF Tick, EInv, Shapes, HttpShape, Idle
  <2>2. ASSUME NEW t \in TaskIds
        PROVE  tasks'[t].store = tasks[t].store /\ tasks'[t].pc = tasks[t].pc
    <3>1. tasks[t] = [pc |-> tasks[t].pc, left |-> tasks[t].left, store |-> tasks[t].store]
      BY DEF EInv, Shapes, TaskShape
    <3>2. tasks'[t] = IF t \in Live THEN [tasks[t] EXCEPT !.left = @ - 1] ELSE tasks[t]
      BY <1>2 DEF Tick
    <3>3. [tasks[t] EXCEPT !.left = @ - 1].store = tasks[t].store
          /\ [tasks[t] EXCEPT !.left = @ - 1].pc = tasks[t].pc
      BY <3>1
    <3> QED BY <3>2, <3>3
  <2> QED BY <2>1, <2>2, KeepsServing DEF Live
<1>3. CASE HttpRequest
  <2>1. CASE \E i \in Rom!Slots : InsertSlot(i)
    BY <2>1, InsertServes
  <2>2. CASE (\E i \in Rom!Slots : EjectSlot(i)) \/ \E c \in SpiChips : ChipSet(c)
    BY <2>2, KeepsServing DEF EjectSlot, ChipSet, SetChip, Live
  <2> QED BY <1>3, <2>1, <2>2 DEF HttpRequest
<1>4. CASE Stop \/ Stopped
  <2>1. http'.pc # "idle" /\ tasks' = tasks /\ UNCHANGED rom
    BY <1>4 DEF Stop, Stopped, EInv, Shapes, HttpShape, Idle
  <2> QED BY <2>1, KeepsServing DEF Live
<1>5. CASE StartFails \/ Eject
  <2>1. Live = {} /\ tasks' = tasks
    BY <1>5 DEF StartFails, Eject, EInv, Installed, Waiting, Shapes
  <2> QED BY <2>1, NobodyServed
<1>6. CASE Start
  <2>1. Live = {} /\ DOMAIN tasks = TaskIds
    BY <1>6 DEF Start, EInv, Installed, Shapes
  <2>2. \A t \in TaskIds : tasks'[t] = tasks[t] \/ tasks'[t] = At("loop", 0)
    BY <1>6, <2>1 DEF Start
  <2> QED BY <2>1, <2>2, NobodyServed
<1>7. CASE StoreOnly
  BY <1>7, StoreOnlyServes
<1>8. CASE UNCHANGED vars
  BY <1>8, KeepsServing DEF vars, Live
<1> QED BY <1>1, <1>2, <1>3, <1>4, <1>5, <1>6, <1>7, <1>8 DEF Next, HttpGoesOn

(* The image a command is answered from is not freed before the command is through. *)
THEOREM ServedStoreStays == Spec /\ []RomInv => []NoFreedStore
<1>1. Init => Serves
  BY DEF Init, Serves, InUse, NotThere, Live
<1>2. RomInv /\ EInv /\ Serves /\ [Next]_vars => Serves'
  BY NextServes
<1>3. Serves => NoFreedStore
  BY DEF Serves, InUse, NoFreedStore
<1> QED BY <1>1, <1>2, <1>3, EmuInvariance, PTL DEF Spec
=============================================================================
