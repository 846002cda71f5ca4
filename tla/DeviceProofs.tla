--------------------------- MODULE DeviceProofs ---------------------------
(***************************************************************************)
(* Device for any slots, chips, tasks, bodies and times that the constants *)
(* allow.  One invariant per part, each over ServerInv, which says where   *)
(* app_main and the handler can be; most of them hold only until a request *)
(* is served before app_main is through, which `early' remembers.          *)
(***************************************************************************)
EXTENDS Device, TLAPS

CallType == [pin : Pins, level : {0, 1}]

(* The last call of an action of the pins. *)
Last ==
  [assert |-> Assert, release |-> Release, pulse |-> Release, sequence |-> Release,
   on |-> PowerOn, off |-> PowerOff, cycle |-> PowerOn]

GpioRequest(r) ==
  /\ r = [pc |-> "gpio", what |-> r.what, calls |-> r.calls, set |-> r.set]
  /\ r.what \in DOMAIN Calls /\ r.set \in BOOLEAN
  /\ r.calls \in {Calls[r.what], <<Last[r.what]>>}

I2cRequest(r) ==
  /\ r = [pc |-> r.pc, then |-> r.then, arg |-> r.arg, left |-> r.left]
  /\ r.pc \in {"i2c_stop", "i2c_wait", "i2c_start", "i2c_eject"}
  /\ r.then \in {"i2c_start", "i2c_eject"} /\ r.left \in Nat
  /\ r.pc \in {"i2c_start", "i2c_eject"} => r.then = r.pc
  /\ r.pc = "i2c_stop" => r.left = StopTime

LaterPcs  == {"output", "inflate", "full", "inflated", "store", "stored"}
UploadPcs == {"recv"} \cup LaterPcs

Recv(r) == r = [pc |-> r.pc, slot |-> r.slot, total |-> r.total, got |-> r.got, timeouts |-> r.timeouts]
Later(r) == r = [pc |-> r.pc, slot |-> r.slot, body |-> r.body, final |-> r.final, size |-> r.size,
                 image |-> r.image]

UploadShape(r) ==
  /\ r.pc \in UploadPcs
  /\ r.pc = "recv" => Recv(r)
  /\ r.pc # "recv" => Later(r)

MainShape ==
  \/ main = Boot
  \/ /\ main = [pc |-> "gpio", what |-> "init", calls |-> main.calls, set |-> main.set]
     /\ main.calls \in {InitCalls, <<PowerOn>>} /\ main.set \in BOOLEAN
  \/ main = [pc |-> "i2c"]
  \/ main = [pc |-> "running"]

ServerInv ==
  /\ MainShape
  /\ request = Idle \/ GpioRequest(request) \/ I2cRequest(request) \/ UploadShape(request)
  /\ early \in BOOLEAN
  /\ ~early /\ main.pc # "running" => request = Idle

----------------------------------------------------------------------------
(* Records, field by field. *)

Gpio(r) == r = [pc |-> r.pc, what |-> r.what, calls |-> r.calls, set |-> r.set]

LEMMA WithSet ==
  ASSUME NEW r, Gpio(r), NEW set
  PROVE  [r EXCEPT !.set = set] = [pc |-> r.pc, what |-> r.what, calls |-> r.calls, set |-> set]
BY DEF Gpio

LEMMA WithCalls ==
  ASSUME NEW r, Gpio(r), NEW calls, NEW set
  PROVE  [r EXCEPT !.calls = calls, !.set = set]
           = [pc |-> r.pc, what |-> r.what, calls |-> calls, set |-> set]
<1> DEFINE s == [r EXCEPT !.calls = calls]
<1>1. s = [pc |-> r.pc, what |-> r.what, calls |-> calls, set |-> r.set]
  BY DEF Gpio
<1>2. Gpio(s) /\ s.pc = r.pc /\ s.what = r.what /\ s.calls = calls
  BY <1>1 DEF Gpio
<1>3. [r EXCEPT !.calls = calls, !.set = set] = [s EXCEPT !.set = set]
  BY Zenon DEF s
<1> HIDE DEF s
<1>4. [s EXCEPT !.set = set] = [pc |-> s.pc, what |-> s.what, calls |-> s.calls, set |-> set]
  BY <1>2, WithSet
<1> QED BY <1>2, <1>3, <1>4, Zenon

LEMMA WithTimeouts ==
  ASSUME NEW r, Recv(r), NEW timeouts
  PROVE  [r EXCEPT !.timeouts = timeouts]
           = [pc |-> r.pc, slot |-> r.slot, total |-> r.total, got |-> r.got, timeouts |-> timeouts]
BY DEF Recv

LEMMA WithGot ==
  ASSUME NEW r, Recv(r), NEW got, NEW timeouts
  PROVE  [r EXCEPT !.got = got, !.timeouts = timeouts]
           = [pc |-> r.pc, slot |-> r.slot, total |-> r.total, got |-> got, timeouts |-> timeouts]
<1> DEFINE s == [r EXCEPT !.got = got]
<1>1. s = [pc |-> r.pc, slot |-> r.slot, total |-> r.total, got |-> got, timeouts |-> r.timeouts]
  BY DEF Recv
<1>2. Recv(s) /\ s.pc = r.pc /\ s.slot = r.slot /\ s.total = r.total /\ s.got = got
  BY <1>1 DEF Recv
<1>3. [r EXCEPT !.got = got, !.timeouts = timeouts] = [s EXCEPT !.timeouts = timeouts]
  BY Zenon DEF s
<1> HIDE DEF s
<1>4. [s EXCEPT !.timeouts = timeouts]
        = [pc |-> s.pc, slot |-> s.slot, total |-> s.total, got |-> s.got, timeouts |-> timeouts]
  BY <1>2, WithTimeouts
<1> QED BY <1>2, <1>3, <1>4, Zenon

LEMMA WithPc ==
  ASSUME NEW r, Later(r), NEW pc
  PROVE  [r EXCEPT !.pc = pc] = [pc |-> pc, slot |-> r.slot, body |-> r.body, final |-> r.final,
                                 size |-> r.size, image |-> r.image]
BY DEF Later

LEMMA WithFinal ==
  ASSUME NEW r, Later(r), NEW pc, NEW final
  PROVE  [r EXCEPT !.pc = pc, !.final = final]
           = [pc |-> pc, slot |-> r.slot, body |-> r.body, final |-> final, size |-> r.size, image |-> r.image]
<1> DEFINE s == [r EXCEPT !.pc = pc]
<1>1. s = [pc |-> pc, slot |-> r.slot, body |-> r.body, final |-> r.final, size |-> r.size, image |-> r.image]
  BY WithPc
<1>2. /\ Later(s) /\ s.pc = pc /\ s.slot = r.slot /\ s.body = r.body /\ s.final = r.final
      /\ s.size = r.size /\ s.image = r.image
  BY <1>1 DEF Later
<1>3. [r EXCEPT !.pc = pc, !.final = final] = [s EXCEPT !.final = final]
  BY Zenon DEF s
<1> HIDE DEF s
<1>4. [s EXCEPT !.final = final]
        = [pc |-> s.pc, slot |-> s.slot, body |-> s.body, final |-> final, size |-> s.size, image |-> s.image]
  BY <1>2 DEF Later
<1> QED BY <1>2, <1>3, <1>4, Zenon

LEMMA WithImage ==
  ASSUME NEW r, Later(r), NEW pc, NEW image
  PROVE  [r EXCEPT !.pc = pc, !.image = image]
           = [pc |-> pc, slot |-> r.slot, body |-> r.body, final |-> r.final, size |-> r.size, image |-> image]
<1> DEFINE s == [r EXCEPT !.pc = pc]
<1>1. s = [pc |-> pc, slot |-> r.slot, body |-> r.body, final |-> r.final, size |-> r.size, image |-> r.image]
  BY WithPc
<1>2. /\ Later(s) /\ s.pc = pc /\ s.slot = r.slot /\ s.body = r.body /\ s.final = r.final
      /\ s.size = r.size /\ s.image = r.image
  BY <1>1 DEF Later
<1>3. [r EXCEPT !.pc = pc, !.image = image] = [s EXCEPT !.image = image]
  BY Zenon DEF s
<1> HIDE DEF s
<1>4. [s EXCEPT !.image = image]
        = [pc |-> s.pc, slot |-> s.slot, body |-> s.body, final |-> s.final, size |-> s.size, image |-> image]
  BY <1>2 DEF Later
<1> QED BY <1>2, <1>3, <1>4, Zenon

LEMMA WithSize ==
  ASSUME NEW r, Later(r), NEW pc, NEW size
  PROVE  [r EXCEPT !.pc = pc, !.size = size]
           = [pc |-> pc, slot |-> r.slot, body |-> r.body, final |-> r.final, size |-> size, image |-> r.image]
<1> DEFINE s == [r EXCEPT !.pc = pc]
<1>1. s = [pc |-> pc, slot |-> r.slot, body |-> r.body, final |-> r.final, size |-> r.size, image |-> r.image]
  BY WithPc
<1>2. /\ Later(s) /\ s.pc = pc /\ s.slot = r.slot /\ s.body = r.body /\ s.final = r.final
      /\ s.size = r.size /\ s.image = r.image
  BY <1>1 DEF Later
<1>3. [r EXCEPT !.pc = pc, !.size = size] = [s EXCEPT !.size = size]
  BY Zenon DEF s
<1> HIDE DEF s
<1>4. [s EXCEPT !.size = size]
        = [pc |-> s.pc, slot |-> s.slot, body |-> s.body, final |-> s.final, size |-> size, image |-> s.image]
  BY <1>2 DEF Later
<1> QED BY <1>2, <1>3, <1>4, Zenon

LEMMA WithImageSize ==
  ASSUME NEW r, Later(r), NEW pc, NEW image, NEW size
  PROVE  [r EXCEPT !.pc = pc, !.image = image, !.size = size]
           = [pc |-> pc, slot |-> r.slot, body |-> r.body, final |-> r.final, size |-> size, image |-> image]
<1> DEFINE s == [r EXCEPT !.pc = pc, !.image = image]
<1>1. s = [pc |-> pc, slot |-> r.slot, body |-> r.body, final |-> r.final, size |-> r.size, image |-> image]
  BY WithImage
<1>2. Later(s) /\ s.pc = pc /\ s.slot = r.slot /\ s.body = r.body /\ s.final = r.final /\ s.image = image
  BY <1>1 DEF Later
<1>3. [r EXCEPT !.pc = pc, !.image = image, !.size = size] = [s EXCEPT !.size = size]
  BY Zenon DEF s
<1> HIDE DEF s
<1>4. [s EXCEPT !.size = size]
        = [pc |-> s.pc, slot |-> s.slot, body |-> s.body, final |-> s.final, size |-> size, image |-> s.image]
  BY <1>2 DEF Later
<1> QED BY <1>2, <1>3, <1>4, Zenon

----------------------------------------------------------------------------
(* The calls of the pins. *)

LEMMA CallsShape ==
  /\ DOMAIN Calls = DOMAIN Last
  /\ \A what \in DOMAIN Calls :
       /\ Last[what] \in CallType
       /\ \/ Calls[what] = <<Last[what]>>
          \/ \E first \in CallType : Calls[what] = <<first, Last[what]>>
<1>1. DOMAIN Calls = {"assert", "release", "pulse", "sequence", "on", "off", "cycle"}
  BY DEF Calls
<1>2. DOMAIN Last = {"assert", "release", "pulse", "sequence", "on", "off", "cycle"}
  BY DEF Last
<1>3. {Assert, Release, PowerOn, PowerOff} \subseteq CallType
  BY DEF Assert, Release, PowerOn, PowerOff, Set, CallType, Pins
<1>4. ASSUME NEW what \in DOMAIN Calls
      PROVE  /\ Last[what] \in CallType
             /\ \/ Calls[what] = <<Last[what]>>
                \/ \E first \in CallType : Calls[what] = <<first, Last[what]>>
  <2>1. CASE what \in {"assert", "release", "on", "off"}
    BY <1>3, <2>1 DEF Calls, Last
  <2>2. CASE what \in {"pulse", "sequence"}
    BY <1>3, <2>2 DEF Calls, Last
  <2>3. CASE what = "cycle"
    BY <1>3, <2>3 DEF Calls, Last
  <2> QED BY <1>1, <2>1, <2>2, <2>3
<1> QED BY <1>1, <1>2, <1>4

(* What the handler has yet to call: one call, the last, or two. *)
LEMMA RequestCalls ==
  ASSUME NEW r, GpioRequest(r)
  PROVE  /\ Head(r.calls) \in CallType
         /\ Last[r.what] \in CallType
         /\ \/ Len(r.calls) = 1 /\ Head(r.calls) = Last[r.what]
            \/ Len(r.calls) # 1 /\ Tail(r.calls) = <<Last[r.what]>>
<1>1. r.what \in DOMAIN Calls /\ r.calls \in {Calls[r.what], <<Last[r.what]>>}
  BY DEF GpioRequest
<1>2. CASE r.calls = <<Last[r.what]>>
  BY <1>1, <1>2, CallsShape
<1>3. CASE \E first \in CallType : r.calls = <<first, Last[r.what]>>
  BY <1>1, <1>3, CallsShape
<1> QED BY <1>1, <1>2, <1>3, CallsShape

LEMMA InitCallsShape ==
  /\ InitCalls = <<Release, PowerOn>> /\ Len(InitCalls) = 2
  /\ Head(InitCalls) = Release /\ Tail(InitCalls) = <<PowerOn>>
  /\ Head(<<PowerOn>>) = PowerOn /\ Len(<<PowerOn>>) = 1
BY DEF InitCalls

----------------------------------------------------------------------------
(* Where app_main and the handler can be. *)

LEMMA InitServer == DeviceInit => ServerInv
BY DEF DeviceInit, ServerInv, MainShape, Boot, Idle

LEMMA GpioRequestNext ==
  ASSUME NEW r, GpioRequest(r)
  PROVE  /\ GpioRequest([r EXCEPT !.set = TRUE])
         /\ Called(r, Idle) = Idle \/ GpioRequest(Called(r, Idle))
<1>1. /\ r = [pc |-> "gpio", what |-> r.what, calls |-> r.calls, set |-> r.set]
      /\ r.what \in DOMAIN Calls /\ r.calls \in {Calls[r.what], <<Last[r.what]>>}
  BY DEF GpioRequest
<1>0. Gpio(r) /\ r.pc = "gpio"
  BY <1>1 DEF Gpio
<1>2. [r EXCEPT !.set = TRUE] = [pc |-> "gpio", what |-> r.what, calls |-> r.calls, set |-> TRUE]
  BY <1>0, WithSet, Zenon
<1>3. CASE Len(r.calls) = 1
  BY <1>1, <1>2, <1>3 DEF Called, GpioRequest
<1>4. CASE Len(r.calls) # 1
  <2>1. Tail(r.calls) = <<Last[r.what]>>
    BY <1>4, RequestCalls
  <2>2. Called(r, Idle) = [pc |-> "gpio", what |-> r.what, calls |-> <<Last[r.what]>>, set |-> FALSE]
    <3>1. Called(r, Idle) = [r EXCEPT !.calls = Tail(r.calls), !.set = FALSE]
      BY <1>4 DEF Called
    <3> QED BY <1>0, <2>1, <3>1, WithCalls, Zenon
  <2> QED BY <1>1, <1>2, <2>2 DEF GpioRequest
<1> QED BY <1>3, <1>4

LEMMA MainStep ==
  ASSUME ServerInv, MainGoesOn
  PROVE  ServerInv'
<1>1. CASE ServerStarts
  <2>1. MainShape'
    BY <1>1 DEF ServerStarts, Perform, MainShape
  <2> QED BY <1>1, <2>1 DEF ServerStarts, ServerInv, Boot, Perform, GpioRequest, I2cRequest, UploadShape
<1>2. CASE MainGpio
  <2>1. /\ main = [pc |-> "gpio", what |-> "init", calls |-> main.calls, set |-> main.set]
        /\ main.calls \in {InitCalls, <<PowerOn>>} /\ main.set \in BOOLEAN
    BY <1>2 DEF MainGpio, SetLevel, SetFlag, ServerInv, MainShape, Boot
  <2> Gpio(main) /\ main.pc = "gpio" /\ main.what = "init"
    BY <2>1 DEF Gpio
  <2>2. CASE main' = [main EXCEPT !.set = TRUE]
    <3>1. main' = [pc |-> "gpio", what |-> "init", calls |-> main.calls, set |-> TRUE]
      BY <2>2, WithSet, Zenon
    <3> QED BY <1>2, <2>1, <3>1 DEF ServerInv, MainShape, MainGpio, GpioRequest, I2cRequest, UploadShape
  <2>3. CASE main' = Called(main, [pc |-> "i2c"])
    <3>1. \/ main' = [pc |-> "i2c"]
          \/ main' = [pc |-> "gpio", what |-> "init", calls |-> <<PowerOn>>, set |-> FALSE]
      <4>1. CASE main.calls = <<PowerOn>>
        BY <2>3, <4>1, InitCallsShape DEF Called
      <4>2. CASE main.calls = InitCalls
        <5>1. main' = [main EXCEPT !.calls = <<PowerOn>>, !.set = FALSE]
          BY <2>3, <4>2, InitCallsShape DEF Called
        <5> QED BY <5>1, WithCalls, Zenon
      <4> QED BY <2>1, <4>1, <4>2
    <3>2. MainShape'
      <4>1. CASE main' = [pc |-> "i2c"]
        BY <4>1, Zenon DEF MainShape
      <4>2. CASE main' = [pc |-> "gpio", what |-> "init", calls |-> <<PowerOn>>, set |-> FALSE]
        <5>1. main'.calls = <<PowerOn>> /\ main'.set = FALSE
          BY <4>2, Zenon
        <5>2. main' = [pc |-> "gpio", what |-> "init", calls |-> main'.calls, set |-> main'.set]
          BY <4>2, <5>1, Zenon
        <5>3. main'.calls \in {InitCalls, <<PowerOn>>} /\ main'.set \in BOOLEAN
          BY <5>1, Zenon
        <5> QED BY <5>2, <5>3, Zenon DEF MainShape
      <4> QED BY <3>1, <4>1, <4>2
    <3>3. UNCHANGED <<request, early>> /\ main.pc # "running"
      BY <1>2 DEF MainGpio
    <3> QED BY <3>2, <3>3 DEF ServerInv, GpioRequest, I2cRequest, UploadShape
  <2> QED BY <1>2, <2>2, <2>3 DEF MainGpio
<1>3. CASE MainI2c
  BY <1>3 DEF MainI2c, ServerInv, MainShape, GpioRequest, I2cRequest, UploadShape
<1> QED BY <1>1, <1>2, <1>3 DEF MainGoesOn

(* What Accept and Goes leave to say of a step of the server. *)
LEMMA ServerStep ==
  ASSUME ServerInv, UNCHANGED main,
         \/ request = Idle /\ early' = (early \/ main.pc # "running")
         \/ request # Idle /\ early' = early,
         request' = Idle \/ GpioRequest(request') \/ I2cRequest(request') \/ UploadShape(request')
  PROVE  ServerInv'
<1>1. MainShape'
  BY DEF ServerInv, MainShape
<1> QED BY <1>1 DEF ServerInv, GpioRequest, I2cRequest, UploadShape

LEMMA RequestStep ==
  ASSUME ServerInv, Requests
  PROVE  ServerInv'
<1> USE DEF Accept
<1>1. CASE \E what \in DOMAIN Calls : GpioAction(what)
  <2>1. PICK what \in DOMAIN Calls : GpioAction(what)
    BY <1>1
  <2>2. GpioRequest(request')
    BY <2>1 DEF GpioAction, Perform, GpioRequest
  <2> QED BY <2>1, <2>2, ServerStep DEF GpioAction
<1>2. CASE \E i \in Slots : InsertSlot(i) \/ EjectSlot(i)
  <2>1. request' = Idle \/ I2cRequest(request')
    BY <1>2, I2cAssumption DEF InsertSlot, EjectSlot, StopThen, I2cRequest
  <2> QED BY <1>2, <2>1, ServerStep DEF InsertSlot, EjectSlot
<1>3. CASE \E chip \in Chips : ChipSet(chip)
  <2>1. I2cRequest(request')
    BY <1>3, I2cAssumption DEF ChipSet, StopThen, I2cRequest
  <2> QED BY <1>3, <2>1, ServerStep DEF ChipSet
<1>4. CASE \E i \in Slots : DeleteSlot(i)
  BY <1>4, ServerStep DEF DeleteSlot
<1>5. CASE \E i \in Slots, total \in 1 .. MaxBody : UploadRequest(i, total)
  <2>1. UploadShape(request')
    BY <1>5 DEF UploadRequest, UploadShape, Recv, UploadPcs, LaterPcs
  <2> QED BY <1>5, <2>1, ServerStep DEF UploadRequest
<1> QED BY <1>1, <1>2, <1>3, <1>4, <1>5 DEF Requests

LEMMA I2cStep ==
  ASSUME ServerInv, I2cGoesOn
  PROVE  /\ I2cRequest(request) /\ request # Idle
         /\ request' = Idle \/ I2cRequest(request')
<1> USE DEF Goes
<1>1. I2cRequest(request) /\ request # Idle
  BY DEF I2cGoesOn, I2cStop, I2cStopped, Waiting, I2cStartFails, I2cStart, I2cEject,
         ServerInv, Idle, GpioRequest, UploadShape, UploadPcs, LaterPcs
<1>2. CASE request' # Idle
  <2>1. /\ request.pc \in {"i2c_stop", "i2c_wait"}
        /\ request' \in {[request EXCEPT !.pc = "i2c_wait"], [request EXCEPT !.pc = request.then]}
    BY <1>2 DEF I2cGoesOn, I2cStop, I2cStopped, Waiting, I2cStartFails, I2cStart, I2cEject
  <2>2. PICK pc \in {"i2c_wait", request.then} :
          request' = [pc |-> pc, then |-> request.then, arg |-> request.arg, left |-> request.left]
    BY <1>1, <2>1 DEF I2cRequest
  <2> QED BY <1>1, <2>2 DEF I2cRequest
<1> QED BY <1>1, <1>2

(* What the steps of the upload make of its request, action by action. *)
LEMMA ReceiveStep ==
  ASSUME ServerInv, Received \/ RecvTimeout \/ RecvError
  PROVE  /\ request.pc = "recv" /\ Recv(request)
         /\ \/ UNCHANGED bufs /\ \E got, timeouts :
                 request' = [pc |-> "recv", slot |-> request.slot, total |-> request.total,
                             got |-> got, timeouts |-> timeouts]
            \/ Answer({"buf"})
         /\ UNCHANGED <<main, early, slots>>
<1>0. request.pc = "recv"
  BY DEF Received, RecvTimeout, RecvError, Receives
<1>1. request.pc = "recv" /\ Recv(request)
  BY <1>0 DEF ServerInv, Idle, GpioRequest, I2cRequest, UploadShape
<1>2. CASE Received
  <2>1. PICK got : request' = [request EXCEPT !.got = got, !.timeouts = 0]
    BY <1>2 DEF Received, Goes
  <2>2. request' = [pc |-> "recv", slot |-> request.slot, total |-> request.total, got |-> got, timeouts |-> 0]
    BY <1>1, <2>1, WithGot, Zenon
  <2> QED BY <1>1, <1>2, <2>2 DEF Received, Goes
<1>3. CASE RecvTimeout
  <2>1. CASE request' = [request EXCEPT !.timeouts = request.timeouts + 1] /\ UNCHANGED <<main, early, slots, bufs>>
    <3>1. request' = [pc |-> "recv", slot |-> request.slot, total |-> request.total, got |-> request.got,
                      timeouts |-> request.timeouts + 1]
      BY <1>1, <2>1, WithTimeouts, Zenon
    <3> QED BY <1>1, <2>1, <3>1
  <2> QED BY <1>1, <1>3, <2>1 DEF RecvTimeout, Answer, Goes
<1>4. CASE RecvError
  BY <1>1, <1>4 DEF RecvError, Answer, Goes
<1> QED BY <1>2, <1>3, <1>4

LEMMA CompleteStep ==
  ASSUME ServerInv, TakeRaw \/ \E body \in Streams : Deflated(body)
  PROVE  /\ request.pc = "recv" /\ Recv(request)
         /\ \/ request' = Holds("store", Raw(request.got), "right") /\ UNCHANGED bufs
            \/ Answer({"buf"})
            \/ (\E body \in Streams : request' = Holds("output", body, "none")) /\ bufs' = Allocated("decompressed")
         /\ UNCHANGED <<main, early, slots>>
<1>1. request.pc = "recv" /\ Recv(request)
  BY DEF TakeRaw, Deflated, Complete, ServerInv, Idle, GpioRequest, I2cRequest, UploadShape
<1> QED BY <1>1 DEF TakeRaw, Deflated, Answer, Goes

Becomes(pc, final, size, image) ==
  request' = [pc |-> pc, slot |-> request.slot, body |-> request.body, final |-> final, size |-> size,
              image |-> image]

LEMMA LaterRequest ==
  ASSUME ServerInv, request.pc \in LaterPcs
  PROVE  Later(request)
BY DEF ServerInv, Idle, GpioRequest, I2cRequest, UploadShape, LaterPcs

LEMMA DecompressorStep ==
  ASSUME ServerInv, Decompressor
  PROVE  /\ request.pc = "output" /\ Later(request)
         /\ \/ Answer({"decompressed", "buf"})
            \/ /\ Becomes("inflate", request.final, request.size, request.image)
               /\ bufs' = Allocated("decomp")
         /\ UNCHANGED <<main, early, slots>>
<1>1. request.pc = "output" /\ Later(request)
  BY LaterRequest DEF Decompressor, LaterPcs
<1>2. CASE request' = [request EXCEPT !.pc = "inflate"]
  BY <1>1, <1>2, WithPc, Zenon DEF Decompressor, Becomes, Goes, Answer
<1> QED BY <1>1, <1>2 DEF Decompressor, Answer, Goes

(* Of an honest body the loop makes the whole, or fails. *)
LEMMA InflateStep ==
  ASSUME ServerInv, Inflate
  PROVE  /\ request.pc = "inflate" /\ Later(request)
         /\ \/ Becomes("full", request.final, request.size, request.image) /\ UNCHANGED bufs
            \/ /\ \E image, size : /\ Becomes("inflated", request.final, size, image)
                                   /\ image # "none" /\ Honest(request.body)
                                        => image = "right" /\ size = request.body.makes
               /\ bufs' = Freed({"decomp"})
         /\ UNCHANGED <<main, early, slots>>
<1>1. request.pc = "inflate" /\ Later(request)
  BY LaterRequest DEF Inflate, LaterPcs
<1>2. UNCHANGED <<main, early, slots>>
  BY DEF Inflate, Inflates, Full, Goes
<1>3. CASE Full
  BY <1>1, <1>2, <1>3, WithPc, Zenon DEF Full, Becomes, Goes
<1>4. CASE ~Full
  <2>1. PICK image, size : /\ Inflates(image, size)
                           /\ image # "none" /\ Honest(request.body)
                                => image = "right" /\ size = request.body.makes
    <3> DEFINE Good(image, size) == image # "none" /\ Honest(request.body)
                                      => image = "right" /\ size = request.body.makes
    <3>1. \/ Inflates("none", 0)
          \/ ~request.body.sound /\ \E size \in 0 .. request.body.declared : Inflates("garbage", size)
          \/ Inflates("right", request.body.makes)
          \/ ~(request.body.makes <= request.body.declared) /\ Inflates("right", request.body.declared)
      BY <1>4 DEF Inflate
    <3>2. Good("none", 0) /\ Good("right", request.body.makes)
      OBVIOUS
    <3>3. ~request.body.sound => \A size : Good("garbage", size)
      BY DEF Honest
    <3>4. ~(request.body.makes <= request.body.declared) => Good("right", request.body.declared)
      BY DEF Honest
    <3> HIDE DEF Good
    <3>5. \E image, size : Inflates(image, size) /\ Good(image, size)
      BY <3>1, <3>2, <3>3, <3>4
    <3> QED BY <3>5 DEF Good
  <2>2. Becomes("inflated", request.final, size, image)
    BY <1>1, <2>1, WithImageSize, Zenon DEF Inflates, Goes, Becomes
  <2> QED BY <1>1, <1>2, <2>1, <2>2 DEF Inflates
<1> QED BY <1>3, <1>4

LEMMA InflatedStep ==
  ASSUME ServerInv, Inflated
  PROVE  /\ request.pc = "inflated" /\ Later(request)
         /\ \/ Answer({"decompressed", "buf"})
            \/ /\ request.image # "none"
               /\ Becomes("store", "decompressed", request.size, request.image)
               /\ bufs' = Freed({"buf"})
         /\ UNCHANGED <<main, early, slots>>
<1>1. request.pc = "inflated" /\ Later(request)
  BY LaterRequest DEF Inflated, LaterPcs
<1>2. CASE request.image # "none"
  <2>1. /\ request' = [request EXCEPT !.pc = "store", !.final = "decompressed"]
        /\ bufs' = Freed({"buf"}) /\ UNCHANGED <<main, early, slots>>
    BY <1>2 DEF Inflated, Goes
  <2>2. Becomes("store", "decompressed", request.size, request.image)
    BY <1>1, <2>1, WithFinal, Zenon DEF Becomes
  <2> QED BY <1>1, <1>2, <2>1, <2>2
<1>3. CASE request.image = "none"
  BY <1>1, <1>3 DEF Inflated, Answer, Goes
<1> QED BY <1>2, <1>3

LEMMA StoreStep ==
  ASSUME ServerInv, Store
  PROVE  /\ request.pc = "store" /\ Later(request)
         /\ \/ /\ Becomes("stored", request.final, request.size, "none")
               /\ slots' = [slots EXCEPT ![request.slot] = EmptySlot]
            \/ \E chip \in Chips :
                 /\ Becomes("stored", request.final, Taken(chip, request.size), request.image)
                 /\ slots' = [slots EXCEPT ![request.slot] = [filled |-> TRUE, chip |-> chip, inserted |-> FALSE]]
         /\ UNCHANGED <<main, early, bufs>>
<1>1. request.pc = "store" /\ Later(request)
  BY LaterRequest DEF Store, LaterPcs
<1>2. UNCHANGED <<main, early, bufs>>
  BY DEF Store, Goes
<1>3. CASE /\ slots' = [slots EXCEPT ![request.slot] = EmptySlot]
           /\ request' = [request EXCEPT !.pc = "stored", !.image = "none"]
  <2>1. Becomes("stored", request.final, request.size, "none")
    BY <1>1, <1>3, WithImage, Zenon DEF Becomes
  <2> QED BY <1>1, <1>2, <1>3, <2>1
<1>4. ASSUME NEW chip \in Chips,
             slots' = [slots EXCEPT ![request.slot] = [filled |-> TRUE, chip |-> chip, inserted |-> FALSE]],
             request' = [request EXCEPT !.pc = "stored", !.size = Taken(chip, request.size)]
      PROVE  Becomes("stored", request.final, Taken(chip, request.size), request.image)
  BY <1>1, <1>4, WithSize, Zenon DEF Becomes
<1> QED BY <1>1, <1>2, <1>3, <1>4 DEF Store, Goes

LEMMA StoredStep ==
  ASSUME ServerInv, Stored
  PROVE  request.pc = "stored" /\ Later(request) /\ Answer({request.final})
BY LaterRequest DEF Stored, LaterPcs

LEMMA UploadStep ==
  ASSUME ServerInv, UploadGoesOn \/ UploadClient
  PROVE  /\ UploadShape(request) /\ request # Idle
         /\ request' = Idle \/ UploadShape(request')
         /\ UNCHANGED <<main, early>>
<1> USE DEF UploadShape, UploadPcs, LaterPcs, Idle, Answer, Goes
<1>1. CASE Received \/ RecvTimeout \/ RecvError
  BY <1>1, ReceiveStep DEF Recv
<1>2. CASE TakeRaw \/ \E body \in Streams : Deflated(body)
  BY <1>2, CompleteStep DEF Holds, Later
<1>3. CASE Decompressor
  BY <1>3, DecompressorStep DEF Becomes, Later
<1>4. CASE Inflate
  BY <1>4, InflateStep DEF Becomes, Later
<1>5. CASE Inflated
  BY <1>5, InflatedStep DEF Becomes, Later
<1>6. CASE Store
  BY <1>6, StoreStep DEF Becomes, Later
<1>7. CASE Stored
  BY <1>7, StoredStep DEF Later
<1> QED BY <1>1, <1>2, <1>3, <1>4, <1>5, <1>6, <1>7 DEF UploadGoesOn, UploadClient

LEMMA HttpStep ==
  ASSUME ServerInv, HttpGoesOn \/ UploadClient
  PROVE  ServerInv'
<1> USE DEF Goes
<1>1. CASE GpioGoesOn
  <2>1. GpioRequest(request) /\ request # Idle
    BY <1>1 DEF GpioGoesOn, SetLevel, SetFlag, ServerInv, Idle, I2cRequest, UploadShape, UploadPcs, LaterPcs
  <2>2. request' = Idle \/ GpioRequest(request')
    BY <1>1, <2>1, GpioRequestNext DEF GpioGoesOn
  <2> QED BY <1>1, <2>1, <2>2, ServerStep DEF GpioGoesOn
<1>2. CASE I2cGoesOn
  BY <1>2, I2cStep, ServerStep DEF I2cGoesOn, I2cStop, I2cStopped, I2cStartFails, I2cStart, I2cEject
<1>3. CASE UploadGoesOn \/ UploadClient
  BY <1>3, UploadStep, ServerStep
<1> QED BY <1>1, <1>2, <1>3 DEF HttpGoesOn

LEMMA TickRequest ==
  ASSUME ServerInv, Tick, Waiting
  PROVE  /\ I2cRequest(request) /\ I2cRequest(request') /\ request # Idle
         /\ request'.pc = "i2c_wait" /\ request'.then = request.then /\ request'.arg = request.arg
         /\ request'.left = IF request.left > 0 THEN request.left - 1 ELSE request.left
<1>1. I2cRequest(request) /\ request # Idle
  BY DEF Waiting, ServerInv, Idle, GpioRequest, UploadShape, UploadPcs, LaterPcs
<1>2. CASE request.left > 0
  <2>1. request' = [pc |-> "i2c_wait", then |-> request.then, arg |-> request.arg, left |-> request.left - 1]
    BY <1>1, <1>2 DEF Tick, I2cRequest, Waiting
  <2>2. request.left - 1 \in Nat
    BY <1>1, <1>2, SMT DEF I2cRequest
  <2> QED BY <1>1, <1>2, <2>1, <2>2 DEF I2cRequest
<1>3. CASE ~(request.left > 0)
  BY <1>1, <1>3 DEF Tick, Waiting
<1> QED BY <1>2, <1>3

LEMMA TickStep ==
  ASSUME ServerInv, Tick
  PROVE  ServerInv'
<1>1. MainShape' /\ early' = early /\ main' = main
  BY DEF Tick, ServerInv, MainShape
<1>2. CASE Waiting
  BY <1>1, <1>2, TickRequest DEF ServerInv
<1>3. CASE ~Waiting
  BY <1>1, <1>3 DEF Tick, ServerInv, GpioRequest, I2cRequest, UploadShape
<1> QED BY <1>2, <1>3

LEMMA NextServer == ServerInv /\ [DeviceNext]_deviceVars => ServerInv'
<1> SUFFICES ASSUME ServerInv, [DeviceNext]_deviceVars PROVE ServerInv'
  OBVIOUS
<1>1. CASE MainGoesOn
  BY <1>1, MainStep
<1>2. CASE Requests
  BY <1>2, RequestStep
<1>3. CASE HttpGoesOn \/ UploadClient
  BY <1>3, HttpStep
<1>4. CASE Restart
  BY <1>4 DEF Restart, ServerInv, MainShape
<1>5. CASE Tick
  BY <1>5, TickStep
<1>6. CASE (\E t \in TaskIds : TaskLoop(t)) \/ UNCHANGED deviceVars
  BY <1>6 DEF TaskLoop, serverVars, deviceVars, ServerInv, MainShape, GpioRequest, I2cRequest, UploadShape
<1> QED BY <1>1, <1>2, <1>3, <1>4, <1>5, <1>6 DEF DeviceNext

(* While main has not finished booting, and while a request is at any of its calls,
   the records of both have the shape those calls leave (main.c, web_handlers.c). *)
THEOREM ServerInvariance == DeviceSpec => []ServerInv
<1> QED BY InitServer, NextServer, PTL DEF DeviceSpec

----------------------------------------------------------------------------
(* The pins.  A flag lags behind its pin between the two steps of the      *)
(* handler; app_main raises both pins, one after the other.                *)

Writing(pin) == request.pc = "gpio" /\ request.set /\ Head(request.calls).pin = pin

BootPins ==
  ~early /\ main.pc = "gpio" =>
    /\ main.calls = InitCalls /\ main.set => level["reset"] = 1
    /\ main.calls = <<PowerOn>> => level["reset"] = 1 /\ shown["reset"] = 1
    /\ main.calls = <<PowerOn>> /\ main.set => level["power"] = 1

ShownPins ==
  ~early /\ main.pc \in {"i2c", "running"} =>
    \A pin \in Pins : /\ Writing(pin) => level[pin] = Head(request.calls).level
                      /\ ~Writing(pin) => shown[pin] = level[pin]

RaisedPin ==
  \A pin \in Pins : Writing(pin) /\ Head(request.calls).level = 1 => level[pin] = 1

PinInv ==
  /\ level \in [Pins -> {0, 1}] /\ shown \in [Pins -> {0, 1}]
  /\ BootPins /\ ShownPins /\ RaisedPin

LEMMA InitPins == DeviceInit => PinInv
BY DEF DeviceInit, GpioInit, PinInv, BootPins, ShownPins, RaisedPin, Writing, Boot, Idle

LEMMA LevelSet ==
  ASSUME PinInv, NEW p, Head(p.calls) \in CallType, SetLevel(p)
  PROVE  /\ level' \in [Pins -> {0, 1}] /\ shown' = shown
         /\ level'[Head(p.calls).pin] = Head(p.calls).level
         /\ \A pin \in Pins : pin # Head(p.calls).pin => level'[pin] = level[pin]
BY DEF PinInv, CallType, SetLevel

LEMMA FlagSet ==
  ASSUME PinInv, NEW p, Head(p.calls) \in CallType, SetFlag(p)
  PROVE  /\ shown' \in [Pins -> {0, 1}] /\ level' = level
         /\ shown'[Head(p.calls).pin] = Head(p.calls).level
         /\ \A pin \in Pins : pin # Head(p.calls).pin => shown'[pin] = shown[pin]
BY DEF PinInv, CallType, SetFlag

(* A step that leaves the pins alone and no flag behind. *)
LEMMA PinsAlone ==
  ASSUME PinInv, UNCHANGED gpioVars,
         ~early' => ~early,
         UNCHANGED main \/ (main.pc = "i2c" /\ main'.pc = "running"),
         \A pin \in Pins : Writing(pin)' => Writing(pin) /\ UNCHANGED request,
         \A pin \in Pins : Writing(pin) => Writing(pin)'
  PROVE  PinInv'
<1>1. level' = level /\ shown' = shown
  BY DEF gpioVars
<1>2. BootPins'
  BY <1>1 DEF PinInv, BootPins
<1>3. ShownPins'
  BY <1>1 DEF PinInv, ShownPins
<1>4. RaisedPin'
  BY <1>1 DEF PinInv, RaisedPin
<1> QED BY <1>1, <1>2, <1>3, <1>4 DEF PinInv

LEMMA MainPins ==
  ASSUME ServerInv, PinInv, MainGpio
  PROVE  PinInv'
<1>1. /\ main = [pc |-> "gpio", what |-> "init", calls |-> main.calls, set |-> main.set]
      /\ main.calls \in {InitCalls, <<PowerOn>>} /\ main.set \in BOOLEAN
  BY DEF MainGpio, SetLevel, SetFlag, ServerInv, MainShape, Boot
<1>2. Gpio(main) /\ main.pc = "gpio" /\ main.what = "init"
  BY <1>1 DEF Gpio
<1>3. Head(main.calls) \in CallType /\ Head(main.calls).level = 1
  BY <1>1, InitCallsShape DEF Release, PowerOn, Set, CallType, Pins
<1>4. InitCalls # <<PowerOn>>
  BY InitCallsShape
<1>5. UNCHANGED <<request, early>> /\ (~early => request.pc # "gpio")
  BY <1>2 DEF MainGpio, ServerInv, Idle
<1>6. CASE SetLevel(main) /\ main' = [main EXCEPT !.set = TRUE]
  <2>1. main' = [pc |-> "gpio", what |-> "init", calls |-> main.calls, set |-> TRUE]
    BY <1>2, <1>6, WithSet, Zenon
  <2>2. main'.pc = "gpio" /\ main'.calls = main.calls
    BY <2>1
  <2>3. /\ level' \in [Pins -> {0, 1}] /\ shown' = shown
        /\ level'[Head(main.calls).pin] = 1
        /\ \A pin \in Pins : pin # Head(main.calls).pin => level'[pin] = level[pin]
    BY <1>3, <1>6, LevelSet
  <2>4. BootPins'
    BY <1>1, <1>2, <1>4, <1>5, <2>2, <2>3, InitCallsShape DEF BootPins, PinInv, Release, PowerOn, Set, Pins
  <2>5. ShownPins'
    BY <2>2 DEF ShownPins
  <2>6. RaisedPin'
    BY <1>5, <2>3 DEF RaisedPin, Writing, PinInv
  <2> QED BY <2>3, <2>4, <2>5, <2>6 DEF PinInv
<1>7. CASE SetFlag(main) /\ main' = Called(main, [pc |-> "i2c"])
  <2>1. /\ shown' \in [Pins -> {0, 1}] /\ level' = level
        /\ shown'[Head(main.calls).pin] = 1
        /\ \A pin \in Pins : pin # Head(main.calls).pin => shown'[pin] = shown[pin]
    BY <1>3, <1>7, FlagSet
  <2>2. main.set
    BY <1>7 DEF SetFlag
  <2>3. RaisedPin'
    BY <1>5, <2>1 DEF RaisedPin, Writing, PinInv
  <2>4. CASE main.calls = InitCalls
    <3>1. main' = [main EXCEPT !.calls = <<PowerOn>>, !.set = FALSE]
      BY <1>7, <2>4, InitCallsShape DEF Called
    <3>2. main' = [pc |-> "gpio", what |-> "init", calls |-> <<PowerOn>>, set |-> FALSE]
      BY <1>2, <3>1, WithCalls, Zenon
    <3>3. main'.pc = "gpio" /\ main'.calls = <<PowerOn>> /\ main'.set = FALSE
      BY <3>2, Zenon
    <3>4. BootPins'
      BY <1>2, <1>4, <1>5, <2>1, <2>2, <2>4, <3>3, InitCallsShape DEF BootPins, PinInv, Release, Set, Pins
    <3>5. ShownPins'
      BY <3>3 DEF ShownPins
    <3> QED BY <2>1, <2>3, <3>4, <3>5 DEF PinInv
  <2>5. CASE main.calls = <<PowerOn>>
    <3>1. main' = [pc |-> "i2c"]
      BY <1>7, <2>5, InitCallsShape DEF Called
    <3>2. main'.pc = "i2c"
      BY <3>1
    <3>3. BootPins'
      BY <3>2 DEF BootPins
    <3>4. ~early => \A pin \in Pins : shown'[pin] = level'[pin]
      BY <1>2, <2>1, <2>2, <2>5, InitCallsShape DEF BootPins, PinInv, PowerOn, Set, Pins
    <3>5. ShownPins'
      BY <1>5, <3>4 DEF ShownPins, Writing
    <3> QED BY <2>1, <2>3, <3>3, <3>5 DEF PinInv
  <2> QED BY <1>1, <2>4, <2>5
<1> QED BY <1>6, <1>7 DEF MainGpio

LEMMA HandlerPins ==
  ASSUME ServerInv, PinInv, GpioGoesOn
  PROVE  PinInv'
<1>1. /\ GpioRequest(request) /\ request # Idle /\ request.pc = "gpio"
  BY DEF GpioGoesOn, SetLevel, SetFlag, ServerInv, Idle, I2cRequest, UploadShape, UploadPcs, LaterPcs
<1>2. Head(request.calls) \in CallType
  BY <1>1, RequestCalls
<1>3. UNCHANGED <<main, early>> /\ (~early => main.pc = "running")
  BY <1>1 DEF GpioGoesOn, Goes, ServerInv
<1>4. BootPins'
  BY <1>3 DEF BootPins
<1>0. Gpio(request)
  BY <1>1 DEF GpioRequest, Gpio
<1>5. CASE SetLevel(request) /\ Goes([request EXCEPT !.set = TRUE])
  <2>1. request' = [pc |-> "gpio", what |-> request.what, calls |-> request.calls, set |-> TRUE]
    BY <1>0, <1>1, <1>5, WithSet, Zenon DEF Goes
  <2>2. request'.pc = "gpio" /\ request'.calls = request.calls /\ request'.set = TRUE
    BY <2>1, Zenon
  <2>3. /\ level' \in [Pins -> {0, 1}] /\ shown' = shown
        /\ level'[Head(request.calls).pin] = Head(request.calls).level
        /\ \A pin \in Pins : pin # Head(request.calls).pin => level'[pin] = level[pin]
    BY <1>2, <1>5, LevelSet
  <2>4. ~request.set
    BY <1>5 DEF SetLevel
  <2>5. ShownPins' /\ RaisedPin'
    BY <1>3, <2>2, <2>3, <2>4 DEF ShownPins, RaisedPin, PinInv, Writing
  <2> QED BY <1>4, <2>3, <2>5 DEF PinInv
<1>6. CASE SetFlag(request) /\ Goes(Called(request, Idle))
  <2>1. request'.pc = "gpio" => request'.set = FALSE
    <3>1. CASE Len(request.calls) = 1
      BY <1>6, <3>1 DEF Called, Goes, Idle
    <3>2. CASE Len(request.calls) # 1
      <4>1. request' = [request EXCEPT !.calls = Tail(request.calls), !.set = FALSE]
        BY <1>6, <3>2 DEF Called, Goes
      <4>2. request' = [pc |-> request.pc, what |-> request.what, calls |-> Tail(request.calls), set |-> FALSE]
        BY <1>0, <4>1, WithCalls, Zenon
      <4> QED BY <4>2, Zenon
    <3> QED BY <3>1, <3>2
  <2>2. /\ shown' \in [Pins -> {0, 1}] /\ level' = level
        /\ shown'[Head(request.calls).pin] = Head(request.calls).level
        /\ \A pin \in Pins : pin # Head(request.calls).pin => shown'[pin] = shown[pin]
    BY <1>2, <1>6, FlagSet
  <2>3. request.set
    BY <1>6 DEF SetFlag
  <2>4. \A pin \in Pins : ~Writing(pin)'
    BY <2>1 DEF Writing
  <2>5. ~early => \A pin \in Pins : shown'[pin] = level'[pin]
    BY <1>1, <1>2, <1>3, <2>2, <2>3 DEF PinInv, ShownPins, Writing, CallType
  <2>6. ShownPins' /\ RaisedPin'
    BY <1>3, <2>4, <2>5 DEF ShownPins, RaisedPin
  <2> QED BY <1>4, <2>2, <2>6 DEF PinInv
<1> QED BY <1>5, <1>6 DEF GpioGoesOn

LEMMA NextPins == ServerInv /\ ServerInv' /\ PinInv /\ [DeviceNext]_deviceVars => PinInv'
<1> SUFFICES ASSUME ServerInv, ServerInv', PinInv, [DeviceNext]_deviceVars PROVE PinInv'
  OBVIOUS
<1>1. CASE ServerStarts
  <2>1. /\ main' = [pc |-> "gpio", what |-> "init", calls |-> InitCalls, set |-> FALSE]
        /\ UNCHANGED <<request, early, level, shown>>
    BY <1>1 DEF ServerStarts, Perform, gpioVars
  <2>2. main'.pc = "gpio" /\ main'.calls = InitCalls /\ main'.set = FALSE
    BY <2>1, Zenon
  <2>3. InitCalls # <<PowerOn>>
    BY InitCallsShape
  <2> QED BY <2>1, <2>2, <2>3 DEF PinInv, BootPins, ShownPins, RaisedPin, Writing
<1>2. CASE MainGpio
  BY <1>2, MainPins
<1>3. CASE MainI2c
  BY <1>3, PinsAlone DEF MainI2c, Writing
<1>4. CASE Requests
  <2>1. request = Idle /\ UNCHANGED <<gpioVars, main>> /\ early' = (early \/ main.pc # "running")
    BY <1>4 DEF Requests, Accept, GpioAction, InsertSlot, EjectSlot, ChipSet, DeleteSlot, UploadRequest
  <2>2. request'.pc = "gpio" => request'.set = FALSE
    <3>1. CASE \E what \in DOMAIN Calls : GpioAction(what)
      <4>1. PICK what \in DOMAIN Calls :
              request' = [pc |-> "gpio", what |-> what, calls |-> Calls[what], set |-> FALSE]
        BY <3>1 DEF GpioAction, Accept, Perform
      <4> QED BY <4>1, Zenon
    <3>2. CASE ~ \E what \in DOMAIN Calls : GpioAction(what)
      BY <1>4, <3>2 DEF Requests, Accept, InsertSlot, EjectSlot, ChipSet, DeleteSlot, UploadRequest,
                        StopThen, Idle
    <3> QED BY <3>1, <3>2
  <2>3. \A pin \in Pins : ~Writing(pin) /\ ~Writing(pin)'
    BY <2>1, <2>2 DEF Writing, Idle
  <2> QED BY <2>1, <2>3, PinsAlone, ServerInv DEF ServerInv
<1>5. CASE GpioGoesOn
  BY <1>5, HandlerPins
<1>6. CASE Restart
  BY <1>6 DEF Restart, PinInv, BootPins, ShownPins, RaisedPin, Writing, Boot, Idle
<1>7. CASE (I2cGoesOn \/ UploadGoesOn \/ UploadClient) /\ UNCHANGED gpioVars
  <2>1. UNCHANGED <<main, early>>
    BY <1>7, UploadStep DEF I2cGoesOn, I2cStop, I2cStopped, I2cStartFails, I2cStart, I2cEject, Goes
  <2>2. request.pc # "gpio" /\ request'.pc # "gpio"
    BY <1>7, I2cStep, UploadStep DEF I2cRequest, UploadShape, UploadPcs, LaterPcs, Idle
  <2> QED BY <1>7, <2>1, <2>2, PinsAlone DEF Writing
<1>8. CASE (Tick \/ \E t \in TaskIds : TaskLoop(t)) /\ UNCHANGED gpioVars
  <2>1. UNCHANGED <<main, early>>
    BY <1>8 DEF Tick, TaskLoop, serverVars
  <2>2. request' = request \/ Waiting
    BY <1>8 DEF Tick, TaskLoop, serverVars
  <2>3. Waiting /\ Tick => request'.pc = "i2c_wait"
    BY TickRequest
  <2> QED BY <1>8, <2>1, <2>2, <2>3, PinsAlone DEF Writing, Waiting, TaskLoop, serverVars
<1>9. CASE UNCHANGED deviceVars
  BY <1>9, PinsAlone DEF deviceVars, serverVars, Writing
<1> QED BY <1>1, <1>2, <1>3, <1>4, <1>5, <1>6, <1>7, <1>8, <1>9 DEF DeviceNext, MainGoesOn, HttpGoesOn, Requests

(* A GPIO flag lags behind its pin only inside the call that is changing them
   (gpio_control.c), in every reachable state. *)
THEOREM PinInvariance == DeviceSpec => [](ServerInv /\ PinInv)
<1>1. DeviceInit => ServerInv /\ PinInv
  BY InitServer, InitPins
<1>2. ServerInv /\ PinInv /\ [DeviceNext]_deviceVars => ServerInv' /\ PinInv'
  BY NextServer, NextPins
<1> QED BY <1>1, <1>2, PTL DEF DeviceSpec

LEMMA ShownIsLevel == PinInv => FlagsShowPins
BY DEF PinInv, ShownPins, Writing, FlagsShowPins

(* Unless a request was early, what GET /api/gpio shows is what the pins are
   (gpio_control.c:28). *)
THEOREM FlagsAreTrue == DeviceSpec => []FlagsShowPins
<1> QED BY PinInvariance, ShownIsLevel, PTL

(* What the step that ends a request for the pins leaves. *)
ComesBack ==
  request.pc = "gpio" /\ request' = Idle /\ main' # Boot
    => /\ request.what \in {"pulse", "sequence"} => level'["reset"] = 1
       /\ request.what = "cycle" => level'["power"] = 1

LEMMA LastCall ==
  ASSUME ServerInv, PinInv, [DeviceNext]_deviceVars
  PROVE  ComesBack
<1> SUFFICES ASSUME request.pc = "gpio", request' = Idle, main' # Boot
             PROVE  /\ request.what \in {"pulse", "sequence"} => level'["reset"] = 1
                    /\ request.what = "cycle" => level'["power"] = 1
  BY DEF ComesBack
<1>1. GpioRequest(request) /\ request # request' /\ request # Idle
  BY DEF ServerInv, Idle, I2cRequest, UploadShape, UploadPcs, LaterPcs
<1>2. GpioGoesOn
  <2>1. ~MainGoesOn /\ ~Requests /\ ~Restart /\ ~(\E t \in TaskIds : TaskLoop(t)) /\ ~UNCHANGED deviceVars
    BY <1>1 DEF MainGoesOn, ServerStarts, MainGpio, MainI2c, Requests, Restart, TaskLoop, deviceVars, serverVars
  <2>2. ~Tick
    BY <1>1 DEF Tick, Waiting
  <2>3. ~I2cGoesOn
    BY I2cStep DEF I2cRequest
  <2>4. ~(UploadGoesOn \/ UploadClient)
    BY UploadStep DEF UploadShape, UploadPcs, LaterPcs
  <2> QED BY <2>1, <2>2, <2>3, <2>4 DEF DeviceNext, HttpGoesOn
<1>3. SetFlag(request) /\ Called(request, Idle) = Idle
  <2>1. CASE SetLevel(request) /\ Goes([request EXCEPT !.set = TRUE])
    BY <1>1, <2>1, GpioRequestNext DEF Goes, GpioRequest, Idle
  <2> QED BY <1>2, <2>1 DEF GpioGoesOn, Goes
<1>4. Len(request.calls) = 1
  <2>1. SUFFICES ASSUME Len(request.calls) # 1 PROVE FALSE
    OBVIOUS
  <2>2. Gpio(request)
    BY <1>1 DEF GpioRequest, Gpio
  <2>3. Called(request, Idle) = [request EXCEPT !.calls = Tail(request.calls), !.set = FALSE]
    BY <2>1 DEF Called
  <2>4. Called(request, Idle) = [pc |-> request.pc, what |-> request.what, calls |-> Tail(request.calls), set |-> FALSE]
    BY <2>2, <2>3, WithCalls, Zenon
  <2>5. [pc |-> request.pc, what |-> request.what, calls |-> Tail(request.calls), set |-> FALSE].pc = request.pc
    BY Zenon
  <2>6. Idle.pc = "idle"
    BY DEF Idle
  <2>7. Called(request, Idle).pc = "gpio"
    BY <2>4, <2>5, Zenon
  <2> QED BY <1>3, <2>6, <2>7
<1>5. Head(request.calls) = Last[request.what]
  BY <1>1, <1>4, RequestCalls
<1>6. level' = level /\ Writing(Head(request.calls).pin) /\ Head(request.calls) \in CallType
  BY <1>1, <1>3, RequestCalls DEF SetFlag, Writing
<1> QED BY <1>5, <1>6 DEF PinInv, RaisedPin, Last, Release, PowerOn, Set, CallType, Pins

(* A pulse, a sequence or a power cycle leaves the target running, whatever app_main does
   in between (gpio_control.c:61-118). *)
THEOREM PulseEndsUp == DeviceSpec => TargetComesBack
<1>1. ServerInv /\ PinInv /\ [DeviceNext]_deviceVars => [ComesBack]_deviceVars
  BY LastCall
<1>2. [][ComesBack]_deviceVars => TargetComesBack
  BY PTL DEF TargetComesBack, ComesBack
<1> QED BY <1>1, <1>2, PinInvariance, PTL DEF DeviceSpec

----------------------------------------------------------------------------
(* The I2C emulator.  Its driver and its task are there while it runs, and *)
(* go on being there for as long as stop waits, which is longer than the   *)
(* task sleeps.                                                            *)

Quiet == ~running /\ ~port /\ ~handle /\ task = NoTask /\ Live = {}

I2cTypes ==
  /\ running \in BOOLEAN /\ handle \in BOOLEAN /\ port \in BOOLEAN
  /\ tasks \in [TaskIds -> -1 .. LoopTime]

Orderly ==
  /\ ~running /\ ~Waiting => Quiet
  /\ handle = port
  /\ running => port
  /\ Live # {} => task # NoTask
  /\ request.pc \in {"i2c_wait", "i2c_start", "i2c_eject"} => ~running
  /\ Waiting => \A t \in TaskIds : tasks[t] < request.left

I2cInv ==
  /\ I2cTypes
  /\ ~early => Orderly
  /\ ~early /\ main.pc # "running" => ~running

LEMMA InitI2c == DeviceInit => I2cInv
<1> SUFFICES ASSUME DeviceInit PROVE I2cInv
  OBVIOUS
<1>1. /\ running = FALSE /\ handle = FALSE /\ port = FALSE /\ task = NoTask /\ request.pc = "idle"
      /\ tasks = [t \in TaskIds |-> -1]
  BY DEF DeviceInit, I2cInit, Idle, Gone
<1>2. tasks \in [TaskIds -> -1 .. LoopTime] /\ Live = {}
  BY <1>1, I2cAssumption DEF Live, Gone
<1> QED BY <1>1, <1>2 DEF I2cInv, I2cTypes, Orderly, Quiet, Waiting

LEMMA HandlerI2c ==
  ASSUME ServerInv, I2cInv, I2cGoesOn
  PROVE  I2cInv'
<1>1. /\ I2cRequest(request) /\ request # Idle
      /\ request' = Idle \/ I2cRequest(request')
  BY I2cStep
<1>2. UNCHANGED <<main, early>> /\ (~early => main.pc = "running")
  BY <1>1 DEF I2cGoesOn, I2cStop, I2cStopped, I2cStartFails, I2cStart, I2cEject, Goes, ServerInv
<1>3. CASE I2cStop
  <2>1. /\ request.pc = "i2c_stop" /\ running' = FALSE /\ UNCHANGED <<task, tasks>>
        /\ request.left = StopTime
    BY <1>1, <1>3 DEF I2cStop, I2cRequest
  <2>2. I2cTypes' /\ Live' = Live
    BY <1>3, <2>1 DEF I2cInv, I2cTypes, I2cStop, DriverFreed, Live
  <2>3. CASE running /\ task # NoTask
    <3>1. /\ request'.pc = "i2c_wait" /\ request'.left = StopTime /\ UNCHANGED <<handle, port>>
      BY <1>1, <1>3, <2>1, <2>3 DEF I2cStop, Goes, I2cRequest
    <3>2. \A t \in TaskIds : tasks'[t] < request'.left
      BY <2>1, <3>1, I2cAssumption DEF I2cInv, I2cTypes
    <3>3. ~early => Orderly'
      BY <2>1, <2>2, <2>3, <3>1, <3>2 DEF I2cInv, Orderly, Waiting
    <3> QED BY <1>2, <2>1, <2>2, <3>3 DEF I2cInv
  <2>4. CASE ~(running /\ task # NoTask)
    <3>1. request'.pc \in {"i2c_start", "i2c_eject"}
      BY <1>1, <1>3, <2>1, <2>4 DEF I2cStop, Goes, I2cRequest
    <3>2. ~early => Live = {}
      BY <2>1, <2>4 DEF I2cInv, Orderly, Quiet, Waiting
    <3>3. ~early => ~port' /\ ~handle' /\ task' = NoTask
      BY <1>3, <2>1, <2>4 DEF I2cInv, I2cTypes, Orderly, Quiet, Waiting, I2cStop, DriverFreed
    <3>4. ~early => Quiet'
      BY <2>1, <2>2, <3>2, <3>3 DEF Quiet
    <3>5. ~early => Orderly'
      BY <2>1, <2>2, <3>1, <3>2, <3>3, <3>4 DEF Orderly, Waiting, I2cTypes
    <3> QED BY <1>2, <2>1, <2>2, <3>5 DEF I2cInv
  <2> QED BY <2>3, <2>4
<1>4. CASE I2cStopped
  <2>1. /\ request.pc = "i2c_wait" /\ request.left = 0
        /\ task' = NoTask /\ UNCHANGED <<running, tasks>> /\ handle' = FALSE /\ port' = (port /\ ~handle)
    BY <1>4 DEF I2cStopped, Waiting, DriverFreed
  <2>2. request'.pc \in {"i2c_start", "i2c_eject"}
    BY <1>1, <1>4 DEF I2cStopped, Goes, I2cRequest
  <2>3. I2cTypes' /\ Live' = Live
    BY <2>1 DEF I2cInv, I2cTypes, Live
  <2>4. ~early => Live = {}
    BY <2>1 DEF I2cInv, I2cTypes, Orderly, Waiting, Live, Gone
  <2>5. ~early => ~running' /\ ~port'
    BY <2>1 DEF I2cInv, I2cTypes, Orderly
  <2>6. ~early => Orderly'
    BY <2>1, <2>2, <2>3, <2>4, <2>5 DEF Orderly, Quiet, Waiting, I2cTypes
  <2> QED BY <1>2, <2>1, <2>3, <2>6 DEF I2cInv
<1>5. CASE I2cStartFails
  <2>1. /\ request' = Idle /\ request.pc = "i2c_start" /\ UNCHANGED <<running, task, handle, port, tasks>>
    BY <1>5 DEF I2cStartFails, Goes
  <2>2. request'.pc = "idle"
    BY <2>1 DEF Idle
  <2> QED BY <1>2, <2>1, <2>2 DEF I2cInv, I2cTypes, Orderly, Quiet, Waiting, Live
<1>6. CASE I2cStart
  <2>1. /\ request' = Idle /\ request.pc = "i2c_start"
        /\ running' = TRUE /\ handle' = TRUE /\ port' = TRUE
    BY <1>6 DEF I2cStart, Goes
  <2>2. request'.pc = "idle"
    BY <2>1 DEF Idle
  <2>3. ~early => Quiet
    BY <2>1 DEF I2cInv, Orderly, Waiting
  <2>4. \/ \E t \in TaskIds : task' = t /\ tasks' = [tasks EXCEPT ![t] = 0]
        \/ UNCHANGED <<task, tasks>>
    BY <1>6 DEF I2cStart
  <2>5. tasks' \in [TaskIds -> -1 .. LoopTime]
    BY <2>4, I2cAssumption DEF I2cInv, I2cTypes
  <2>6. ~early => (Live' # {} => task' # NoTask)
    BY <2>3, <2>4, I2cAssumption DEF Quiet, Live
  <2> QED BY <1>2, <2>1, <2>2, <2>5, <2>6 DEF I2cInv, I2cTypes, Orderly, Waiting
<1>7. CASE I2cEject
  <2>1. request' = Idle /\ request.pc = "i2c_eject" /\ UNCHANGED i2cVars
    BY <1>7 DEF I2cEject, Goes
  <2>2. request'.pc = "idle"
    BY <2>1 DEF Idle
  <2> QED BY <1>2, <2>1, <2>2 DEF I2cInv, I2cTypes, Orderly, Quiet, Waiting, Live, i2cVars, emu
<1> QED BY <1>3, <1>4, <1>5, <1>6, <1>7 DEF I2cGoesOn

LEMMA TaskI2c ==
  ASSUME ServerInv, I2cInv, Tick \/ \E t \in TaskIds : TaskLoop(t)
  PROVE  I2cInv'
<1>1. UNCHANGED <<main, early, emu, port>>
  BY DEF Tick, TaskLoop, serverVars
<1>2. CASE \E t \in TaskIds : TaskLoop(t)
  <2>1. PICK t \in TaskIds : TaskLoop(t)
    BY <1>2
  <2>2. tasks[t] = 0 /\ tasks' = [tasks EXCEPT ![t] = IF running THEN LoopTime ELSE -1] /\ request' = request
    BY <2>1 DEF TaskLoop, serverVars, Gone
  <2>3. tasks' \in [TaskIds -> -1 .. LoopTime] /\ Live # {} /\ Live' \subseteq Live
    BY <2>2, I2cAssumption DEF I2cInv, I2cTypes, Live, Gone
  <2>4. ~early /\ Waiting => ~running /\ \A u \in TaskIds : tasks'[u] < request'.left
    <3>1. SUFFICES ASSUME ~early, Waiting PROVE ~running /\ \A u \in TaskIds : tasks'[u] < request'.left
      OBVIOUS
    <3>2. ~running /\ 0 < request.left
      BY <2>2, <3>1 DEF I2cInv, Orderly, Waiting
    <3>3. request.left \in Nat
      BY <3>1 DEF Waiting, ServerInv, Idle, GpioRequest, I2cRequest, UploadShape, UploadPcs, LaterPcs
    <3>4. tasks' = [tasks EXCEPT ![t] = -1]
      BY <2>2, <3>2
    <3> QED BY <2>2, <3>1, <3>2, <3>3, <3>4 DEF I2cInv, I2cTypes, Orderly
  <2> QED BY <1>1, <2>2, <2>3, <2>4 DEF I2cInv, I2cTypes, Orderly, Quiet, Waiting, emu
<1>3. CASE Tick
  <2>1. /\ \A t \in Live : tasks[t] > 0
        /\ tasks' = [t \in TaskIds |-> IF t \in Live THEN tasks[t] - 1 ELSE -1]
    BY <1>3 DEF Tick, Gone
  <2>2. tasks' \in [TaskIds -> -1 .. LoopTime] /\ Live' = Live
    BY <2>1, I2cAssumption DEF I2cInv, I2cTypes, Live, Gone
  <2>3. CASE Waiting
    <3>1. /\ request'.pc = "i2c_wait" /\ request.left \in Nat
          /\ request'.left = IF request.left > 0 THEN request.left - 1 ELSE request.left
      BY <1>3, <2>3, TickRequest DEF I2cRequest
    <3>2. ~early => \A t \in TaskIds : tasks'[t] < request'.left
      <4>1. SUFFICES ASSUME ~early, NEW t \in TaskIds PROVE tasks'[t] < request'.left
        OBVIOUS
      <4>2. tasks[t] < request.left /\ tasks[t] \in Int
        BY <2>3, <4>1 DEF I2cInv, I2cTypes, Orderly
      <4>3. CASE t \in Live
        BY <2>1, <3>1, <4>2, <4>3
      <4>4. CASE t \notin Live
        BY <2>1, <3>1, <4>4
      <4> QED BY <4>3, <4>4
    <3> QED BY <1>1, <2>2, <2>3, <3>1, <3>2 DEF I2cInv, I2cTypes, Orderly, Quiet, Waiting, emu
  <2>4. CASE ~Waiting
    <3>1. request' = request
      BY <1>3, <2>4 DEF Tick
    <3> QED BY <1>1, <2>2, <2>4, <3>1 DEF I2cInv, I2cTypes, Orderly, Quiet, Waiting, emu
  <2> QED BY <2>3, <2>4
<1> QED BY <1>2, <1>3

LEMMA NextI2c == ServerInv /\ ServerInv' /\ I2cInv /\ [DeviceNext]_deviceVars => I2cInv'
<1> SUFFICES ASSUME ServerInv, ServerInv', I2cInv, [DeviceNext]_deviceVars PROVE I2cInv'
  OBVIOUS
<1>1. CASE ServerStarts \/ MainGpio
  <2>1. main.pc # "running"
    BY <1>1 DEF ServerStarts, MainGpio, SetLevel, SetFlag
  <2>2. UNCHANGED <<request, early, i2cVars>>
    BY <1>1 DEF ServerStarts, MainGpio
  <2> QED BY <2>1, <2>2 DEF I2cInv, I2cTypes, Orderly, Quiet, Waiting, Live, i2cVars, emu
<1>2. CASE MainI2c
  <2>1. /\ main.pc = "i2c" /\ UNCHANGED <<request, early, port, tasks>>
        /\ running' = FALSE /\ task' = NoTask /\ handle' = FALSE
    BY <1>2 DEF MainI2c, ContextCleared
  <2>2. ~early => request.pc = "idle"
    BY <2>1 DEF ServerInv, Idle
  <2>3. ~early => Quiet
    BY <2>1, <2>2 DEF I2cInv, Orderly, Waiting
  <2>4. I2cTypes' /\ Live' = Live
    BY <2>1 DEF I2cInv, I2cTypes, Live
  <2>5. ~early => Quiet'
    BY <2>1, <2>3, <2>4 DEF Quiet
  <2>6. ~early => Orderly'
    BY <2>1, <2>2, <2>3, <2>4, <2>5 DEF Orderly, Waiting, Quiet, I2cTypes
  <2> QED BY <2>1, <2>4, <2>6 DEF I2cInv
<1>3. CASE Requests
  <2>1. request = Idle /\ UNCHANGED <<i2cVars, main>> /\ early' = (early \/ main.pc # "running")
    BY <1>3 DEF Requests, Accept, GpioAction, InsertSlot, EjectSlot, ChipSet, DeleteSlot, UploadRequest
  <2>2. request'.pc \in {"idle", "gpio", "i2c_stop", "recv"}
    BY <1>3 DEF Requests, Accept, GpioAction, InsertSlot, EjectSlot, ChipSet, DeleteSlot, UploadRequest,
                Perform, StopThen, Idle
  <2>3. request.pc = "idle"
    BY <2>1 DEF Idle
  <2> QED BY <2>1, <2>2, <2>3 DEF I2cInv, I2cTypes, Orderly, Quiet, Waiting, Live, i2cVars, emu, ServerInv
<1>4. CASE GpioGoesOn /\ UNCHANGED i2cVars
  <2>1. GpioRequest(request) /\ UNCHANGED <<main, early>>
    BY <1>4 DEF GpioGoesOn, SetLevel, SetFlag, Goes, ServerInv, Idle, I2cRequest, UploadShape, UploadPcs, LaterPcs
  <2>2. request' = Idle \/ GpioRequest(request')
    BY <1>4, <2>1, GpioRequestNext DEF GpioGoesOn, Goes
  <2>3. request.pc = "gpio" /\ request'.pc \in {"idle", "gpio"}
    BY <2>1, <2>2 DEF GpioRequest, Idle
  <2> QED BY <1>4, <2>1, <2>3 DEF I2cInv, I2cTypes, Orderly, Quiet, Waiting, Live, i2cVars, emu
<1>5. CASE I2cGoesOn
  BY <1>5, HandlerI2c
<1>6. CASE (UploadGoesOn \/ UploadClient) /\ UNCHANGED i2cVars
  <2>1. UNCHANGED <<main, early>>
    BY <1>6, UploadStep
  <2>2. request.pc \in UploadPcs /\ request'.pc \in UploadPcs \cup {"idle"}
    BY <1>6, UploadStep DEF UploadShape, Idle
  <2> QED BY <1>6, <2>1, <2>2 DEF I2cInv, I2cTypes, Orderly, Quiet, Waiting, Live, i2cVars, emu, UploadPcs, LaterPcs
<1>7. CASE Restart
  <2>1. /\ running' = FALSE /\ handle' = FALSE /\ port' = FALSE /\ task' = NoTask /\ request' = Idle
        /\ tasks' = [t \in TaskIds |-> -1]
    BY <1>7 DEF Restart, ContextCleared, Gone
  <2>2. tasks' \in [TaskIds -> -1 .. LoopTime] /\ Live' = {} /\ request'.pc = "idle"
    BY <2>1, I2cAssumption DEF Live, Gone, Idle
  <2> QED BY <2>1, <2>2 DEF I2cInv, I2cTypes, Orderly, Quiet, Waiting
<1>8. CASE Tick \/ \E t \in TaskIds : TaskLoop(t)
  BY <1>8, TaskI2c
<1>9. CASE UNCHANGED deviceVars
  BY <1>9 DEF deviceVars, serverVars, i2cVars, emu, I2cInv, I2cTypes, Orderly, Quiet, Waiting, Live
<1> QED BY <1>1, <1>2, <1>3, <1>4, <1>5, <1>6, <1>7, <1>8, <1>9 DEF DeviceNext, MainGoesOn, HttpGoesOn, Requests

LEMMA OrderlyIsStopped == I2cInv => I2cIsStopped
BY DEF I2cInv, Orderly, Quiet, Waiting, I2cIsStopped

(* The running flag, the tasks and the driver of the I2C emulator agree with where
   i2c_eeprom_emu_start and _stop are, in every reachable state. *)
THEOREM I2cInvariance == DeviceSpec => [](ServerInv /\ I2cInv)
<1>1. DeviceInit => ServerInv /\ I2cInv
  BY InitServer, InitI2c
<1>2. ServerInv /\ I2cInv /\ [DeviceNext]_deviceVars => ServerInv' /\ I2cInv'
  BY NextServer, NextI2c
<1> QED BY <1>1, <1>2, PTL DEF DeviceSpec

(* When stop is over the task has ended and the port is free, for any times that leave the
   task time to look (i2c_eeprom_emu.c:224-241). *)
THEOREM StopEndsTask == DeviceSpec => []I2cIsStopped
<1> QED BY I2cInvariance, OrderlyIsStopped, PTL

----------------------------------------------------------------------------
(* The slots: one at most is inserted per socket, so that no other I2C     *)
(* chip stays behind when the one that is emulated is ejected.             *)

Slot == [filled : BOOLEAN, chip : Chips \cup {NoChip}, inserted : BOOLEAN]

OnI2c(i) == slots[i].inserted /\ BusOf(slots[i].chip) = "I2C"

I2cPcs == {"i2c_stop", "i2c_wait", "i2c_start", "i2c_eject"}

OnePerSocket ==
  \A i, j \in Slots :
    slots[i].inserted /\ slots[j].inserted /\ SocketOf(i) = SocketOf(j) => i = j

SlotInv ==
  /\ slots \in [Slots -> Slot]
  /\ OnePerSocket
  /\ request.pc \in I2cPcs /\ request.then = "i2c_eject" => request.arg \in Slots /\ OnI2c(request.arg)
  /\ ~early /\ main.pc # "running" => \A i \in Slots : ~slots[i].inserted
  /\ ~early /\ ~failed /\ request.pc \notin I2cPcs => \A i \in Slots : OnI2c(i) => running

LEMMA InitSlots == DeviceInit => SlotInv
BY DEF DeviceInit, I2cInit, SlotInv, OnePerSocket, OnI2c, EmptySlot, Slot, Idle, I2cPcs

(* What the operations make of the slots. *)
LEMMA InsertedSlots ==
  ASSUME slots \in [Slots -> Slot], NEW i \in Slots, slots' = Inserted(i)
  PROVE  /\ slots' \in [Slots -> Slot]
         /\ \A j \in Slots :
              /\ slots'[j].chip = slots[j].chip
              /\ SocketOf(j) = SocketOf(i) => (slots'[j].inserted => j = i)
              /\ SocketOf(j) # SocketOf(i) => slots'[j] = slots[j]
<1>1. ASSUME NEW j \in Slots
      PROVE  /\ slots'[j] \in Slot
             /\ slots'[j].chip = slots[j].chip
             /\ SocketOf(j) = SocketOf(i) => (slots'[j].inserted => j = i)
             /\ SocketOf(j) # SocketOf(i) => slots'[j] = slots[j]
  <2>1. slots'[j] = IF SocketOf(j) = SocketOf(i) THEN [slots[j] EXCEPT !.inserted = (j = i)] ELSE slots[j]
    BY DEF Inserted
  <2>2. slots[j] \in Slot
    OBVIOUS
  <2>3. ASSUME NEW b \in BOOLEAN
        PROVE  LET s == [slots[j] EXCEPT !.inserted = b]
               IN  s \in Slot /\ s.chip = slots[j].chip /\ s.inserted = b
    BY <2>2 DEF Slot
  <2>4. (j = i) \in BOOLEAN
    OBVIOUS
  <2> QED BY <2>1, <2>2, <2>3, <2>4
<1>2. slots' = [j \in Slots |-> slots'[j]]
  BY DEF Inserted
<1>3. slots' \in [Slots -> Slot]
  BY <1>1, <1>2
<1> QED BY <1>1, <1>3

LEMMA SlotChanged ==
  ASSUME SlotInv, NEW i \in Slots, NEW slot \in Slot, ~slot.inserted,
         slots' = [slots EXCEPT ![i] = slot]
  PROVE  /\ slots' \in [Slots -> Slot] /\ OnePerSocket'
         /\ ~slots'[i].inserted /\ \A j \in Slots : j # i => slots'[j] = slots[j]
<1>1. slots' \in [Slots -> Slot] /\ slots'[i] = slot /\ \A j \in Slots : j # i => slots'[j] = slots[j]
  BY DEF SlotInv
<1>2. OnePerSocket'
  BY <1>1 DEF SlotInv, OnePerSocket, SocketOf
<1> QED BY <1>1, <1>2

LEMMA EjectedSlots ==
  ASSUME SlotInv, NEW i \in Slots, slots' = Ejected(i)
  PROVE  /\ slots' \in [Slots -> Slot] /\ OnePerSocket'
         /\ ~slots'[i].inserted /\ \A j \in Slots : j # i => slots'[j] = slots[j]
<1> DEFINE slot == [slots[i] EXCEPT !.inserted = FALSE]
<1>1. slot \in Slot /\ ~slot.inserted
  <2>1. slots[i] \in Slot
    BY DEF SlotInv
  <2> QED BY <2>1 DEF Slot
<1>2. slots' = [slots EXCEPT ![i] = slot]
  BY DEF Ejected
<1> HIDE DEF slot
<1> QED BY <1>1, <1>2, SlotChanged

(* A slot on the I2C bus is in the I2C socket, and whatever else was there is gone. *)
LEMMA InsertKeepsOne ==
  ASSUME SlotInv, NEW i \in Slots, slots' = Inserted(i)
  PROVE  /\ slots' \in [Slots -> Slot] /\ OnePerSocket'
         /\ BusOf(slots[i].chip) # "I2C" => \A j \in Slots : OnI2c(j)' => OnI2c(j)
<1>1. /\ slots' \in [Slots -> Slot]
      /\ \A j \in Slots :
           /\ slots'[j].chip = slots[j].chip
           /\ SocketOf(j) = SocketOf(i) => (slots'[j].inserted => j = i)
           /\ SocketOf(j) # SocketOf(i) => slots'[j] = slots[j]
  BY InsertedSlots DEF SlotInv
<1>2. \A j \in Slots : SocketOf(j)' = SocketOf(j)
  BY <1>1 DEF SocketOf
<1>3. OnePerSocket'
  BY <1>1, <1>2 DEF SlotInv, OnePerSocket
<1>4. BusOf(slots[i].chip) # "I2C" => \A j \in Slots : OnI2c(j)' => OnI2c(j)
  BY <1>1 DEF OnI2c
<1> QED BY <1>1, <1>3, <1>4

(* A step that leaves the slots and the emulator alone, outside the I2C part of a handler. *)
LEMMA SlotsAlone ==
  ASSUME SlotInv, UNCHANGED <<slots, running, failed>>,
         request.pc \notin I2cPcs, request'.pc \notin I2cPcs,
         ~early' => ~early, main'.pc # "running" => main.pc # "running"
  PROVE  SlotInv'
BY DEF SlotInv, OnePerSocket, SocketOf, OnI2c

LEMMA RequestSlots ==
  ASSUME ServerInv, SlotInv, Requests
  PROVE  SlotInv'
<1>1. /\ request = Idle /\ request.pc = "idle" /\ UNCHANGED <<main, i2cVars>>
      /\ early' = (early \/ main.pc # "running")
  BY DEF Requests, Accept, GpioAction, InsertSlot, EjectSlot, ChipSet, DeleteSlot, UploadRequest, Idle
<1>2. UNCHANGED <<running, failed>> /\ (~early' => ~early /\ main.pc = "running")
  BY <1>1 DEF i2cVars, emu
<1>3. ASSUME slots' \in [Slots -> Slot] /\ OnePerSocket',
             request'.pc \in I2cPcs => request'.then # "i2c_eject",
             request'.pc \notin I2cPcs => \A j \in Slots : OnI2c(j)' => OnI2c(j)
      PROVE  SlotInv'
  BY <1>1, <1>2, <1>3 DEF SlotInv, I2cPcs
<1>4. CASE \E i \in Slots : InsertSlot(i)
  <2>1. PICK i \in Slots : InsertSlot(i)
    BY <1>4
  <2>2. /\ slots' \in [Slots -> Slot] /\ OnePerSocket'
        /\ BusOf(slots[i].chip) # "I2C" => \A j \in Slots : OnI2c(j)' => OnI2c(j)
    BY <2>1, InsertKeepsOne DEF InsertSlot
  <2>3. \/ BusOf(slots[i].chip) = "I2C" /\ request'.pc = "i2c_stop" /\ request'.then = "i2c_start"
        \/ BusOf(slots[i].chip) # "I2C" /\ request'.pc = "idle"
    BY <2>1 DEF InsertSlot, Accept, StopThen, Idle
  <2> QED BY <1>3, <2>2, <2>3 DEF I2cPcs
<1>5. CASE \E i \in Slots : EjectSlot(i)
  <2>1. PICK i \in Slots : EjectSlot(i)
    BY <1>5
  <2>2. CASE BusOf(slots[i].chip) = "I2C"
    <3>1. /\ request'.pc = "i2c_stop" /\ request'.arg = i /\ slots' = slots /\ slots[i].inserted
      BY <2>1, <2>2 DEF EjectSlot, Accept, StopThen
    <3> QED BY <1>1, <1>2, <2>2, <3>1 DEF SlotInv, OnI2c, I2cPcs, OnePerSocket, SocketOf
  <2>3. CASE BusOf(slots[i].chip) # "I2C"
    <3>1. request'.pc = "idle" /\ slots' = Ejected(i)
      BY <2>1, <2>3 DEF EjectSlot, Accept, Idle
    <3> QED BY <1>3, <3>1, EjectedSlots DEF OnI2c, I2cPcs
  <2> QED BY <2>2, <2>3
<1>6. CASE \E i \in Slots : DeleteSlot(i)
  <2>1. PICK i \in Slots : DeleteSlot(i)
    BY <1>6
  <2>2. request'.pc = "idle" /\ slots' = [slots EXCEPT ![i] = EmptySlot]
    BY <2>1 DEF DeleteSlot, Accept, Idle
  <2>3. EmptySlot \in Slot /\ ~EmptySlot.inserted
    BY DEF EmptySlot, Slot
  <2> QED BY <1>3, <2>2, <2>3, SlotChanged DEF OnI2c, I2cPcs
<1>7. CASE \E chip \in Chips : ChipSet(chip)
  <2>1. request'.pc = "i2c_stop" /\ request'.then = "i2c_start" /\ slots' = slots
    BY <1>7 DEF ChipSet, Accept, StopThen
  <2> QED BY <1>3, <2>1 DEF SlotInv, OnePerSocket, SocketOf, I2cPcs
<1>8. CASE \/ \E what \in DOMAIN Calls : GpioAction(what)
           \/ \E i \in Slots, total \in 1 .. MaxBody : UploadRequest(i, total)
  <2>1. request'.pc \in {"gpio", "recv"} /\ slots' = slots
    BY <1>8 DEF GpioAction, UploadRequest, Accept, Perform
  <2> QED BY <1>3, <2>1 DEF SlotInv, OnePerSocket, SocketOf, I2cPcs, OnI2c
<1> QED BY <1>4, <1>5, <1>6, <1>7, <1>8 DEF Requests

LEMMA HandlerSlots ==
  ASSUME ServerInv, SlotInv, I2cInv, I2cGoesOn
  PROVE  SlotInv'
<1>1. /\ I2cRequest(request) /\ request # Idle
      /\ request' = Idle \/ I2cRequest(request')
  BY I2cStep
<1>2. UNCHANGED <<main, early>> /\ (~early => main.pc = "running")
  BY <1>1 DEF I2cGoesOn, I2cStop, I2cStopped, I2cStartFails, I2cStart, I2cEject, Goes, ServerInv
<1>3. CASE I2cStop \/ I2cStopped
  <2>1. /\ request'.pc \in I2cPcs /\ request'.then = request.then /\ request'.arg = request.arg
        /\ slots' = slots /\ request.pc \in I2cPcs
    BY <1>1, <1>3 DEF I2cStop, I2cStopped, Waiting, Goes, I2cRequest, I2cPcs
  <2> QED BY <1>2, <2>1 DEF SlotInv, OnePerSocket, SocketOf, OnI2c
<1>4. CASE I2cStartFails \/ I2cStart
  <2>1. request'.pc = "idle" /\ slots' = slots /\ (failed' = TRUE \/ running' = TRUE)
    BY <1>4 DEF I2cStartFails, I2cStart, Goes, Idle
  <2> QED BY <1>2, <2>1 DEF SlotInv, OnePerSocket, SocketOf, OnI2c, I2cPcs
<1>5. CASE I2cEject
  <2>1. /\ request.pc = "i2c_eject" /\ request.then = "i2c_eject" /\ request'.pc = "idle"
        /\ slots' = Ejected(request.arg)
    BY <1>1, <1>5 DEF I2cEject, Goes, I2cRequest, Idle
  <2>2. request.arg \in Slots /\ OnI2c(request.arg)
    BY <2>1 DEF SlotInv, I2cPcs
  <2>3. /\ slots' \in [Slots -> Slot] /\ OnePerSocket'
        /\ ~slots'[request.arg].inserted
        /\ \A j \in Slots : j # request.arg => slots'[j] = slots[j]
    BY <2>1, <2>2, EjectedSlots
  <2>4. \A j \in Slots : ~OnI2c(j)'
    BY <2>2, <2>3 DEF SlotInv, OnePerSocket, SocketOf, OnI2c
  <2> QED BY <1>2, <2>1, <2>3, <2>4 DEF SlotInv, I2cPcs
<1> QED BY <1>3, <1>4, <1>5 DEF I2cGoesOn

LEMMA NextSlots ==
  ServerInv /\ ServerInv' /\ I2cInv /\ SlotInv /\ [DeviceNext]_deviceVars => SlotInv'
<1> SUFFICES ASSUME ServerInv, ServerInv', I2cInv, SlotInv, [DeviceNext]_deviceVars PROVE SlotInv'
  OBVIOUS
<1>1. CASE ServerStarts \/ MainGpio
  <2>1. main.pc # "running" /\ UNCHANGED <<slots, request, early, running, failed>>
    BY <1>1 DEF ServerStarts, MainGpio, SetLevel, SetFlag, i2cVars, emu
  <2> QED BY <2>1 DEF SlotInv, OnePerSocket, SocketOf, OnI2c
<1>2. CASE MainI2c
  <2>1. /\ main.pc = "i2c" /\ main'.pc = "running" /\ UNCHANGED <<slots, request, early, failed>>
    BY <1>2 DEF MainI2c
  <2> QED BY <2>1 DEF SlotInv, OnePerSocket, SocketOf, OnI2c
<1>3. CASE Requests
  BY <1>3, RequestSlots
<1>4. CASE GpioGoesOn /\ UNCHANGED i2cVars
  <2>1. GpioRequest(request) /\ UNCHANGED <<main, early, slots>>
    BY <1>4 DEF GpioGoesOn, SetLevel, SetFlag, Goes, ServerInv, Idle, I2cRequest, UploadShape, UploadPcs, LaterPcs
  <2>2. request' = Idle \/ GpioRequest(request')
    BY <1>4, <2>1, GpioRequestNext DEF GpioGoesOn, Goes
  <2>3. request.pc = "gpio" /\ request'.pc \in {"idle", "gpio"}
    BY <2>1, <2>2 DEF GpioRequest, Idle
  <2> QED BY <1>4, <2>1, <2>3, SlotsAlone DEF i2cVars, emu, I2cPcs
<1>5. CASE I2cGoesOn
  BY <1>5, HandlerSlots
<1>6. CASE (UploadGoesOn \/ UploadClient) /\ UNCHANGED i2cVars
  <2>1. UNCHANGED <<main, early>>
    BY <1>6, UploadStep
  <2>2. request.pc \in UploadPcs /\ request'.pc \in UploadPcs \cup {"idle"}
    BY <1>6, UploadStep DEF UploadShape, Idle
  <2>3. CASE slots' = slots
    BY <1>6, <2>1, <2>2, <2>3, SlotsAlone DEF i2cVars, emu, I2cPcs, UploadPcs, LaterPcs
  <2>4. CASE slots' # slots
    <3>1. Store
      BY <1>6, <2>4, ReceiveStep, CompleteStep, DecompressorStep, InflateStep, InflatedStep, StoredStep
         DEF UploadGoesOn, UploadClient, Answer
    <3>2. PICK slot \in [filled : {TRUE}, chip : Chips, inserted : {FALSE}] \cup {EmptySlot} :
            slots' = [slots EXCEPT ![request.slot] = slot]
      <4>1. \A chip \in Chips : [filled |-> TRUE, chip |-> chip, inserted |-> FALSE]
                                 \in [filled : {TRUE}, chip : Chips, inserted : {FALSE}]
        OBVIOUS
      <4> QED BY <3>1, <4>1, StoreStep
    <3>3. slot \in Slot /\ ~slot.inserted
      <4>1. CASE slot = EmptySlot
        BY <4>1 DEF Slot, EmptySlot
      <4>2. CASE slot \in [filled : {TRUE}, chip : Chips, inserted : {FALSE}]
        <5>1. slot \in Slot
          BY <4>2, Zenon DEF Slot
        <5>2. slot.inserted = FALSE
          BY <4>2
        <5> QED BY <5>1, <5>2
      <4> QED BY <4>1, <4>2
    <3>4. request.slot \in Slots
      BY <2>4, <3>2 DEF SlotInv
    <3>5. /\ slots' \in [Slots -> Slot] /\ OnePerSocket'
          /\ ~slots'[request.slot].inserted
          /\ \A j \in Slots : j # request.slot => slots'[j] = slots[j]
      BY <3>2, <3>3, <3>4, SlotChanged
    <3> QED BY <1>6, <2>1, <2>2, <3>4, <3>5 DEF SlotInv, OnI2c, i2cVars, emu, I2cPcs, UploadPcs, LaterPcs
  <2> QED BY <2>3, <2>4
<1>7. CASE Restart
  <2>1. slots' = [i \in Slots |-> EmptySlot] /\ request'.pc = "idle"
    BY <1>7 DEF Restart, Idle
  <2> QED BY <2>1 DEF SlotInv, OnePerSocket, OnI2c, EmptySlot, Slot, I2cPcs
<1>8. CASE (Tick \/ \E t \in TaskIds : TaskLoop(t)) /\ ~Waiting
  <2>1. UNCHANGED <<slots, request, main, early, running, failed>>
    BY <1>8 DEF Tick, TaskLoop, serverVars, emu
  <2> QED BY <2>1 DEF SlotInv, OnePerSocket, SocketOf, OnI2c
<1>9. CASE (Tick \/ \E t \in TaskIds : TaskLoop(t)) /\ Waiting
  <2>1. UNCHANGED <<slots, main, early, running, failed>>
    BY <1>9 DEF Tick, TaskLoop, serverVars, emu
  <2>2. request.pc = "i2c_wait" /\ request'.pc = "i2c_wait" /\ request'.then = request.then /\ request'.arg = request.arg
    BY <1>9, TickRequest DEF Waiting, TaskLoop, serverVars
  <2> QED BY <2>1, <2>2 DEF SlotInv, OnePerSocket, SocketOf, OnI2c, I2cPcs
<1>10. CASE UNCHANGED deviceVars
  BY <1>10 DEF deviceVars, serverVars, i2cVars, emu, SlotInv, OnePerSocket, SocketOf, OnI2c
<1> QED BY <1>1, <1>2, <1>3, <1>4, <1>5, <1>6, <1>7, <1>8, <1>9, <1>10
        DEF DeviceNext, MainGoesOn, HttpGoesOn, Requests

LEMMA SlotIsEmulated == I2cInv /\ SlotInv => InsertedIsEmulated
<1>1. Idle.pc = "idle"
  BY DEF Idle
<1> QED BY <1>1 DEF I2cInv, I2cTypes, Orderly, SlotInv, OnI2c, I2cPcs, InsertedIsEmulated

(* One slot per socket, what a handler is about to eject is inserted, and what is inserted on
   the I2C bus is running (rom_store.c, web_handlers.c), in every reachable state. *)
THEOREM SlotInvariance == DeviceSpec => []SlotInv
<1>1. DeviceInit => SlotInv
  BY InitSlots
<1>2. [](ServerInv /\ I2cInv) /\ SlotInv /\ [][DeviceNext]_deviceVars => []SlotInv
  BY NextSlots, PTL
<1> QED BY <1>1, <1>2, I2cInvariance, PTL DEF DeviceSpec

(* A slot that is shown inserted on the I2C bus is emulated, unless the start failed
   (web_handlers.c:500). *)
THEOREM InsertedSlotRuns == DeviceSpec => []InsertedIsEmulated
<1> QED BY I2cInvariance, SlotInvariance, SlotIsEmulated, PTL

----------------------------------------------------------------------------
(* The upload. *)

(* What the handler has allocated, by where it is. *)
Holding(r) ==
  CASE r.pc = "recv"                     -> {"buf"}
    [] r.pc \in {"output", "inflated"}   -> {"buf", "decompressed"}
    [] r.pc \in {"inflate", "full"}      -> Buffers
    [] r.pc \in {"store", "stored"}      -> {r.final}
    [] OTHER                             -> {}

Held(S) == [b \in Buffers |-> IF b \in S THEN 1 ELSE 0]

(* What it knows, once it has made the image, of the body of an honest client. *)
Made(r) ==
  r.pc \in {"inflated", "store"} /\ r.image # "none" /\ Honest(r.body)
    => r.image = "right" /\ r.size = r.body.makes

UploadInv ==
  /\ bufs = Held(Holding(request))
  /\ request.pc \in UploadPcs => request.slot \in Slots
  /\ request.pc \in {"store", "stored"} => request.final \in Buffers
  /\ Made(request)
  /\ HonestIsStored

LEMMA NoneHeld == Held({}) = NoBufs
BY DEF Held, NoBufs

LEMMA FreedHeld ==
  ASSUME NEW S, NEW old, old \subseteq S, bufs = Held(S), bufs' = Freed(old)
  PROVE  bufs' = Held(S \ old)
BY DEF Held, Freed, Buffers

LEMMA AllocatedHeld ==
  ASSUME NEW S, NEW new, new \notin S, bufs = Held(S), bufs' = Allocated(new)
  PROVE  bufs' = Held(S \cup {new})
BY DEF Held, Allocated, Buffers

LEMMA InitUpload == DeviceInit => UploadInv
BY NoneHeld DEF DeviceInit, UploadInv, HonestIsStored, Made, Holding, Idle, UploadPcs, LaterPcs

(* An upload that is answered leaves nothing. *)
LEMMA Answered ==
  ASSUME UploadInv, Answer(Holding(request))
  PROVE  UploadInv'
<1>1. request' = Idle /\ bufs' = Held({})
  BY FreedHeld DEF Answer, Goes, UploadInv
<1> QED BY <1>1 DEF UploadInv, HonestIsStored, Made, Holding, Idle, UploadPcs, LaterPcs

LEMMA HandlerUpload ==
  ASSUME ServerInv, slots \in [Slots -> Slot], UploadInv, UploadGoesOn \/ UploadClient
  PROVE  UploadInv'
<1>0. bufs = Held(Holding(request))
  BY DEF UploadInv
<1>1. CASE Received \/ RecvTimeout \/ RecvError
  <2>1. request.pc = "recv" /\ Holding(request) = {"buf"}
    BY <1>1, ReceiveStep DEF Holding
  <2>2. CASE Answer({"buf"})
    BY <2>1, <2>2, Answered
  <2>3. CASE ~Answer({"buf"})
    <3>1. request'.pc = "recv" /\ request'.slot = request.slot /\ bufs' = bufs
      BY <1>1, <2>3, ReceiveStep
    <3>2. Holding(request') = {"buf"}
      BY <3>1 DEF Holding
    <3> QED BY <1>0, <2>1, <3>1, <3>2 DEF UploadInv, Made, HonestIsStored, UploadPcs, LaterPcs
  <2> QED BY <2>2, <2>3
<1>2. CASE TakeRaw \/ \E body \in Streams : Deflated(body)
  <2>1. request.pc = "recv" /\ Holding(request) = {"buf"} /\ request.slot \in Slots
    BY <1>2, CompleteStep DEF Holding, UploadInv, UploadPcs, LaterPcs
  <2>2. CASE Answer({"buf"})
    BY <2>1, <2>2, Answered
  <2>3. CASE request' = Holds("store", Raw(request.got), "right") /\ UNCHANGED bufs
    <3>1. /\ request'.pc = "store" /\ request'.slot = request.slot /\ request'.final = "buf"
          /\ request'.body = Raw(request.got) /\ request'.size = request.got /\ request'.image = "right"
      BY <2>3 DEF Holds
    <3>2. Holding(request') = {"buf"}
      BY <3>1 DEF Holding
    <3>3. Raw(request.got).makes = request.got
      BY DEF Raw
    <3>4. Made(request') /\ HonestIsStored'
      BY <3>1, <3>3 DEF Made, HonestIsStored
    <3> QED BY <1>0, <2>1, <2>3, <3>1, <3>2, <3>4 DEF UploadInv, Buffers
  <2>4. CASE (\E body \in Streams : request' = Holds("output", body, "none")) /\ bufs' = Allocated("decompressed")
    <3>1. request'.pc = "output" /\ request'.slot = request.slot
      BY <2>4 DEF Holds
    <3>2. Holding(request') = {"buf", "decompressed"}
      BY <3>1 DEF Holding
    <3>3. bufs' = Held({"buf"} \cup {"decompressed"})
      BY <1>0, <2>1, <2>4, AllocatedHeld
    <3>4. {"buf"} \cup {"decompressed"} = {"buf", "decompressed"}
      OBVIOUS
    <3> QED BY <2>1, <3>1, <3>2, <3>3, <3>4 DEF UploadInv, Made, HonestIsStored
  <2> QED BY <1>2, <2>2, <2>3, <2>4, CompleteStep
<1>3. CASE Decompressor
  <2>1. request.pc = "output" /\ Holding(request) = {"buf", "decompressed"} /\ request.slot \in Slots
    BY <1>3, DecompressorStep DEF Holding, UploadInv, UploadPcs, LaterPcs
  <2>2. CASE Answer({"decompressed", "buf"})
    <3>1. {"decompressed", "buf"} = Holding(request)
      BY <2>1
    <3> QED BY <2>2, <3>1, Answered
  <2>3. CASE /\ Becomes("inflate", request.final, request.size, request.image)
             /\ bufs' = Allocated("decomp")
    <3>1. request'.pc = "inflate" /\ request'.slot = request.slot
      BY <2>3 DEF Becomes
    <3>2. Holding(request') = Buffers
      BY <3>1 DEF Holding
    <3>3. bufs' = Held({"buf", "decompressed"} \cup {"decomp"})
      BY <1>0, <2>1, <2>3, AllocatedHeld
    <3>4. {"buf", "decompressed"} \cup {"decomp"} = Buffers
      BY DEF Buffers
    <3> QED BY <2>1, <3>1, <3>2, <3>3, <3>4 DEF UploadInv, Made, HonestIsStored
  <2> QED BY <1>3, <2>2, <2>3, DecompressorStep
<1>4. CASE Inflate
  <2>1. request.pc = "inflate" /\ Holding(request) = Buffers /\ request.slot \in Slots
    BY <1>4, InflateStep DEF Holding, UploadInv, UploadPcs, LaterPcs
  <2>2. CASE Becomes("full", request.final, request.size, request.image) /\ UNCHANGED bufs
    <3>1. request'.pc = "full" /\ request'.slot = request.slot
      BY <2>2 DEF Becomes
    <3>2. Holding(request') = Buffers
      BY <3>1 DEF Holding
    <3> QED BY <1>0, <2>1, <2>2, <3>1, <3>2 DEF UploadInv, Made, HonestIsStored
  <2>3. ASSUME NEW image, NEW size, Becomes("inflated", request.final, size, image),
               image # "none" /\ Honest(request.body) => image = "right" /\ size = request.body.makes,
               bufs' = Freed({"decomp"})
        PROVE  UploadInv'
    <3>1. /\ request'.pc = "inflated" /\ request'.slot = request.slot /\ request'.body = request.body
          /\ request'.image = image /\ request'.size = size
      BY <2>3 DEF Becomes
    <3>2. Holding(request') = {"buf", "decompressed"}
      BY <3>1 DEF Holding
    <3>3. bufs' = Held(Buffers \ {"decomp"})
      BY <1>0, <2>1, <2>3, FreedHeld DEF Buffers
    <3>4. Buffers \ {"decomp"} = {"buf", "decompressed"}
      BY DEF Buffers
    <3>5. Made(request')
      BY <2>3, <3>1 DEF Made
    <3> QED BY <2>1, <3>1, <3>2, <3>3, <3>4, <3>5 DEF UploadInv, HonestIsStored
  <2> QED BY <1>4, <2>2, <2>3, InflateStep
<1>5. CASE Inflated
  <2>1. request.pc = "inflated" /\ Holding(request) = {"buf", "decompressed"} /\ request.slot \in Slots
    BY <1>5, InflatedStep DEF Holding, UploadInv, UploadPcs, LaterPcs
  <2>2. CASE Answer({"decompressed", "buf"})
    <3>1. {"decompressed", "buf"} = Holding(request)
      BY <2>1
    <3> QED BY <2>2, <3>1, Answered
  <2>3. CASE /\ request.image # "none"
             /\ Becomes("store", "decompressed", request.size, request.image)
             /\ bufs' = Freed({"buf"})
    <3>1. /\ request'.pc = "store" /\ request'.slot = request.slot /\ request'.body = request.body
          /\ request'.final = "decompressed" /\ request'.image = request.image /\ request'.size = request.size
      BY <2>3 DEF Becomes
    <3>2. Holding(request') = {"decompressed"}
      BY <3>1 DEF Holding
    <3>3. bufs' = Held({"buf", "decompressed"} \ {"buf"})
      BY <1>0, <2>1, <2>3, FreedHeld
    <3>4. {"buf", "decompressed"} \ {"buf"} = {"decompressed"}
      OBVIOUS
    <3>5. Made(request')
      BY <2>1, <3>1 DEF Made, UploadInv
    <3> QED BY <2>1, <3>1, <3>2, <3>3, <3>4, <3>5 DEF UploadInv, HonestIsStored, Buffers
  <2> QED BY <1>5, <2>2, <2>3, InflatedStep
<1>6. CASE Store
  <2>1. /\ request.pc = "store" /\ Holding(request) = {request.final} /\ request.slot \in Slots
        /\ request.final \in Buffers /\ bufs' = bufs
    BY <1>6, StoreStep DEF Holding, UploadInv, UploadPcs, LaterPcs
  <2>0. PICK size, image :
          /\ Becomes("stored", request.final, size, image)
          /\ \/ image = "none"
             \/ \E chip \in Chips :
                  /\ size = Taken(chip, request.size) /\ image = request.image
                  /\ slots' = [slots EXCEPT ![request.slot] = [filled |-> TRUE, chip |-> chip, inserted |-> FALSE]]
    BY <1>6, StoreStep, Zenon
  <2>2. /\ request'.pc = "stored" /\ request'.slot = request.slot /\ request'.final = request.final
        /\ request'.body = request.body /\ request'.size = size /\ request'.image = image
    BY <2>0 DEF Becomes
  <2>3. Holding(request') = {request.final}
    BY <2>2 DEF Holding
  <2>4. HonestIsStored'
    <3>1. CASE request'.image = "none"
      BY <3>1 DEF HonestIsStored
    <3>2. CASE request'.image # "none"
      <4>1. PICK chip \in Chips :
              /\ size = Taken(chip, request.size) /\ image = request.image
              /\ slots' = [slots EXCEPT ![request.slot] = [filled |-> TRUE, chip |-> chip, inserted |-> FALSE]]
        BY <2>0, <2>2, <3>2
      <4>2. request'.size = Taken(chip, request.size) /\ request'.image = request.image
        BY <2>2, <4>1
      <4>3. slots'[request.slot] = [filled |-> TRUE, chip |-> chip, inserted |-> FALSE]
        BY <2>1, <4>1
      <4>4. slots'[request'.slot].filled /\ slots'[request'.slot].chip = chip
        BY <2>2, <4>3
      <4>5. Honest(request'.body) => request.image = "right" /\ request.size = request.body.makes
        BY <2>1, <2>2, <3>2, <4>2 DEF UploadInv, Made
      <4>6. Honest(request'.body) => /\ slots'[request'.slot].filled /\ request'.image = "right"
                                    /\ request'.size = Taken(slots'[request'.slot].chip, request'.body.makes)
        BY <2>2, <4>2, <4>4, <4>5
      <4> QED BY <4>6 DEF HonestIsStored, Honest, Taken
    <3> QED BY <3>1, <3>2
  <2> QED BY <1>0, <2>1, <2>2, <2>3, <2>4 DEF UploadInv, Made
<1>7. CASE Stored
  <2>1. request.pc = "stored" /\ Answer({request.final})
    BY <1>7, StoredStep
  <2>2. Holding(request) = {request.final}
    BY <2>1 DEF Holding
  <2> QED BY <2>1, <2>2, Answered
<1> QED BY <1>1, <1>2, <1>3, <1>4, <1>5, <1>6, <1>7 DEF UploadGoesOn, UploadClient

(* A step that is not the upload's. *)
LEMMA UploadAlone ==
  ASSUME UploadInv, bufs' = bufs, request.pc \notin UploadPcs, request'.pc \notin UploadPcs
  PROVE  UploadInv'
<1>1. Holding(request) = {} /\ Holding(request') = {}
  BY DEF Holding, UploadPcs, LaterPcs
<1> QED BY <1>1 DEF UploadInv, Made, HonestIsStored, UploadPcs, LaterPcs

LEMMA UploadWaits ==
  ASSUME UploadInv, UNCHANGED <<bufs, request, slots>>
  PROVE  UploadInv'
BY DEF UploadInv, Made, HonestIsStored, Holding, Honest

LEMMA NextUpload ==
  ASSUME ServerInv, ServerInv', slots \in [Slots -> Slot], UploadInv, [DeviceNext]_deviceVars
  PROVE  UploadInv'
<1>1. CASE MainGoesOn \/ UNCHANGED deviceVars
  BY <1>1, UploadWaits DEF MainGoesOn, ServerStarts, MainGpio, MainI2c, deviceVars, serverVars
<1>2. CASE Requests
  <2>1. request.pc = "idle"
    BY <1>2 DEF Requests, Idle
  <2>2. CASE \E i \in Slots, total \in 1 .. MaxBody : UploadRequest(i, total)
    <3>1. request'.pc = "recv" /\ request'.slot \in Slots /\ bufs' = Allocated("buf")
      BY <2>2 DEF UploadRequest, Accept
    <3>2. Holding(request) = {} /\ Holding(request') = {} \cup {"buf"}
      BY <2>1, <3>1 DEF Holding
    <3>3. bufs = Held({})
      BY <3>2 DEF UploadInv
    <3>4. bufs' = Held({} \cup {"buf"})
      BY <3>1, <3>3, AllocatedHeld
    <3> QED BY <3>1, <3>2, <3>4 DEF UploadInv, Made, HonestIsStored
  <2>3. CASE ~ \E i \in Slots, total \in 1 .. MaxBody : UploadRequest(i, total)
    <3>1. request'.pc \notin UploadPcs /\ bufs' = bufs
      BY <1>2, <2>3 DEF Requests, Accept, GpioAction, InsertSlot, EjectSlot, ChipSet, DeleteSlot,
                        Perform, StopThen, Idle, UploadPcs, LaterPcs
    <3> QED BY <2>1, <3>1, UploadAlone DEF UploadPcs, LaterPcs
  <2> QED BY <2>2, <2>3
<1>3. CASE GpioGoesOn /\ UNCHANGED bufs
  <2>1. GpioRequest(request)
    BY <1>3 DEF GpioGoesOn, SetLevel, SetFlag, ServerInv, Idle, I2cRequest, UploadShape, UploadPcs, LaterPcs
  <2>2. request' = Idle \/ GpioRequest(request')
    BY <1>3, <2>1, GpioRequestNext DEF GpioGoesOn, Goes
  <2>3. request.pc = "gpio" /\ request'.pc \in {"idle", "gpio"}
    BY <2>1, <2>2 DEF GpioRequest, Idle
  <2> QED BY <1>3, <2>3, UploadAlone DEF UploadPcs, LaterPcs
<1>4. CASE I2cGoesOn /\ UNCHANGED bufs
  <2>1. request.pc \notin UploadPcs /\ request'.pc \notin UploadPcs
    BY <1>4, I2cStep DEF I2cRequest, Idle, UploadPcs, LaterPcs
  <2> QED BY <1>4, <2>1, UploadAlone
<1>5. CASE UploadGoesOn \/ UploadClient
  BY <1>5, HandlerUpload
<1>6. CASE Restart
  <2>1. request'.pc = "idle" /\ bufs' = Held({})
    BY <1>6, NoneHeld DEF Restart, Idle
  <2>2. Holding(request') = {}
    BY <2>1 DEF Holding
  <2> QED BY <2>1, <2>2 DEF UploadInv, Made, HonestIsStored, UploadPcs, LaterPcs
<1>7. CASE (Tick \/ \E t \in TaskIds : TaskLoop(t)) /\ UNCHANGED bufs
  <2>1. \/ UNCHANGED <<request, slots>>
        \/ request.pc = "i2c_wait" /\ request'.pc = "i2c_wait"
    BY <1>7, TickRequest DEF Tick, TaskLoop, serverVars, Waiting
  <2> QED BY <1>7, <2>1, UploadAlone, UploadWaits DEF UploadPcs, LaterPcs
<1> QED BY <1>1, <1>2, <1>3, <1>4, <1>5, <1>6, <1>7 DEF DeviceNext, HttpGoesOn

LEMMA UploadDone == UploadInv => FreedOnce /\ HonestIsStored
<1> SUFFICES ASSUME UploadInv PROVE FreedOnce
  BY DEF UploadInv
<1>1. request = Idle => bufs = NoBufs
  BY NoneHeld DEF UploadInv, Holding, Idle
<1>2. \A b \in Buffers : bufs[b] \in {0, 1}
  BY DEF UploadInv, Held
<1>3. BuffersInUse \subseteq Holding(request) /\ BuffersInUse \subseteq Buffers
  BY DEF BuffersInUse, Holding, Buffers, UploadInv
<1> QED BY <1>1, <1>2, <1>3 DEF FreedOnce, UploadInv, Held

(* By each of its places the handler has allocated what it will free there, once, and what
   it knows of an honest body is true (web_handlers.c:265-413), in every reachable state. *)
THEOREM UploadInvariance == DeviceSpec => []UploadInv
<1>1. SlotInv => slots \in [Slots -> Slot]
  BY DEF SlotInv
<1>2. [](ServerInv) /\ []SlotInv /\ UploadInv /\ [][DeviceNext]_deviceVars => []UploadInv
  BY <1>1, NextUpload, PTL
<1> QED BY <1>2, InitUpload, ServerInvariance, SlotInvariance, PTL DEF DeviceSpec

(* Every exit of the upload has freed what there was, and that once, for bodies and streams
   of any size (web_handlers.c:265-413). *)
THEOREM UploadFrees == DeviceSpec => []FreedOnce
<1> QED BY UploadInvariance, UploadDone, PTL

(* What an honest client has sent is in the slot, as much as the chip has room for, when the
   upload is answered with success (web_handlers.c:413, compressed_store.c:72-91). *)
THEOREM HonestUpload == DeviceSpec => []HonestIsStored
<1> QED BY UploadInvariance, UploadDone, PTL
=============================================================================
