----------------------------- MODULE WifiProofs -----------------------------
(***************************************************************************)
(* WifiManager for any number of retries, credentials and waiting events.  *)
(*                                                                         *)
(* The handler takes an event long after the driver posted it, so what the *)
(* caller finds at the end of a call depends on what was waiting when it   *)
(* stopped the station before.  The invariant therefore says, for every    *)
(* call the caller may be at, what the driver does and which answers can   *)
(* still be on their way.                                                  *)
(***************************************************************************)
EXTENDS WifiManager, TLAPS

GotIpWaits == \E n \in DOMAIN events : events[n] = "got_ip"

(* Where the radio is off, between the stop of one mode and the start of the next. *)
StoppedPcs == {"boot", "reset", "start", "ap_flag", "ap_start"}

(* The counter is tested before it is loaded, and nobody else counts up. *)
CallInv ==
  /\ handler.pc = "load" => s_retry_count < MaxRetry
  /\ caller.pc \in {"stop_station", "reset", "start"} => caller.who \in Credentials

ModeInv ==
  /\ driver.mode # "sta" => driver.radio \in {"stopped", "started"}
  /\ caller.pc \in StoppedPcs => driver.radio = "stopped"
  /\ caller.pc \in {"boot", "wait", "start"} => ~s_ap_mode
  /\ caller.pc \in {"ap_start", "ap_address"} => s_ap_mode
  /\ caller.pc = "wait" => driver.mode = "sta"
  /\ caller.pc = "ap_address" => driver.mode = "ap" /\ driver.radio = "started"
  /\ ModeMatches

(* An answer that is not left over is of the station that was started last. *)
StationInv ==
  /\ driver.radio \in {"linked", "up"} => driver.config = Network
  /\ leftover = {} /\ ("connected" \in bits \/ GotIpWaits) => driver.config = Network
  /\ caller.pc \in StoppedPcs /\ leftover = {} => "connected" \notin bits /\ ~GotIpWaits
  /\ StationWasConnected

(* Without an address left over, none can come once the station is stopped. *)
NoStation ==
  \/ caller.pc \in StoppedPcs \cup {"ap_address"}
  \/ caller.pc = "idle" /\ s_ap_mode

AddressInv ==
  /\ NoStation /\ "got_ip" \notin leftover => ~GotIpWaits
  /\ caller.pc = "idle" /\ s_ap_mode /\ "got_ip" \notin leftover => s_ip_str = "access_point"

WInv == WifiTypeOK /\ CallInv /\ ModeInv /\ StationInv /\ AddressInv

----------------------------------------------------------------------------
(* The queue of events. *)

LEMMA PostAdds ==
  ASSUME WifiTypeOK, NEW event \in Events, Post(event)
  PROVE  /\ events' \in Seq(Events) /\ Len(events') <= MaxEvents
         /\ GotIpWaits' <=> GotIpWaits \/ event = "got_ip"
<1>1. /\ events \in Seq(Events) /\ Len(events) < MaxEvents /\ MaxEvents \in Nat
      /\ events' = Append(events, event)
  BY WifiAssumption DEF WifiTypeOK, Post
<1>2. /\ events' \in Seq(Events) /\ Len(events') = Len(events) + 1
      /\ events'[Len(events) + 1] = event
      /\ \A n \in 1 .. Len(events) : events'[n] = events[n]
  BY <1>1
<1>3. DOMAIN events = 1 .. Len(events) /\ DOMAIN events' = 1 .. Len(events) + 1
        /\ Len(events) \in Nat
  BY <1>1, <1>2
<1>4. GotIpWaits' <=> \E n \in 1 .. Len(events) + 1 : events'[n] = "got_ip"
  BY <1>3 DEF GotIpWaits
<1>5. GotIpWaits <=> \E n \in 1 .. Len(events) : events[n] = "got_ip"
  BY <1>3 DEF GotIpWaits
<1>6. \A n \in 1 .. Len(events) + 1 : n \in 1 .. Len(events) \/ n = Len(events) + 1
  BY <1>3
<1>7. \A n \in 1 .. Len(events) : n \in 1 .. Len(events) + 1
  BY <1>3
<1>8. Len(events) + 1 \in 1 .. Len(events) + 1
  BY <1>3
<1>9. GotIpWaits' <=> GotIpWaits \/ event = "got_ip"
  BY <1>2, <1>4, <1>5, <1>6, <1>7, <1>8
<1> QED BY <1>1, <1>2, <1>3, <1>9

LEMMA TakeRemoves ==
  ASSUME WifiTypeOK, NEW event, Take(event)
  PROVE  /\ events' \in Seq(Events) /\ Len(events') <= MaxEvents
         /\ GotIpWaits' => GotIpWaits
         /\ event = "got_ip" => GotIpWaits
         /\ handler.pc = "ready"
         /\ UNCHANGED <<stored, caller, reply, leftover>>
<1>1. /\ events \in Seq(Events) /\ events # <<>> /\ Len(events) <= MaxEvents
      /\ MaxEvents \in Nat
      /\ Head(events) = event /\ events' = Tail(events)
  BY WifiAssumption DEF WifiTypeOK, Take
<1>2. /\ events' \in Seq(Events) /\ Len(events') = Len(events) - 1
      /\ \A n \in 1 .. Len(events) - 1 : events'[n] = events[n + 1]
      /\ events[1] = event /\ Len(events) \in Nat \ {0}
  BY <1>1
<1>3. DOMAIN events = 1 .. Len(events) /\ DOMAIN events' = 1 .. Len(events) - 1
  BY <1>1, <1>2
<1>4. \A n \in 1 .. Len(events) - 1 : n + 1 \in 1 .. Len(events)
  BY <1>2
<1>5. 1 \in 1 .. Len(events)
  BY <1>2
<1>6. GotIpWaits' => GotIpWaits
  BY <1>2, <1>3, <1>4 DEF GotIpWaits
<1>7. event = "got_ip" => GotIpWaits
  BY <1>2, <1>3, <1>5 DEF GotIpWaits
<1> QED BY <1>1, <1>2, <1>6, <1>7 DEF Take

(* An action of the driver, or of the handler, that leaves the caller alone: what it
   has to keep for the invariant to hold. *)
LEMMA WaitingKeepsQueue ==
  ASSUME WifiTypeOK, UNCHANGED events
  PROVE  events' \in Seq(Events) /\ Len(events') <= MaxEvents /\ (GotIpWaits' <=> GotIpWaits)
BY DEF WifiTypeOK, GotIpWaits

----------------------------------------------------------------------------
(* The power comes back. *)

LEMMA InitWInv == WifiInit => WInv
<1> SUFFICES ASSUME WifiInit PROVE WInv
  OBVIOUS
<1>1. ~GotIpWaits
  BY DEF WifiInit, GotIpWaits
<1>2. WifiTypeOK
  <2>1. /\ caller \in [who : Credentials \cup {"init"}, pc : Pcs]
        /\ handler \in [pc : {"ready", "load", "store"}, count : 0 .. MaxRetry]
        /\ driver \in [mode : {"none", "sta", "ap"}, radio : Radio,
                      config : Credentials \cup {NoCredentials}]
    BY WifiAssumption DEF WifiInit, At, Pcs, Ready, Off, Radio
  <2>2. events \in Seq(Events) /\ Len(events) <= MaxEvents
    BY WifiAssumption DEF WifiInit
  <2>3. /\ bits \subseteq Bits /\ s_retry_count \in 0 .. MaxRetry
        /\ s_ip_str \in {"0.0.0.0", "station", "access_point"}
        /\ stored \in Credentials \cup {NoCredentials}
        /\ reply \in {"none", "ok", "failed", "bad_request"}
        /\ leftover \subseteq {"bit", "got_ip"}
    BY WifiAssumption DEF WifiInit
  <2>4. s_ap_mode \in BOOLEAN
    BY DEF WifiInit
  <2> QED BY <2>1, <2>2, <2>3, <2>4 DEF WifiTypeOK
<1>3. CallInv
  BY DEF WifiInit, CallInv, At, Ready
<1>4. ModeInv
  BY DEF WifiInit, ModeInv, ModeMatches, At, Off, StoppedPcs
<1>5. StationInv /\ AddressInv
  BY <1>1 DEF WifiInit, StationInv, StationWasConnected, AddressInv, NoStation, At, Off
<1> QED BY <1>2, <1>3, <1>4, <1>5 DEF WInv

LEMMA PowerCycleStep == WInv /\ PowerCycle => WInv'
<1> SUFFICES ASSUME WInv, PowerCycle PROVE WInv'
  OBVIOUS
<1>1. ~GotIpWaits'
  BY DEF PowerCycle, GotIpWaits
<1>2. WifiTypeOK'
  <2>1. /\ caller' \in [who : Credentials \cup {"init"}, pc : Pcs]
        /\ handler' \in [pc : {"ready", "load", "store"}, count : 0 .. MaxRetry]
        /\ driver' \in [mode : {"none", "sta", "ap"}, radio : Radio,
                       config : Credentials \cup {NoCredentials}]
    BY WifiAssumption DEF PowerCycle, At, Pcs, Ready, Off, Radio
  <2>2. events' \in Seq(Events) /\ Len(events') <= MaxEvents
    BY WifiAssumption DEF PowerCycle
  <2>3. /\ bits' \subseteq Bits /\ s_retry_count' \in 0 .. MaxRetry
        /\ s_ip_str' \in {"0.0.0.0", "station", "access_point"}
        /\ stored' \in Credentials \cup {NoCredentials}
        /\ reply' \in {"none", "ok", "failed", "bad_request"}
        /\ leftover' \subseteq {"bit", "got_ip"}
    BY WifiAssumption DEF WInv, WifiTypeOK, PowerCycle
  <2>4. s_ap_mode' \in BOOLEAN
    BY DEF PowerCycle
  <2> QED BY <2>1, <2>2, <2>3, <2>4 DEF WifiTypeOK
<1>3. CallInv'
  BY DEF PowerCycle, CallInv, At, Ready
<1>4. ModeInv'
  BY DEF PowerCycle, ModeInv, ModeMatches, At, Off, StoppedPcs
<1>5. StationInv' /\ AddressInv'
  BY <1>1 DEF PowerCycle, StationInv, StationWasConnected, AddressInv, NoStation, At, Off
<1> QED BY <1>2, <1>3, <1>4, <1>5 DEF WInv

----------------------------------------------------------------------------
(* The driver. *)

LEMMA DriverStep == WInv /\ Driver => WInv'
<1> SUFFICES ASSUME WInv, Driver PROVE WInv'
  OBVIOUS
<1>1. WifiTypeOK
  BY DEF WInv
<1>2. /\ UNCHANGED <<task, stored, caller, reply, handler, leftover>>
      /\ driver.radio \in {"connecting", "linked", "up"}
      /\ \E r \in Radio : driver' = [driver EXCEPT !.radio = r]
  BY DEF Driver, Link, LinkFails, Dhcp, LinkLost, DriverGoes, Radio
<1>3. /\ driver'.mode = driver.mode /\ driver'.config = driver.config
      /\ driver' \in [mode : {"none", "sta", "ap"}, radio : Radio,
                      config : Credentials \cup {NoCredentials}]
  BY <1>1, <1>2 DEF WifiTypeOK
<1>4. driver'.radio \in {"linked", "up"} => driver.config = Network
  BY <1>1, <1>3 DEF Driver, Link, LinkFails, Dhcp, LinkLost, DriverGoes, WInv, StationInv,
                    WifiTypeOK
<1>5. /\ events' \in Seq(Events) /\ Len(events') <= MaxEvents
      /\ GotIpWaits' => GotIpWaits \/ driver.radio = "linked"
  BY <1>1, PostAdds, WaitingKeepsQueue
     DEF Driver, Link, LinkFails, Dhcp, LinkLost, DriverGoes, Events
<1>6. WifiTypeOK'
  BY <1>1, <1>2, <1>3, <1>5 DEF WifiTypeOK, task
<1>7. CallInv'
  BY <1>2 DEF WInv, CallInv, task
<1>8. driver.mode = "sta" /\ caller.pc \notin StoppedPcs \cup {"ap_address"}
        /\ ~(caller.pc = "idle" /\ s_ap_mode)
  BY <1>1, <1>2 DEF WInv, ModeInv, ModeMatches, WifiTypeOK
<1>9. ModeInv'
  BY <1>2, <1>3, <1>8 DEF WInv, ModeInv, ModeMatches, task
<1>10. StationInv'
  BY <1>2, <1>3, <1>4, <1>5, <1>8 DEF WInv, StationInv, StationWasConnected, task
<1>11. AddressInv'
  BY <1>2, <1>8 DEF AddressInv, NoStation, task
<1> QED BY <1>6, <1>7, <1>9, <1>10, <1>11 DEF WInv

----------------------------------------------------------------------------
(* The handler. *)

(* esp_wifi_connect changes the state of a station only. *)
LEMMA ConnectFacts ==
  ASSUME WifiTypeOK
  PROVE  /\ Connect(driver) \in [mode : {"none", "sta", "ap"}, radio : Radio,
                                 config : Credentials \cup {NoCredentials}]
         /\ Connect(driver).mode = driver.mode /\ Connect(driver).config = driver.config
         /\ \/ Connect(driver).radio = driver.radio
            \/ driver.mode = "sta" /\ driver.radio = "started"
                 /\ Connect(driver).radio = "connecting"
BY DEF WifiTypeOK, Connect, Radio

LEMMA StartedStep == WInv /\ HandleStart => WInv'
<1> SUFFICES ASSUME WInv, HandleStart PROVE WInv'
  OBVIOUS
<1>1. WifiTypeOK /\ Take("start") /\ driver' = Connect(driver) /\ UNCHANGED <<task, handler>>
  BY DEF WInv, HandleStart
<1>2. /\ events' \in Seq(Events) /\ Len(events') <= MaxEvents /\ (GotIpWaits' => GotIpWaits)
      /\ UNCHANGED <<stored, caller, reply, leftover>>
  BY <1>1, TakeRemoves
<1>3. WifiTypeOK' /\ CallInv'
  BY <1>1, <1>2, ConnectFacts DEF WInv, WifiTypeOK, CallInv, task
<1>4. ModeInv'
  BY <1>1, <1>2, ConnectFacts DEF WInv, ModeInv, ModeMatches, task
<1>5. StationInv' /\ AddressInv'
  BY <1>1, <1>2, ConnectFacts DEF WInv, StationInv, StationWasConnected, AddressInv, NoStation, task
<1> QED BY <1>3, <1>4, <1>5 DEF WInv

LEMMA DisconnectedStep == WInv /\ HandleDisconnected => WInv'
<1> SUFFICES ASSUME WInv, HandleDisconnected PROVE WInv'
  OBVIOUS
<1>1. WifiTypeOK /\ Take("disconnected") /\ UNCHANGED <<s_retry_count, s_ap_mode, s_ip_str>>
  BY DEF WInv, HandleDisconnected
<1>2. /\ events' \in Seq(Events) /\ Len(events') <= MaxEvents /\ (GotIpWaits' => GotIpWaits)
      /\ UNCHANGED <<stored, caller, reply, leftover>>
  BY <1>1, TakeRemoves
<1>3. CASE /\ s_retry_count < MaxRetry /\ driver' = Connect(driver)
           /\ handler' = [Ready EXCEPT !.pc = "load"] /\ UNCHANGED bits
  <2>1. handler' = [pc |-> "load", count |-> 0]
    BY <1>3 DEF Ready
  <2>2. WifiTypeOK'
    <3>1. handler' \in [pc : {"ready", "load", "store"}, count : 0 .. MaxRetry]
      BY <2>1, WifiAssumption
    <3> QED BY <1>1, <1>2, <1>3, <3>1, ConnectFacts DEF WifiTypeOK
  <2>5. CallInv'
    BY <1>1, <1>2, <1>3 DEF WInv, CallInv
  <2>3. ModeInv'
    BY <1>1, <1>2, <1>3, ConnectFacts DEF WInv, ModeInv, ModeMatches
  <2>4. StationInv' /\ AddressInv'
    BY <1>1, <1>2, <1>3, ConnectFacts DEF WInv, StationInv, StationWasConnected, AddressInv, NoStation
  <2> QED BY <2>2, <2>3, <2>4, <2>5 DEF WInv
<1>4. CASE bits' = bits \cup {"fail"} /\ UNCHANGED <<handler, driver>>
  <2>1. WifiTypeOK' /\ CallInv'
    BY <1>1, <1>2, <1>4 DEF WInv, WifiTypeOK, CallInv, Bits
  <2>2. ModeInv'
    BY <1>1, <1>2, <1>4 DEF WInv, ModeInv, ModeMatches
  <2>3. StationInv' /\ AddressInv'
    BY <1>1, <1>2, <1>4 DEF WInv, StationInv, StationWasConnected, AddressInv, NoStation
  <2> QED BY <2>1, <2>2, <2>3 DEF WInv
<1> QED BY <1>3, <1>4 DEF HandleDisconnected

(* s_retry_count++, around which set_sta may have put the counter back to 0. *)
LEMMA RetryStep == WInv /\ (LoadRetry \/ StoreRetry) => WInv'
<1> SUFFICES ASSUME WInv, LoadRetry \/ StoreRetry PROVE WInv'
  OBVIOUS
<1>1. WifiTypeOK /\ UNCHANGED <<bits, s_ap_mode, s_ip_str, stored, caller, reply, events, driver, leftover>>
  BY DEF WInv, LoadRetry, StoreRetry, task
<1>2. /\ s_retry_count' \in 0 .. MaxRetry /\ CallInv'
      /\ handler' \in [pc : {"ready", "load", "store"}, count : 0 .. MaxRetry]
  <2>1. CASE LoadRetry
    <3>1. s_retry_count < MaxRetry /\ s_retry_count \in 0 .. MaxRetry /\ MaxRetry \in Nat
      BY <1>1, <2>1, WifiAssumption DEF WInv, CallInv, LoadRetry, WifiTypeOK
    <3>2. s_retry_count + 1 \in 0 .. MaxRetry
      BY <3>1
    <3> QED BY <1>1, <2>1, <3>1, <3>2 DEF WInv, CallInv, LoadRetry, task
  <2>2. CASE StoreRetry
    BY <1>1, <2>2, WifiAssumption DEF WInv, CallInv, StoreRetry, WifiTypeOK, Ready
  <2> QED BY <2>1, <2>2
<1>3. GotIpWaits' <=> GotIpWaits
  BY <1>1 DEF GotIpWaits
<1>4. WifiTypeOK'
  BY <1>1, <1>2 DEF WifiTypeOK
<1>5. ModeInv' /\ StationInv' /\ AddressInv'
  BY <1>1, <1>3 DEF WInv, ModeInv, ModeMatches, StationInv, StationWasConnected, AddressInv, NoStation
<1> QED BY <1>2, <1>4, <1>5 DEF WInv

(* An address: of the station that runs, or of one that was stopped meanwhile. *)
LEMMA GotIpStep == WInv /\ HandleGotIp => WInv'
<1> SUFFICES ASSUME WInv, HandleGotIp PROVE WInv'
  OBVIOUS
<1>1. /\ WifiTypeOK /\ Take("got_ip") /\ UNCHANGED <<s_ap_mode, handler, driver>>
      /\ s_ip_str' = "station" /\ s_retry_count' = 0 /\ bits' = bits \cup {"connected"}
  BY DEF WInv, HandleGotIp
<1>2. /\ events' \in Seq(Events) /\ Len(events') <= MaxEvents /\ (GotIpWaits' => GotIpWaits)
      /\ GotIpWaits /\ handler.pc = "ready"
      /\ UNCHANGED <<stored, caller, reply, leftover>>
  BY <1>1, TakeRemoves
<1>3. WifiTypeOK' /\ CallInv'
  BY <1>1, <1>2, WifiAssumption DEF WInv, WifiTypeOK, CallInv, Bits
<1>4. ModeInv'
  BY <1>1, <1>2 DEF WInv, ModeInv, ModeMatches
<1>5. StationInv'
  BY <1>1, <1>2 DEF WInv, StationInv, StationWasConnected
<1>6. AddressInv'
  BY <1>1, <1>2 DEF WInv, AddressInv, NoStation
<1> QED BY <1>3, <1>4, <1>5, <1>6 DEF WInv

----------------------------------------------------------------------------
(* The caller. *)

(* Starting a station, from where its radio is off. *)
LEMMA StartFacts ==
  ASSUME WInv, NEW config \in Credentials, StartStation(config)
  PROVE  /\ driver' = [mode |-> "sta", radio |-> "started", config |-> config]
         /\ driver' \in [mode : {"none", "sta", "ap"}, radio : Radio,
                         config : Credentials \cup {NoCredentials}]
         /\ events' \in Seq(Events) /\ Len(events') <= MaxEvents /\ (GotIpWaits' <=> GotIpWaits)
<1>1. events' \in Seq(Events) /\ Len(events') <= MaxEvents /\ (GotIpWaits' <=> GotIpWaits)
  BY PostAdds DEF WInv, StartStation, Events
<1> QED BY <1>1 DEF StartStation, Radio

LEMMA BootStep == WInv /\ Boot => WInv'
<1> SUFFICES ASSUME WInv, Boot PROVE WInv'
  OBVIOUS
<1>1. /\ WifiTypeOK /\ caller.pc = "boot" /\ caller.who = "init"
      /\ UNCHANGED <<bits, s_retry_count, s_ap_mode, s_ip_str, stored, reply, handler, leftover>>
  BY DEF WInv, Boot, At, task
<1>2. CASE To("ap_flag") /\ UNCHANGED <<events, driver>>
  <2>1. caller' = [who |-> "init", pc |-> "ap_flag"] /\ (GotIpWaits' <=> GotIpWaits)
    BY <1>1, <1>2 DEF To, WifiTypeOK, GotIpWaits
  <2>2. WifiTypeOK' /\ CallInv'
    BY <1>1, <1>2, <2>1 DEF WInv, WifiTypeOK, CallInv, Pcs
  <2>3. ModeInv' /\ StationInv' /\ AddressInv'
    BY <1>1, <1>2, <2>1 DEF WInv, ModeInv, ModeMatches, StationInv, StationWasConnected,
                            AddressInv, NoStation, StoppedPcs
  <2> QED BY <2>2, <2>3 DEF WInv
<1>3. CASE stored # NoCredentials /\ To("wait") /\ StartStation(stored)
  <2>1. caller' = [who |-> "init", pc |-> "wait"] /\ stored \in Credentials
    BY <1>1, <1>3 DEF To, WifiTypeOK
  <2>2. WifiTypeOK' /\ CallInv'
    BY <1>1, <1>3, <2>1, StartFacts DEF WInv, WifiTypeOK, CallInv, Pcs
  <2>3. ModeInv'
    BY <1>1, <1>3, <2>1, StartFacts DEF WInv, ModeInv, ModeMatches, StoppedPcs
  <2>4. StationInv' /\ AddressInv'
    BY <1>1, <1>3, <2>1, StartFacts DEF WInv, StationInv, StationWasConnected,
                            AddressInv, NoStation, StoppedPcs
  <2> QED BY <2>2, <2>3, <2>4 DEF WInv
<1> QED BY <1>2, <1>3 DEF Boot

LEMMA WifiSetStep ==
  ASSUME WInv, NEW body \in Credentials \cup {BadBody}, WifiSet(body)
  PROVE  WInv'
<1>1. /\ WifiTypeOK /\ caller.pc = "idle"
      /\ UNCHANGED <<bits, s_retry_count, s_ap_mode, s_ip_str, handler, events, driver, leftover>>
  BY DEF WInv, WifiSet, task
<1>2. GotIpWaits' <=> GotIpWaits
  BY <1>1 DEF GotIpWaits
<1>3. CASE /\ reply' = IF body = BadBody THEN "bad_request" ELSE "failed"
           /\ UNCHANGED <<stored, caller>>
  <2>1. WifiTypeOK' /\ CallInv'
    BY <1>1, <1>3 DEF WInv, WifiTypeOK, CallInv
  <2>2. ModeInv' /\ StationInv' /\ AddressInv'
    BY <1>1, <1>2, <1>3 DEF WInv, ModeInv, ModeMatches, StationInv, StationWasConnected,
                            AddressInv, NoStation
  <2> QED BY <2>1, <2>2 DEF WInv
<1>4. CASE /\ body # BadBody /\ stored' \in {stored, body}
           /\ caller' = At(body, "stop_station") /\ reply' = "none"
  <2>1. caller' = [who |-> body, pc |-> "stop_station"] /\ body \in Credentials
    BY <1>4 DEF At
  <2>2. WifiTypeOK' /\ CallInv'
    BY <1>1, <1>4, <2>1 DEF WInv, WifiTypeOK, CallInv, Pcs
  <2>3. ModeInv' /\ StationInv' /\ AddressInv'
    BY <1>1, <1>2, <1>4, <2>1 DEF WInv, ModeInv, ModeMatches, StationInv, StationWasConnected,
                            AddressInv, NoStation, StoppedPcs
  <2> QED BY <2>2, <2>3 DEF WInv
<1> QED BY <1>3, <1>4 DEF WifiSet

(* esp_wifi_stop: what is still to be used of the station is noted. *)
LEMMA StopFacts ==
  ASSUME WInv, Stop
  PROVE  /\ driver' \in [mode : {"none", "sta", "ap"}, radio : Radio,
                         config : Credentials \cup {NoCredentials}]
         /\ driver'.mode = driver.mode /\ driver'.config = driver.config
         /\ driver'.radio = "stopped"
         /\ events' \in Seq(Events) /\ Len(events') <= MaxEvents /\ (GotIpWaits' <=> GotIpWaits)
         /\ leftover' \subseteq {"bit", "got_ip"}
         /\ leftover' = {} => "connected" \notin bits /\ ~GotIpWaits
         /\ "got_ip" \notin leftover' => ~GotIpWaits
<1>1. WifiTypeOK /\ driver' = [driver EXCEPT !.radio = "stopped"]
  BY DEF WInv, Stop
<1>2. /\ driver' \in [mode : {"none", "sta", "ap"}, radio : Radio,
                      config : Credentials \cup {NoCredentials}]
      /\ driver'.mode = driver.mode /\ driver'.config = driver.config
      /\ driver'.radio = "stopped"
  BY <1>1 DEF WifiTypeOK, Radio
<1>3. events' \in Seq(Events) /\ Len(events') <= MaxEvents /\ (GotIpWaits' <=> GotIpWaits)
  BY <1>1, PostAdds, WaitingKeepsQueue DEF Stop, Events
<1>4. /\ leftover' \subseteq {"bit", "got_ip"}
      /\ "connected" \in bits => "bit" \in leftover'
      /\ GotIpWaits => "got_ip" \in leftover'
  BY DEF Stop, GotIpWaits
<1> QED BY <1>2, <1>3, <1>4

LEMMA StopStep == WInv /\ (StopStation \/ StopFailed) => WInv'
<1> SUFFICES ASSUME WInv, StopStation \/ StopFailed PROVE WInv'
  OBVIOUS
<1>1. /\ WifiTypeOK /\ Stop
      /\ UNCHANGED <<bits, s_retry_count, s_ap_mode, s_ip_str, stored, reply, handler>>
  BY DEF WInv, StopStation, StopFailed, task
<1>2. /\ caller'.who = caller.who /\ caller'.pc \in {"reset", "ap_flag"}
      /\ caller' \in [who : Credentials \cup {"init"}, pc : Pcs]
      /\ caller'.pc = "reset" => caller.pc = "stop_station"
  BY <1>1 DEF StopStation, StopFailed, To, WifiTypeOK, Pcs
<1>3. WifiTypeOK' /\ CallInv'
  BY <1>1, <1>2, StopFacts DEF WInv, WifiTypeOK, CallInv
<1>4. ModeInv'
  BY <1>1, <1>2, StopFacts DEF ModeInv, ModeMatches
<1>5. StationInv'
  BY <1>1, <1>2, StopFacts DEF StationInv, StationWasConnected
<1>6. AddressInv'
  BY <1>1, <1>2, StopFacts DEF AddressInv, NoStation
<1> QED BY <1>3, <1>4, <1>5, <1>6 DEF WInv

LEMMA ResetStep == WInv /\ ResetRetry => WInv'
<1> SUFFICES ASSUME WInv, ResetRetry PROVE WInv'
  OBVIOUS
<1>1. /\ WifiTypeOK /\ caller.pc = "reset" /\ s_retry_count' = 0 /\ s_ap_mode' = FALSE
      /\ UNCHANGED <<bits, s_ip_str, stored, reply, handler, events, driver, leftover>>
  BY DEF WInv, ResetRetry
<1>2. caller' \in [who : Credentials \cup {"init"}, pc : Pcs] /\ caller'.pc = "start"
        /\ caller'.who = caller.who
  BY <1>1 DEF ResetRetry, To, WifiTypeOK, Pcs
<1>3. GotIpWaits' <=> GotIpWaits
  BY <1>1 DEF GotIpWaits
<1>4. WifiTypeOK' /\ CallInv'
  <2>1. s_ap_mode' \in BOOLEAN
    BY <1>1, Zenon
  <2>2. s_retry_count' \in 0 .. MaxRetry /\ (s_retry_count < MaxRetry => s_retry_count' < MaxRetry)
    BY <1>1, WifiAssumption DEF WifiTypeOK
  <2>3. WifiTypeOK'
    BY <1>1, <1>2, <2>1, <2>2 DEF WifiTypeOK
  <2> QED BY <1>1, <1>2, <2>2, <2>3 DEF WInv, CallInv
<1>5. ModeInv' /\ StationInv' /\ AddressInv'
  BY <1>1, <1>2, <1>3 DEF WInv, ModeInv, ModeMatches, StationInv, StationWasConnected,
                          AddressInv, NoStation, StoppedPcs
<1> QED BY <1>4, <1>5 DEF WInv

LEMMA RestartStep == WInv /\ Restart => WInv'
<1> SUFFICES ASSUME WInv, Restart PROVE WInv'
  OBVIOUS
<1>1. /\ WifiTypeOK /\ caller.pc = "start" /\ caller.who \in Credentials
      /\ StartStation(caller.who)
      /\ UNCHANGED <<bits, s_retry_count, s_ap_mode, s_ip_str, stored, reply, handler, leftover>>
  BY DEF WInv, CallInv, Restart, task
<1>2. caller' \in [who : Credentials \cup {"init"}, pc : Pcs] /\ caller'.pc = "wait"
  BY <1>1 DEF Restart, To, WifiTypeOK, Pcs
<1>3. WifiTypeOK' /\ CallInv'
  BY <1>1, <1>2, StartFacts DEF WInv, WifiTypeOK, CallInv
<1>4. ModeInv'
  BY <1>1, <1>2, StartFacts DEF WInv, ModeInv, ModeMatches, StoppedPcs
<1>5. StationInv' /\ AddressInv'
  BY <1>1, <1>2, StartFacts DEF WInv, StationInv, StationWasConnected,
                          AddressInv, NoStation, StoppedPcs
<1> QED BY <1>3, <1>4, <1>5 DEF WInv

LEMMA AnsweredStep == WInv /\ Answered => WInv'
<1> SUFFICES ASSUME WInv, Answered PROVE WInv'
  OBVIOUS
<1>1. /\ WifiTypeOK /\ caller.pc = "wait" /\ bits' \in {bits, {}}
      /\ UNCHANGED <<s_retry_count, s_ip_str, stored, handler, events, driver, leftover>>
  BY DEF WInv, Answered
<1>2. (GotIpWaits' <=> GotIpWaits) /\ ~s_ap_mode /\ driver.mode = "sta"
  BY <1>1 DEF GotIpWaits, WInv, ModeInv
<1>3. CASE "connected" \notin bits /\ To("stop_failed") /\ UNCHANGED <<s_ap_mode, reply>>
  <2>1. caller' \in [who : Credentials \cup {"init"}, pc : Pcs] /\ caller'.pc = "stop_failed"
    BY <1>1, <1>3 DEF To, WifiTypeOK, Pcs
  <2>2. WifiTypeOK' /\ CallInv'
    BY <1>1, <1>3, <2>1 DEF WInv, WifiTypeOK, CallInv
  <2>3. ModeInv' /\ StationInv' /\ AddressInv'
    BY <1>1, <1>2, <1>3, <2>1 DEF WInv, ModeInv, ModeMatches, StationInv, StationWasConnected,
                          AddressInv, NoStation, StoppedPcs
  <2> QED BY <2>2, <2>3 DEF WInv
<1>4. CASE "connected" \in bits /\ To("idle")
  <2>1. caller' \in [who : Credentials \cup {"init"}, pc : Pcs] /\ caller'.pc = "idle"
    BY <1>1, <1>4 DEF To, WifiTypeOK, Pcs
  <2>2. s_ap_mode' = FALSE /\ reply' \in {reply, "ok"}
    BY <1>2, <1>4 DEF Answered, WInv, WifiTypeOK
  <2>3. WifiTypeOK' /\ CallInv'
    <3>1. reply' \in {"none", "ok", "failed", "bad_request"} /\ s_ap_mode' \in BOOLEAN
            /\ bits' \subseteq Bits
      BY <1>1, <2>2 DEF WifiTypeOK
    <3>2. WifiTypeOK'
      BY <1>1, <2>1, <3>1 DEF WifiTypeOK
    <3>3. CallInv'
      BY <1>1, <2>1 DEF WInv, CallInv
    <3> QED BY <3>2, <3>3
  <2>4. ModeInv' /\ StationInv' /\ AddressInv'
    BY <1>1, <1>2, <1>4, <2>1, <2>2 DEF WInv, ModeInv, ModeMatches, StationInv,
                          StationWasConnected, AddressInv, NoStation, StoppedPcs
  <2> QED BY <2>3, <2>4 DEF WInv
<1> QED BY <1>3, <1>4 DEF Answered

LEMMA TimedOutStep == WInv /\ TimedOut => WInv'
<1> SUFFICES ASSUME WInv, TimedOut PROVE WInv'
  OBVIOUS
<1>1. /\ WifiTypeOK /\ caller.pc = "wait"
      /\ UNCHANGED <<bits, s_retry_count, s_ap_mode, s_ip_str, stored, reply, handler, events,
                     driver, leftover>>
  BY DEF WInv, TimedOut, task
<1>2. caller' \in [who : Credentials \cup {"init"}, pc : Pcs] /\ caller'.pc = "stop_failed"
  BY <1>1 DEF TimedOut, To, WifiTypeOK, Pcs
<1>3. GotIpWaits' <=> GotIpWaits
  BY <1>1 DEF GotIpWaits
<1>4. WifiTypeOK' /\ CallInv'
  BY <1>1, <1>2 DEF WInv, WifiTypeOK, CallInv
<1>5. ModeInv' /\ StationInv' /\ AddressInv'
  BY <1>1, <1>2, <1>3 DEF WInv, ModeInv, ModeMatches, StationInv, StationWasConnected,
                          AddressInv, NoStation, StoppedPcs
<1> QED BY <1>4, <1>5 DEF WInv

LEMMA ApFlagStep == WInv /\ ApFlag => WInv'
<1> SUFFICES ASSUME WInv, ApFlag PROVE WInv'
  OBVIOUS
<1>1. /\ WifiTypeOK /\ caller.pc = "ap_flag" /\ s_ap_mode' = TRUE
      /\ UNCHANGED <<bits, s_retry_count, s_ip_str, stored, reply, handler, events, driver, leftover>>
  BY DEF WInv, ApFlag
<1>2. caller' \in [who : Credentials \cup {"init"}, pc : Pcs] /\ caller'.pc = "ap_start"
  BY <1>1 DEF ApFlag, To, WifiTypeOK, Pcs
<1>3. GotIpWaits' <=> GotIpWaits
  BY <1>1 DEF GotIpWaits
<1>4. WifiTypeOK' /\ CallInv'
  BY <1>1, <1>2 DEF WInv, WifiTypeOK, CallInv
<1>5. s_ap_mode'
  BY <1>1, Zenon
<1>6. ModeInv'
  BY <1>1, <1>2, <1>5 DEF WInv, ModeInv, ModeMatches, StoppedPcs
<1>7. StationInv'
  BY <1>1, <1>2, <1>3, <1>5 DEF WInv, StationInv, StationWasConnected, StoppedPcs
<1>8. AddressInv'
  <2>1. "got_ip" \notin leftover => ~GotIpWaits
    <3>1. caller.pc = "ap_flag" /\ AddressInv
      BY DEF ApFlag, WInv
    <3> QED BY <3>1 DEF AddressInv, NoStation, StoppedPcs
  <2>2. leftover' = leftover
    BY <1>1
  <2> QED BY <1>2, <1>3, <2>1, <2>2 DEF AddressInv
<1> QED BY <1>4, <1>6, <1>7, <1>8 DEF WInv

LEMMA ApStartStep == WInv /\ ApStart => WInv'
<1> SUFFICES ASSUME WInv, ApStart PROVE WInv'
  OBVIOUS
<1>1. /\ WifiTypeOK /\ caller.pc = "ap_start"
      /\ driver' = [mode |-> "ap", radio |-> "started", config |-> NoCredentials]
      /\ UNCHANGED <<bits, s_retry_count, s_ap_mode, s_ip_str, stored, reply, handler, events, leftover>>
  BY DEF WInv, ApStart, StartAccessPoint, task
<1>2. caller' \in [who : Credentials \cup {"init"}, pc : Pcs] /\ caller'.pc = "ap_address"
  BY <1>1 DEF ApStart, To, WifiTypeOK, Pcs
<1>3. GotIpWaits' <=> GotIpWaits
  BY <1>1 DEF GotIpWaits
<1>4. WifiTypeOK' /\ CallInv'
  BY <1>1, <1>2 DEF WInv, WifiTypeOK, CallInv, Radio
<1>5. ModeInv'
  BY <1>1, <1>2 DEF WInv, ModeInv, ModeMatches, StoppedPcs
<1>6. StationInv'
  BY <1>1, <1>2, <1>3 DEF WInv, StationInv, StationWasConnected, StoppedPcs
<1>7. AddressInv'
  BY <1>1, <1>2, <1>3 DEF WInv, AddressInv, NoStation, StoppedPcs
<1> QED BY <1>4, <1>5, <1>6, <1>7 DEF WInv

LEMMA ApAddressStep == WInv /\ ApAddress => WInv'
<1> SUFFICES ASSUME WInv, ApAddress PROVE WInv'
  OBVIOUS
<1>1. /\ WifiTypeOK /\ caller.pc = "ap_address" /\ s_ip_str' = "access_point"
      /\ reply' \in {reply, "failed"}
      /\ UNCHANGED <<bits, s_retry_count, s_ap_mode, stored, handler, events, driver, leftover>>
  BY DEF WInv, ApAddress
<1>2. caller' \in [who : Credentials \cup {"init"}, pc : Pcs] /\ caller'.pc = "idle"
  BY <1>1 DEF ApAddress, To, WifiTypeOK, Pcs
<1>3. GotIpWaits' <=> GotIpWaits
  BY <1>1 DEF GotIpWaits
<1>4. WifiTypeOK' /\ CallInv'
  BY <1>1, <1>2 DEF WInv, WifiTypeOK, CallInv
<1>5. ModeInv' /\ StationInv' /\ AddressInv'
  BY <1>1, <1>2, <1>3 DEF WInv, ModeInv, ModeMatches, StationInv, StationWasConnected,
                          AddressInv, NoStation, StoppedPcs
<1> QED BY <1>4, <1>5 DEF WInv

----------------------------------------------------------------------------
LEMMA NextWInv == WInv /\ [WifiNext]_wifiVars => WInv'
<1>1. WInv /\ UNCHANGED wifiVars => WInv'
  BY DEF wifiVars, task, WInv, WifiTypeOK, CallInv, ModeInv, ModeMatches, StationInv,
         StationWasConnected, AddressInv, NoStation, GotIpWaits
<1> QED BY <1>1, PowerCycleStep, DriverStep, StartedStep, DisconnectedStep, RetryStep, GotIpStep,
           BootStep, WifiSetStep, StopStep, ResetStep, RestartStep, AnsweredStep, TimedOutStep,
           ApFlagStep, ApStartStep, ApAddressStep DEF WifiNext, EventTask, Attempt

(* WInv holds in every reachable state of wifi_manager.c, whenever the handler gets
   to run and whatever the radio does. *)
THEOREM WifiInvariance == WifiSpec => []WInv
<1> QED BY InitWInv, NextWInv, PTL DEF WifiSpec

(* Types; the retry counter stays within WIFI_STA_MAX_RETRY, although set_sta puts it
   back while event_handler increments it. *)
THEOREM WifiTypeCorrect == WifiSpec => []WifiTypeOK
<1>1. WInv => WifiTypeOK
  BY DEF WInv
<1> QED BY <1>1, WifiInvariance, PTL

(* Between two calls, s_ap_mode says what the driver does (wifi_manager_init,
   wifi_manager_set_sta, start_ap_mode). *)
THEOREM FlagIsMode == WifiSpec => []ModeMatches
<1>1. WInv => ModeMatches
  BY DEF WInv, ModeInv
<1> QED BY <1>1, WifiInvariance, PTL

(* A station the code takes for connected has the credentials of the network, unless an
   answer of the one before was left over (wifi_manager_set_sta). *)
THEOREM StationIsGenuine == WifiSpec => []StationWasConnected
<1>1. WInv => StationWasConnected
  BY DEF WInv, StationInv
<1> QED BY <1>1, WifiInvariance, PTL

(* After a fall back the device shows the address of the access point, unless an
   address was left over (start_ap_mode, event_handler). *)
THEOREM AddressIsShown == WifiSpec => []AccessPointShown
<1>1. WInv => AccessPointShown
  BY DEF WInv, AddressInv, AccessPointShown, Info
<1> QED BY <1>1, WifiInvariance, PTL
=============================================================================
