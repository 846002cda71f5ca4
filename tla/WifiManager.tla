---------------------------- MODULE WifiManager ----------------------------
(***************************************************************************)
(* main/wifi_manager.c, as built for a chip with a radio: the station with *)
(* its retries, and the fall back to an access point.  Three parties share *)
(* its variables without a lock: the caller (wifi_manager_init at boot,    *)
(* then wifi_manager_set_sta in the task of the HTTP server, one at a      *)
(* time), the handler in the event task, and the driver, which posts       *)
(* events that the handler takes later and in order.                       *)
(***************************************************************************)
EXTENDS Naturals, Sequences, FiniteSets

CONSTANTS
  MaxRetry,        (* WIFI_STA_MAX_RETRY                                   *)
  Credentials, NoCredentials,
  Network,         (* The credentials the network in reach accepts.        *)
  BadBody,         (* A request without usable credentials.                *)
  MaxEvents        (* Bound: events that wait for the handler.  The radio  *)
                   (*   leaves room for one that a call posts.             *)

ASSUME WifiAssumption ==
  /\ MaxRetry \in Nat /\ MaxEvents \in Nat
  /\ Network \in Credentials
  /\ {NoCredentials, BadBody} \cap Credentials = {}

VARIABLES
  bits,            (* s_wifi_event_group                                   *)
  s_retry_count, s_ap_mode, s_ip_str,
  stored,          (* The credentials in the NVS.                          *)
  caller,          (* Who it is, and the call it is at.                    *)
  reply,           (* What the last request was answered.                  *)
  handler,         (* The event task: between the steps of s_retry_count++ *)
  events,          (* The queue of the event loop.                         *)
  driver,          (* External: mode, state and configuration.             *)
  leftover         (* History: the answers of a station that was stopped,  *)
                   (*   which were still to be used when it was.           *)

task     == <<bits, s_retry_count, s_ap_mode, s_ip_str>>
wifiVars == <<task, stored, caller, reply, handler, events, driver, leftover>>

Off    == [mode |-> "none", radio |-> "stopped", config |-> NoCredentials]
Ready  == [pc |-> "ready", count |-> 0]
Bits   == {"connected", "fail"}
Events == {"start", "disconnected", "got_ip"}
Radio  == {"stopped", "started", "connecting", "linked", "up"}

At(who, pc) == [who |-> who, pc |-> pc]
To(pc)      == caller' = [caller EXCEPT !.pc = pc]

----------------------------------------------------------------------------
(* The driver, external: what the calls to esp_wifi do, and what it does by itself. *)

Post(event) == Len(events) < MaxEvents /\ events' = Append(events, event)

(* esp_wifi_connect *)
Connect(d) ==
  IF d.mode = "sta" /\ d.radio = "started" THEN [d EXCEPT !.radio = "connecting"] ELSE d

(* esp_wifi_set_mode, esp_wifi_set_config and esp_wifi_start, of a station.  One that fails
   is ESP_ERROR_CHECK's to abort on, which restarts the chip: see PowerCycle. *)
StartStation(config) ==
  /\ driver' = [mode |-> "sta", radio |-> "started", config |-> config]
  /\ Post("start")

(* ... of an access point *)
StartAccessPoint ==
  /\ driver' = [mode |-> "ap", radio |-> "started", config |-> NoCredentials]
  /\ UNCHANGED events

(* esp_wifi_stop *)
Stop ==
  /\ driver' = [driver EXCEPT !.radio = "stopped"]
  /\ IF driver.radio \in {"connecting", "linked", "up"}
     THEN Post("disconnected")
     ELSE UNCHANGED events
  /\ leftover' = (IF "connected" \in bits THEN {"bit"} ELSE {})
                 \cup {event \in {"got_ip"} : \E n \in DOMAIN events : events[n] = event}

DriverGoes(from, to) ==
  /\ driver.radio \in from /\ Len(events) + 1 < MaxEvents
  /\ driver' = [driver EXCEPT !.radio = to]
  /\ UNCHANGED <<task, stored, caller, reply, handler, leftover>>

Link      == driver.config = Network /\ DriverGoes({"connecting"}, "linked") /\ UNCHANGED events
LinkFails == DriverGoes({"connecting"}, "started") /\ Post("disconnected")
Dhcp      == DriverGoes({"linked"}, "up") /\ Post("got_ip")
LinkLost  == DriverGoes({"linked", "up"}, "started") /\ Post("disconnected")

Driver == Link \/ LinkFails \/ Dhcp \/ LinkLost

----------------------------------------------------------------------------
(* event_handler, in the event task. *)

Take(event) ==
  /\ handler.pc = "ready" /\ events # <<>>
  /\ Head(events) = event
  /\ events' = Tail(events)
  /\ UNCHANGED <<stored, caller, reply, leftover>>

HandleStart ==
  /\ Take("start")
  /\ driver' = Connect(driver)
  /\ UNCHANGED <<task, handler>>

(* Mutant: the retry is counted, and left to the driver. *)
HandleDisconnected_NoConnect ==
  /\ Take("disconnected")
  /\ IF s_retry_count < MaxRetry
     THEN handler' = [Ready EXCEPT !.pc = "load"] /\ UNCHANGED bits
     ELSE bits' = bits \cup {"fail"} /\ UNCHANGED handler
  /\ UNCHANGED <<s_retry_count, s_ap_mode, s_ip_str, driver>>

(* The test and, as long as retries are left, esp_wifi_connect. *)
HandleDisconnected ==
  /\ Take("disconnected")
  /\ IF s_retry_count < MaxRetry
     THEN driver' = Connect(driver) /\ handler' = [Ready EXCEPT !.pc = "load"] /\ UNCHANGED bits
     ELSE bits' = bits \cup {"fail"} /\ UNCHANGED <<handler, driver>>
  /\ UNCHANGED <<s_retry_count, s_ap_mode, s_ip_str>>

(* s_retry_count++ *)
LoadRetry ==
  /\ handler.pc = "load"
  /\ handler' = [pc |-> "store", count |-> s_retry_count + 1]
  /\ UNCHANGED <<task, stored, caller, reply, events, driver, leftover>>

StoreRetry ==
  /\ handler.pc = "store"
  /\ s_retry_count' = handler.count
  /\ handler' = Ready
  /\ UNCHANGED <<bits, s_ap_mode, s_ip_str, stored, caller, reply, events, driver, leftover>>

HandleGotIp ==
  /\ Take("got_ip")
  /\ s_ip_str' = "station" /\ s_retry_count' = 0
  /\ bits' = bits \cup {"connected"}
  /\ UNCHANGED <<s_ap_mode, handler, driver>>

EventTask ==
  HandleStart \/ HandleDisconnected \/ LoadRetry \/ StoreRetry \/ HandleGotIp

----------------------------------------------------------------------------
(* The caller.  Both functions start a station, wait for a bit, and fall back. *)

(* wifi_manager_init, up to the wait: has_sta_credentials finds some or none. *)
Boot ==
  /\ caller = At("init", "boot")
  /\ IF stored = NoCredentials
     THEN To("ap_flag") /\ UNCHANGED <<events, driver>>
     ELSE To("wait") /\ StartStation(stored)
  /\ UNCHANGED <<task, stored, reply, handler, leftover>>

(* handler_api_wifi_set and wifi_manager_set_sta, up to the commit: a request without
   credentials, a namespace that does not open, credentials that may not be saved (the
   two nvs_set_str are one, and an SSID is not empty). *)
WifiSet(body) ==
  /\ caller.pc = "idle"
  /\ \/ /\ reply' = IF body = BadBody THEN "bad_request" ELSE "failed"
        /\ UNCHANGED <<stored, caller>>
     \/ /\ body # BadBody
        /\ stored' \in {stored, body}
        /\ caller' = At(body, "stop_station")
        /\ reply' = "none"
  /\ UNCHANGED <<task, handler, events, driver, leftover>>

StopStation ==
  /\ caller.pc = "stop_station"
  /\ Stop
  /\ To("reset") /\ UNCHANGED <<task, stored, reply, handler>>

(* Mutant: the mode is left as it was. *)
ResetRetry_KeepsMode ==
  /\ caller.pc = "reset"
  /\ s_retry_count' = 0 /\ UNCHANGED s_ap_mode
  /\ To("start") /\ UNCHANGED <<bits, s_ip_str, stored, reply, handler, events, driver, leftover>>

ResetRetry ==
  /\ caller.pc = "reset"
  /\ s_retry_count' = 0 /\ s_ap_mode' = FALSE
  /\ To("start") /\ UNCHANGED <<bits, s_ip_str, stored, reply, handler, events, driver, leftover>>

Restart ==
  /\ caller.pc = "start"
  /\ StartStation(caller.who)
  /\ To("wait") /\ UNCHANGED <<task, stored, reply, handler, leftover>>

(* Mutant: any bit is good news. *)
Answered_AnyBit ==
  /\ caller.pc = "wait" /\ bits # {}
  /\ bits' = IF caller.who = "init" THEN bits ELSE {}
  /\ To("idle") /\ reply' = "ok"
  /\ UNCHANGED <<s_retry_count, s_ap_mode, s_ip_str, stored, handler, events, driver, leftover>>

(* xEventGroupWaitBits returns with a bit: only set_sta clears them. *)
Answered ==
  /\ caller.pc = "wait" /\ bits # {}
  /\ bits' = IF caller.who = "init" THEN bits ELSE {}
  /\ IF "connected" \notin bits
     THEN To("stop_failed") /\ UNCHANGED <<s_ap_mode, reply>>
     ELSE /\ To("idle")
          /\ IF caller.who = "init"
             THEN s_ap_mode' = FALSE /\ UNCHANGED reply
             ELSE reply' = "ok" /\ UNCHANGED s_ap_mode
  /\ UNCHANGED <<s_retry_count, s_ip_str, stored, handler, events, driver, leftover>>

(* Mutant: portMAX_DELAY. *)
TimedOut_Never == FALSE /\ UNCHANGED wifiVars

(* ... or after WIFI_STA_TIMEOUT_MS. *)
TimedOut ==
  /\ caller.pc = "wait" /\ bits = {}
  /\ To("stop_failed")
  /\ UNCHANGED <<task, stored, reply, handler, events, driver, leftover>>

StopFailed ==
  /\ caller.pc = "stop_failed"
  /\ Stop
  /\ To("ap_flag") /\ UNCHANGED <<task, stored, reply, handler>>

(* start_ap_mode: its flag, its calls to the driver, its address. *)
ApFlag ==
  /\ caller.pc = "ap_flag"
  /\ s_ap_mode' = TRUE
  /\ To("ap_start")
  /\ UNCHANGED <<bits, s_retry_count, s_ip_str, stored, reply, handler, events, driver, leftover>>

ApStart ==
  /\ caller.pc = "ap_start"
  /\ StartAccessPoint
  /\ To("ap_address") /\ UNCHANGED <<task, stored, reply, handler, leftover>>

(* Mutant: the address of the station is still shown. *)
ApAddress_Kept ==
  /\ caller.pc = "ap_address"
  /\ To("idle") /\ reply' = IF caller.who = "init" THEN reply ELSE "failed"
  /\ UNCHANGED <<task, stored, handler, events, driver, leftover>>

ApAddress ==
  /\ caller.pc = "ap_address"
  /\ s_ip_str' = "access_point"
  /\ To("idle") /\ reply' = IF caller.who = "init" THEN reply ELSE "failed"
  /\ UNCHANGED <<bits, s_retry_count, s_ap_mode, stored, handler, events, driver, leftover>>

Attempt ==
  \/ Boot \/ StopStation \/ ResetRetry \/ Restart \/ Answered \/ TimedOut
  \/ StopFailed \/ ApFlag \/ ApStart \/ ApAddress

----------------------------------------------------------------------------
(* The chip restarts: only the NVS is kept. *)

WifiInit ==
  /\ stored \in Credentials \cup {NoCredentials}
  /\ bits = {} /\ s_retry_count = 0 /\ s_ap_mode = FALSE /\ s_ip_str = "0.0.0.0"
  /\ caller = At("init", "boot") /\ reply = "none"
  /\ handler = Ready /\ events = <<>> /\ driver = Off
  /\ leftover = {}

(* The power is cut and comes back, or ESP_ERROR_CHECK aborts because the driver refuses what
   Restart or ApStart asks for.  (During the boot, either only has it begin again, so that is
   left out: that the boot ends is said of a driver that refuses nothing for ever.) *)
PowerCycle ==
  /\ caller.who # "init" \/ caller.pc = "idle"
  /\ bits' = {} /\ s_retry_count' = 0 /\ s_ap_mode' = FALSE /\ s_ip_str' = "0.0.0.0"
  /\ caller' = At("init", "boot") /\ reply' = "none"
  /\ handler' = Ready /\ events' = <<>> /\ driver' = Off
  /\ leftover' = {}
  /\ UNCHANGED stored

WifiNext ==
  \/ Driver \/ EventTask \/ Attempt
  \/ \E body \in Credentials \cup {BadBody} : WifiSet(body)
  \/ PowerCycle

(* The scheduler runs both tasks, the clock goes on, and a connection attempt of the
   driver ends.  An address need never come. *)
WifiFairness ==
  WF_wifiVars(EventTask) /\ WF_wifiVars(Attempt) /\ WF_wifiVars(Link \/ LinkFails)

WifiSpec == WifiInit /\ [][WifiNext]_wifiVars /\ WifiFairness

----------------------------------------------------------------------------
(* Properties. *)

Pcs == {"boot", "idle", "wait", "stop_station", "reset", "start", "stop_failed",
        "ap_flag", "ap_start", "ap_address"}

(* The counter stays within the retries, through increments that overwrite a reset. *)
WifiTypeOK ==
  /\ bits \subseteq Bits
  /\ s_retry_count \in 0 .. MaxRetry
  /\ s_ap_mode \in BOOLEAN
  /\ s_ip_str \in {"0.0.0.0", "station", "access_point"}
  /\ stored \in Credentials \cup {NoCredentials}
  /\ caller \in [who : Credentials \cup {"init"}, pc : Pcs]
  /\ reply \in {"none", "ok", "failed", "bad_request"}
  /\ handler \in [pc : {"ready", "load", "store"}, count : 0 .. MaxRetry]
  /\ events \in Seq(Events) /\ Len(events) <= MaxEvents
  /\ driver \in [mode : {"none", "sta", "ap"}, radio : Radio,
                 config : Credentials \cup {NoCredentials}]
  /\ leftover \subseteq {"bit", "got_ip"}

(* Between two calls the device is what s_ap_mode says: a station, or an access point
   whose radio runs, whatever events came late. *)
ModeMatches ==
  caller.pc = "idle" =>
    IF s_ap_mode THEN driver.mode = "ap" /\ driver.radio = "started" ELSE driver.mode = "sta"

(* A caller that ends as a station, with an answer that is not left over from the station
   before, was given credentials the network accepts. *)
StationWasConnected ==
  caller.pc = "idle" /\ ~s_ap_mode /\ leftover = {} => driver.config = Network

(* wifi_manager_get_info_json *)
Info ==
  [mode |-> IF s_ap_mode THEN "AP" ELSE "STA",
   ip   |-> s_ip_str,
   rssi |-> ~s_ap_mode /\ driver.radio \in {"linked", "up"}]

(* After a fall back the device shows the address it is reached at, unless the station got
   an address that the handler had not taken when it was stopped. *)
AccessPointShown ==
  caller.pc = "idle" /\ s_ap_mode /\ "got_ip" \notin leftover =>
    Info = [mode |-> "AP", ip |-> "access_point", rssi |-> FALSE]

(* The boot and each request end, even when the network gives no address. *)
AttemptEnds == caller.pc # "idle" ~> caller.pc = "idle"

(* No event is lost: a station that is not connected tries again, until its retries are
   used up. *)
StationKeepsTrying ==
  driver.mode = "sta" /\ driver.radio = "started"
    ~> driver.radio # "started" \/ s_retry_count = MaxRetry
=============================================================================
