----------------------------- MODULE Enrollment -----------------------------
(***************************************************************************)
(* Four examples that bring a station into its network (under              *)
(* src/Extensions/Network/wifi/esp-idf examples): with a configuration of  *)
(* their own (getting_started/station), with WPS, which may hand over      *)
(* several networks (wps), with DPP (wifi_easy_connect/dpp-enrollee), and  *)
(* with SmartConfig (smart_config).  The event task runs their handlers, a *)
(* task waits for what the handlers tell, and the driver and its           *)
(* supplicant enrol, join, get an address and lose the network.            *)
(***************************************************************************)
EXTENDS Integers, Sequences, SequencesExt

CONSTANTS
  MaxCreds,    \* bound: networks that WPS hands over (MAX_WPS_AP_CRED)
  Retries      \* MAX_RETRY_ATTEMPTS, EXAMPLE_ESP_MAXIMUM_RETRY, or the 5 of DPP

RetriesOK == MaxCreds \in Nat \ {0} /\ Retries \in Nat

VARIABLES
  program,
  s_retry_num, ap_idx, s_ap_creds_num,
  bits, group,       \* the event group, and whether it exists
  handlers,          \* of "wifi" and "ip", those registered
  task,              \* who waits: app_main, or smartconfig_example_task
  config, link,      \* the driver: the network it is to join, and "down", "connecting", "joined", "addressed"
  enrol, granted,    \* the supplicant, and how many networks it hands over
  events,            \* posted and not yet handled
  lost,              \* history: for each network, joins that failed and links lost (since the last
                     \* address where an address gives new tries), at most one more than Retries
  refused,           \* history: enrolments of DPP that failed, so bounded
  early,             \* history: the link that WPS itself used was reported as lost
  crashed            \* history: bits were set in a group that was deleted

memory == <<s_retry_num, ap_idx, s_ap_creds_num>>
radio == <<config, link, lost>>
supplicant == <<enrol, granted, refused, early>>
group_vars == <<bits, group, crashed>>
vars == <<program, memory, group_vars, handlers, task, radio, supplicant, events>>

Nets == 0 .. MaxCreds - 1
Unset == -1
Enough == Retries + 1

-----------------------------------------------------------------------------
(* wifi_init_sta, start_wps, dpp_enrollee_init and initialise_wifi.        *)
StationInit == program = "station" /\ task = "wait" /\ config = 0 /\ enrol = "off"
WpsInit == program = "wps" /\ task = "ended" /\ config = Unset /\ enrol = "on"
DppInit == program = "dpp" /\ task = "wait" /\ config = Unset /\ enrol = "off"
SmartInit == program = "smartconfig" /\ task = "none" /\ config = Unset /\ enrol = "off"

Init ==
  /\ StationInit \/ WpsInit \/ DppInit \/ SmartInit
  /\ s_retry_num = 0 /\ ap_idx = 1 /\ s_ap_creds_num = 0
  /\ bits = {} /\ group = TRUE /\ handlers = {"wifi", "ip"}
  /\ link = "down" /\ granted = 0 /\ events = <<"start">>
  /\ lost = [n \in Nets |-> 0] /\ refused = 0 /\ early = FALSE /\ crashed = FALSE

(* esp_wifi_connect() of a station that is not linked and has a network.   *)
Connect(net) ==
  /\ config' = net
  /\ link' = IF link = "down" /\ net # Unset THEN "connecting" ELSE link
  /\ UNCHANGED lost

SetBit(b) ==
  /\ bits' = bits \cup {b} /\ crashed' = (crashed \/ ~group)
  /\ UNCHANGED group

-----------------------------------------------------------------------------
(* The handlers.                                                           *)
RetryOnce ==
  /\ s_retry_num < Retries
  /\ s_retry_num' = s_retry_num + 1 /\ Connect(config)
  /\ UNCHANGED <<ap_idx, s_ap_creds_num, group_vars, enrol>>

StationStart ==
  /\ program = "station" /\ Connect(config)
  /\ UNCHANGED <<memory, group_vars, enrol, task>>

StationLost ==
  /\ program = "station" /\ UNCHANGED task
  /\ \/ RetryOnce
     \/ s_retry_num >= Retries /\ SetBit("FAIL") /\ UNCHANGED <<memory, radio, enrol>>

StationAddress ==
  /\ program = "station" /\ SetBit("CONNECTED") /\ s_retry_num' = 0
  /\ UNCHANGED <<ap_idx, s_ap_creds_num, radio, enrol, task>>

(* The next of the networks that WPS has handed over, if there is one.     *)
NextNetwork ==
  /\ s_retry_num >= Retries /\ ap_idx < s_ap_creds_num
  /\ Connect(ap_idx) /\ ap_idx' = ap_idx + 1 /\ s_retry_num' = 0
  /\ UNCHANGED <<s_ap_creds_num, group_vars, enrol>>

WpsLost ==
  /\ program = "wps" /\ UNCHANGED task
  /\ \/ RetryOnce
     \/ NextNetwork
     \/ s_retry_num >= Retries /\ ap_idx >= s_ap_creds_num /\ UNCHANGED <<memory, group_vars, radio, enrol>>

(* Without event data the supplicant has configured the only network.      *)
WpsSuccess ==
  /\ program = "wps"
  /\ s_ap_creds_num' = IF granted > 0 THEN granted ELSE s_ap_creds_num
  /\ enrol' = "off" /\ Connect(0)
  /\ UNCHANGED <<s_retry_num, ap_idx, group_vars, task>>

(* WIFI_EVENT_STA_WPS_ER_FAILED and .._TIMEOUT                             *)
WpsFailed ==
  /\ program = "wps" /\ enrol' = "on"
  /\ UNCHANGED <<memory, group_vars, radio, task>>

DppStart ==
  /\ program = "dpp" /\ enrol' = "on"
  /\ UNCHANGED <<memory, group_vars, radio, task>>

DppLost ==
  /\ program = "dpp" /\ UNCHANGED task
  /\ \/ RetryOnce
     \/ s_retry_num >= Retries /\ SetBit("FAIL") /\ UNCHANGED <<memory, radio, enrol>>

DppAddress ==
  /\ program = "dpp" /\ SetBit("CONNECTED") /\ s_retry_num' = 0
  /\ UNCHANGED <<ap_idx, s_ap_creds_num, radio, enrol, task>>

SmartStart ==
  /\ program = "smartconfig" /\ task' = "start"
  /\ UNCHANGED <<memory, group_vars, radio, enrol>>

SmartLost ==
  /\ program = "smartconfig" /\ Connect(config)
  /\ bits' = bits \ {"CONNECTED"}
  /\ UNCHANGED <<memory, group, crashed, enrol, task>>

SmartAddress ==
  /\ program = "smartconfig" /\ SetBit("CONNECTED")
  /\ UNCHANGED <<memory, radio, enrol, task>>

(* The station is linked to nothing yet that esp_wifi_disconnect() ends.   *)
SmartCredentials ==
  /\ program = "smartconfig" /\ Connect(0)
  /\ UNCHANGED <<memory, group_vars, enrol, task>>

SmartAcked ==
  /\ program = "smartconfig" /\ SetBit("DONE")
  /\ UNCHANGED <<memory, radio, enrol, task>>

On(kind) == events # <<>> /\ Head(events) = kind /\ events' = Tail(events)
HandlerOf(kind) == IF kind = "got_ip" THEN "ip" ELSE "wifi"

Handle ==
  /\ \/ On("start") /\ (StationStart \/ DppStart \/ SmartStart)
     \/ On("lost") /\ "wifi" \in handlers /\ (StationLost \/ WpsLost \/ DppLost \/ SmartLost)
     \/ On("got_ip") /\ "ip" \in handlers /\ (StationAddress \/ DppAddress \/ SmartAddress)
     \/ On("success") /\ WpsSuccess
     \/ On("failed") /\ WpsFailed
     \/ On("credentials") /\ SmartCredentials
     \/ On("acked") /\ SmartAcked
  /\ UNCHANGED <<program, handlers, granted, refused, early>>

(* Events that the program prints, or has no handler for any more.         *)
Ignore ==
  /\ \/ On("start") /\ program = "wps"
     \/ On("got_ip") /\ (program = "wps" \/ "ip" \notin handlers)
     \/ On("lost") /\ "wifi" \notin handlers
  /\ UNCHANGED <<program, memory, group_vars, handlers, task, radio, supplicant>>

-----------------------------------------------------------------------------
(* app_main of station and DPP waits for a bit, takes DPP down, and takes  *)
(* the handlers away before the group they use.  (Who unregisters a        *)
(* handler waits until it does not run.)                                   *)
Goes(from, to) == task = from /\ task' = to

Told ==
  /\ program \in {"station", "dpp"} /\ bits # {} /\ Goes("wait", "address") /\ enrol' = "off"
  /\ UNCHANGED <<program, memory, group_vars, handlers, radio, granted, refused, early, events>>

Unregister ==
  /\ \/ Goes("address", "wifi") /\ handlers' = handlers \ {"ip"}
     \/ Goes("wifi", "delete") /\ handlers' = handlers \ {"wifi"}
  /\ UNCHANGED <<program, memory, group_vars, radio, supplicant, events>>

DeleteGroup ==
  /\ Goes("delete", "ended") /\ group' = FALSE
  /\ UNCHANGED <<program, memory, bits, crashed, handlers, radio, supplicant, events>>

(* smartconfig_example_task                                                *)
BeginSmart ==
  /\ program = "smartconfig" /\ Goes("start", "wait") /\ enrol' = "on"
  /\ UNCHANGED <<program, memory, group_vars, handlers, radio, granted, refused, early, events>>

WaitSmart ==
  /\ program = "smartconfig" /\ task = "wait" /\ bits # {} /\ bits' = {}
  /\ IF "DONE" \in bits THEN task' = "ended" /\ enrol' = "off" ELSE UNCHANGED <<task, enrol>>
  /\ UNCHANGED <<program, memory, group, crashed, handlers, radio, granted, refused, early, events>>

Task == Told \/ Unregister \/ DeleteGroup \/ BeginSmart \/ WaitSmart

-----------------------------------------------------------------------------
(* The driver: a join ends one way or the other, an address may come, the  *)
(* link may go.                                                            *)
Post(e) == events' = Append(events, e)
Counted(n) == IF n < Enough THEN n + 1 ELSE n

Join ==
  /\ link = "connecting" /\ link' = "joined"
  /\ UNCHANGED <<program, memory, group_vars, handlers, task, config, lost, supplicant, events>>

Address ==
  /\ link = "joined" /\ link' = "addressed" /\ Post("got_ip")
  /\ lost' = IF program \in {"station", "dpp"} THEN [lost EXCEPT ![config] = 0] ELSE lost
  /\ UNCHANGED <<program, memory, group_vars, handlers, task, config, supplicant>>

Lose ==
  /\ link # "down" /\ link' = "down" /\ Post("lost")
  /\ lost' = [lost EXCEPT ![config] = Counted(@)]
  /\ UNCHANGED <<program, memory, group_vars, handlers, task, config, supplicant>>

(* WPS ends; the link it used may be reported as lost.                     *)
WpsEnds ==
  /\ program = "wps" /\ enrol = "on"
  /\ \/ enrol' = "done" /\ granted' \in {0} \cup 2 .. MaxCreds /\ UNCHANGED early
        /\ Post("success")
     \/ enrol' = "done" /\ granted' \in {0} \cup 2 .. MaxCreds /\ early' = TRUE
        /\ events' = events \o <<"lost", "success">>
     \/ enrol' = "failed" /\ Post("failed") /\ UNCHANGED <<granted, early>>
  /\ UNCHANGED <<program, memory, group_vars, handlers, task, radio, refused>>

(* dpp_enrollee_event_cb, called by the supplicant.                        *)
DppReceived ==
  /\ program = "dpp" /\ enrol = "on" /\ enrol' = "done"
  /\ s_retry_num' = 0 /\ Connect(0)
  /\ UNCHANGED <<program, ap_idx, s_ap_creds_num, group_vars, handlers, task, granted, refused, early, events>>

DppFails ==
  /\ program = "dpp" /\ enrol = "on" /\ refused' = Counted(refused)
  /\ \/ s_retry_num < Retries /\ s_retry_num' = s_retry_num + 1 /\ UNCHANGED <<enrol, group_vars>>
     \/ s_retry_num >= Retries /\ enrol' = "off" /\ SetBit("AUTH") /\ UNCHANGED s_retry_num
  /\ UNCHANGED <<program, ap_idx, s_ap_creds_num, handlers, task, radio, granted, early, events>>

(* SmartConfig finds a network, and tells who sent it when the station has *)
(* an address.                                                             *)
SmartFinds ==
  /\ program = "smartconfig" /\ enrol = "on" /\ enrol' = "found" /\ Post("credentials")
  /\ UNCHANGED <<program, memory, group_vars, handlers, task, radio, granted, refused, early>>

SmartTells ==
  /\ program = "smartconfig" /\ enrol = "found" /\ link = "addressed"
  /\ enrol' = "acked" /\ Post("acked")
  /\ UNCHANGED <<program, memory, group_vars, handlers, task, radio, granted, refused, early>>

World == Join \/ Address \/ Lose \/ WpsEnds \/ DppReceived \/ DppFails \/ SmartFinds \/ SmartTells

Next == Handle \/ Ignore \/ Task \/ World
Spec == Init /\ [][Next]_vars

-----------------------------------------------------------------------------
TypeOK ==
  /\ s_retry_num \in 0 .. Retries /\ ap_idx \in 1 .. MaxCreds /\ s_ap_creds_num \in 0 .. MaxCreds
  /\ bits \subseteq {"CONNECTED", "FAIL", "AUTH", "DONE"} /\ handlers \subseteq {"wifi", "ip"}
  /\ config \in {Unset} \cup Nets /\ link \in {"down", "connecting", "joined", "addressed"}
  /\ lost \in [Nets -> 0 .. Enough] /\ refused \in 0 .. Enough /\ Len(events) <= 4

Pending(kind) == \E k \in DOMAIN events : events[k] = kind

(* The tries are used up: those of every network that WPS has handed over  *)
(* (a report about WPS's own link takes one away), or those of the only    *)
(* network since it last gave an address.                                  *)
UsedUp ==
  IF program = "wps" THEN early \/ \A n \in Nets : n = 0 \/ n < granted => lost[n] = Enough
  ELSE program # "smartconfig" /\ lost[0] = Enough

Listens == handlers = {"wifi", "ip"}

(* As long as the program listens to its events, a station that has a      *)
(* network is linked, or joins, or is about to, until its tries are used   *)
(* up; SmartConfig never stops.                                            *)
StationTries ==
  config # Unset /\ link = "down" /\ Listens
    => UsedUp \/ \E kind \in {"start", "lost", "success", "credentials"} : Pending(kind)

(* What app_main is told is true: joins failed, or enrolments did, as      *)
(* often as they are tried, the one not counting for the other; and the    *)
(* bits it waits for are set while their group exists.                     *)
FailuresAreTold ==
  /\ Listens /\ "FAIL" \in bits => lost[0] = Enough
  /\ "AUTH" \in bits => refused = Enough
  /\ ~crashed

(* The end of SmartConfig is not missed, although the task that waits for  *)
(* it takes all bits whenever one is set.                                  *)
EndIsNoticed == enrol = "acked" /\ ~Pending("acked") => "DONE" \in bits

EnrollmentIsSound == StationTries /\ FailuresAreTold /\ EndIsNoticed
=============================================================================
