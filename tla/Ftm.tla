-------------------------------- MODULE Ftm --------------------------------
(***************************************************************************)
(* The fine-timing-measurement example (src/Extensions/Network/wifi/       *)
(* esp-idf examples/ftm/main/ftm_main.c): a console task runs one command  *)
(* at a time (sta, ap, scan, ftm), the event task runs event_handler(), and*)
(* the driver connects, loses the link and ends measurements on its own.   *)
(***************************************************************************)
EXTENDS Integers, Sequences, SequencesExt

CONSTANTS
  Aps,            \* access points in the air: records [name, bssid]
  Attempts,       \* MAX_CONNECT_RETRY_ATTEMPTS
  Leveled,        \* a report level is configured
  None,           \* no access point, no buffer, no report
  MaxEvents, MaxCommands       \* bounds: what the driver does on its own; what is typed

ApsOK ==
  /\ IsFiniteSet(Aps) /\ \A a \in Aps : a.bssid \notin {"down", "connecting"}
  /\ Attempts \in Nat \ {0}

VARIABLES
  s_reconnect, s_retry_num, bits,             \* bits: of both event groups
  g_ap_started, g_ap_bssid, g_ap_config, g_ftm_report, g_ap_list_buffer, g_scan_ap_num,
  mode, link, wanted, events, airConfig,      \* the driver: link is "down", "connecting" or a bssid
  measuring,      \* the session the driver is measuring in, or 0
  pc, name, retry_scan, peer, session,        \* the console: where its command is, and its locals
  retries, wasOpen, leaks,        \* history: reconnects since the last join; an access point
                                  \* was set up without a password; lost buffers
  commands, faults

flags == <<s_reconnect, s_retry_num, bits, retries>>
soft == <<g_ap_started, g_ap_config, airConfig, wasOpen>>
list == <<g_ap_list_buffer, g_scan_ap_num>>
driver == <<mode, link, wanted, events>>
ftm == <<g_ftm_report, measuring, session>>
locals == <<name, retry_scan, peer>>
vars == <<flags, soft, g_ap_bssid, list, driver, ftm, pc, locals, leaks, commands, faults>>

Names == {a.name : a \in Aps}
Passwords == {"none", "short", "good"}

-----------------------------------------------------------------------------
(* app_main() and initialise_wifi().                                       *)
Init ==
  /\ s_reconnect = TRUE /\ s_retry_num = 0 /\ bits = {} /\ retries = 0
  /\ g_ap_started = FALSE /\ wasOpen = FALSE
  /\ g_ap_config = [ssid |-> None, password |-> "none", authmode |-> "WPA2", responder |-> TRUE]
  /\ airConfig = g_ap_config
  /\ g_ap_bssid = None /\ g_ap_list_buffer = None /\ g_scan_ap_num = 0
  /\ mode = "NULL" /\ link = "down" /\ wanted = None /\ events = <<>>
  /\ g_ftm_report = None /\ measuring = 0 /\ session = 0
  /\ pc = "rest" /\ name = None /\ retry_scan = FALSE /\ peer = None
  /\ leaks = 0 /\ commands = 0 /\ faults = 0

(* ESP_ERROR_CHECK() of a failure restarts the program.                    *)
Restart ==
  /\ pc = "aborted"
  /\ s_reconnect' = TRUE /\ s_retry_num' = 0 /\ bits' = {} /\ retries' = 0
  /\ g_ap_started' = FALSE /\ wasOpen' = FALSE
  /\ g_ap_config' = [ssid |-> None, password |-> "none", authmode |-> "WPA2", responder |-> TRUE]
  /\ airConfig' = g_ap_config'
  /\ g_ap_bssid' = None /\ g_ap_list_buffer' = None /\ g_scan_ap_num' = 0
  /\ mode' = "NULL" /\ link' = "down" /\ wanted' = None /\ events' = <<>>
  /\ g_ftm_report' = None /\ measuring' = 0 /\ session' = 0
  /\ pc' = "rest" /\ name' = None /\ retry_scan' = FALSE /\ peer' = None
  /\ leaks' = 0 /\ UNCHANGED <<commands, faults>>

-----------------------------------------------------------------------------
(* The driver.                                                             *)
Up == link \notin {"down", "connecting"}
Post(e) == events' = Append(events, e)
On(kind) == [kind |-> kind, of |-> None]

Connect(m) == link' = (IF link = "down" /\ m = "STA" THEN "connecting" ELSE link)

(* esp_wifi_set_mode(): leaving station mode drops the link.               *)
SetMode(m) ==
  /\ mode' = m
  /\ events' = events \o (IF m # "STA" /\ link # "down" THEN <<On("DISCONNECTED")>> ELSE <<>>)
                      \o (IF m = "AP" /\ mode # "AP" THEN <<On("AP_START")>> ELSE <<>>)
                      \o (IF m # "AP" /\ mode = "AP" THEN <<On("AP_STOP")>> ELSE <<>>)

Associate ==
  /\ link = "connecting"
  /\ \E a \in Aps : a.name = wanted /\ link' = a.bssid /\ Post([kind |-> "CONNECTED", of |-> a.bssid])
  /\ UNCHANGED <<flags, soft, g_ap_bssid, list, mode, wanted, ftm, pc, locals, leaks, commands, faults>>

Lose ==
  /\ faults < MaxEvents /\ faults' = faults + 1
  /\ link # "down" /\ link' = "down" /\ Post(On("DISCONNECTED"))
  /\ UNCHANGED <<flags, soft, g_ap_bssid, list, mode, wanted, ftm, pc, locals, leaks, commands>>

Measured ==
  /\ measuring # 0 /\ measuring' = 0
  /\ \/ Post([kind |-> "REPORT", of |-> measuring])
     \/ Post(On("FAILURE"))
  /\ UNCHANGED <<flags, soft, g_ap_bssid, list, mode, link, wanted, g_ftm_report, session, pc, locals,
                 leaks, commands, faults>>

-----------------------------------------------------------------------------
(* event_handler(), one event at a time.                                   *)
OnConnected(e) ==
  /\ e.kind = "CONNECTED" /\ g_ap_bssid' = e.of
  /\ bits' = (bits \ {"DISCONNECTED"}) \cup {"CONNECTED"}
  /\ UNCHANGED <<s_reconnect, s_retry_num, retries, link, g_ap_started, g_ftm_report>>

Disconnected(bs) == (bs \ {"CONNECTED"}) \cup {"DISCONNECTED"}

OnDisconnected(e) ==
  /\ e.kind = "DISCONNECTED" /\ bits' = Disconnected(bits)
  /\ s_retry_num' = (IF s_reconnect THEN s_retry_num + 1 ELSE s_retry_num)
  /\ IF s_reconnect /\ s_retry_num' < Attempts
       THEN retries' = retries + 1 /\ Connect(mode)
       ELSE UNCHANGED <<retries, link>>
  /\ UNCHANGED <<s_reconnect, g_ap_bssid, g_ap_started, g_ftm_report>>

OnReport(e) ==
  /\ \/ e.kind = "REPORT" /\ g_ftm_report' = e.of /\ bits' = bits \cup {"FTM_REPORT"}
     \/ e.kind = "FAILURE" /\ bits' = bits \cup {"FTM_FAILURE"} /\ UNCHANGED g_ftm_report
  /\ UNCHANGED <<s_reconnect, s_retry_num, retries, link, g_ap_bssid, g_ap_started>>

OnAp(e) ==
  /\ e.kind \in {"AP_START", "AP_STOP"} /\ g_ap_started' = (e.kind = "AP_START")
  /\ UNCHANGED <<s_reconnect, s_retry_num, retries, bits, link, g_ap_bssid, g_ftm_report>>

event_handler ==
  /\ events # <<>> /\ events' = Tail(events)
  /\ LET e == Head(events) IN OnConnected(e) \/ OnDisconnected(e) \/ OnReport(e) \/ OnAp(e)
  /\ UNCHANGED <<g_ap_config, airConfig, wasOpen, list, mode, wanted, measuring, session, pc, locals,
                 leaks, commands, faults>>

-----------------------------------------------------------------------------
(* sta: wifi_cmd_sta_join() drops a link it knows of, waits a moment for   *)
(* the event, and joins; the event may still come later.                   *)
Typed == pc = "rest" /\ commands < MaxCommands /\ commands' = commands + 1

Sta(ssid) ==
  /\ Typed /\ name' = ssid
  /\ IF "CONNECTED" \in bits
       THEN /\ pc' = "drop" /\ s_reconnect' = FALSE /\ bits' = bits \ {"CONNECTED"}
       ELSE pc' = "join" /\ UNCHANGED <<s_reconnect, bits>>
  /\ UNCHANGED <<s_retry_num, retries, soft, g_ap_bssid, list, driver, ftm, retry_scan, peer, leaks, faults>>

Drop ==
  /\ pc = "drop" /\ pc' = "join" /\ link' = "down"
  /\ IF link = "down" THEN UNCHANGED events ELSE Post(On("DISCONNECTED"))
  /\ UNCHANGED <<flags, soft, g_ap_bssid, list, mode, wanted, ftm, locals, leaks, commands, faults>>

Join ==
  /\ pc = "join" /\ pc' = "connect" /\ s_reconnect' = TRUE /\ s_retry_num' = 0 /\ retries' = 0
  /\ UNCHANGED <<bits, soft, g_ap_bssid, list, driver, ftm, locals, leaks, commands, faults>>

(* The driver may refuse both the configuration and the connect while the  *)
(* handler's reconnect is under way.  Five seconds are waited at most.     *)
JoinConnect ==
  /\ pc = "connect"
  /\ pc' \in {"rest"} \cup {p \in {"aborted"} : link = "connecting"}
  /\ SetMode("STA") /\ wanted' = name /\ Connect("STA")
  /\ UNCHANGED <<flags, soft, g_ap_bssid, list, ftm, locals, leaks, commands, faults>>

-----------------------------------------------------------------------------
(* ap: wifi_cmd_ap_set() copies the name before it looks at the password,  *)
(* and nothing makes the access point protected again once it was open.       *)
ApRefused(ssid) ==
  /\ Typed /\ s_reconnect' = TRUE /\ g_ap_config' = [g_ap_config EXCEPT !.ssid = ssid]
  /\ UNCHANGED <<s_retry_num, bits, retries, g_ap_started, airConfig, wasOpen, g_ap_bssid, list, driver, ftm,
                 pc, locals, leaks, faults>>

ApSet(ssid, pass) ==
  /\ Typed /\ pass # "short" /\ s_reconnect' = FALSE
  /\ g_ap_config' = [g_ap_config EXCEPT !.ssid = ssid, !.password = pass,
                       !.authmode = IF pass = "none" THEN "OPEN" ELSE @]
  /\ wasOpen' = (wasOpen \/ pass = "none")
  /\ SetMode("AP") /\ link' = "down" /\ airConfig' = g_ap_config'
  /\ UNCHANGED <<s_retry_num, bits, retries, g_ap_started, g_ap_bssid, list, wanted, ftm, pc, locals,
                 leaks, faults>>

-----------------------------------------------------------------------------
(* wifi_perform_scan(), of the scan command and of find_ftm_responder_ap().*)
(* The driver refuses to scan while it connects.                           *)
StartScan(from) ==
  /\ SetMode("STA") /\ UNCHANGED <<link, wanted>>
  /\ pc' = (IF link = "connecting" THEN "aborted" ELSE from)

Scan ==
  /\ Typed /\ StartScan("scan") /\ name' \in Names \cup {None}
  /\ UNCHANGED <<flags, soft, g_ap_bssid, list, ftm, retry_scan, peer, leaks, faults>>

(* The buffer, whose allocation may fail, is replaced if anything is found;*)
(* reading the records may fail too and leaves them as they were allocated.*)
Store(n, records) ==
  /\ g_scan_ap_num' = n
  /\ IF n = 0 THEN UNCHANGED g_ap_list_buffer ELSE g_ap_list_buffer' \in {None, records}

Heard == {a \in Aps : name \in {None, a.name}}
Garbage == [name |-> None, bssid |-> None]

ScanDone ==
  /\ pc \in {"scan", "search"}
  /\ \E S \in SUBSET Heard :
       LET found == SetToSeq(S) IN
       \/ Store(Len(found), found)
       \/ Store(Len(found), [k \in 1..Len(found) |-> Garbage])
  /\ pc' = (IF pc = "search" /\ g_scan_ap_num' # 0 /\ g_ap_list_buffer' # None THEN "match" ELSE "rest")
  /\ UNCHANGED <<flags, soft, g_ap_bssid, driver, ftm, locals, leaks, commands, faults>>

-----------------------------------------------------------------------------
(* ftm -I: the access point of the link, or the one of a given name.       *)
FtmOfLink ==
  /\ Typed /\ "CONNECTED" \in bits /\ pc' = "ask" /\ peer' = g_ap_bssid /\ name' = None
  /\ UNCHANGED <<flags, soft, g_ap_bssid, list, driver, ftm, retry_scan, leaks, faults>>

FtmOf(ssid) ==
  /\ Typed /\ pc' = "find" /\ name' = ssid /\ retry_scan' = FALSE
  /\ UNCHANGED <<flags, soft, g_ap_bssid, list, driver, ftm, peer, leaks, faults>>

Find ==
  /\ pc = "find"
  /\ IF g_ap_list_buffer = None \/ g_scan_ap_num = 0
       THEN StartScan("search")
       ELSE pc' = "match" /\ UNCHANGED driver
  /\ UNCHANGED <<flags, soft, g_ap_bssid, list, ftm, locals, leaks, commands, faults>>

(* The list may be old: without a match it is dropped once and scanned     *)
(* anew.  The index is a byte: it reaches no record beyond 256, and if     *)
(* there are that many and none matches, the search never ends.            *)
Match ==
  /\ pc = "match"
  /\ LET hits == {k \in 1..g_scan_ap_num : k <= 256 /\ g_ap_list_buffer[k].name = name} IN
     IF hits # {}
       THEN /\ pc' = "ask" /\ \E k \in hits : (\A j \in hits : k <= j) /\ peer' = g_ap_list_buffer[k].bssid
            /\ UNCHANGED <<g_ap_list_buffer, retry_scan>>
       ELSE /\ g_scan_ap_num < 256
            /\ IF retry_scan THEN pc' = "rest" /\ UNCHANGED <<g_ap_list_buffer, retry_scan>>
                             ELSE pc' = "find" /\ retry_scan' = TRUE /\ g_ap_list_buffer' = None
            /\ UNCHANGED peer
  /\ UNCHANGED <<flags, soft, g_ap_bssid, g_scan_ap_num, driver, ftm, name, leaks, commands, faults>>

(* Frame count or burst period may be invalid, the driver may refuse.      *)
Ask ==
  /\ pc = "ask"
  /\ \/ pc' = "rest" /\ UNCHANGED ftm
     \/ /\ mode = "STA" /\ pc' = "wait" /\ session' = session + 1 /\ measuring' = session'
        /\ UNCHANGED g_ftm_report
  /\ UNCHANGED <<flags, soft, g_ap_bssid, list, driver, locals, leaks, commands, faults>>

FtmBits == {"FTM_REPORT", "FTM_FAILURE"}

Taken(bs) == bs \ FtmBits

(* xEventGroupWaitBits() for ever; ftm_process_report() loses its buffer   *)
(* when there is no level to report at.                                    *)
Reported ==
  /\ pc = "wait" /\ bits \cap FtmBits # {} /\ bits' = Taken(bits)
  /\ IF "FTM_REPORT" \in bits
       THEN pc' = "process" /\ leaks' = (IF Leveled THEN leaks ELSE leaks + 1)
       ELSE pc' = "rest" /\ UNCHANGED leaks
  /\ UNCHANGED <<s_reconnect, s_retry_num, retries, soft, g_ap_bssid, list, driver, ftm, locals, commands,
                 faults>>

Process ==
  /\ pc = "process" /\ pc' = "rest" /\ g_ftm_report' = None
  /\ UNCHANGED <<flags, soft, g_ap_bssid, list, driver, measuring, session, locals, leaks, commands, faults>>

(* ftm -R -e | -d: sets the configuration as it stands.  Until AP_STOP is  *)
(* handled the access point counts as started; the driver refuses.         *)
Responder(enable) ==
  /\ Typed /\ g_ap_started
  /\ g_ap_config' = [g_ap_config EXCEPT !.responder = enable]
  /\ IF mode = "AP" THEN airConfig' = g_ap_config' /\ UNCHANGED pc
                    ELSE pc' = "aborted" /\ UNCHANGED airConfig
  /\ UNCHANGED <<flags, g_ap_started, wasOpen, g_ap_bssid, list, driver, ftm, locals, leaks, faults>>

-----------------------------------------------------------------------------
(* register_wifi(): the commands and their arguments.                      *)
Command ==
  \/ \E ssid \in Names : Sta(ssid) \/ FtmOf(ssid) \/ ApRefused(ssid)
  \/ \E ssid \in Names, pass \in Passwords : ApSet(ssid, pass)
  \/ Scan \/ FtmOfLink \/ \E enable \in BOOLEAN : Responder(enable)

Console ==
  \/ Drop \/ Join \/ JoinConnect \/ ScanDone \/ Find \/ Match \/ Ask \/ Reported \/ Process \/ Restart

Next == Command \/ Console \/ event_handler \/ Associate \/ Lose \/ Measured

Spec == Init /\ [][Next]_vars

-----------------------------------------------------------------------------
TypeOK ==
  /\ bits \subseteq {"CONNECTED", "DISCONNECTED"} \cup FtmBits
  /\ mode \in {"NULL", "STA", "AP"} /\ link \in {"down", "connecting"} \cup {a.bssid : a \in Aps}
  /\ wanted \in Names \cup {None} /\ g_ap_bssid \in {a.bssid : a \in Aps} \cup {None}
  /\ {s_reconnect, g_ap_started, wasOpen, retry_scan} \subseteq BOOLEAN
  /\ g_scan_ap_num \in Nat /\ s_retry_num \in Nat

(* When every event is handled, the bit tells of the link, the address kept*)
(* for measurements is that of its access point, and `ftm -R' knows of ours*)
EventsTellLink ==
  events = <<>> /\ pc # "aborted" =>
    /\ pc # "drop" => ("CONNECTED" \in bits <=> Up)
    /\ Up => g_ap_bssid = link
    /\ g_ap_started <=> mode = "AP"

(* A report that is processed is there and is that of the session that was *)
(* asked for, and none outlives its command.                               *)
ReportIsOwn ==
  /\ pc = "process" => g_ftm_report = session
  /\ pc = "rest" => g_ftm_report = None /\ bits \cap FtmBits = {}
  /\ Leveled => leaks = 0

(* The search for an access point reads no entry the buffer does not have. *)
ListIsReadable ==
  /\ g_ap_list_buffer # None => g_scan_ap_num <= Len(g_ap_list_buffer)
  /\ pc = "match" => g_ap_list_buffer # None

(* An access point with a password asks for it, unless it was open before.    *)
PasswordProtects ==
  mode = "AP" /\ airConfig.password # "none" => airConfig.authmode = "WPA2" \/ wasOpen

(* A station tries again at most Attempts - 1 times after one join.        *)
RetriesAreFew == retries < Attempts

FtmIsSound == EventsTellLink /\ ReportIsOwn /\ ListIsReadable /\ PasswordProtects /\ RetriesAreFew
=============================================================================
