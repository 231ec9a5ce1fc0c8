------------------------------- MODULE Iperf -------------------------------
(***************************************************************************)
(* The console of the throughput example (src/Extensions/Network/wifi/     *)
(* esp-idf examples/iperf/main/cmd_wifi.c): a console task runs sta, ap,   *)
(* scan and iperf one after the other, the event task runs the handlers of *)
(* the driver's events, and the driver joins, gets an address and loses    *)
(* its network on its own.                                                 *)
(***************************************************************************)
EXTENDS Integers, Sequences, FiniteSets

CONSTANTS
  Seconds,         \* values typed for the interval and the time of a test
  DefaultInterval, DefaultTime,
  None,            \* an option that was not typed; no test
  MaxLosses, MaxCommands       \* bounds: losses of the network, commands typed

TimesOK == Seconds \subseteq Nat /\ DefaultInterval \in Nat \ {0} /\ DefaultTime \in Nat

VARIABLES
  reconnect, bits, \* the global, and the event group
  mode, link, events,          \* the driver: link is "down", "connecting", "joined" or "addressed"
  address,         \* the station's esp_netif has an address
  pc, netif,       \* the console: where its command is, and the interface iperf asks
  options, test,   \* what was typed for iperf, and the test that it started
  wants, missed,   \* history: the user wants a station; a loss was handled during a refused ap
  losses, commands

driver == <<mode, link, events, address>>
console == <<netif, options, test>>
vars == <<reconnect, bits, driver, pc, console, wants, missed, losses, commands>>

-----------------------------------------------------------------------------
(* initialise_wifi().                                                      *)
Init ==
  /\ reconnect = TRUE /\ bits = {}
  /\ mode = "NULL" /\ link = "down" /\ events = <<>> /\ address = FALSE
  /\ pc = "rest" /\ netif = "ap" /\ options = None /\ test = None
  /\ wants = FALSE /\ missed = FALSE /\ losses = 0 /\ commands = 0

(* ESP_ERROR_CHECK() of a failure restarts the program.                    *)
Restart ==
  /\ pc = "aborted"
  /\ reconnect' = TRUE /\ bits' = {}
  /\ mode' = "NULL" /\ link' = "down" /\ events' = <<>> /\ address' = FALSE
  /\ pc' = "rest" /\ netif' = "ap" /\ options' = None /\ test' = None
  /\ wants' = FALSE /\ missed' = FALSE /\ UNCHANGED <<losses, commands>>

-----------------------------------------------------------------------------
(* The driver, and DHCP.                                                   *)
Connect(m) == link' = (IF link = "down" /\ m = "STA" THEN "connecting" ELSE link)

Break ==
  /\ link' = "down"
  /\ events' = (IF link = "down" THEN events ELSE Append(events, "DISCONNECTED"))

Join ==
  /\ link = "connecting" /\ link' = "joined"
  /\ UNCHANGED <<reconnect, bits, mode, events, address, pc, console, wants, missed, losses, commands>>

GetAddress ==
  /\ link = "joined" /\ link' = "addressed" /\ address' = TRUE
  /\ events' = Append(events, "GOT_IP")
  /\ UNCHANGED <<reconnect, bits, mode, pc, console, wants, missed, losses, commands>>

Lose ==
  /\ link # "down" /\ Break /\ losses < MaxLosses /\ losses' = losses + 1
  /\ UNCHANGED <<reconnect, bits, mode, address, pc, console, wants, missed, commands>>

-----------------------------------------------------------------------------
(* The handlers.  esp_netif's own takes the address away before ours runs. *)
got_ip_handler ==
  /\ events # <<>> /\ Head(events) = "GOT_IP" /\ events' = Tail(events)
  /\ bits' = (bits \ {"DISCONNECTED"}) \cup {"CONNECTED"}
  /\ UNCHANGED <<reconnect, mode, link, address, pc, console, wants, missed, losses, commands>>

disconnect_handler ==
  /\ events # <<>> /\ Head(events) = "DISCONNECTED" /\ events' = Tail(events)
  /\ IF reconnect THEN Connect(mode) ELSE UNCHANGED link
  /\ bits' = (bits \ {"CONNECTED"}) \cup {"DISCONNECTED"}
  /\ address' = FALSE /\ missed' = (missed \/ pc = "password")
  /\ UNCHANGED <<reconnect, mode, pc, console, wants, losses, commands>>

-----------------------------------------------------------------------------
(* sta: wifi_cmd_sta_join().  The loss it makes is waited for for one tick *)
(* and may be handled when reconnect is set again.                         *)
Typed == pc = "rest" /\ commands < MaxCommands /\ commands' = commands + 1

Sta ==
  /\ Typed /\ pc' = (IF "CONNECTED" \in bits THEN "forget" ELSE "join")
  /\ UNCHANGED <<reconnect, bits, driver, console, wants, missed, losses>>

Forget ==
  /\ pc = "forget" /\ pc' = "drop" /\ reconnect' = FALSE /\ bits' = bits \ {"CONNECTED"}
  /\ UNCHANGED <<driver, console, wants, missed, losses, commands>>

Drop ==
  /\ pc = "drop" /\ pc' = "join" /\ Break
  /\ UNCHANGED <<reconnect, bits, mode, address, console, wants, missed, losses, commands>>

Reconnect ==
  /\ pc = "join" /\ pc' = "connect" /\ reconnect' = TRUE
  /\ UNCHANGED <<bits, driver, console, wants, missed, losses, commands>>

(* The driver may refuse a configuration while the handler's reconnect is  *)
(* under way, which aborts; that it refuses to connect is not noticed.     *)
StaConnect ==
  /\ pc = "connect" /\ pc' \in {"rest"} \cup {p \in {"aborted"} : link = "connecting"}
  /\ mode' = "STA" /\ Connect("STA")
  /\ wants' = TRUE /\ missed' = FALSE
  /\ UNCHANGED <<reconnect, bits, events, address, console, losses, commands>>

(* scan: leaves access point mode; that the driver refuses is not noticed. *)
Scan ==
  /\ Typed /\ mode' = "STA"
  /\ UNCHANGED <<reconnect, bits, link, events, address, pc, console, wants, missed, losses>>

(* ap: wifi_cmd_ap_set(), whose password is looked at after reconnect.     *)
Ap ==
  /\ Typed /\ pc' = "password" /\ reconnect' = FALSE
  /\ UNCHANGED <<bits, driver, console, wants, missed, losses>>

ApRefused ==
  /\ pc = "password" /\ pc' = "rest" /\ reconnect' = TRUE
  /\ UNCHANGED <<bits, driver, console, wants, missed, losses, commands>>

ApSet ==
  /\ pc = "password" /\ pc' = "rest" /\ mode' = "AP" /\ Break /\ wants' = FALSE
  /\ UNCHANGED <<reconnect, bits, address, console, missed, losses, commands>>

-----------------------------------------------------------------------------
(* iperf: wifi_cmd_iperf().  wifi_get_local_ip() asks mode and bits first  *)
(* and the interface for its address later.                                *)
OneRole(roles) == Cardinality(roles) = 1

LocalIp(roles, o) ==
  /\ Typed /\ OneRole(roles)
  /\ mode = "STA" => "CONNECTED" \in bits
  /\ netif' = (IF mode = "STA" THEN "sta" ELSE "ap")
  /\ pc' = "source" /\ options' = o
  /\ UNCHANGED <<reconnect, bits, driver, test, wants, missed, losses>>

Interval(o) == IF o.interval = None \/ o.interval = 0 THEN DefaultInterval ELSE o.interval

Duration(o) ==
  IF o.time = None THEN DefaultTime ELSE IF o.time <= Interval(o) THEN Interval(o) ELSE o.time

Start ==
  /\ pc = "source" /\ pc' = "rest" /\ options' = None
  /\ test' = (IF test # None \/ (netif = "sta" /\ ~address) THEN test
              ELSE [netif |-> netif, interval |-> Interval(options), time |-> Duration(options),
                    timed |-> options.time # None])
  /\ UNCHANGED <<reconnect, bits, driver, netif, wants, missed, losses, commands>>

Stop ==
  /\ Typed /\ test' = None
  /\ UNCHANGED <<reconnect, bits, driver, pc, netif, options, wants, missed, losses>>

-----------------------------------------------------------------------------
(* register_wifi(): the commands and their arguments.                      *)
Options == [interval : Seconds \cup {None}, time : Seconds \cup {None}]

Command ==
  \/ Sta \/ Scan \/ Ap \/ Stop
  \/ \E roles \in SUBSET {"client", "server"}, o \in Options : LocalIp(roles, o)

Console == Restart \/ Forget \/ Drop \/ Reconnect \/ StaConnect \/ ApRefused \/ ApSet \/ Start

Next == Command \/ Console \/ got_ip_handler \/ disconnect_handler \/ Join \/ GetAddress \/ Lose

Spec == Init /\ [][Next]_vars

-----------------------------------------------------------------------------
TypeOK ==
  /\ bits \subseteq {"CONNECTED", "DISCONNECTED"} /\ mode \in {"NULL", "STA", "AP"}
  /\ link \in {"down", "connecting", "joined", "addressed"}
  /\ {reconnect, address, wants, missed} \subseteq BOOLEAN
  /\ pc \in {"rest", "forget", "drop", "join", "connect", "password", "source", "aborted"}

(* When every event is handled the bit tells of the station's address, but *)
(* for the moment in which sta has cleared it and not yet disconnected.    *)
BitTellsAddress ==
  events = <<>> /\ pc # "drop" =>
    /\ "CONNECTED" \in bits <=> link = "addressed"
    /\ bits # {"CONNECTED", "DISCONNECTED"}

(* A station that was asked to join goes on trying, whichever losses are   *)
(* handled between the steps of a command; only a loss handled while ap    *)
(* refuses a password is not made good.                                    *)
StationTries ==
  pc = "rest" /\ wants /\ ~missed /\ "DISCONNECTED" \notin {events[k] : k \in DOMAIN events} =>
    mode = "STA" /\ link # "down"

(* A test with a given time lasts an interval at least.                    *)
TestsLast == test # None /\ test.timed => test.time >= test.interval /\ test.interval > 0

IperfIsSound == BitTellsAddress /\ StationTries /\ TestsLast
=============================================================================
