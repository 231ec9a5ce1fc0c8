----------------------------- MODULE WifiEvents -----------------------------
(***************************************************************************)
(* How the status bits of access point and Ethernet follow the interfaces: *)
(* _start_network_event_task, _arduino_event_cb, postArduinoEvent and      *)
(* _eventCallback of WiFiGeneric.cpp, the access point of WiFiAP.cpp and   *)
(* SmartConfig of WiFiSTA.cpp, all in src/Extensions/Network/wifi/SRC/WiFi.*)
(* (The bits of the station are the module WifiStation's.)  Two queues lie *)
(* between an interface and its bits: the system event loop, whose handler *)
(* copies every event it translates, and the library's own queue.          *)
(***************************************************************************)
EXTENDS Integers, Sequences, FiniteSets, SequencesExt

CONSTANTS
  MaxClients,  \* bound: stations at the access point
  QueueLen,    \* places in _arduino_event_queue (32)
  MaxChanges,  \* bound: changes of the interfaces
  MaxFaults    \* bound: failures at the start, and events lost for memory

ClientsOK == MaxClients \in Nat /\ QueueLen \in Nat

VARIABLES
  made,        \* what of "group", "queue", "loop", "task" exists
  registered,  \* how often _arduino_event_cb is, per event base
  initialized, \* of tcpipInit
  ap, stations, apIp6,      \* the access point runs; who is connected; it got an IPv6 address
  eth,         \* the Ethernet interface: a set of "started", "connected", "ip", "ip6"
  posted,      \* the system event loop: [event, copies]
  queue,       \* _arduino_event_queue
  bits,        \* the status bits
  session,     \* the SmartConfig session of the driver, 0 for none; negative: has sent its ack
  smart, smartDone,         \* _smartConfigStarted, _smartConfigDone
  changes, faults,          \* counters of the bounds
  lost,        \* history: an event was lost, or its loop does not exist
  overtaken    \* history: a session was begun before the ack of an earlier one was handled

start == <<made, registered, initialized>>
world == <<ap, stations, apIp6, eth, session>>
smartConfig == <<smart, smartDone, overtaken>>
vars == <<start, world, smartConfig, posted, queue, bits, changes, faults, lost>>

Bases == <<"WIFI", "IP", "SC", "ETH", "PROV">>

Init ==
  /\ made = {} /\ registered = [b \in ToSet(Bases) |-> 0] /\ initialized = FALSE
  /\ ap = FALSE /\ stations = 0 /\ apIp6 = FALSE /\ eth = {} /\ session = 0
  /\ smart = FALSE /\ smartDone = FALSE /\ overtaken = FALSE
  /\ posted = <<>> /\ queue = <<>> /\ bits = {} /\ changes = 0 /\ faults = 0 /\ lost = FALSE

-----------------------------------------------------------------------------
(* tcpipInit is tried again after a failure, and registers again what had  *)
(* been registered.  When the event loop cannot be created the function    *)
(* returns the error number, as a bool: it counts as success.              *)
Parts == <<"group", "queue", "loop", "task">>

StartWith(n) ==        \* the first n of parts and registrations succeed
  /\ made' = made \cup {Parts[k] : k \in {k \in 1 .. 4 : k <= n}}
  /\ registered' = [b \in DOMAIN registered |->
       registered[b] + IF \E k \in 1 .. 5 : Bases[k] = b /\ k + 4 <= n THEN 1 ELSE 0]
  /\ initialized' = (n = 9 \/ Parts[IF n < 4 THEN n + 1 ELSE 4] = "loop")
  /\ lost' = (lost \/ initialized' # (n = 9))

Start ==
  /\ ~initialized
  /\ \E n \in 0 .. 9 :
       /\ n < 4 => Parts[n + 1] \notin made
       /\ n < 9 => faults < MaxFaults
       /\ faults' = faults + (IF n < 9 THEN 1 ELSE 0)
       /\ StartWith(n)
  /\ UNCHANGED <<world, smartConfig, posted, queue, bits, changes>>

-----------------------------------------------------------------------------
(* An interface changes, and its event is posted.                          *)
Post(base, events) ==
  /\ initialized /\ changes < MaxChanges /\ changes' = changes + 1
  /\ posted' = posted \o [k \in DOMAIN events |-> [event |-> events[k], copies |-> registered[base]]]
  /\ UNCHANGED <<start, queue, bits, faults, lost>>

(* enableAP(): softAP() and softAPConfig() switch the access point on,     *)
(* softAPdisconnect(true) switches it off.                                 *)
SoftAP ==
  \/ ~ap /\ ap' = TRUE /\ Post("WIFI", <<"AP_START">>) /\ UNCHANGED <<stations, apIp6>>
  \/ ap /\ ap' = FALSE /\ stations' = 0 /\ apIp6' = FALSE
     /\ Post("WIFI", <<"AP_STOP">>)

Station ==
  /\ ap /\ UNCHANGED <<ap, apIp6>>
  /\ \/ stations < MaxClients /\ stations' = stations + 1 /\ Post("WIFI", <<"AP_STACONNECTED">>)
     \/ stations > 0 /\ stations' = stations - 1 /\ Post("WIFI", <<"AP_STADISCONNECTED">>)

ApIp6 == ap /\ ~apIp6 /\ apIp6' = TRUE /\ Post("IP", <<"AP_GOT_IP6">>) /\ UNCHANGED <<ap, stations>>

Ethernet ==
  \/ eth = {} /\ eth' = {"started"} /\ Post("ETH", <<"ETH_START">>)
  \/ eth # {} /\ eth' = {} /\ Post("ETH", <<"ETH_STOP">>)
  \/ eth = {"started"} /\ eth' = {"started", "connected"} /\ Post("ETH", <<"ETH_CONNECTED">>)
  \/ "connected" \in eth /\ eth' = {"started"} /\ Post("ETH", <<"ETH_DISCONNECTED">>)
  \/ "connected" \in eth /\ "ip" \notin eth /\ eth' = eth \cup {"ip"} /\ Post("IP", <<"ETH_GOT_IP">>)
  \/ "connected" \in eth /\ "ip6" \notin eth /\ eth' = eth \cup {"ip6"} /\ Post("IP", <<"ETH_GOT_IP6">>)

Interfaces ==
  /\ \/ (SoftAP \/ Station \/ ApIp6) /\ UNCHANGED eth
     \/ Ethernet /\ UNCHANGED <<ap, stations, apIp6>>
  /\ UNCHANGED <<session, smartConfig>>

(* SmartConfig: begun and stopped by the application, acknowledged by a    *)
(* telephone.  The event says nothing of the session it belongs to.        *)
Acks == {k \in DOMAIN posted : posted[k].event = "SC_SEND_ACK_DONE"}
AckPending == Acks # {} \/ "SC_SEND_ACK_DONE" \in ToSet(queue)

BeginSmartConfig ==    \* mode(WIFI_STA) takes the access point down
  /\ ~smart /\ smart' = TRUE /\ smartDone' = FALSE
  /\ session' = 1 /\ overtaken' = (overtaken \/ AckPending)
  /\ ap' = FALSE /\ stations' = 0 /\ apIp6' = FALSE /\ Post("WIFI", IF ap THEN <<"AP_STOP">> ELSE <<>>)

StopSmartConfig ==
  /\ smart /\ smart' = FALSE /\ session' = 0
  /\ UNCHANGED <<start, ap, stations, apIp6, smartDone, overtaken, posted, queue, bits, changes, faults, lost>>

Acked ==
  /\ session = 1 /\ session' = -1 /\ Post("SC", <<"SC_SEND_ACK_DONE">>)
  /\ UNCHANGED <<ap, stations, apIp6, smartConfig>>

SmartConfig == (BeginSmartConfig \/ StopSmartConfig \/ Acked) /\ UNCHANGED eth

-----------------------------------------------------------------------------
(* _arduino_event_cb and postArduinoEvent, once per registration: without  *)
(* memory the event is lost, and a full queue is waited for.               *)
Forward ==
  /\ posted # <<>>
  /\ LET head == Head(posted) IN
     \/ /\ head.copies = 0 /\ posted' = Tail(posted) /\ UNCHANGED <<queue, lost, faults>>
     \/ /\ head.copies > 0
        /\ posted' = <<[head EXCEPT !.copies = @ - 1]>> \o Tail(posted)
        /\ \/ Len(queue) < QueueLen /\ queue' = Append(queue, head.event) /\ UNCHANGED <<lost, faults>>
           \/ faults < MaxFaults /\ faults' = faults + 1 /\ lost' = TRUE /\ UNCHANGED queue
  /\ UNCHANGED <<start, world, smartConfig, bits, changes>>

(* _eventCallback in the event task.                                       *)
Set(e) == CASE e = "AP_START" -> {"AP_STARTED"}
            [] e = "AP_STACONNECTED" -> {"AP_HAS_CLIENT"}
            [] e = "AP_GOT_IP6" -> {"AP_HAS_IP6"}
            [] e = "ETH_START" -> {"ETH_STARTED"}
            [] e = "ETH_CONNECTED" -> {"ETH_CONNECTED"}
            [] e = "ETH_GOT_IP" -> {"ETH_CONNECTED", "ETH_HAS_IP"}
            [] e = "ETH_GOT_IP6" -> {"ETH_CONNECTED", "ETH_HAS_IP6"}
            [] OTHER -> {}

(* Fault variant: a client that leaves takes the bit with it.              *)
ClearedByAnyone(e) == CASE e = "AP_STOP" -> {"AP_STARTED", "AP_HAS_CLIENT"}
            [] e = "AP_STADISCONNECTED" -> {"AP_HAS_CLIENT"}
            [] e = "ETH_STOP" -> {"ETH_STARTED", "ETH_CONNECTED", "ETH_HAS_IP", "ETH_HAS_IP6"}
            [] e = "ETH_DISCONNECTED" -> {"ETH_CONNECTED", "ETH_HAS_IP", "ETH_HAS_IP6"}
            [] OTHER -> {}

(* The stations that are there now decide, whenever one has left.  Asking  *)
(* for them fails without an access point, and then none is there.         *)
Cleared(e) == CASE e = "AP_STOP" -> {"AP_STARTED", "AP_HAS_CLIENT"}
            [] e = "AP_STADISCONNECTED" -> IF stations = 0 THEN {"AP_HAS_CLIENT"} ELSE {}
            [] e = "ETH_STOP" -> {"ETH_STARTED", "ETH_CONNECTED", "ETH_HAS_IP", "ETH_HAS_IP6"}
            [] e = "ETH_DISCONNECTED" -> {"ETH_CONNECTED", "ETH_HAS_IP", "ETH_HAS_IP6"}
            [] OTHER -> {}

EventCallback ==
  /\ queue # <<>> /\ "task" \in made
  /\ LET e == Head(queue) IN
     /\ bits' = (bits \cup Set(e)) \ Cleared(e)
     /\ IF e = "SC_SEND_ACK_DONE" THEN smartDone' = TRUE /\ session' = 0
                                  ELSE UNCHANGED <<smartDone, session>>
  /\ queue' = Tail(queue)
  /\ UNCHANGED <<start, ap, stations, apIp6, eth, smart, overtaken, posted, changes, faults, lost>>

Next == Start \/ Interfaces \/ SmartConfig \/ Forward \/ EventCallback

Spec == Init /\ [][Next]_vars

-----------------------------------------------------------------------------
TypeOK ==
  /\ made \subseteq ToSet(Parts) /\ registered \in [ToSet(Bases) -> Nat]
  /\ {initialized, ap, apIp6, smart, smartDone, lost, overtaken} \subseteq BOOLEAN
  /\ stations \in 0 .. MaxClients /\ session \in -1 .. 1 /\ Len(queue) <= QueueLen

Quiet == posted = <<>> /\ queue = <<>>

(* When every event has been handled the bits tell the interfaces: also    *)
(* when a retried start has registered the handler twice, so that every    *)
(* event comes twice, and however far the handling lagged behind.  The one *)
(* bit that is never cleared is AP_HAS_IP6.                                *)
BitsTellInterfaces ==
  Quiet /\ ~lost =>
    /\ ("AP_STARTED" \in bits) = ap
    /\ ("AP_HAS_CLIENT" \in bits) = (stations > 0)
    /\ apIp6 => "AP_HAS_IP6" \in bits
    /\ ("ETH_STARTED" \in bits) = (eth # {})
    /\ \A b \in {<<"ETH_CONNECTED", "connected">>, <<"ETH_HAS_IP", "ip">>, <<"ETH_HAS_IP6", "ip6">>} :
         (b[1] \in bits) = (b[2] \in eth)

(* smartConfigDone() tells the truth about this session, unless it was     *)
(* begun while the acknowledgement of another was on its way.              *)
DoneIsThisSession == smart /\ smartDone /\ ~overtaken => session # 1

EventsTellWorld == BitsTellInterfaces /\ DoneIsThisSession
=============================================================================
