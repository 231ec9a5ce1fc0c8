---------------------------- MODULE StationSetup ----------------------------
(***************************************************************************)
(* How the station gets its network and its address: begin(ssid) and       *)
(* config() of an application task, begin() of the event task after a loss *)
(* (src/Extensions/Network/wifi/SRC/WiFi/WiFiSTA.cpp), and the functions   *)
(* of WiFiGeneric.cpp that set the address of an interface, step by step.  *)
(* Nothing is locked.  The driver and esp_netif are external.              *)
(***************************************************************************)
EXTENDS Integers

CONSTANTS
  Networks,    \* what begin() is given
  Statics,     \* static addresses config() is given, besides 0.0.0.0
  NoNet,       \* no network
  Nothing      \* 0.0.0.0: ask DHCP

VARIABLES
  useStaticIp,         \* _useStaticIp
  conf, link,          \* the driver's configuration, and the network it is linked to
  dhcpc, ip,           \* the interface: its DHCP client, and the address that was set
  pc, call, net, addr, \* of each task: where it is, in which function, and its arguments
  asked, static,       \* history: network and address of the last call that succeeded
  crossedNet, crossed  \* history: two tasks were between reading and setting a
                       \* network, or an address, at once

radio == <<conf, link>>
interface == <<dhcpc, ip>>
history == <<asked, static, crossedNet, crossed>>
vars == <<useStaticIp, radio, interface, pc, call, net, addr, history>>

Tasks == {"app", "event"}
NoCall == [t \in Tasks |-> "rest"]

Init ==
  /\ useStaticIp = FALSE /\ conf = NoNet /\ link = NoNet /\ dhcpc = "init" /\ ip = Nothing
  /\ pc = NoCall /\ call = [t \in Tasks |-> "begin"]
  /\ net = [t \in Tasks |-> NoNet] /\ addr = [t \in Tasks |-> Nothing]
  /\ asked = NoNet /\ static = Nothing /\ crossedNet = FALSE /\ crossed = FALSE

-----------------------------------------------------------------------------
AddressSteps == {"stop", "address", "start", "dns"}

Goes(t, step) == pc' = [pc EXCEPT ![t] = step]

EntersNet(t) ==
  crossedNet' = (crossedNet \/ \E o \in Tasks \ {t} : pc[o] # "rest" /\ call[o] # "config")

EntersAddress(t) == crossed' = (crossed \/ \E o \in Tasks \ {t} : pc[o] \in AddressSteps)

(* begin(ssid, ...): enableSTA() and the tests of the arguments are passed.*)
Begin(t, n) ==
  /\ pc[t] = "rest" /\ Goes(t, "read") /\ EntersNet(t)
  /\ call' = [call EXCEPT ![t] = "begin"] /\ net' = [net EXCEPT ![t] = n]
  /\ addr' = [addr EXCEPT ![t] = Nothing]
  /\ UNCHANGED <<useStaticIp, radio, interface, asked, static, crossed>>

(* begin(): of the configuration the driver has.                           *)
BeginAgain(t) ==
  /\ pc[t] = "rest" /\ conf # NoNet /\ Goes(t, "read") /\ EntersNet(t)
  /\ call' = [call EXCEPT ![t] = "again"] /\ addr' = [addr EXCEPT ![t] = Nothing]
  /\ UNCHANGED <<useStaticIp, radio, interface, net, asked, static, crossed>>

(* config().                                                               *)
Configure(t, a) ==
  /\ pc[t] = "rest" /\ Goes(t, "stop") /\ EntersAddress(t)
  /\ call' = [call EXCEPT ![t] = "config"] /\ addr' = [addr EXCEPT ![t] = a]
  /\ UNCHANGED <<useStaticIp, radio, interface, net, asked, static, crossedNet>>

(* A call ends, and with it its arguments and variables; that of config()  *)
(* remembers whether it went well.                                         *)
Returns(t, ok) ==
  /\ Goes(t, "rest") /\ call' = [call EXCEPT ![t] = "begin"]
  /\ net' = [net EXCEPT ![t] = NoNet] /\ addr' = [addr EXCEPT ![t] = Nothing]
  /\ useStaticIp' = (IF call[t] = "config" THEN ok ELSE useStaticIp)
  /\ static' = (IF call[t] = "config" /\ ok THEN addr[t] ELSE static)

Keeps == UNCHANGED <<useStaticIp, static, call, net, addr>>

-----------------------------------------------------------------------------
(* esp_wifi_get_config() and what is made of it.  The status may say more  *)
(* or less than the link, so that begin(ssid) may or may not go on with    *)
(* the network the driver has already.                                     *)
Read(t) ==
  /\ pc[t] = "read"
  /\ \/ Returns(t, FALSE)
     \/ call[t] = "begin" /\ net[t] # conf /\ Goes(t, "leave") /\ Keeps
     \/ call[t] = "begin" /\ net[t] = conf /\ Returns(t, TRUE)
     \/ call[t] = "begin" /\ net[t] = conf /\ Goes(t, "store") /\ Keeps
     \/ /\ call[t] = "again" /\ net' = [net EXCEPT ![t] = conf] /\ Goes(t, "store")
        /\ UNCHANGED <<useStaticIp, static, call, addr>>
  /\ UNCHANGED <<radio, interface, asked, crossedNet, crossed>>

Leave(t) ==
  /\ pc[t] = "leave"
  /\ \/ Returns(t, FALSE) /\ UNCHANGED link
     \/ link' = NoNet /\ Goes(t, "store") /\ Keeps
  /\ UNCHANGED <<conf, interface, asked, crossedNet, crossed>>

(* esp_wifi_set_config().                                                  *)
StoreConf(t) ==
  /\ pc[t] = "store"
  /\ \/ Returns(t, FALSE) /\ UNCHANGED <<conf, asked>>
     \/ /\ conf' = net[t] /\ Goes(t, "choose") /\ Keeps
        /\ asked' = (IF call[t] = "begin" THEN net[t] ELSE asked)
  /\ UNCHANGED <<link, interface, crossedNet, crossed>>

(* Without a static address the interface is set back to DHCP.             *)
Choose(t) ==
  /\ pc[t] = "choose"
  /\ \/ useStaticIp /\ Goes(t, "connect") /\ UNCHANGED crossed
     \/ ~useStaticIp /\ Goes(t, "stop") /\ EntersAddress(t)
  /\ Keeps /\ UNCHANGED <<radio, interface, asked, crossedNet>>

(* set_esp_interface_ip(): any of its calls may fail; a client that is     *)
(* stopped already is no failure, one that is started already is.          *)
StopDhcp(t) ==
  /\ pc[t] = "stop"
  /\ \/ Returns(t, FALSE) /\ UNCHANGED dhcpc
     \/ dhcpc' = "stopped" /\ Goes(t, "address") /\ Keeps
  /\ UNCHANGED <<radio, ip, asked, crossedNet, crossed>>

AfterAddress(t) == IF call[t] = "config" THEN "dns" ELSE "connect"

SetAddress(t) ==
  /\ pc[t] = "address"
  /\ \/ Returns(t, FALSE) /\ UNCHANGED ip
     \/ /\ dhcpc = "stopped" /\ ip' = addr[t] /\ Keeps
        /\ Goes(t, IF addr[t] = Nothing THEN "start" ELSE AfterAddress(t))
  /\ UNCHANGED <<radio, dhcpc, asked, crossedNet, crossed>>

StartDhcp(t) ==
  /\ pc[t] = "start"
  /\ \/ Returns(t, FALSE) /\ UNCHANGED dhcpc
     \/ dhcpc # "started" /\ dhcpc' = "started" /\ Goes(t, AfterAddress(t)) /\ Keeps
  /\ UNCHANGED <<radio, ip, asked, crossedNet, crossed>>

(* set_esp_interface_dns(): what was set before it stays when it fails.    *)
SetDns(t) ==
  /\ pc[t] = "dns" /\ \E ok \in BOOLEAN : Returns(t, ok)
  /\ UNCHANGED <<radio, interface, asked, crossedNet, crossed>>

(* esp_wifi_connect(), unless begin(ssid) was told not to, or the status   *)
(* says that begin() need not.                                             *)
Connect(t) ==
  /\ pc[t] = "connect" /\ \E ok \in BOOLEAN : Returns(t, ok)
  /\ link' \in {link, IF link = NoNet THEN conf ELSE link}
  /\ UNCHANGED <<conf, interface, asked, crossedNet, crossed>>

Lose ==
  /\ link # NoNet /\ link' = NoNet
  /\ UNCHANGED <<useStaticIp, conf, interface, pc, call, net, addr, history>>

Step(t) ==
  \/ Read(t) \/ Leave(t) \/ StoreConf(t) \/ Choose(t) \/ StopDhcp(t) \/ SetAddress(t) \/ StartDhcp(t)
  \/ SetDns(t) \/ Connect(t)

Next ==
  \/ (\E n \in Networks : Begin("app", n)) \/ (\E a \in Statics \cup {Nothing} : Configure("app", a))
  \/ (\E t \in Tasks : BeginAgain(t) \/ Step(t)) \/ Lose

Spec == Init /\ [][Next]_vars

-----------------------------------------------------------------------------
TypeOK ==
  /\ conf \in Networks \cup {NoNet} /\ link \in Networks \cup {NoNet} /\ asked \in Networks \cup {NoNet}
  /\ dhcpc \in {"init", "started", "stopped"}
  /\ ip \in Statics \cup {Nothing} /\ static \in Statics \cup {Nothing}
  /\ useStaticIp \in BOOLEAN /\ crossedNet \in BOOLEAN /\ crossed \in BOOLEAN
  /\ pc \in [Tasks -> {"rest", "read", "leave", "store", "choose", "connect"} \cup AddressSteps]
  /\ call \in [Tasks -> {"begin", "again", "config"}]
  /\ net \in [Tasks -> Networks \cup {NoNet}] /\ addr \in [Tasks -> Statics \cup {Nothing}]

(* As long as the two tasks did not set an address at once: with a static  *)
(* address in use the interface has the one that config() was given, and   *)
(* its DHCP client runs exactly if that is 0.0.0.0, whatever begin() did.  *)
AddressHolds ==
  useStaticIp /\ ~crossed /\ (\A t \in Tasks : pc[t] \notin AddressSteps) =>
    ip = static /\ (dhcpc = "started" <=> static = Nothing)

(* As long as the two tasks did not look for a network at once: the driver *)
(* has the last network it was given, and a link is to that network.       *)
NetworkHolds == ~crossedNet => conf = asked /\ link \in {NoNet, conf}

SetupIsSound == AddressHolds /\ NetworkHolds
=============================================================================
