----------------------------- MODULE MC_Parts -------------------------------
(***************************************************************************)
(* For TLC, side by side: the parts of the Wi-Fi library (sockets, scans,  *)
(* events, addresses), the resolver, and the services of the Modbus        *)
(* programs on top of it.  They share no state, so one of them runs in a   *)
(* behaviour, chosen at its beginning, and the others stay as they begin:  *)
(* the states of the run are the sum of the states of the parts.  The      *)
(* properties of Library, Channels and ModbusRuns are stated there; the    *)
(* bounds are in Parts.cfg.                                                *)
(***************************************************************************)
EXTENDS Integers, Sequences, Library, Channels, ModbusRuns

VARIABLE running    \* the part that runs

socketVars == <<streamVars, clientsVars, tlsVars, udpVars, bundleVars>>
wifiVars == <<scanVars, callbackVars, eventVars, addressVars, setupVars, leaseVars>>
vars == <<socketVars, wifiVars, serviceVars, resolverVars, running>>

-----------------------------------------------------------------------------
(* The bounds of each part.                                                *)
(* Networks of equal and of different strength, with and without password, *)
(* known and unknown; three of them are more than the count can hold.  An  *)
(* access point is listed twice, first with its password.                  *)
Network(ssid, rssi, isOpen) == [ssid |-> ssid, rssi |-> rssi, open |-> isOpen]
Entry(ssid, pass) == [ssid |-> ssid, pass |-> pass]
Few == {<<>>,
        <<Network("b", 2, TRUE), Network("a", 2, TRUE)>>,
        <<Network("b", 1, TRUE), Network("c", 3, TRUE), Network("a", 2, TRUE)>>}
Listed == {<<Entry("a", FALSE), Entry("b", TRUE), Entry("b", FALSE)>>}

(* Addresses of which some share their first octet, two or three of them,  *)
(* with ends of ranges in each place.                                      *)
FewAddresses == {<<10, 127, 127, 1>>, <<10, 127, 127, 130>>, <<10, 127, 128, 255>>,
                 <<10, 240, 0, 130>>, <<171, 127, 127, 130>>}

(* Roots with the names 1 to 3 in any combination, one with a name twice.  *)
Root(subject, key) == [name |-> subject, key |-> key]
Roots ==
  {SelectSeq(<<Root(1, 1), Root(2, 0), Root(3, 1)>>, LAMBDA r : r.name \in S) : S \in SUBSET (1..3)}

SomeRoots == Roots \cup {<<Root(1, 0), Root(1, 1)>>}

-----------------------------------------------------------------------------
Parts == {"stream", "clients", "tls", "udp", "scan", "callbacks", "events", "addresses",
          "services", "resolver", "bundle", "setup", "leases"}

Init ==
  /\ running \in Parts
  /\ Stream!Init /\ Tcp!Init /\ Tls!Init /\ Udp!Init
  /\ Scan!Init /\ Callbacks!Init /\ Status!Init /\ Addresses!Init
  /\ Bundle!Init /\ Setup!Init /\ Leases!Init /\ Services!Init
  /\ Resolver!Init
  /\ running # "services" => program = "tcp_master" /\ resolver = "mdns" /\ announced = {}
  /\ running # "bundle" => issuer = 0 /\ signer = 0
  /\ running # "resolver" => \A c \in Callers : name[c] = CHOOSE n \in Names : TRUE

SocketStep ==
  /\ \/ running = "stream" /\ Stream!Next /\ UNCHANGED <<clientsVars, tlsVars, udpVars, bundleVars>>
     \/ running = "clients" /\ Tcp!Next /\ UNCHANGED <<streamVars, tlsVars, udpVars, bundleVars>>
     \/ running = "tls" /\ Tls!Next /\ UNCHANGED <<streamVars, clientsVars, udpVars, bundleVars>>
     \/ /\ running = "udp" /\ ~panic /\ Udp!Next
        /\ UNCHANGED <<streamVars, clientsVars, tlsVars, bundleVars>>
     \/ running = "bundle" /\ Bundle!Next /\ UNCHANGED <<streamVars, clientsVars, tlsVars, udpVars>>
  /\ UNCHANGED <<wifiVars, serviceVars, resolverVars, running>>

WifiStep ==
  /\ \/ /\ running = "scan" /\ Scan!Next
        /\ UNCHANGED <<callbackVars, eventVars, addressVars, setupVars, leaseVars>>
     \/ /\ running = "callbacks" /\ Callbacks!Next
        /\ UNCHANGED <<scanVars, eventVars, addressVars, setupVars, leaseVars>>
     \/ /\ running = "events" /\ Status!Next
        /\ UNCHANGED <<scanVars, callbackVars, addressVars, setupVars, leaseVars>>
     \/ /\ running = "addresses" /\ Addresses!Next
        /\ UNCHANGED <<scanVars, callbackVars, eventVars, setupVars, leaseVars>>
     \/ /\ running = "setup" /\ Setup!Next
        /\ UNCHANGED <<scanVars, callbackVars, eventVars, addressVars, leaseVars>>
     \/ /\ running = "leases" /\ Leases!Next
        /\ UNCHANGED <<scanVars, callbackVars, eventVars, addressVars, setupVars>>
  /\ UNCHANGED <<socketVars, serviceVars, resolverVars, running>>

ServiceStep ==
  /\ running = "services" /\ Services!Next
  /\ UNCHANGED <<socketVars, wifiVars, resolverVars, running>>

ResolverStep ==
  /\ running = "resolver" /\ Resolver!Next
  /\ UNCHANGED <<socketVars, wifiVars, serviceVars, running>>

Next == SocketStep \/ WifiStep \/ ServiceStep \/ ResolverStep

(* What has begun in the part that runs goes on; one condition serves two  *)
(* parts, of which one runs.  (Weak fairness of each part's own steps.)    *)
(* Each task that resolves a name goes on, and lwIP does.                  *)
CallGoesOn ==
  \/ running = "stream" /\ Stream!Goes /\ UNCHANGED bundleVars
  \/ /\ running = "bundle" /\ ~misread /\ (Bundle!Search \/ Bundle!CheckSignature)
     /\ UNCHANGED streamVars

Spec ==
  /\ Init /\ [][Next]_vars
  /\ WF_<<streamVars, bundleVars>>(CallGoesOn)
  /\ WF_resolverVars(Resolver!Lwip)
  /\ \A c \in Callers : WF_resolverVars(Resolver!HostByName(c))

-----------------------------------------------------------------------------
(* The variables of the part that runs stay in their types.                *)
TypesOK ==
  /\ running = "stream" => Stream!TypeOK
  /\ running = "clients" => Tcp!TypeOK
  /\ running = "tls" => Tls!TypeOK
  /\ running = "udp" => Udp!TypeOK
  /\ running = "bundle" => Bundle!TypeOK
  /\ running = "scan" => Scan!TypeOK
  /\ running = "callbacks" => Callbacks!TypeOK
  /\ running = "events" => Status!TypeOK
  /\ running = "setup" => Setup!TypeOK
  /\ running = "leases" => Leases!TypeOK
  /\ running = "services" => Services!TypeOK
  /\ running = "resolver" => Resolver!TypeOK

(* A read or write of a TCP connection that has begun ends, and so does a  *)
(* search in the bundle of roots, and each task's call of hostByName.      *)
Calling ==
  \/ running = "stream" /\ Stream!InIo
  \/ running = "bundle" /\ at_cert # "rest"

CallsEnd == (Calling ~> ~Calling) /\ Resolver!CallReturns
=============================================================================
