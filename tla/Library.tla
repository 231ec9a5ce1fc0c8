------------------------------ MODULE Library ------------------------------
(***************************************************************************)
(* The parts of the library copy under wifi/SRC that Library_proofs has    *)
(* theorems about, for any values of their constants: the sockets of TCP   *)
(* clients and server, a TLS client and its bundle of roots, a UDP socket, *)
(* scans, the events of access point and Ethernet, the set-up of a station *)
(* and the leases of an access point.  They share no state.  MC_Parts      *)
(* extends this module with the other parts.                               *)
(***************************************************************************)
CONSTANTS
  Clients, Sockets, Backlog,                         \* of TcpHandles
  TlsSockets, MaxIn,                                 \* of TlsClient
  Bundles, Issuers, Keys, NoTable,                   \* of CrtBundle
  Hosts, Group, Nobody, Cap, MaxBytes, MaxPackets,   \* of UdpSocket
  Nearby, Lists, NoSsid, Low, Half, MaxScans,        \* of WifiScan
  MaxClients, QueueLen, MaxChanges, MaxFaults,       \* of WifiEvents
  Ssids, Statics, NoNet, Nothing,                    \* of StationSetup
  Owns, Masks                                        \* of SoftApLease

VARIABLES
  sockets, handle, fd, isConnected, trying, sockfd, accepted, listening, bound, waiting,
  tlsSockets, socket, tlsConnected, peek, tlsStep, trust, cert, memory, conf, session, tlsPeer,
  tlsArrived, pending, tlsGot, again,
  crts, num_certs, attached, at_cert, issuer, signer, start, end, middle, verdict, replaced, misread,
  udp_server, multicast_ip, server_port, remote, tx_buffer, tx, rx_buffer, sender, inbox, joined,
  written, began, base, moved, panic,
  SCANNING, DONE, started, count, result, driver, found, events, handler, app, async, multi,
  APlist, link, scans, raced, impatient, leaked, scanResult, index, best,
  made, registered, initialized, ap, stations, apIp6, eth, posted, queue, bits, scSession,
  smart, smartDone, changes, faults, eventLost, overtaken,
  useStaticIp, conf_net, linked, dhcpc, ip, caller, call, net, addr, asked, static,
  crossedNet, crossed,
  dhcps, own, mask, first, last, leasing, toOwn, toMask, answer

clientsVars == <<sockets, handle, fd, isConnected, trying, sockfd, accepted, listening, bound, waiting>>
tlsVars == <<tlsSockets, socket, tlsConnected, peek, tlsStep, trust, cert, memory, conf, session,
             tlsPeer, tlsArrived, pending, tlsGot, again>>
bundleVars == <<crts, num_certs, attached, at_cert, issuer, signer, start, end, middle, verdict,
                replaced, misread>>
udpVars == <<udp_server, multicast_ip, server_port, remote, tx_buffer, tx, rx_buffer, sender, inbox,
             joined, written, began, base, moved, panic>>
scanVars == <<SCANNING, DONE, started, count, result, driver, found, events, handler, app, async,
              multi, scanResult, index, best, APlist, link, scans, raced, impatient, leaked>>
eventVars == <<made, registered, initialized, ap, stations, apIp6, eth, posted, queue, bits, scSession,
               smart, smartDone, changes, faults, eventLost, overtaken>>
setupVars == <<useStaticIp, conf_net, linked, dhcpc, ip, caller, call, net, addr, asked, static,
               crossedNet, crossed>>
leaseVars == <<dhcps, own, mask, first, last, leasing, toOwn, toMask, answer>>

Tcp == INSTANCE TcpHandles WITH connected <- isConnected
Tls == INSTANCE TlsClient WITH
  Sockets <- TlsSockets, sockets <- tlsSockets, connected <- tlsConnected, pc <- tlsStep,
  peer <- tlsPeer, arrived <- tlsArrived, got <- tlsGot
Bundle == INSTANCE CrtBundle WITH pc <- at_cert, raced <- replaced, panic <- misread
Udp == INSTANCE UdpSocket WITH next <- written
Scan == INSTANCE WifiScan
Status == INSTANCE WifiEvents WITH session <- scSession, lost <- eventLost
Setup == INSTANCE StationSetup WITH
  Networks <- Ssids, conf <- conf_net, link <- linked, pc <- caller
Leases == INSTANCE SoftApLease WITH pc <- leasing

ASSUME LibraryAssumption ==
  /\ Tcp!BoundsOK /\ Tls!SizesOK /\ Bundle!BundlesAreSorted /\ Udp!PacketsOK
  /\ Scan!NearbyOK /\ Status!ClientsOK /\ Leases!OctetsOK

-----------------------------------------------------------------------------
(* Every descriptor of the TCP clients and the server has one owner.       *)
SocketsAreOwned == Tcp!SocketsAreOwned

(* A TLS client's socket, session, certificates and bytes belong together, *)
(* and the bundle of roots vouches for what its roots have signed.         *)
TlsIsSound == Tls!TlsIsSound /\ Bundle!VerdictIsRight /\ Bundle!ReadsAreSafe

(* What is sent and read over UDP is the packet that was begun or parsed.  *)
DatagramIntact == Udp!DatagramIntact

(* A scan that is marked as running is going to be marked as done, and its *)
(* results are as many as its count; a station keeps the network and the   *)
(* address it was given; what an access point leases lies in its subnet.   *)
WifiIsSound ==
  /\ Scan!RunningScanEnds /\ Scan!ResultsFit
  /\ Setup!SetupIsSound
  /\ Leases!LeasesFit

(* WiFiMulti joins the strongest network it can use.                       *)
BestIsJoined == Scan!BestIsJoined

(* When all events are handled the bits tell access point and Ethernet.    *)
EventsTellWorld == Status!EventsTellWorld
=============================================================================
