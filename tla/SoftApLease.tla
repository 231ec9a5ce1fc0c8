---------------------------- MODULE SoftApLease ----------------------------
(***************************************************************************)
(* softAPConfig() (src/Extensions/Network/wifi/SRC/WiFi/WiFiAP.cpp) and    *)
(* set_esp_interface_ip() for the access point (WiFiGeneric.cpp): the      *)
(* DHCP server is stopped, given the address of the access point and the   *)
(* range it may lease, and started again; every step may fail.  Addresses  *)
(* and masks are their last octets, in a network of 24 bits or more.       *)
(***************************************************************************)
EXTENDS Integers

CONSTANTS
  Owns,      \* last octets the access point is given
  Masks      \* last octets of its subnet mask

OctetsOK == Owns \subseteq 0 .. 255 /\ Masks \subseteq 0 .. 255

VARIABLES
  dhcps,         \* the DHCP server runs
  own, mask,     \* of the interface
  first, last,   \* the range to lease
  pc, toOwn, toMask, answer     \* the call

vars == <<dhcps, own, mask, first, last, pc, toOwn, toMask, answer>>

(* The defaults of esp_netif: 192.168.4.1/24 with leases from .2.          *)
Init ==
  /\ dhcps = TRUE /\ own = 1 /\ mask = 0 /\ first = 2 /\ last = 12
  /\ pc = "rest" /\ toOwn = 1 /\ toMask = 0 /\ answer = TRUE

SoftAPConfig ==
  /\ pc = "rest" /\ pc' = "stop" /\ toOwn' \in Owns /\ toMask' \in Masks
  /\ UNCHANGED <<dhcps, own, mask, first, last, answer>>

Fails == pc' = "rest" /\ answer' = FALSE
Goes(step) == pc' = step /\ UNCHANGED answer

Stop ==
  /\ pc = "stop"
  /\ \/ Fails /\ UNCHANGED dhcps
     \/ Goes("address") /\ dhcps' = FALSE
  /\ UNCHANGED <<own, mask, first, last, toOwn, toMask>>

SetAddress ==
  /\ pc = "address"
  /\ \/ Fails /\ UNCHANGED <<own, mask>>
     \/ Goes("lease") /\ own' = toOwn /\ mask' = toMask
  /\ UNCHANGED <<dhcps, first, last, toOwn, toMask>>

(* (uint8_t)(~subnet[3] - 12): eleven addresses and the broadcast address  *)
(* fit above it.  Octets wrap.                                             *)
LeaseStart == (255 - toMask - 12) % 256

SetLease ==
  /\ pc = "lease"
  /\ \/ Fails /\ UNCHANGED <<first, last>>
     \/ /\ Goes("start")
        /\ \/ toOwn < LeaseStart /\ first' = (toOwn + 1) % 256 /\ last' = (toOwn + 11) % 256
           \/ toOwn >= LeaseStart /\ first' = 1 /\ last' = 11
  /\ UNCHANGED <<dhcps, own, mask, toOwn, toMask>>

Start ==
  /\ pc = "start"
  /\ \/ Fails /\ UNCHANGED dhcps
     \/ pc' = "rest" /\ answer' = TRUE /\ dhcps' = TRUE
  /\ UNCHANGED <<own, mask, first, last, toOwn, toMask>>

Next == SoftAPConfig \/ Stop \/ SetAddress \/ SetLease \/ Start

Spec == Init /\ [][Next]_vars

-----------------------------------------------------------------------------
TypeOK == pc \in {"rest", "stop", "address", "lease", "start"} /\ {own, mask, first, last} \subseteq 0..255

(* Masks with room for the eleven leases.                                  *)
Roomy == {0, 128, 192, 224}

(* A DHCP server that runs after any number of calls, failed ones too,     *)
(* leases eleven addresses of the subnet that are neither the access       *)
(* point's own nor the broadcast address, as long as that is in the first  *)
(* subnet of its 24 bits (in a later one the range is still 1 to 11).      *)
LeasesFit ==
  dhcps /\ pc = "rest" /\ mask \in Roomy /\ own \in 1..(254 - mask) =>
    /\ last - first = 10 /\ first >= 1 /\ last < 255 - mask
    /\ own \notin first..last
=============================================================================
