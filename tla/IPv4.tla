-------------------------------- MODULE IPv4 --------------------------------
(***************************************************************************)
(* The address queries of class_IPv4                                       *)
(* (src/Extensions/Network/Protocols/IPv4.cpp) over the station's          *)
(* interface, which gets, changes and loses its addresses while the        *)
(* queries are made.  An address is four octets.                           *)
(***************************************************************************)
EXTENDS Integers

CONSTANTS
  Given,       \* the addresses that the station and its gateway may get
  Prefixes     \* lengths of the network's part of an address

AddressesOK == Given \subseteq [1 .. 4 -> 0 .. 255] /\ Prefixes \subseteq 1 .. 32

VARIABLES
  mode,        \* WiFiGenericClass::getMode() is not WIFI_MODE_NULL
  netif,       \* esp_netif_get_ip_info() of the station's interface succeeds
  info,        \* what it gives: address, netmask and gateway
  prefix,      \* history: the prefix length DHCP gave, 0 without an address
  linkLocal    \* the interface has its IPv6 link-local address

vars == <<mode, netif, info, prefix, linkLocal>>

Zero == [i \in 1 .. 4 |-> 0]
NoInfo == [ip |-> Zero, netmask |-> Zero, gw |-> Zero]

(* The bits of octet i that a prefix of length n covers.                   *)
Bits(n, i) == IF n <= 8 * (i - 1) THEN 0 ELSE IF n >= 8 * i THEN 8 ELSE n - 8 * (i - 1)

(* The values that the other bits of the octet take, and the octet that    *)
(* has only the network's bits.                                            *)
Spans == <<256, 128, 64, 32, 16, 8, 4, 2, 1>>
Span(n, i) == Spans[Bits(n, i) + 1]
Mask(n) == [i \in 1 .. 4 |-> 256 - Span(n, i)]
Network(address, n) == [i \in 1 .. 4 |-> address[i] - (address[i] % Span(n, i))]

Init == mode = FALSE /\ netif = FALSE /\ info = NoInfo /\ prefix = 0 /\ linkLocal = FALSE

-----------------------------------------------------------------------------
(* The operators & and | of octets.                                        *)
Bit(x, power) == (x \div power) % 2
Both(x, y, power) == power * Bit(x, power) * Bit(y, power)
And(x, y) == Both(x, y, 1) + Both(x, y, 2) + Both(x, y, 4) + Both(x, y, 8)
             + Both(x, y, 16) + Both(x, y, 32) + Both(x, y, 64) + Both(x, y, 128)
Or(x, y) == x + y - And(x, y)

CalculateNetworkID(ip, subnet) == [i \in 1 .. 4 |-> And(subnet[i], ip[i])]

CalculateBroadcastOfMask(ip, subnet) == [i \in 1 .. 4 |-> Or(subnet[i], ip[i])]   \* fault variant: without ~

(* ~subnet[i] | ip[i] is an int, of which an octet takes the lowest eight  *)
(* bits.                                                                   *)
CalculateBroadcast(ip, subnet) == [i \in 1 .. 4 |-> Or(255 - subnet[i], ip[i])]

CidrOf(octet) ==
  CASE octet = 128 -> 1 [] octet = 192 -> 2 [] octet = 224 -> 3 [] octet = 240 -> 4
    [] octet = 248 -> 5 [] octet = 252 -> 6 [] octet = 254 -> 7 [] octet = 255 -> 8
    [] OTHER -> 0
CalculateSubnetCIDR(subnet) ==
  CidrOf(subnet[1]) + CidrOf(subnet[2]) + CidrOf(subnet[3]) + CidrOf(subnet[4])

Answers == mode /\ netif
LocalIP == IF Answers THEN info.ip ELSE Zero
SubnetMask == IF Answers THEN info.netmask ELSE Zero
GatewayIP == IF Answers THEN info.gw ELSE Zero
BroadcastIP == IF Answers THEN CalculateBroadcast(info.gw, info.netmask) ELSE Zero
NetworkID == IF Answers THEN CalculateNetworkID(info.gw, info.netmask) ELSE Zero
SubnetCIDR == IF Answers THEN CalculateSubnetCIDR(info.netmask) ELSE 0

EnableIpV6 == mode /\ netif /\ linkLocal' = TRUE /\ UNCHANGED <<mode, netif, info, prefix>>
LocalIPv6 == mode /\ netif /\ linkLocal

-----------------------------------------------------------------------------
(* The interface.  DHCP gives an address of a network, and a gateway in    *)
(* it or none.                                                             *)
SetMode ==
  /\ mode' = ~mode /\ netif' \in (IF mode THEN {netif} ELSE BOOLEAN)
  /\ IF netif' THEN UNCHANGED <<info, prefix, linkLocal>>
               ELSE info' = NoInfo /\ prefix' = 0 /\ linkLocal' = FALSE

GotIP ==
  \E ip \in Given, n \in Prefixes, gw \in Given \cup {Zero} :
    /\ gw = Zero \/ Network(gw, n) = Network(ip, n)
    /\ mode /\ netif
    /\ info' = [ip |-> ip, netmask |-> Mask(n), gw |-> gw] /\ prefix' = n
    /\ UNCHANGED <<mode, netif, linkLocal>>

LostIP == netif /\ info' = NoInfo /\ prefix' = 0 /\ UNCHANGED <<mode, netif, linkLocal>>

Next == EnableIpV6 \/ SetMode \/ GotIP \/ LostIP
Spec == Init /\ [][Next]_vars

-----------------------------------------------------------------------------
(* The reference: the network of the station's own address, by its prefix. *)
First == Network(LocalIP, prefix)
Last == [i \in 1 .. 4 |-> First[i] + Span(prefix, i) - 1]

(* While the station has an address of a network with a gateway, its       *)
(* network, broadcast address and prefix length are those of that address, *)
(* although they are computed from the gateway's; without an address, or   *)
(* without the interface, every answer is zero.  (Without a gateway, the   *)
(* network is zero.)                                                       *)
AddressesFit ==
  /\ Answers /\ prefix > 0 =>
       /\ SubnetCIDR = prefix
       /\ GatewayIP # Zero => NetworkID = First /\ BroadcastIP = Last
       /\ GatewayIP = Zero => NetworkID = Zero
  /\ ~Answers =>
       /\ {LocalIP, SubnetMask, GatewayIP, BroadcastIP, NetworkID} = {Zero}
       /\ SubnetCIDR = 0 /\ ~LocalIPv6
=============================================================================
