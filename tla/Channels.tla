------------------------------ MODULE Channels ------------------------------
(***************************************************************************)
(* What a program gets from the network: the bytes of a TCP connection     *)
(* (TcpStream), the events it registers callbacks for (WifiCallbacks), the *)
(* addresses of its station (IPv4) and those of names it asks for (Dns),   *)
(* and the properties they have.                                           *)
(***************************************************************************)
EXTENDS Integers, Sequences

CONSTANTS
  Size, Lengths, Chunk, Retry, StreamIn, MaxOut,   \* TcpStream
  Handlers, Kinds, AnyEvent, NoEvent, MaxIds,      \* WifiCallbacks
  Given, Prefixes,                                 \* IPv4
  Callers, Names, NoAddress, MaxStale              \* Dns

VARIABLES
  allocated, held, pos, failed, open, connected, peer, arrived, kernel, doing, left, size, sent,
  retry, stream, got, flushed, next, out, lost, misled,
  cbEventList, current_id, handled, passed, inside, called, due, shifted,
  mode, netif, info, prefix, linkLocal,
  at_dns, name, aResult, requests, answering, dnsBits, overlap

streamVars == <<allocated, held, pos, failed, open, connected, peer, arrived, kernel, doing, left,
                size, sent, retry, stream, got, flushed, next, out, lost, misled>>
callbackVars == <<cbEventList, current_id, handled, passed, inside, called, due, shifted>>
addressVars == <<mode, netif, info, prefix, linkLocal>>
resolverVars == <<at_dns, name, aResult, requests, answering, dnsBits, overlap>>

Stream == INSTANCE TcpStream WITH pc <- doing, MaxIn <- StreamIn
Callbacks == INSTANCE WifiCallbacks WITH
  Functions <- Handlers, Events <- Kinds, None <- NoEvent, i <- passed
Addresses == INSTANCE IPv4
Resolver == INSTANCE Dns WITH
  pc <- at_dns, bits <- dnsBits, result <- aResult, Zero <- NoAddress

ASSUME ChannelsAssumption ==
  Stream!SizesOK /\ Callbacks!BoundOK /\ Addresses!AddressesOK /\ Resolver!ConstantsOK

(* Reads and writes of a TCP connection keep both byte streams.            *)
StreamIntact == Stream!StreamIntact

(* Callbacks that stay registered are called, once and in order.           *)
DispatchIsFair == Callbacks!DispatchIsFair

(* Network, broadcast address and prefix length are those of the address.  *)
AddressesFit == Addresses!AddressesFit

(* While calls of hostByName do not overlap, their results are those of    *)
(* the names they ask for.                                                 *)
ResultIsOwn == Resolver!ResultIsOwn

(* Whatever overlaps in hostByName, IDLE is neither lost nor waited for in *)
(* vain.                                                                   *)
IdleIsKept == Resolver!IdleIsKept
=============================================================================
