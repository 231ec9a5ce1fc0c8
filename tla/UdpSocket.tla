----------------------------- MODULE UdpSocket -----------------------------
(***************************************************************************)
(* WiFiUDP (src/Extensions/Network/wifi/SRC/WiFi/WiFiUdp.cpp).  The object *)
(* has one remote address for both directions: beginPacket() sets it for   *)
(* the datagram being built, parsePacket() to the sender of the one being  *)
(* read.  One task uses it, in any order of calls; bytes are numbered.     *)
(***************************************************************************)
EXTENDS Integers, Sequences

CONSTANTS
  Hosts,       \* addresses with a port other than 0
  Group,       \* a multicast address
  Nobody,      \* port 0, or no multicast address
  Cap,         \* of tx_buffer, and of what parsePacket() receives (1460)
  MaxBytes,    \* bound: bytes written
  MaxPackets   \* bound: datagrams waiting in lwIP, and their length Cap + 1

(* The buffer holds a byte, and port 0 is nobody's.                        *)
PacketsOK == Cap \in Nat \ {0} /\ MaxPackets \in Nat /\ Nobody \notin Hosts \cup {Group}

VARIABLES
  udp_server,  \* it has a socket
  multicast_ip,
  server_port, \* it is set; a multicast packet goes to that port
  remote,      \* remote_ip with remote_port
  tx_buffer,   \* it is allocated
  tx,          \* its first tx_buffer_len bytes
  rx_buffer,   \* the bytes not yet read, <<>> for null
  sender,      \* history: who sent them
  inbox,       \* lwIP: the datagrams of this socket, sender and length
  joined,      \* lwIP: the socket is a member of the group
  next,        \* the byte written next
  began,       \* history: a packet was begun and not ended; its destination
  base,        \* history: its first byte not sent in an earlier part
  moved,       \* history: parsePacket() has changed the remote address since
  panic        \* a store through null

socket == <<udp_server, multicast_ip, server_port, joined>>
sending == <<tx_buffer, tx, next, began, base, panic>>
receiving == <<rx_buffer, sender, inbox>>
vars == <<socket, remote, sending, receiving, moved>>

Init ==
  /\ udp_server = FALSE /\ multicast_ip = Nobody /\ server_port = FALSE /\ remote = Nobody
  /\ tx_buffer = FALSE /\ tx = <<>> /\ rx_buffer = <<>> /\ sender = Nobody
  /\ inbox = <<>> /\ joined = FALSE /\ next = 1
  /\ began = Nobody /\ base = 1 /\ moved = FALSE /\ panic = FALSE

-----------------------------------------------------------------------------
(* What stop() leaves; multicast_ip is only reset when there is a socket.  *)
DroppedSocketOnly == UNCHANGED multicast_ip   \* fault variant: the group is kept

Dropped == multicast_ip' = (IF udp_server THEN Nobody ELSE multicast_ip)

Empty == rx_buffer' = <<>> /\ sender' = Nobody /\ inbox' = <<>> /\ tx' = <<>> /\ began' = Nobody

Stop ==
  /\ Empty /\ Dropped /\ udp_server' = FALSE /\ joined' = FALSE /\ tx_buffer' = FALSE
  /\ UNCHANGED <<server_port, remote, next, base, moved, panic>>

(* begin() and beginMulticast().  Without a socket the buffer stays; when  *)
(* an option, bind() or the group is refused, everything is stopped again. *)
Begin(group) ==
  /\ Empty /\ server_port' = TRUE
  /\ \/ udp_server' = TRUE /\ tx_buffer' = TRUE
        /\ joined' = (group # Nobody)
        /\ IF group = Nobody THEN Dropped ELSE multicast_ip' = group
     \/ udp_server' = FALSE /\ tx_buffer' \in BOOLEAN /\ joined' = FALSE /\ Dropped
  /\ UNCHANGED <<remote, next, base, moved, panic>>

(* beginPacket(ip, port) has set the remote address before it can fail.    *)
Aim(to) ==
  /\ remote' = to /\ moved' = FALSE
  /\ IF to = Nobody
     THEN UNCHANGED <<tx_buffer, tx, base, udp_server>> /\ began' = Nobody
     ELSE /\ tx_buffer' = TRUE /\ tx' = <<>> /\ base' = next
          /\ \/ udp_server' = TRUE /\ began' = to
             \/ ~udp_server /\ udp_server' = FALSE /\ began' = Nobody
  /\ UNCHANGED <<multicast_ip, server_port, joined, next, panic, receiving>>

BeginPacket == \E to \in Hosts \cup {Nobody} : Aim(to)
BeginReply == Aim(remote)
BeginMulticastPacket == server_port /\ multicast_ip # Nobody /\ Aim(multicast_ip)

(* sendto() is given tx and remote, and changes neither; nobody looks      *)
(* whether the part of a long packet that write() sends has been sent.     *)
EndPacket ==
  /\ began' = Nobody
  /\ UNCHANGED <<socket, remote, tx_buffer, tx, next, base, panic, receiving, moved>>

(* Fault variant: one byte more than tx_buffer holds is written.           *)
WritePast ==
  /\ next <= MaxBytes /\ next' = next + 1 /\ tx_buffer
  /\ base' = IF Len(tx) > Cap THEN next ELSE base
  /\ tx' = Append(IF Len(tx) > Cap THEN <<>> ELSE tx, next)
  /\ UNCHANGED <<socket, remote, tx_buffer, began, receiving, moved, panic>>

Write ==
  /\ next <= MaxBytes
  /\ base' = IF Len(tx) = Cap THEN next ELSE base
  /\ LET kept == IF Len(tx) = Cap THEN <<>> ELSE tx IN
     IF tx_buffer THEN tx' = Append(kept, next) /\ UNCHANGED panic
                  ELSE panic' = TRUE /\ UNCHANGED tx
  /\ next' = next + 1
  /\ UNCHANGED <<socket, remote, tx_buffer, began, receiving, moved>>

-----------------------------------------------------------------------------
(* A datagram of no bytes changes the remote address and leaves no buffer. *)
ParsePacket ==
  /\ rx_buffer = <<>> /\ inbox # <<>>
  /\ LET packet == Head(inbox)
         n == IF packet[2] > Cap THEN Cap ELSE packet[2]
     IN /\ remote' = packet[1]
        /\ rx_buffer' = [i \in 1 .. n |-> i]
        /\ sender' = IF n = 0 THEN Nobody ELSE packet[1]
  /\ inbox' = Tail(inbox) /\ moved' = TRUE
  /\ UNCHANGED <<socket, sending>>

(* read(), read(buf, len) and flush(): the last byte frees the buffer.     *)
Read ==
  /\ rx_buffer # <<>>
  /\ \E n \in {1, Cap} :
       rx_buffer' = IF n >= Len(rx_buffer) THEN <<>> ELSE SubSeq(rx_buffer, n + 1, Len(rx_buffer))
  /\ sender' = IF rx_buffer' = <<>> THEN Nobody ELSE sender
  /\ UNCHANGED <<socket, remote, sending, inbox, moved>>

Arrives ==
  /\ udp_server /\ Len(inbox) < MaxPackets
  /\ \E from \in Hosts, n \in 0 .. Cap + 1 : inbox' = Append(inbox, <<from, n>>)
  /\ UNCHANGED <<socket, remote, sending, rx_buffer, sender, moved>>

Next ==
  \/ Stop \/ (\E group \in {Nobody, Group} : Begin(group))
  \/ BeginPacket \/ BeginReply \/ BeginMulticastPacket \/ Write \/ EndPacket
  \/ ParsePacket \/ Read \/ Arrives

Spec == Init /\ [][~panic /\ Next]_vars

-----------------------------------------------------------------------------
TypeOK ==
  /\ {udp_server, server_port, tx_buffer, joined, moved, panic} \subseteq BOOLEAN
  /\ multicast_ip \in {Group, Nobody}
  /\ {remote, began} \subseteq Hosts \cup {Group, Nobody} /\ sender \in Hosts \cup {Nobody}
  /\ {Len(tx), Len(rx_buffer)} \subseteq 0 .. Cap /\ Len(inbox) <= MaxPackets

Part == [i \in 1 .. next - base |-> base + i - 1]

(* A packet begun with success can be written and ended: there is a socket *)
(* and a buffer, what will be sent is what was written, in parts of the    *)
(* buffer's size, and it goes where it was to go unless a datagram was     *)
(* parsed meanwhile.                                                       *)
PacketIsWhole ==
  /\ began # Nobody => /\ udp_server /\ tx_buffer /\ tx = Part
                       /\ moved \/ remote = began
  /\ panic => began = Nobody

(* The remote address is that of the sender of the datagram being read     *)
(* until a packet is begun, and a group is left with its socket.           *)
RemoteIsSender ==
  /\ sender # Nobody /\ moved => remote = sender
  /\ multicast_ip # Nobody => joined /\ udp_server

DatagramIntact == PacketIsWhole /\ RemoteIsSender
=============================================================================
