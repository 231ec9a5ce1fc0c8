----------------------------- MODULE TlsClient -----------------------------
(***************************************************************************)
(* WiFiClientSecure: src/Extensions/Network/wifi/SRC/WiFiClientSecure,     *)
(* WiFiClientSecure.cpp with start_ssl_client, stop_ssl_socket and the     *)
(* readers of ssl_client.cpp.  connect() is a long sequence of calls each  *)
(* of which may fail and leave the rest undone; stop() must undo what was  *)
(* done.  Other tasks open and close sockets of the same table meanwhile.  *)
(* mbedTLS and lwIP are external.                                          *)
(***************************************************************************)
EXTENDS Integers, Sequences, FiniteSetsExt, SequencesExt

CONSTANTS
  Sockets,     \* lwIP has descriptors 1 .. Sockets; 0 is the console's
  MaxIn        \* bound: bytes the server sends in a session

SizesOK == Sockets \in Nat /\ MaxIn \in Nat

VARIABLES
  sockets,     \* the descriptors: "free", "mine" or "other"
  socket,      \* sslclient->socket
  connected,   \* _connected
  peek,        \* _peek: <<>> or the byte
  pc,          \* where connect() is; "closed": it failed and has closed its socket
  trust, cert, \* how the server is to be trusted, whether the client has a certificate
  memory,      \* what of "ca", "cert", "key" is parsed into allocated memory
  conf,        \* which of "ca", "cert" ssl_conf points to
  session,     \* the handshake of the context is done
  peer,        \* the server has not closed
  arrived,     \* history: bytes it has sent
  pending,     \* decrypted bytes mbedTLS has for read()
  got,         \* history: bytes read, in order
  again        \* history: connect() was called on a connected client

setup == <<trust, cert, memory, conf>>
data == <<peer, arrived, pending, got, peek>>
vars == <<sockets, socket, connected, pc, setup, session, data, again>>

None == -1
Fds == 0 .. Sockets
Trusts == {"nothing", "insecure", "ca", "bundle", "psk"}

Init ==
  /\ sockets = [f \in Fds |-> IF f = 0 THEN "other" ELSE "free"] /\ socket = None
  /\ connected = FALSE /\ peek = <<>> /\ pc = "rest" /\ trust = "nothing" /\ cert = FALSE
  /\ memory = {} /\ conf = {} /\ session = FALSE
  /\ peer = FALSE /\ arrived = 0 /\ pending = <<>> /\ got = <<>> /\ again = FALSE

-----------------------------------------------------------------------------
Free == {f \in Fds \ {0} : sockets[f] = "free"}
Lowest == IF Free = {} THEN None ELSE Min(Free)

(* stop(): the socket, whoever has it now; then stop_ssl_socket, which     *)
(* frees the certificates ssl_conf points to and clears the context, with  *)
(* it the socket: 0, for the next stop() a descriptor to close.            *)
FreedConf == conf                       \* fault variant: the key is forgotten

Freed == (IF "ca" \in conf THEN {"ca"} ELSE {}) \cup (IF "cert" \in conf THEN {"cert", "key"} ELSE {})

StopClosing(fds) ==
  /\ sockets' = [f \in Fds |-> IF f \in fds THEN "free" ELSE sockets[f]]
  /\ IF socket = None THEN UNCHANGED <<connected, peek>> ELSE connected' = FALSE /\ peek' = <<>>
  /\ socket' = 0
  /\ memory' = memory \ Freed /\ conf' = {} /\ session' = FALSE /\ pending' = <<>>

Stop == StopClosing({socket})

-----------------------------------------------------------------------------
(* start_ssl_client, step by step; every step may fail.                    *)
Goes(from, to) == pc = from /\ pc' = to
Fails(from) == Goes(from, "failed")

BeginConnect ==
  /\ pc = "rest"
  /\ trust' \in Trusts /\ cert' \in BOOLEAN
  /\ IF trust' = "nothing" THEN pc' = "failed" /\ UNCHANGED <<socket, sockets>>
     ELSE /\ socket' = Lowest
          /\ IF Lowest = None THEN pc' = "failed" /\ UNCHANGED sockets
             ELSE pc' = "resolve" /\ sockets' = [sockets EXCEPT ![Lowest] = "mine"]
  /\ again' = (again \/ connected)
  /\ UNCHANGED <<connected, memory, conf, session, data>>

Resolve == Goes("resolve", "connect") \/ Fails("resolve")

(* A connection that fails or is too late is closed here, but its number   *)
(* stays in the context.                                                   *)
Connect ==
  \/ Goes("connect", "options") /\ UNCHANGED sockets
  \/ Goes("connect", "closed") /\ sockets' = [sockets EXCEPT ![socket] = "free"]

Options == Goes("options", "trust") \/ Fails("options")

(* A CA certificate is given to ssl_conf and freed if it does not parse.   *)
Trust ==
  \/ Goes("trust", "cert")
     /\ IF trust = "ca" THEN memory' = memory \cup {"ca"} /\ conf' = conf \cup {"ca"}
                        ELSE UNCHANGED <<memory, conf>>
  \/ Fails("trust") /\ trust # "insecure" /\ UNCHANGED memory
     /\ conf' = IF trust = "ca" THEN conf \cup {"ca"} ELSE conf

(* The certificate and the key of the client are freed in pair.            *)
ClientCert ==
  \/ Goes("cert", "handshake")
     /\ IF cert /\ trust # "insecure" /\ trust # "psk"
        THEN memory' = memory \cup {"cert", "key"} /\ conf' = conf \cup {"cert"}
        ELSE UNCHANGED <<memory, conf>>
  \/ Fails("cert") /\ UNCHANGED <<memory, conf>>

(* mbedtls_ssl_setup and the handshake loop, which ends by itself or after *)
(* handshake_timeout.                                                      *)
Handshake == Goes("handshake", "verify") \/ Fails("handshake")

(* Without verification the result has flags, and the call returns the 0   *)
(* of the handshake, which connect() takes for success; otherwise the      *)
(* certificates are freed first.                                           *)
Verify ==
  /\ Goes("verify", "rest")
  /\ memory' = IF trust = "insecure" THEN memory
               ELSE memory \ ((IF trust = "ca" THEN {"ca"} ELSE {}) \cup (IF cert THEN {"cert", "key"} ELSE {}))
  /\ connected' = TRUE /\ session' = TRUE
  /\ peer' = TRUE /\ arrived' = 0 /\ pending' = <<>> /\ got' = <<>>
  /\ UNCHANGED <<sockets, socket, conf, peek>>

Failed == pc \in {"failed", "closed"} /\ pc' = "rest" /\ Stop

Starting ==
  /\ \/ (Resolve \/ Options \/ Handshake) /\ UNCHANGED <<sockets, memory, conf>>
     \/ Connect /\ UNCHANGED <<memory, conf>>
     \/ (Trust \/ ClientCert) /\ UNCHANGED sockets
  /\ UNCHANGED <<socket, connected, session, data>>

-----------------------------------------------------------------------------
(* data_to_read fails when there is no session, or the server has closed   *)
(* and everything it sent has been read.                                   *)
Broken == ~session \/ (~peer /\ pending = <<>>)

Dropped == connected /\ Broken

(* read(buf, n): what available() counts is taken: first the byte peek()   *)
(* took, then bytes of the session.  If available() stops the client, the  *)
(* byte it counted is gone, and the read that was begun for it fails on    *)
(* the cleared context and stops the client again: it closes descriptor 0. *)
Read(n) ==
  /\ IF Dropped THEN StopClosing({socket} \cup (IF peek = <<>> THEN {} ELSE {0})) /\ UNCHANGED got
     ELSE LET m == IF connected THEN Min({n - Len(peek), Len(pending)}) ELSE 0 IN
          /\ got' = got \o peek \o SubSeq(pending, 1, m)
          /\ pending' = SubSeq(pending, m + 1, Len(pending)) /\ peek' = <<>>
          /\ UNCHANGED <<sockets, socket, connected, memory, conf, session>>
  /\ UNCHANGED <<peer, arrived>>

Peek ==
  /\ peek = <<>>
  /\ IF Dropped THEN Stop
     ELSE /\ connected /\ pending # <<>>
          /\ peek' = <<Head(pending)>> /\ pending' = Tail(pending)
          /\ UNCHANGED <<sockets, socket, connected, memory, conf, session>>
  /\ UNCHANGED <<got, peer, arrived>>

(* available(), connected() and a write() that fails stop the client, too. *)
Probe == Dropped /\ Stop /\ UNCHANGED <<got, peer, arrived>>
Write == connected /\ (~session \/ ~peer) /\ Stop /\ UNCHANGED <<got, peer, arrived>>
StopCall == Stop /\ UNCHANGED <<got, peer, arrived>>

Server ==
  /\ session /\ peer
  /\ \/ arrived < MaxIn /\ arrived' = arrived + 1 /\ pending' = Append(pending, arrived + 1) /\ UNCHANGED peer
     \/ peer' = FALSE /\ UNCHANGED <<arrived, pending>>
  /\ UNCHANGED <<sockets, socket, connected, memory, conf, session, got, peek>>

Other ==
  /\ \/ \E f \in {Lowest, 0} \ {None} : sockets[f] = "free" /\ sockets' = [sockets EXCEPT ![f] = "other"]
     \/ \E f \in Fds : sockets[f] = "other" /\ sockets' = [sockets EXCEPT ![f] = "free"]
  /\ UNCHANGED <<socket, connected, pc, setup, session, data, again>>

Next ==
  \/ BeginConnect
  \/ (Starting \/ Verify) /\ UNCHANGED <<trust, cert, again>>
  \/ Failed /\ UNCHANGED <<trust, cert, again, peer, arrived, got>>
  \/ /\ pc = "rest"
     /\ (\E n \in 1 .. 2 : Read(n)) \/ Peek \/ Probe \/ Write \/ StopCall
     /\ UNCHANGED <<pc, trust, cert, again>>
  \/ Server /\ UNCHANGED <<pc, trust, cert, again>>
  \/ Other

Spec == Init /\ [][Next]_vars

-----------------------------------------------------------------------------
TypeOK ==
  /\ sockets \in [Fds -> {"free", "mine", "other"}] /\ socket \in Fds \cup {None}
  /\ {connected, session, cert, peer, again} \subseteq BOOLEAN /\ trust \in Trusts
  /\ memory \subseteq {"ca", "cert", "key"} /\ conf \subseteq {"ca", "cert"}
  /\ Len(peek) <= 1 /\ arrived \in 0 .. MaxIn

Up(n) == [i \in 1 .. n |-> i]

(* The descriptor in the context is an open socket of this client, with    *)
(* two exceptions.  Between a failed TCP connection and the stop() after   *)
(* it, the number is closed a second time, whoever has it; and after a     *)
(* stop() it is 0, which every further stop() closes.                      *)
HasSocket == socket \notin {None, 0}
SocketIsOwn == HasSocket /\ pc # "closed" => sockets[socket] = "mine"

(* Between calls a client is connected exactly when it has a session and   *)
(* a socket, it has no other socket, and no certificate stays in memory.   *)
(* (Calling connect() on a connected client breaks the first two.)         *)
SessionIsWhole ==
  pc = "rest" =>
    /\ memory = {}
    /\ ~again => /\ connected = session /\ connected = HasSocket
                 /\ \A f \in Fds : sockets[f] = "mine" => f = socket

(* What was read, the byte peeked at and what is pending are what came.    *)
PlaintextIntact ==
  /\ session /\ ~again => got \o peek \o pending = Up(arrived)
  /\ IsPrefix(got, Up(arrived)) \/ again

TlsIsSound == SocketIsOwn /\ SessionIsWhole /\ PlaintextIntact
=============================================================================
