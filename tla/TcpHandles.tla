---------------------------- MODULE TcpHandles -----------------------------
(***************************************************************************)
(* Who owns which socket: WiFiClient objects, which share a counted handle *)
(* when they are copied (WiFiClient.cpp), and a WiFiServer (WiFiServer.cpp *)
(* and .h), all of src/Extensions/Network/wifi/SRC/WiFi.  Every client and *)
(* the server are used by a task of their own; connect() waits while the   *)
(* others go on.  lwIP gives out the lowest free descriptor, so the number *)
(* of a socket that was closed soon belongs to somebody else.              *)
(***************************************************************************)
EXTENDS Integers, FiniteSets, FiniteSetsExt

CONSTANTS
  Clients,     \* WiFiClient objects
  Sockets,     \* lwIP has descriptors 0 .. Sockets - 1
  Backlog      \* bound: connections waiting to be accepted (_max_clients)

BoundsOK == IsFiniteSet(Clients) /\ Sockets \in Nat /\ Backlog \in Nat

VARIABLES
  sockets,     \* lwIP's table: "free", or the call a socket came from
  handle,      \* clientSocketHandle of each client, 0 for null
  fd,          \* the descriptor in each handle object
  connected,   \* _connected
  trying,      \* the descriptor of the connect() in progress
  sockfd, accepted, listening,  \* the server: sockfd, _accepted_sockfd, _listening
  bound,       \* the socket of sockfd has been bound and listens
  waiting      \* connections lwIP holds for accept()

client == <<handle, fd, connected, trying>>
server == <<sockfd, accepted, listening, bound, waiting>>
vars == <<sockets, client, server>>

None == -1
Fds == 0 .. Sockets - 1
Handles == 1 .. Cardinality(Clients) + 1

Init ==
  /\ sockets = [f \in Fds |-> "free"]
  /\ handle = [c \in Clients |-> 0] /\ fd = [h \in Handles |-> None]
  /\ connected = [c \in Clients |-> FALSE] /\ trying = [c \in Clients |-> None]
  /\ sockfd = None /\ accepted = None /\ listening = FALSE /\ bound = FALSE /\ waiting = 0

-----------------------------------------------------------------------------
(* lwIP: the lowest free descriptor, or None when all are in use.          *)
Free == {f \in Fds : sockets[f] = "free"}
Socket == IF Free = {} THEN None ELSE Min(Free)

Opened(f, call) == [sockets EXCEPT ![f] = call]
Closed(closing) == [f \in Fds |-> IF f \in closing THEN "free" ELSE sockets[f]]

(* The clients hold the handles h with the descriptors f.  A handle nobody *)
(* holds any more is destroyed, and closes its socket.                     *)
Held(h) == {h[c] : c \in Clients} \ {0}
Holding(h, f, opened) ==
  /\ handle' = h
  /\ fd' = [i \in Handles |-> IF i \in Held(h) THEN f[i] ELSE None]
  /\ sockets' = [s \in Fds |->
       IF \E i \in Handles \ Held(h) : f[i] = s THEN "free" ELSE opened[s]]

NewHandle == Min(Handles \ Held(handle))
Holds(c, f) ==    \* reset(new WiFiClientSocketHandle(f))
  Holding([handle EXCEPT ![c] = NewHandle], [fd EXCEPT ![NewHandle] = f], sockets)

(* stop(), which also a destructor and a call with a socket error do.      *)
Stop(c) ==
  /\ trying[c] = None
  /\ Holding([handle EXCEPT ![c] = 0], fd, sockets)
  /\ connected' = [connected EXCEPT ![c] = FALSE]
  /\ UNCHANGED <<trying, server>>

(* c = d.  The left side stops first, also when it is the right side.      *)
Copied(c, d) == IF c = d THEN 0 ELSE handle[d]

Assign(c, d) ==
  /\ trying[c] = None
  /\ Holding([handle EXCEPT ![c] = Copied(c, d)], fd, sockets)
  /\ connected' = [connected EXCEPT ![c] = c # d /\ connected[d]]
  /\ UNCHANGED <<trying, server>>

(* connect(): a socket is opened and its connection begun ...              *)
BeginConnect(c) ==
  /\ trying[c] = None /\ Socket # None
  /\ sockets' = Opened(Socket, "connect")
  /\ trying' = [trying EXCEPT ![c] = Socket]
  /\ UNCHANGED <<handle, fd, connected, server>>

(* ... and select() ends: with success the client takes the new socket and *)
(* drops the one it had; in every other case the new one is closed, and    *)
(* the client keeps what it has.                                           *)
ConnectSucceeds(c) ==
  /\ trying[c] # None
  /\ Holds(c, trying[c])
  /\ connected' = [connected EXCEPT ![c] = TRUE]
  /\ trying' = [trying EXCEPT ![c] = None]
  /\ UNCHANGED server

(* Fault variant: the socket stays open.                                   *)
ConnectFailsOpen(c) ==
  /\ trying[c] # None
  /\ trying' = [trying EXCEPT ![c] = None]
  /\ UNCHANGED <<sockets, handle, fd, connected, server>>

ConnectFails(c) ==
  /\ trying[c] # None
  /\ sockets' = Closed({trying[c]})
  /\ trying' = [trying EXCEPT ![c] = None]
  /\ UNCHANGED <<handle, fd, connected, server>>

(* connected() asks the socket.                                            *)
Connected(c) ==
  /\ connected[c] /\ trying[c] = None
  /\ connected' = [connected EXCEPT ![c] = FALSE]
  /\ UNCHANGED <<sockets, handle, fd, trying, server>>

-----------------------------------------------------------------------------
(* The server.  begin() returns early when it listens, and without closing *)
(* the socket when it cannot bind it.                                      *)
Begin ==
  /\ ~listening /\ sockfd' = Socket
  /\ sockets' = IF Socket = None THEN sockets ELSE Opened(Socket, "listen")
  /\ \/ Socket # None /\ listening' = TRUE /\ bound' = TRUE /\ accepted' = None
     \/ bound' = FALSE /\ UNCHANGED <<listening, accepted>>
  /\ waiting' = 0 /\ UNCHANGED client

(* What accept() on sockfd returns.                                        *)
Accepting == bound /\ waiting > 0 /\ Socket # None
Accept == sockets' = Opened(Socket, "accept") /\ waiting' = waiting - 1

HasClient ==
  /\ accepted = None /\ Accepting /\ Accept
  /\ accepted' = Socket
  /\ UNCHANGED <<client, sockfd, listening, bound>>

(* c = server.available(): the connection hasClient() has accepted, or     *)
(* a new one, becomes the client's; a client made for no connection stops  *)
(* it.  A socket that refuses an option is dropped, open.                  *)
Available(c) ==
  /\ trying[c] = None
  /\ accepted' = (IF listening THEN None ELSE accepted)
  /\ LET take == listening /\ accepted # None
         new == listening /\ accepted = None /\ Accepting
         s == IF take THEN accepted ELSE Socket
     IN \/ /\ take \/ new
           /\ Holding([handle EXCEPT ![c] = NewHandle], [fd EXCEPT ![NewHandle] = s],
                      IF new THEN Opened(s, "accept") ELSE sockets)
           /\ connected' = [connected EXCEPT ![c] = TRUE]
           /\ waiting' = IF new THEN waiting - 1 ELSE waiting
        \/ /\ Holding([handle EXCEPT ![c] = 0], fd, IF new THEN Opened(s, "accept") ELSE sockets)
           /\ connected' = [connected EXCEPT ![c] = FALSE]
           /\ waiting' = IF new THEN waiting - 1 ELSE waiting
  /\ UNCHANGED <<trying, sockfd, listening, bound>>

(* end(), close(), stop() and the destructor.                              *)
End ==
  /\ sockets' = Closed({sockfd})
  /\ sockfd' = None /\ listening' = FALSE /\ bound' = FALSE /\ waiting' = 0
  /\ UNCHANGED <<client, accepted>>

Arrives ==
  /\ bound /\ waiting < Backlog /\ waiting' = waiting + 1
  /\ UNCHANGED <<sockets, client, sockfd, accepted, listening, bound>>

Next ==
  \/ \E c \in Clients :
       \/ Stop(c) \/ BeginConnect(c) \/ ConnectSucceeds(c) \/ ConnectFails(c)
       \/ Connected(c) \/ Available(c)
       \/ \E d \in Clients : Assign(c, d)
  \/ Begin \/ HasClient \/ End \/ Arrives

Spec == Init /\ [][Next]_vars

-----------------------------------------------------------------------------
TypeOK ==
  /\ sockets \in [Fds -> {"free", "connect", "accept", "listen"}]
  /\ handle \in [Clients -> Handles \cup {0}] /\ fd \in [Handles -> Fds \cup {None}]
  /\ connected \in [Clients -> BOOLEAN] /\ trying \in [Clients -> Fds \cup {None}]
  /\ {sockfd, accepted} \subseteq Fds \cup {None}
  /\ {listening, bound} \subseteq BOOLEAN /\ waiting \in 0 .. Backlog

(* Every owner of a descriptor: a handle, a connect() in progress, the     *)
(* server's two.                                                           *)
Owners(f) == {<<"handle", h>> : h \in {i \in Handles : fd[i] = f}}
             \cup {<<"connect", c>> : c \in {d \in Clients : trying[d] = f}}
             \cup (IF sockfd = f THEN {<<"server", 0>>} ELSE {})
             \cup (IF accepted = f THEN {<<"server", 1>>} ELSE {})

(* A descriptor somebody owns is open and nobody else owns it: no client   *)
(* reads, writes or closes a socket that was closed and given to another.  *)
OneOwner ==
  \A f \in Fds : Cardinality(Owners(f)) <= 1 /\ (Owners(f) # {} => sockets[f] # "free")

(* An open socket nobody owns any more was the server's: connect() and     *)
(* copies of clients lose none.  (begin() after a failed one, end() with   *)
(* an accepted connection, and a refused option do.)                       *)
ClientsLoseNone == \A f \in Fds : Owners(f) = {} => sockets[f] # "connect"

SocketsAreOwned == OneOwner /\ ClientsLoseNone
=============================================================================
