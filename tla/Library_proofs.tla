---------------------------- MODULE Library_proofs ----------------------------
(***************************************************************************)
(* Theorems about the parts of the library copy that Library puts side by  *)
(* side.                                                                   *)
(***************************************************************************)
EXTENDS Integers, Sequences, Library, FiniteSetTheorems, SequenceTheorems, WellFoundedInduction, TLAPS

-----------------------------------------------------------------------------
LEMMA LessIsOrdered ==
  ASSUME NEW x \in Nat, NEW y \in Nat, y < x
  PROVE  <<y, x>> \in OpToRel(<, Nat)
  BY SMT DEF OpToRel

(* A set of numbers has a least one.                                       *)
LEMMA LeastOf ==
  ASSUME NEW S \in SUBSET Nat, S # {}
  PROVE  \E x \in S : \A y \in S : x <= y
<1>1. PICK x \in S : \A y \in S : ~(<<y, x>> \in OpToRel(<, Nat))
  BY NatLessThanWellFounded, WFMin, Zenon
<1>2. \A y \in S : x <= y
  <2>1. SUFFICES ASSUME NEW y \in S, y < x PROVE FALSE
    OBVIOUS
  <2>2. <<y, x>> \in OpToRel(<, Nat)
    BY <2>1, LessIsOrdered
  <2> QED
    BY <1>1, <2>2
<1> QED
  BY <1>2

(* What TcpHandles knows of finite sets is what the library proves.        *)
LEMMA TcpSetsAreFinite ==
  ASSUME NEW S
  PROVE  /\ Tcp!IsFiniteSet(S) <=> IsFiniteSet(S)
         /\ Tcp!Cardinality(S) = Cardinality(S)
<1>1. Tcp!IsFiniteSet(S) <=> IsFiniteSet(S)
  BY DEF Tcp!IsFiniteSet, IsFiniteSet
<1>2. Tcp!Cardinality(S) = Cardinality(S)
  BY DEF Tcp!Cardinality, Cardinality
<1> QED
  BY <1>1, <1>2

-----------------------------------------------------------------------------
(* The handles, connect()s and the server of WiFiClient and WiFiServer.    *)

LEMMA MinIsLeast ==
  ASSUME NEW S \in SUBSET Nat, S # {}
  PROVE  Tcp!Min(S) \in S /\ \A y \in S : Tcp!Min(S) <= y
  BY LeastOf DEF Tcp!Min

(* socket() and accept() return a descriptor nobody has, if there is one.  *)
LEMMA SocketIsFree ==
  ASSUME Tcp!BoundsOK
  PROVE  Tcp!Socket = Tcp!None \/ (Tcp!Socket \in Tcp!Fds /\ sockets[Tcp!Socket] = "free")
<1>1. Tcp!Free \in SUBSET Nat
  BY DEF Tcp!Free, Tcp!Fds, Tcp!BoundsOK
<1> QED
  BY <1>1, MinIsLeast DEF Tcp!Socket, Tcp!Free

(* There is one handle more than clients, so one is held by none.          *)
LEMMA HandlesAreEnough ==
  ASSUME Tcp!BoundsOK, NEW h \in [Clients -> Tcp!Handles \cup {0}]
  PROVE  Tcp!Handles \ Tcp!Held(h) # {}
<1>1. /\ IsFiniteSet(Clients) /\ Cardinality(Clients) \in Nat
      /\ Tcp!Cardinality(Clients) = Cardinality(Clients)
  BY FS_CardinalityType, TcpSetsAreFinite DEF Tcp!BoundsOK
<1>2. IsFiniteSet(Tcp!Handles) /\ Cardinality(Tcp!Handles) = Cardinality(Clients) + 1
  BY <1>1, FS_Interval DEF Tcp!Handles
<1>3. SUFFICES ASSUME Tcp!Handles \subseteq Tcp!Held(h) PROVE FALSE
  OBVIOUS
<1> DEFINE holder == [i \in Tcp!Handles |-> CHOOSE c \in Clients : h[c] = i]
<1>4. \A i \in Tcp!Handles : holder[i] \in Clients /\ h[holder[i]] = i
  BY <1>3 DEF Tcp!Held
<1>5. holder \in [Tcp!Handles -> Clients]
  BY <1>4
<1> HIDE DEF holder
<1>6. PICK i \in Tcp!Handles, j \in Tcp!Handles : i # j /\ holder[i] = holder[j]
  BY <1>1, <1>2, <1>5, FS_PigeonHole DEF Tcp!BoundsOK
<1> QED
  BY <1>4, <1>6

LEMMA NewHandleIsNew ==
  ASSUME Tcp!BoundsOK, handle \in [Clients -> Tcp!Handles \cup {0}]
  PROVE  Tcp!NewHandle \in Tcp!Handles \ Tcp!Held(handle)
<1>1. Tcp!Handles \ Tcp!Held(handle) \in SUBSET Nat
  BY DEF Tcp!Handles
<1> QED
  BY <1>1, HandlesAreEnough, MinIsLeast DEF Tcp!NewHandle

-----------------------------------------------------------------------------
(* The table tab, the descriptors f of handles and t of connect()s in      *)
(* progress, s and a of the server.                                        *)
HandleTypes(tab, f, t, s, a) ==
  /\ tab \in [Tcp!Fds -> {"free", "connect", "accept", "listen"}]
  /\ f \in [Tcp!Handles -> Tcp!Fds \cup {Tcp!None}] /\ t \in [Clients -> Tcp!Fds \cup {Tcp!None}]
  /\ s \in Tcp!Fds \cup {Tcp!None} /\ a \in Tcp!Fds \cup {Tcp!None}

(* No two owners have one descriptor.                                      *)
Apart(f, t, s, a) ==
  /\ \A i, j \in Tcp!Handles : f[i] = f[j] /\ f[i] # Tcp!None => i = j
  /\ \A c, d \in Clients : t[c] = t[d] /\ t[c] # Tcp!None => c = d
  /\ \A i \in Tcp!Handles, c \in Clients : f[i] = t[c] => f[i] = Tcp!None
  /\ \A i \in Tcp!Handles : f[i] \in {s, a} => f[i] = Tcp!None
  /\ \A c \in Clients : t[c] \in {s, a} => t[c] = Tcp!None
  /\ s = a => s = Tcp!None

(* What has an owner is open.                                              *)
Open(tab, f, t, s, a) ==
  /\ \A i \in Tcp!Handles : f[i] # Tcp!None => tab[f[i]] # "free"
  /\ \A c \in Clients : t[c] # Tcp!None => tab[t[c]] # "free"
  /\ s # Tcp!None => tab[s] # "free"
  /\ a # Tcp!None => tab[a] # "free"

(* What connect() opened has an owner.                                     *)
Kept(tab, f, t) ==
  \A x \in Tcp!Fds : tab[x] = "connect" => \/ \E i \in Tcp!Handles : f[i] = x
                                       \/ \E c \in Clients : t[c] = x

Owned(tab, f, t, s, a) ==
  HandleTypes(tab, f, t, s, a) /\ Apart(f, t, s, a) /\ Open(tab, f, t, s, a) /\ Kept(tab, f, t)

(* A handle nobody holds has no descriptor: its destructor closed it.      *)
HandlesRest ==
  /\ handle \in [Clients -> Tcp!Handles \cup {0}]
  /\ \A i \in Tcp!Handles \ Tcp!Held(handle) : fd[i] = Tcp!None
  /\ isConnected \in [Clients -> BOOLEAN] /\ listening \in BOOLEAN /\ bound \in BOOLEAN
  /\ waiting \in 0 .. Backlog

HandlesInv == Owned(sockets, fd, trying, sockfd, accepted) /\ HandlesRest

LEMMA NoneIsNoFd == Tcp!None \notin Tcp!Fds
  BY DEF Tcp!None, Tcp!Fds

(* The shared pointers: what nobody holds any more is closed.              *)
LEMMA HoldingKeeps ==
  ASSUME Tcp!BoundsOK, NEW h \in [Clients -> Tcp!Handles \cup {0}], NEW f, NEW opened, NEW t,
         NEW s, NEW a,
         Owned(opened, f, t, s, a), Tcp!Holding(h, f, opened)
  PROVE  /\ Owned(sockets', fd', t, s, a)
         /\ handle' \in [Clients -> Tcp!Handles \cup {0}]
         /\ \A i \in Tcp!Handles \ Tcp!Held(handle') : fd'[i] = Tcp!None
<1> USE DEF Owned
<1>1. /\ handle' = h
      /\ fd' = [i \in Tcp!Handles |-> IF i \in Tcp!Held(h) THEN f[i] ELSE Tcp!None]
      /\ sockets' = [x \in Tcp!Fds |-> IF \E i \in Tcp!Handles \ Tcp!Held(h) : f[i] = x THEN "free" ELSE opened[x]]
  BY DEF Tcp!Holding
<1>2. HandleTypes(sockets', fd', t, s, a)
  BY <1>1 DEF HandleTypes
<1>3. Apart(fd', t, s, a)
  BY <1>1 DEF Apart
<1>4. Open(sockets', fd', t, s, a)
  <2>1. \A i \in Tcp!Handles : fd'[i] # Tcp!None => fd'[i] \in Tcp!Fds /\ i \in Tcp!Held(h) /\ fd'[i] = f[i]
    BY <1>1 DEF HandleTypes
  <2>2. \A x \in Tcp!Fds : (\A i \in Tcp!Handles \ Tcp!Held(h) : f[i] # x) => sockets'[x] = opened[x]
    BY <1>1
  <2>3. \A i \in Tcp!Handles : fd'[i] # Tcp!None => sockets'[fd'[i]] # "free"
    BY <2>1, <2>2 DEF Apart, Open
  <2>4. \A c \in Clients : t[c] # Tcp!None => sockets'[t[c]] # "free"
    BY <2>2 DEF Apart, Open, HandleTypes
  <2>5. (s # Tcp!None => sockets'[s] # "free") /\ (a # Tcp!None => sockets'[a] # "free")
    BY <2>2 DEF Apart, Open, HandleTypes
  <2> QED
    BY <2>3, <2>4, <2>5 DEF Open
<1>5. Kept(sockets', fd', t)
  <2>1. SUFFICES ASSUME NEW x \in Tcp!Fds, sockets'[x] = "connect"
                 PROVE  (\E i \in Tcp!Handles : fd'[i] = x) \/ (\E c \in Clients : t[c] = x)
    BY DEF Kept
  <2>2. opened[x] = "connect" /\ \A i \in Tcp!Handles \ Tcp!Held(h) : f[i] # x
    BY <1>1, <2>1
  <2> QED
    BY <1>1, <2>2 DEF Kept
<1> QED
  BY <1>1, <1>2, <1>3, <1>4, <1>5

-----------------------------------------------------------------------------
LEMMA BeginConnectKeeps ==
  ASSUME Tcp!BoundsOK, HandlesInv, NEW c \in Clients, Tcp!BeginConnect(c)
  PROVE  HandlesInv'
<1>1. Tcp!Socket \in Tcp!Fds /\ sockets[Tcp!Socket] = "free"
  BY SocketIsFree DEF Tcp!BeginConnect
<1>2. HandleTypes(sockets', fd', trying', sockfd', accepted')
  BY <1>1 DEF HandlesInv, Owned, HandleTypes, Tcp!BeginConnect, Tcp!Opened, Tcp!server
<1>3. Apart(fd', trying', sockfd', accepted')
  BY <1>1, NoneIsNoFd DEF HandlesInv, Owned, HandleTypes, Apart, Open, Tcp!BeginConnect,
        Tcp!server
<1>4. Open(sockets', fd', trying', sockfd', accepted')
  BY <1>1, NoneIsNoFd DEF HandlesInv, Owned, HandleTypes, Open, Tcp!BeginConnect, Tcp!Opened,
        Tcp!server
<1>5. Kept(sockets', fd', trying')
  <2>1. trying'[c] = Tcp!Socket /\ \A d \in Clients \ {c} : trying'[d] = trying[d]
    BY DEF HandlesInv, Owned, HandleTypes, Tcp!BeginConnect
  <2>2. trying[c] = Tcp!None
    BY DEF Tcp!BeginConnect
  <2>3. SUFFICES ASSUME NEW x \in Tcp!Fds, sockets'[x] = "connect"
                 PROVE  (\E i \in Tcp!Handles : fd[i] = x) \/ (\E d \in Clients : trying'[d] = x)
    BY DEF Kept, Tcp!BeginConnect
  <2>4. CASE x = Tcp!Socket
    BY <2>1, <2>4
  <2>5. CASE x # Tcp!Socket
    <3>1. sockets[x] = "connect"
      BY <2>3, <2>5, <1>1 DEF Tcp!BeginConnect, Tcp!Opened, HandlesInv, Owned, HandleTypes
    <3> QED
      BY <3>1, <2>1, <2>2, NoneIsNoFd DEF HandlesInv, Owned, Kept
  <2> QED
    BY <2>4, <2>5
<1>6. HandlesRest'
  BY DEF HandlesInv, HandlesRest, Tcp!Held, Tcp!BeginConnect, Tcp!server
<1> QED
  BY <1>2, <1>3, <1>4, <1>5, <1>6 DEF HandlesInv, Owned

(* A client lets go of its handle, or takes one that is held already.      *)
LEMMA LetsGo ==
  ASSUME Tcp!BoundsOK, HandlesInv, NEW c \in Clients, NEW d \in Tcp!Handles \cup {0},
         NEW opened, NEW s, NEW a, Owned(opened, fd, trying, s, a),
         Tcp!Holding([handle EXCEPT ![c] = d], fd, opened),
         isConnected' \in [Clients -> BOOLEAN], trying' = trying, sockfd' = s, accepted' = a,
         listening' = listening, bound' = bound, waiting' \in 0 .. Backlog
  PROVE  HandlesInv'
<1>1. [handle EXCEPT ![c] = d] \in [Clients -> Tcp!Handles \cup {0}]
  BY DEF HandlesInv, HandlesRest
<1> HIDE DEF Tcp!Handles
<1>2. /\ Owned(sockets', fd', trying, s, a)
      /\ handle' \in [Clients -> Tcp!Handles \cup {0}]
      /\ \A i \in Tcp!Handles \ Tcp!Held(handle') : fd'[i] = Tcp!None
  BY <1>1, HoldingKeeps
<1> QED
  BY <1>2 DEF HandlesInv, HandlesRest, Tcp!Held

LEMMA Takes ==
  ASSUME Tcp!BoundsOK, HandlesInv, NEW c \in Clients, NEW f \in Tcp!Fds,
         NEW opened, NEW t, NEW s, NEW a,
         Owned(opened, [fd EXCEPT ![Tcp!NewHandle] = f], t, s, a),
         Tcp!Holding([handle EXCEPT ![c] = Tcp!NewHandle], [fd EXCEPT ![Tcp!NewHandle] = f], opened),
         isConnected' \in [Clients -> BOOLEAN], trying' = t, sockfd' = s, accepted' = a,
         listening' = listening, bound' = bound, waiting' \in 0 .. Backlog
  PROVE  HandlesInv'
<1>1. Tcp!NewHandle \in Tcp!Handles
  BY NewHandleIsNew DEF HandlesInv, HandlesRest
<1>2. [handle EXCEPT ![c] = Tcp!NewHandle] \in [Clients -> Tcp!Handles \cup {0}]
  BY <1>1 DEF HandlesInv, HandlesRest
<1>3. /\ Owned(sockets', fd', t, s, a)
      /\ handle' \in [Clients -> Tcp!Handles \cup {0}]
      /\ \A i \in Tcp!Handles \ Tcp!Held(handle') : fd'[i] = Tcp!None
  BY <1>2, HoldingKeeps
<1> QED
  BY <1>3 DEF HandlesInv, HandlesRest, Tcp!Held

LEMMA ConnectSucceedsKeeps ==
  ASSUME Tcp!BoundsOK, HandlesInv, NEW c \in Clients, Tcp!ConnectSucceeds(c)
  PROVE  HandlesInv'
<1> DEFINE f == [fd EXCEPT ![Tcp!NewHandle] = trying[c]]
           t == [trying EXCEPT ![c] = Tcp!None]
<1>1. Tcp!NewHandle \in Tcp!Handles /\ fd[Tcp!NewHandle] = Tcp!None
  BY NewHandleIsNew DEF HandlesInv, HandlesRest
<1>2. trying[c] \in Tcp!Fds /\ trying[c] # Tcp!None
  BY DEF Tcp!ConnectSucceeds, HandlesInv, Owned, HandleTypes
<1>3. HandleTypes(sockets, f, t, sockfd, accepted)
  BY <1>1, <1>2 DEF HandlesInv, Owned, HandleTypes
<1>4. /\ f[Tcp!NewHandle] = trying[c] /\ \A i \in Tcp!Handles \ {Tcp!NewHandle} : f[i] = fd[i]
      /\ t[c] = Tcp!None /\ \A d \in Clients \ {c} : t[d] = trying[d]
  BY <1>1 DEF HandlesInv, Owned, HandleTypes
<1> HIDE DEF f, t
<1>5. Apart(f, t, sockfd, accepted)
  BY <1>1, <1>2, <1>4 DEF HandlesInv, Owned, Apart
<1>6. Open(sockets, f, t, sockfd, accepted)
  BY <1>1, <1>2, <1>4 DEF HandlesInv, Owned, Open
<1>7. Kept(sockets, f, t)
  BY <1>1, <1>2, <1>4, NoneIsNoFd DEF HandlesInv, Owned, Kept
<1>8. Owned(sockets, f, t, sockfd, accepted)
  BY <1>3, <1>5, <1>6, <1>7 DEF Owned
<1>9. isConnected' \in [Clients -> BOOLEAN] /\ trying' = t /\ sockfd' = sockfd
      /\ accepted' = accepted
      /\ listening' = listening /\ bound' = bound /\ waiting' \in 0 .. Backlog
  BY DEF Tcp!ConnectSucceeds, Tcp!server, HandlesInv, HandlesRest, t
<1> QED
  BY <1>2, <1>8, <1>9, Takes DEF Tcp!ConnectSucceeds, Tcp!Holds, f

LEMMA ConnectFailsKeeps ==
  ASSUME Tcp!BoundsOK, HandlesInv, NEW c \in Clients, Tcp!ConnectFails(c)
  PROVE  HandlesInv'
<1>1. trying[c] \in Tcp!Fds /\ trying[c] # Tcp!None
  BY DEF Tcp!ConnectFails, HandlesInv, Owned, HandleTypes
<1>2. trying'[c] = Tcp!None /\ \A d \in Clients \ {c} : trying'[d] = trying[d]
  BY DEF Tcp!ConnectFails, HandlesInv, Owned, HandleTypes
<1>3. /\ \A x \in Tcp!Fds \ {trying[c]} : sockets'[x] = sockets[x]
      /\ sockets'[trying[c]] = "free"
  BY <1>1 DEF Tcp!ConnectFails, Tcp!Closed
<1>4. fd' = fd /\ sockfd' = sockfd /\ accepted' = accepted
  BY DEF Tcp!ConnectFails, Tcp!server
<1>5. HandleTypes(sockets', fd', trying', sockfd', accepted')
  BY DEF HandlesInv, Owned, HandleTypes, Tcp!ConnectFails, Tcp!Closed, Tcp!server
<1>6. Apart(fd', trying', sockfd', accepted')
  BY <1>2, <1>4 DEF HandlesInv, Owned, Apart
<1>7. Open(sockets', fd', trying', sockfd', accepted')
  BY <1>1, <1>2, <1>3, <1>4 DEF HandlesInv, Owned, HandleTypes, Apart, Open
<1>8. Kept(sockets', fd', trying')
  BY <1>1, <1>2, <1>3, <1>4 DEF HandlesInv, Owned, Kept
<1>9. HandlesRest'
  BY DEF HandlesInv, HandlesRest, Tcp!Held, Tcp!ConnectFails, Tcp!server
<1> QED
  BY <1>5, <1>6, <1>7, <1>8, <1>9 DEF HandlesInv, Owned

(* A descriptor nobody has is opened, and nothing else.                    *)
LEMMA OpenedKeeps ==
  ASSUME Tcp!BoundsOK, HandlesInv, Tcp!Socket \in Tcp!Fds, NEW from \in {"accept", "listen"}
  PROVE  /\ sockets[Tcp!Socket] = "free"
         /\ Owned(Tcp!Opened(Tcp!Socket, from), fd, trying, sockfd, accepted)
<1>1. sockets[Tcp!Socket] = "free"
  BY SocketIsFree, NoneIsNoFd
<1>2. HandleTypes(Tcp!Opened(Tcp!Socket, from), fd, trying, sockfd, accepted)
  BY DEF HandlesInv, Owned, HandleTypes, Tcp!Opened
<1>3. Open(Tcp!Opened(Tcp!Socket, from), fd, trying, sockfd, accepted)
  BY <1>1 DEF HandlesInv, Owned, HandleTypes, Open, Tcp!Opened
<1>4. Kept(Tcp!Opened(Tcp!Socket, from), fd, trying)
  BY <1>1 DEF HandlesInv, Owned, HandleTypes, Kept, Tcp!Opened
<1> QED
  BY <1>1, <1>2, <1>3, <1>4 DEF HandlesInv, Owned

LEMMA BeginKeeps ==
  ASSUME Tcp!BoundsOK, HandlesInv, Tcp!Begin
  PROVE  HandlesInv'
<1>1. fd' = fd /\ trying' = trying /\ handle' = handle /\ isConnected' = isConnected
  BY DEF Tcp!Begin, Tcp!client
<1>2. accepted' \in {Tcp!None, accepted} /\ sockfd' = Tcp!Socket
  BY DEF Tcp!Begin
<1>3. Owned(sockets', fd, trying, Tcp!Socket, accepted')
  <2>1. CASE Tcp!Socket = Tcp!None
    <3>1. sockets' = sockets
      BY <2>1 DEF Tcp!Begin
    <3> QED
      BY <2>1, <3>1, <1>2, NoneIsNoFd DEF HandlesInv, Owned, HandleTypes, Apart, Open
  <2>2. CASE Tcp!Socket # Tcp!None
    <3>1. Tcp!Socket \in Tcp!Fds /\ sockets[Tcp!Socket] = "free"
      BY <2>2, SocketIsFree
    <3>2. sockets' = Tcp!Opened(Tcp!Socket, "listen")
      BY <2>2 DEF Tcp!Begin
    <3>3. Owned(sockets', fd, trying, sockfd, accepted)
      BY <3>1, <3>2, OpenedKeeps
    <3>4. HandleTypes(sockets', fd, trying, Tcp!Socket, accepted')
      BY <3>1, <3>3, <1>2 DEF Owned, HandleTypes
    <3>5. Apart(fd, trying, Tcp!Socket, accepted')
      BY <3>1, <1>2 DEF HandlesInv, Owned, Apart, Open
    <3>6. sockets'[Tcp!Socket] # "free"
      BY <3>1, <3>2 DEF Tcp!Opened, HandlesInv, Owned, HandleTypes
    <3>7. Open(sockets', fd, trying, Tcp!Socket, accepted')
      BY <3>3, <3>6, <1>2 DEF Owned, Open
    <3> QED
      BY <3>3, <3>4, <3>5, <3>7 DEF Owned
  <2> QED
    BY <2>1, <2>2
<1>4. HandlesRest'
  <2>1. /\ handle' \in [Clients -> Tcp!Handles \cup {0}]
        /\ \A i \in Tcp!Handles \ Tcp!Held(handle') : fd'[i] = Tcp!None
        /\ isConnected' \in [Clients -> BOOLEAN]
    BY <1>1 DEF HandlesInv, HandlesRest, Tcp!Held, Tcp!Begin
  <2>2. listening' \in BOOLEAN /\ bound' \in BOOLEAN
    BY DEF HandlesInv, HandlesRest, Tcp!Begin
  <2>3. waiting' \in 0 .. Backlog
    BY DEF HandlesInv, HandlesRest, Tcp!Begin, Tcp!BoundsOK
  <2> QED
    BY <2>1, <2>2, <2>3 DEF HandlesRest
<1> QED
  BY <1>1, <1>2, <1>3, <1>4 DEF HandlesInv

LEMMA HasClientKeeps ==
  ASSUME Tcp!BoundsOK, HandlesInv, Tcp!HasClient
  PROVE  HandlesInv'
<1>1. Tcp!Socket \in Tcp!Fds
  BY SocketIsFree DEF Tcp!HasClient, Tcp!Accepting
<1>2. sockets[Tcp!Socket] = "free" /\ Owned(sockets', fd, trying, sockfd, accepted)
  BY <1>1, OpenedKeeps DEF Tcp!HasClient, Tcp!Accept
<1>3. HandleTypes(sockets', fd, trying, sockfd, Tcp!Socket)
  BY <1>1, <1>2 DEF Owned, HandleTypes
<1>4. Apart(fd, trying, sockfd, Tcp!Socket)
  BY <1>1, <1>2, NoneIsNoFd DEF HandlesInv, Owned, Apart, Open
<1>5. sockets'[Tcp!Socket] # "free"
  BY <1>1 DEF Tcp!HasClient, Tcp!Accept, Tcp!Opened, HandlesInv, Owned, HandleTypes
<1>6. Open(sockets', fd, trying, sockfd, Tcp!Socket)
  BY <1>2, <1>5 DEF Owned, Open
<1>7. Owned(sockets', fd', trying', sockfd', accepted')
  BY <1>2, <1>3, <1>4, <1>6 DEF Owned, Tcp!HasClient, Tcp!client
<1>8. HandlesRest'
  <2>1. /\ handle' \in [Clients -> Tcp!Handles \cup {0}]
        /\ \A i \in Tcp!Handles \ Tcp!Held(handle') : fd'[i] = Tcp!None
        /\ isConnected' \in [Clients -> BOOLEAN]
    BY DEF HandlesInv, HandlesRest, Tcp!Held, Tcp!HasClient, Tcp!client
  <2>2. listening' \in BOOLEAN /\ bound' \in BOOLEAN
    BY DEF HandlesInv, HandlesRest, Tcp!HasClient, Tcp!client
  <2>3. waiting' \in 0 .. Backlog
    BY DEF HandlesInv, HandlesRest, Tcp!HasClient, Tcp!client, Tcp!Accept, Tcp!Accepting,
          Tcp!BoundsOK
  <2> QED
    BY <2>1, <2>2, <2>3 DEF HandlesRest
<1> QED
  BY <1>7, <1>8 DEF HandlesInv

(* Nothing is known of the accepted connection any more.                   *)
LEMMA ForgetsAccepted ==
  ASSUME NEW tab, NEW f, NEW t, NEW s, NEW a, Owned(tab, f, t, s, a)
  PROVE  Owned(tab, f, t, s, Tcp!None)
  BY NoneIsNoFd DEF Owned, HandleTypes, Apart, Open

(* A handle nobody holds is given a descriptor that is open and that no    *)
(* other owner has.                                                        *)
LEMMA HandleIsGiven ==
  ASSUME HandlesInv, NEW i \in Tcp!Handles, fd[i] = Tcp!None, NEW x \in Tcp!Fds, NEW tab, NEW a,
         Owned(tab, fd, trying, sockfd, a), tab[x] # "free",
         \A j \in Tcp!Handles : fd[j] # x, \A c \in Clients : trying[c] # x, x # sockfd, x # a
  PROVE  Owned(tab, [fd EXCEPT ![i] = x], trying, sockfd, a)
<1> DEFINE f == [fd EXCEPT ![i] = x]
<1>1. f \in [Tcp!Handles -> Tcp!Fds \cup {Tcp!None}] /\ f[i] = x /\ \A j \in Tcp!Handles \ {i} : f[j] = fd[j]
  BY DEF HandlesInv, Owned, HandleTypes
<1> HIDE DEF f
<1>2. HandleTypes(tab, f, trying, sockfd, a)
  BY <1>1 DEF Owned, HandleTypes
<1>3. Apart(f, trying, sockfd, a)
  BY <1>1 DEF Owned, Apart
<1>4. Open(tab, f, trying, sockfd, a)
  BY <1>1 DEF Owned, Open
<1>5. Kept(tab, f, trying)
  BY <1>1, NoneIsNoFd DEF Owned, Kept
<1> QED
  BY <1>2, <1>3, <1>4, <1>5 DEF Owned, f

LEMMA AvailableKeeps ==
  ASSUME Tcp!BoundsOK, HandlesInv, NEW c \in Clients, Tcp!Available(c)
  PROVE  HandlesInv'
<1> DEFINE take == listening /\ accepted # Tcp!None
           new == listening /\ accepted = Tcp!None /\ Tcp!Accepting
           s == IF take THEN accepted ELSE Tcp!Socket
           tab == IF new THEN Tcp!Opened(s, "accept") ELSE sockets
<1>1. /\ accepted' = IF listening THEN Tcp!None ELSE accepted
      /\ trying' = trying /\ sockfd' = sockfd /\ listening' = listening /\ bound' = bound
  BY DEF Tcp!Available
<1>2. isConnected' \in [Clients -> BOOLEAN] /\ waiting' \in 0 .. Backlog
  <2>1. isConnected' \in [Clients -> BOOLEAN]
    BY DEF Tcp!Available, HandlesInv, HandlesRest
  <2>2. waiting' \in {waiting, waiting - 1} /\ (waiting' # waiting => waiting > 0)
    BY DEF Tcp!Available, Tcp!Accepting
  <2>3. waiting \in 0 .. Backlog
    BY DEF HandlesInv, HandlesRest
  <2> QED
    BY <2>1, <2>2, <2>3 DEF Tcp!BoundsOK
<1>3. take \/ new => s \in Tcp!Fds
  BY SocketIsFree DEF Tcp!Accepting, HandlesInv, Owned, HandleTypes
<1>4. Owned(tab, fd, trying, sockfd, accepted')
  <2>1. Owned(tab, fd, trying, sockfd, accepted)
    <3>1. CASE new
      BY <3>1, <1>3, OpenedKeeps
    <3>2. CASE ~new
      BY <3>2 DEF HandlesInv
    <3> QED
      BY <3>1, <3>2
  <2> QED
    BY <2>1, <1>1, ForgetsAccepted
<1>5. CASE /\ take \/ new
           /\ Tcp!Holding([handle EXCEPT ![c] = Tcp!NewHandle], [fd EXCEPT ![Tcp!NewHandle] = s], tab)
  <2>1. Tcp!NewHandle \in Tcp!Handles /\ fd[Tcp!NewHandle] = Tcp!None
    BY NewHandleIsNew DEF HandlesInv, HandlesRest
  <2>2. /\ s \in Tcp!Fds /\ tab[s] # "free" /\ s # sockfd /\ s # accepted'
        /\ \A j \in Tcp!Handles : fd[j] # s
        /\ \A d \in Clients : trying[d] # s
    <3>1. CASE take
      <4>1. s = accepted /\ tab = sockets /\ accepted' = Tcp!None
        BY <3>1, <1>1
      <4> HIDE DEF s, tab
      <4> QED
        BY <3>1, <4>1, <1>3, <1>5 DEF HandlesInv, Owned, Apart, Open
    <3>2. CASE new
      <4>1. s = Tcp!Socket /\ tab = Tcp!Opened(Tcp!Socket, "accept") /\ accepted' = Tcp!None
        BY <3>2, <1>1
      <4>2. s \in Tcp!Fds /\ sockets[s] = "free"
        BY <3>2, <1>3, <4>1, OpenedKeeps
      <4> HIDE DEF s, tab
      <4>3. tab[s] # "free"
        BY <4>1, <4>2 DEF Tcp!Opened, HandlesInv, Owned, HandleTypes
      <4> QED
        BY <4>1, <4>2, <4>3, NoneIsNoFd DEF HandlesInv, Owned, HandleTypes, Open
    <3> QED
      BY <1>5, <3>1, <3>2
  <2> HIDE DEF s, tab
  <2>3. Owned(tab, [fd EXCEPT ![Tcp!NewHandle] = s], trying, sockfd, accepted')
    BY <1>4, <2>1, <2>2, HandleIsGiven
  <2> QED
    BY <1>1, <1>2, <1>5, <2>2, <2>3, Takes
<1>6. CASE Tcp!Holding([handle EXCEPT ![c] = 0], fd, tab)
  <2> HIDE DEF tab
  <2> QED
    BY <1>1, <1>2, <1>4, <1>6, LetsGo
<1> QED
  BY <1>5, <1>6 DEF Tcp!Available

LEMMA EndKeeps ==
  ASSUME Tcp!BoundsOK, HandlesInv, Tcp!End
  PROVE  HandlesInv'
<1>1. fd' = fd /\ trying' = trying /\ sockfd' = Tcp!None /\ accepted' = accepted
  BY DEF Tcp!End, Tcp!client
<1>2. /\ \A x \in Tcp!Fds \ {sockfd} : sockets'[x] = sockets[x]
      /\ sockfd # Tcp!None => sockets'[sockfd] = "free"
  BY DEF Tcp!End, Tcp!Closed, HandlesInv, Owned, HandleTypes
<1>3. HandleTypes(sockets', fd, trying, Tcp!None, accepted)
  BY DEF HandlesInv, Owned, HandleTypes, Tcp!End, Tcp!Closed
<1>4. Apart(fd, trying, Tcp!None, accepted)
  BY DEF HandlesInv, Owned, Apart
<1>5. Open(sockets', fd, trying, Tcp!None, accepted)
  BY <1>2 DEF HandlesInv, Owned, HandleTypes, Apart, Open
<1>6. Kept(sockets', fd, trying)
  BY <1>2, NoneIsNoFd DEF HandlesInv, Owned, HandleTypes, Kept
<1>7. HandlesRest'
  <2>1. /\ handle' \in [Clients -> Tcp!Handles \cup {0}]
        /\ \A i \in Tcp!Handles \ Tcp!Held(handle') : fd'[i] = Tcp!None
        /\ isConnected' \in [Clients -> BOOLEAN]
    BY DEF HandlesInv, HandlesRest, Tcp!Held, Tcp!End, Tcp!client
  <2>2. listening' \in BOOLEAN /\ bound' \in BOOLEAN
    BY DEF HandlesInv, HandlesRest, Tcp!End, Tcp!client
  <2>3. waiting' \in 0 .. Backlog
    BY DEF HandlesInv, HandlesRest, Tcp!End, Tcp!client, Tcp!BoundsOK
  <2> QED
    BY <2>1, <2>2, <2>3 DEF HandlesRest
<1> QED
  BY <1>1, <1>3, <1>4, <1>5, <1>6, <1>7 DEF HandlesInv, Owned

LEMMA NextHandles ==
  ASSUME Tcp!BoundsOK, HandlesInv, [Tcp!Next]_Tcp!vars
  PROVE  HandlesInv'
<1>1. ASSUME NEW c \in Clients, Tcp!Stop(c) PROVE HandlesInv'
  BY <1>1, LetsGo DEF Tcp!Stop, Tcp!server, HandlesInv, HandlesRest
<1>2. ASSUME NEW c \in Clients, NEW d \in Clients, Tcp!Assign(c, d) PROVE HandlesInv'
  BY <1>2, LetsGo DEF Tcp!Assign, Tcp!Copied, Tcp!server, HandlesInv, HandlesRest
<1>3. ASSUME NEW c \in Clients, Tcp!Connected(c) PROVE HandlesInv'
  BY <1>3 DEF Tcp!Connected, Tcp!server, HandlesInv, HandlesRest, Tcp!Held
<1>4. CASE Tcp!Arrives
  BY <1>4 DEF Tcp!Arrives, Tcp!client, HandlesInv, HandlesRest, Tcp!Held, Tcp!BoundsOK
<1>5. CASE UNCHANGED Tcp!vars
  BY <1>5 DEF Tcp!vars, Tcp!client, Tcp!server, HandlesInv, HandlesRest, Tcp!Held
<1> QED
  BY <1>1, <1>2, <1>3, <1>4, <1>5, BeginConnectKeeps, ConnectSucceedsKeeps, ConnectFailsKeeps,
     AvailableKeeps, BeginKeeps, HasClientKeeps, EndKeeps DEF Tcp!Next

LEMMA InitHandles == Tcp!BoundsOK /\ Tcp!Init => HandlesInv
<1> SUFFICES ASSUME Tcp!BoundsOK, Tcp!Init PROVE HandlesInv
  OBVIOUS
<1>1. HandleTypes(sockets, fd, trying, sockfd, accepted)
  BY DEF Tcp!Init, HandleTypes
<1>2. Apart(fd, trying, sockfd, accepted)
  BY DEF Tcp!Init, Apart
<1>3. Open(sockets, fd, trying, sockfd, accepted) /\ Kept(sockets, fd, trying)
  BY DEF Tcp!Init, Open, Kept
<1>4. HandlesRest
  <2>1. /\ handle \in [Clients -> Tcp!Handles \cup {0}] /\ isConnected \in [Clients -> BOOLEAN]
        /\ \A i \in Tcp!Handles : fd[i] = Tcp!None
    BY DEF Tcp!Init
  <2>2. listening \in BOOLEAN /\ bound \in BOOLEAN
    BY DEF Tcp!Init
  <2>3. waiting \in 0 .. Backlog
    BY DEF Tcp!Init, Tcp!BoundsOK
  <2> QED
    BY <2>1, <2>2, <2>3 DEF HandlesRest
<1> QED
  BY <1>1, <1>2, <1>3, <1>4 DEF HandlesInv, Owned

LEMMA HandlesSuffice ==
  ASSUME HandlesInv
  PROVE  Tcp!TypeOK /\ Tcp!SocketsAreOwned
<1>1. Tcp!TypeOK
  BY DEF Tcp!TypeOK, HandlesInv, Owned, HandleTypes, HandlesRest
<1>2. ASSUME NEW x \in Tcp!Fds
      PROVE  Tcp!Cardinality(Tcp!Owners(x)) <= 1 /\ (Tcp!Owners(x) # {} => sockets[x] # "free")
  <2>1. \A o, p \in Tcp!Owners(x) : o = p
    BY NoneIsNoFd DEF Tcp!Owners, HandlesInv, Owned, Apart
  <2>2. Tcp!Owners(x) = {} \/ \E o : Tcp!Owners(x) = {o}
    BY <2>1
  <2>3. Tcp!Cardinality(Tcp!Owners(x)) <= 1
    <3>1. CASE Tcp!Owners(x) = {}
      BY <3>1, FS_EmptySet, TcpSetsAreFinite
    <3>2. CASE \E o : Tcp!Owners(x) = {o}
      <4>1. PICK o : Tcp!Owners(x) = {o}
        BY <3>2
      <4>2. Cardinality({o}) = 1
        BY FS_Singleton, Zenon
      <4> QED
        BY <4>1, <4>2, TcpSetsAreFinite
    <3> QED
      BY <2>2, <3>1, <3>2
  <2>4. Tcp!Owners(x) # {} => sockets[x] # "free"
    BY NoneIsNoFd DEF Tcp!Owners, HandlesInv, Owned, Open
  <2> QED
    BY <2>3, <2>4
<1>3. Tcp!ClientsLoseNone
  <2>1. SUFFICES ASSUME NEW x \in Tcp!Fds, sockets[x] = "connect"
                 PROVE  Tcp!Owners(x) # {}
    BY DEF Tcp!ClientsLoseNone
  <2>2. CASE \E i \in Tcp!Handles : fd[i] = x
    BY <2>2 DEF Tcp!Owners
  <2>3. CASE \E c \in Clients : trying[c] = x
    BY <2>3 DEF Tcp!Owners
  <2> QED
    BY <2>1, <2>2, <2>3 DEF HandlesInv, Owned, Kept
<1> QED
  BY <1>1, <1>2, <1>3 DEF Tcp!SocketsAreOwned, Tcp!OneOwner

(* Any number of clients that connect, fail, copy and stop, with a server  *)
(* that begins, accepts and ends: the descriptor of a handle, of a         *)
(* connect() under way and of the server is open and its owner's alone, so *)
(* nobody closes another's socket, and no socket of connect() is lost.     *)
THEOREM DescriptorsHaveOneOwner == Tcp!Spec => [](Tcp!TypeOK /\ SocketsAreOwned)
<1> USE LibraryAssumption
<1>1. Tcp!Init => HandlesInv
  BY InitHandles
<1>2. HandlesInv /\ [Tcp!Next]_Tcp!vars => HandlesInv'
  BY NextHandles
<1>3. HandlesInv => Tcp!TypeOK /\ SocketsAreOwned
  BY HandlesSuffice DEF SocketsAreOwned
<1> QED
  BY <1>1, <1>2, <1>3, PTL DEF Tcp!Spec

-----------------------------------------------------------------------------
(* WiFiClientSecure.                                                       *)

TlsFlags ==
  /\ tlsSockets \in [Tls!Fds -> {"free", "mine", "other"}] /\ socket \in Tls!Fds \cup {Tls!None}
  /\ tlsConnected \in BOOLEAN /\ session \in BOOLEAN /\ cert \in BOOLEAN /\ again \in BOOLEAN
  /\ tlsPeer \in BOOLEAN /\ trust \in Tls!Trusts
  /\ memory \subseteq {"ca", "cert", "key"} /\ conf \subseteq {"ca", "cert"}

TlsBytes ==
  /\ peek \in Seq(Nat) /\ Len(peek) <= 1 /\ pending \in Seq(Nat) /\ tlsGot \in Seq(Nat)
  /\ tlsArrived \in 0 .. MaxIn

Opening == {"resolve", "connect", "options", "trust", "cert", "handshake", "verify"}

(* From the socket on until it is closed, start_ssl_client has one.        *)
SocketInv ==
  /\ tlsStep \in {"rest", "failed", "closed"} \cup Opening
  /\ tlsStep \in Opening \cup {"closed"} => Tls!HasSocket
  /\ Tls!SocketIsOwn /\ tlsSockets[0] # "mine"

(* What is parsed into memory, ssl_conf points to, so that stop() finds it. *)
MemoryInv ==
  /\ tlsStep = "rest" => memory = {}
  /\ "ca" \in memory => "ca" \in conf /\ trust = "ca"
  /\ memory \cap {"cert", "key"} # {} => "cert" \in conf /\ cert /\ trust # "insecure"

(* Unless connect() was called on a connected client.                      *)
SessionInv ==
  ~again =>
    /\ tlsStep = "rest" => tlsConnected = session /\ tlsConnected = Tls!HasSocket
    /\ tlsStep # "rest" => ~tlsConnected /\ ~session
    /\ ~tlsConnected => peek = <<>>
    /\ \A f \in Tls!Fds : tlsSockets[f] = "mine" => f = socket

LEMMA FdsOK == ASSUME Tls!SizesOK PROVE 0 \in Tls!Fds /\ Tls!None \notin Tls!Fds /\ Tls!None # 0
  BY DEF Tls!SizesOK, Tls!Fds, Tls!None

(* A set of numbers has a least one.                                       *)
(* socket() returns the lowest descriptor nobody has.                      *)
LEMMA LowestIsFree ==
  ASSUME Tls!SizesOK, Tls!Lowest # Tls!None
  PROVE  Tls!Lowest \in Tls!Fds \ {0} /\ tlsSockets[Tls!Lowest] = "free"
<1>1. Tls!Free \in SUBSET Nat /\ Tls!Free # {} /\ Tls!Lowest = Tls!Min(Tls!Free)
  BY DEF Tls!Free, Tls!Fds, Tls!Lowest, Tls!SizesOK
<1>2. Tls!Min(Tls!Free) \in Tls!Free
  BY <1>1, LeastOf DEF Tls!Min
<1> QED
  BY <1>1, <1>2 DEF Tls!Free

(* The bytes a + 1, a + 2, ...                                             *)
Numbered(s, a) == s \in Seq(Nat) /\ \A k \in 1 .. Len(s) : s[k] = a + k

LEMMA NumberedJoin ==
  ASSUME NEW a \in Nat, NEW s, NEW t, Numbered(s, a), Numbered(t, a + Len(s))
  PROVE  Numbered(s \o t, a) /\ Len(s \o t) = Len(s) + Len(t)
  BY DEF Numbered

LEMMA NumberedCut ==
  ASSUME NEW a \in Nat, NEW s, Numbered(s, a), NEW m \in 0 .. Len(s)
  PROVE  /\ Numbered(SubSeq(s, 1, m), a) /\ Len(SubSeq(s, 1, m)) = m
         /\ Numbered(SubSeq(s, m + 1, Len(s)), a + m) /\ Len(SubSeq(s, m + 1, Len(s))) = Len(s) - m
<1>1. s \in Seq(Nat) /\ Len(s) \in Nat
  BY DEF Numbered
<1>2. SubSeq(s, 1, m) \in Seq(Nat) /\ Len(SubSeq(s, 1, m)) = m
  BY <1>1
<1>3. SubSeq(s, m + 1, Len(s)) \in Seq(Nat) /\ Len(SubSeq(s, m + 1, Len(s))) = Len(s) - m
  BY <1>1
<1>4. \A k \in 1 .. m : SubSeq(s, 1, m)[k] = a + k
  BY <1>1 DEF Numbered
<1>5. \A k \in 1 .. Len(s) - m : SubSeq(s, m + 1, Len(s))[k] = (a + m) + k
  BY <1>1 DEF Numbered
<1> QED
  BY <1>2, <1>3, <1>4, <1>5 DEF Numbered

LEMMA NumberedGrows ==
  ASSUME NEW a \in Nat, NEW s, Numbered(s, a)
  PROVE  Numbered(Append(s, a + Len(s) + 1), a) /\ Len(Append(s, a + Len(s) + 1)) = Len(s) + 1
<1> DEFINE e == a + Len(s) + 1
<1>1. s \in Seq(Nat) /\ Len(s) \in Nat /\ e \in Nat
  BY DEF Numbered
<1> HIDE DEF e
<1>2. Append(s, e) \in Seq(Nat) /\ Len(Append(s, e)) = Len(s) + 1
  BY <1>1
<1>3. \A k \in 1 .. Len(s) : Append(s, e)[k] = a + k
  BY <1>1 DEF Numbered
<1>4. Append(s, e)[Len(s) + 1] = a + (Len(s) + 1)
  BY <1>1 DEF e
<1>5. \A k \in 1 .. Len(s) + 1 : Append(s, e)[k] = a + k
  BY <1>1, <1>3, <1>4
<1> QED
  BY <1>2, <1>5 DEF Numbered, e

LEMMA NumberedHead ==
  ASSUME NEW a \in Nat, NEW s, Numbered(s, a), s # <<>>
  PROVE  /\ Numbered(<<Head(s)>>, a) /\ Len(<<Head(s)>>) = 1
         /\ Numbered(Tail(s), a + 1) /\ Len(Tail(s)) = Len(s) - 1 /\ Len(s) >= 1
<1>1. s \in Seq(Nat) /\ Len(s) \in Nat /\ Len(s) >= 1
  BY DEF Numbered
<1>2. Head(s) = a + 1 /\ Tail(s) \in Seq(Nat) /\ Len(Tail(s)) = Len(s) - 1
  BY <1>1 DEF Numbered
<1>3. \A k \in 1 .. Len(s) - 1 : Tail(s)[k] = (a + 1) + k
  BY <1>1 DEF Numbered
<1> QED
  BY <1>1, <1>2, <1>3 DEF Numbered

LEMMA NumberedIsUp ==
  ASSUME NEW s, Numbered(s, 0)
  PROVE  s = Tls!Up(Len(s))
<1>1. /\ s \in Seq(Nat) /\ Len(s) \in Nat
      /\ \A k \in 1 .. Len(s) : s[k] = k
  BY DEF Numbered
<1> QED
  BY <1>1 DEF Tls!Up

LEMMA NumberedIsPrefix ==
  ASSUME NEW s, NEW n \in Nat, Numbered(s, 0), Len(s) <= n
  PROVE  Tls!IsPrefix(s, Tls!Up(n))
<1>1. s \in Seq(Nat) /\ Len(s) \in Nat /\ Tls!Up(n) \in Seq(Nat) /\ Len(Tls!Up(n)) = n
  BY DEF Numbered, Tls!Up
<1>2. s = Tls!Up(Len(s))
  BY NumberedIsUp
<1>3. SubSeq(s, 1, Len(s)) = s
  BY <1>1
<1>4. SubSeq(Tls!Up(n), 1, Len(s)) = Tls!Up(Len(s))
  BY <1>1 DEF Tls!Up
<1> QED
  BY <1>1, <1>2, <1>3, <1>4 DEF Tls!IsPrefix

(* Read, peeked at and pending are consecutive pieces of what has come.    *)
BytesInv ==
  ~again =>
    /\ Numbered(tlsGot, 0) /\ Len(tlsGot) <= tlsArrived
    /\ session => /\ Numbered(peek, Len(tlsGot)) /\ Numbered(pending, Len(tlsGot) + Len(peek))
                  /\ Len(tlsGot) + Len(peek) + Len(pending) = tlsArrived

TlsInv == TlsFlags /\ TlsBytes /\ SocketInv /\ MemoryInv /\ SessionInv /\ BytesInv

-----------------------------------------------------------------------------
(* stop(), with the socket and maybe descriptor 0 closed.                  *)
LEMMA TlsStopKeeps ==
  ASSUME Tls!SizesOK, TlsInv, tlsStep' = "rest", NEW fds, socket \in fds, Tls!StopClosing(fds),
         UNCHANGED <<tlsGot, tlsPeer, tlsArrived, trust, cert, again>>
  PROVE  TlsInv'
<1>1. /\ tlsSockets' = [f \in Tls!Fds |-> IF f \in fds THEN "free" ELSE tlsSockets[f]]
      /\ IF socket = Tls!None THEN UNCHANGED <<tlsConnected, peek>>
         ELSE tlsConnected' = FALSE /\ peek' = <<>>
      /\ socket' = 0
      /\ memory' = memory \ Tls!Freed /\ conf' = {} /\ session' = FALSE /\ pending' = <<>>
  BY DEF Tls!StopClosing
<1>2. TlsFlags'
  BY <1>1, FdsOK DEF TlsInv, TlsFlags
<1>3. TlsBytes'
  <2>1. TlsBytes
    BY DEF TlsInv
  <2>2. peek' = peek \/ peek' = <<>>
    BY <1>1
  <2>3. pending' = <<>> /\ tlsGot' = tlsGot /\ tlsArrived' = tlsArrived
    BY <1>1
  <2>4. peek' \in Seq(Nat) /\ Len(peek') <= 1
    <3>1. CASE peek' = peek
      BY <2>1, <3>1 DEF TlsBytes
    <3>2. CASE peek' = <<>>
      BY <3>2
    <3> QED
      BY <2>2, <3>1, <3>2
  <2> QED
    BY <2>1, <2>3, <2>4 DEF TlsBytes
<1>4. SocketInv'
  BY <1>1, FdsOK DEF TlsInv, SocketInv, Tls!SocketIsOwn, Tls!HasSocket, Opening
<1>5. MemoryInv'
  <2>1. memory' = {}
    BY <1>1 DEF TlsInv, TlsFlags, MemoryInv, Tls!Freed
  <2> QED
    BY <2>1 DEF MemoryInv
<1>6. SessionInv'
  <2>1. SUFFICES ASSUME ~again PROVE SessionInv'
    BY DEF SessionInv
  <2>2. socket = Tls!None => ~tlsConnected /\ peek = <<>>
    BY <2>1 DEF TlsInv, SessionInv, Tls!HasSocket
  <2>3. tlsConnected' = FALSE /\ peek' = <<>>
    BY <1>1, <2>2 DEF TlsInv, TlsFlags
  <2>4. \A f \in Tls!Fds : tlsSockets'[f] # "mine"
    BY <1>1, <2>1 DEF TlsInv, SessionInv
  <2> QED
    BY <1>1, <2>3, <2>4 DEF SessionInv, Tls!HasSocket
<1>7. BytesInv'
  BY <1>1 DEF TlsInv, BytesInv
<1> QED
  BY <1>2, <1>3, <1>4, <1>5, <1>6, <1>7 DEF TlsInv

LEMMA TlsConnectKeeps ==
  ASSUME Tls!SizesOK, TlsInv, Tls!BeginConnect
  PROVE  TlsInv'
<1>1. /\ tlsStep = "rest" /\ again' = (again \/ tlsConnected)
      /\ trust' \in Tls!Trusts /\ cert' \in BOOLEAN
      /\ UNCHANGED <<tlsConnected, memory, conf, session, Tls!data>>
  BY DEF Tls!BeginConnect
<1>2. \/ tlsStep' = "failed" /\ UNCHANGED <<socket, tlsSockets>>
      \/ tlsStep' = "failed" /\ socket' = Tls!None /\ UNCHANGED tlsSockets
      \/ /\ tlsStep' = "resolve" /\ socket' = Tls!Lowest /\ Tls!Lowest # Tls!None
         /\ tlsSockets' = [tlsSockets EXCEPT ![Tls!Lowest] = "mine"]
  BY DEF Tls!BeginConnect
<1>3. Tls!Lowest # Tls!None => Tls!Lowest \in Tls!Fds \ {0} /\ tlsSockets[Tls!Lowest] = "free"
  BY LowestIsFree
<1>4. TlsFlags'
  BY <1>1, <1>2, <1>3 DEF TlsInv, TlsFlags, Tls!data
<1>5. SocketInv'
  BY <1>1, <1>2, <1>3, FdsOK DEF TlsInv, TlsFlags, SocketInv, Tls!SocketIsOwn, Tls!HasSocket,
        Opening
<1>6. MemoryInv'
  BY <1>1, <1>2 DEF TlsInv, MemoryInv
<1>7. SessionInv'
  <2>1. SUFFICES ASSUME ~again, ~tlsConnected PROVE SessionInv'
    BY <1>1 DEF SessionInv, TlsInv, TlsFlags
  <2>2. /\ ~session /\ ~Tls!HasSocket /\ peek = <<>>
        /\ \A f \in Tls!Fds : tlsSockets[f] = "mine" => f = socket
    BY <1>1, <2>1 DEF TlsInv, TlsFlags, SessionInv
  <2>3. \A f \in Tls!Fds : tlsSockets[f] # "mine"
    BY <2>2, FdsOK DEF Tls!HasSocket, TlsInv, SocketInv
  <2>4. tlsStep' # "rest" /\ ~tlsConnected' /\ ~session' /\ peek' = <<>>
    BY <1>1, <1>2, <2>1, <2>2 DEF Tls!data
  <2>5. CASE tlsStep' = "failed" /\ UNCHANGED <<socket, tlsSockets>>
    BY <2>3, <2>4, <2>5 DEF SessionInv
  <2>6. CASE /\ tlsStep' = "resolve" /\ socket' = Tls!Lowest /\ Tls!Lowest # Tls!None
             /\ tlsSockets' = [tlsSockets EXCEPT ![Tls!Lowest] = "mine"]
    BY <1>3, <2>3, <2>4, <2>6 DEF SessionInv, TlsInv, TlsFlags
  <2>7. CASE tlsStep' = "failed" /\ socket' = Tls!None /\ UNCHANGED tlsSockets
    BY <2>3, <2>4, <2>7 DEF SessionInv
  <2> QED
    BY <1>2, <2>5, <2>6, <2>7
<1>8. TlsBytes' /\ BytesInv'
  BY <1>1 DEF TlsInv, TlsBytes, BytesInv, Tls!data
<1> QED
  BY <1>4, <1>5, <1>6, <1>7, <1>8 DEF TlsInv

(* The steps of start_ssl_client before the last.                          *)
LEMMA StartingKeeps ==
  ASSUME Tls!SizesOK, TlsInv, Tls!Starting, UNCHANGED <<trust, cert, again>>
  PROVE  TlsInv'
<1>1. UNCHANGED <<socket, tlsConnected, session, Tls!data, trust, cert, again>>
  BY DEF Tls!Starting
<1>2. tlsStep \in Opening /\ tlsStep' \in (Opening \cup {"failed", "closed"})
  BY DEF Tls!Starting, Tls!Resolve, Tls!Connect, Tls!Options, Tls!Trust, Tls!ClientCert,
        Tls!Handshake, Tls!Goes, Tls!Fails, Opening
<1>3. \/ tlsStep' # "closed" /\ UNCHANGED tlsSockets
      \/ tlsStep' = "closed" /\ tlsSockets' = [tlsSockets EXCEPT ![socket] = "free"]
  BY DEF Tls!Starting, Tls!Resolve, Tls!Connect, Tls!Options, Tls!Trust, Tls!ClientCert,
        Tls!Handshake, Tls!Goes, Tls!Fails
<1>4. Tls!HasSocket
  BY <1>2 DEF TlsInv, SocketInv
<1>5. TlsFlags'
  <2>1. memory' \subseteq {"ca", "cert", "key"} /\ conf' \subseteq {"ca", "cert"}
    BY DEF TlsInv, TlsFlags, Tls!Starting, Tls!Trust, Tls!ClientCert
  <2> QED
    BY <1>1, <1>3, <2>1 DEF TlsInv, TlsFlags, Tls!data
<1>6. TlsBytes' /\ BytesInv'
  BY <1>1 DEF TlsInv, TlsBytes, BytesInv, Tls!data
<1>7. SocketInv'
  <2>1. tlsSockets'[0] # "mine"
    BY <1>3, <1>4, FdsOK DEF TlsInv, TlsFlags, SocketInv, Tls!HasSocket
  <2> QED
    BY <1>1, <1>2, <1>3, <1>4, <2>1 DEF TlsInv, SocketInv, Tls!SocketIsOwn, Tls!HasSocket,
          Opening
<1>8. MemoryInv'
  <2>1. tlsStep' # "rest"
    BY <1>2 DEF Opening
  <2>2. CASE UNCHANGED <<memory, conf>>
    BY <1>1, <2>1, <2>2 DEF TlsInv, MemoryInv
  <2>3. CASE Tls!Trust
    BY <1>1, <2>1, <2>3 DEF TlsInv, MemoryInv, Tls!Trust, Tls!Goes, Tls!Fails
  <2>4. CASE Tls!ClientCert
    BY <1>1, <2>1, <2>4 DEF TlsInv, MemoryInv, Tls!ClientCert, Tls!Goes, Tls!Fails
  <2> QED
    BY <2>2, <2>3, <2>4 DEF Tls!Starting
<1>9. SessionInv'
  BY <1>1, <1>2, <1>3 DEF TlsInv, TlsFlags, SessionInv, Opening, Tls!data
<1> QED
  BY <1>5, <1>6, <1>7, <1>8, <1>9 DEF TlsInv

LEMMA EmptyIsNumbered ==
  ASSUME NEW a
  PROVE  Numbered(<<>>, a) /\ Len(<<>>) = 0
  BY DEF Numbered

(* The last step frees the certificates and the session begins.            *)
LEMMA VerifyKeeps ==
  ASSUME Tls!SizesOK, TlsInv, Tls!Verify, UNCHANGED <<trust, cert, again>>
  PROVE  TlsInv'
<1>1. /\ tlsStep = "verify" /\ tlsStep' = "rest" /\ tlsConnected' = TRUE /\ session' = TRUE
      /\ tlsPeer' = TRUE /\ tlsArrived' = 0 /\ pending' = <<>> /\ tlsGot' = <<>>
      /\ UNCHANGED <<tlsSockets, socket, conf, peek, trust, cert, again>>
      /\ memory' = IF trust = "insecure" THEN memory
               ELSE memory \ ((IF trust = "ca" THEN {"ca"} ELSE {})
                               \cup (IF cert THEN {"cert", "key"} ELSE {}))
  BY DEF Tls!Verify, Tls!Goes
<1>2. TlsFlags'
  BY <1>1 DEF TlsInv, TlsFlags
<1>3. TlsBytes'
  BY <1>1 DEF TlsInv, TlsBytes, Tls!SizesOK
<1>4. SocketInv'
  BY <1>1 DEF TlsInv, SocketInv, Tls!SocketIsOwn, Tls!HasSocket, Opening
<1>5. Tls!HasSocket
  BY <1>1 DEF TlsInv, SocketInv, Opening
<1>6. MemoryInv'
  <2>1. memory' = {}
    BY <1>1 DEF TlsInv, TlsFlags, MemoryInv
  <2> QED
    BY <2>1 DEF MemoryInv
<1>7. SessionInv'
  <2>1. tlsConnected' = TRUE /\ session' = TRUE /\ Tls!HasSocket' = Tls!HasSocket
    BY <1>1 DEF Tls!HasSocket
  <2>2. Tls!HasSocket' = TRUE
    BY <1>5, <2>1 DEF Tls!HasSocket
  <2>3. ~again => \A f \in Tls!Fds : tlsSockets'[f] = "mine" => f = socket'
    BY <1>1 DEF TlsInv, SessionInv
  <2> QED
    BY <1>1, <2>1, <2>2, <2>3 DEF SessionInv
<1>8. BytesInv'
  <2>1. ~again => peek = <<>>
    BY <1>1 DEF TlsInv, SessionInv
  <2>2. \A a \in {0} : Numbered(<<>>, a)
    BY EmptyIsNumbered
  <2>3. ~again => peek' = <<>> /\ tlsGot' = <<>> /\ pending' = <<>> /\ tlsArrived' = 0
    BY <1>1, <2>1
  <2>4. Len(<<>>) = 0 /\ 0 + 0 = 0
    OBVIOUS
  <2> QED
    BY <1>1, <2>2, <2>3, <2>4 DEF BytesInv
<1> QED
  BY <1>2, <1>3, <1>4, <1>6, <1>7, <1>8 DEF TlsInv

(* A step that changes bytes and peer only.                                *)
LEMMA OnlyBytesChange ==
  ASSUME TlsInv, tlsPeer' \in BOOLEAN, tlsConnected \/ peek' = <<>> \/ peek' = peek,
         UNCHANGED <<tlsSockets, socket, tlsConnected, memory, conf, session>>,
         UNCHANGED <<tlsStep, trust, cert, again>>
  PROVE  TlsFlags' /\ SocketInv' /\ MemoryInv' /\ SessionInv'
<1>1. TlsFlags'
  BY DEF TlsInv, TlsFlags
<1>2. SocketInv' /\ MemoryInv'
  BY DEF TlsInv, SocketInv, Tls!SocketIsOwn, Tls!HasSocket, MemoryInv
<1>3. SessionInv'
  BY DEF TlsInv, SessionInv, Tls!HasSocket
<1> QED
  BY <1>1, <1>2, <1>3

(* What read() takes, if it does not stop the client.                      *)
LEMMA ReadBytes ==
  ASSUME TlsInv, NEW m \in 0 .. Len(pending), tlsConnected \/ m = 0,
         tlsGot' = (tlsGot \o peek) \o SubSeq(pending, 1, m),
         pending' = SubSeq(pending, m + 1, Len(pending)),
         peek' = <<>>, UNCHANGED <<session, tlsArrived, again, tlsConnected>>, tlsStep = "rest"
  PROVE  TlsBytes' /\ BytesInv'
<1>1. tlsGot \in Seq(Nat) /\ peek \in Seq(Nat) /\ pending \in Seq(Nat)
  BY DEF TlsInv, TlsBytes
<1>2. TlsBytes'
  <2>1. SubSeq(pending, 1, m) \in Seq(Nat) /\ pending' \in Seq(Nat)
        /\ tlsGot \o peek \in Seq(Nat)
    BY SMTT(60), <1>1
  <2>2. tlsGot' \in Seq(Nat)
    BY <2>1
  <2>3. peek' \in Seq(Nat) /\ Len(peek') <= 1
    OBVIOUS
  <2> QED
    BY <2>1, <2>2, <2>3 DEF TlsInv, TlsBytes
<1>3. CASE ~again /\ session
  <2>1. /\ Numbered(tlsGot, 0) /\ Numbered(peek, Len(tlsGot)) /\ Numbered(pending, Len(tlsGot) + Len(peek))
        /\ Len(tlsGot) + Len(peek) + Len(pending) = tlsArrived
    BY <1>3 DEF TlsInv, BytesInv
  <2>2. Numbered(tlsGot \o peek, 0) /\ Len(tlsGot \o peek) = Len(tlsGot) + Len(peek)
    BY <1>1, <2>1, NumberedJoin
  <2> DEFINE n == Len(tlsGot) + Len(peek)
             gp == tlsGot \o peek
  <2>3. n \in Nat /\ gp \in Seq(Nat)
    BY <1>1
  <2>4. /\ Numbered(SubSeq(pending, 1, m), n) /\ Len(SubSeq(pending, 1, m)) = m
        /\ Numbered(pending', n + m) /\ Len(pending') = Len(pending) - m
    BY <2>1, <2>3, NumberedCut
  <2> HIDE DEF gp
  <2>5. /\ Numbered(gp \o SubSeq(pending, 1, m), 0)
        /\ Len(gp \o SubSeq(pending, 1, m)) = n + m
    <3>1. Numbered(gp, 0) /\ Len(gp) = n /\ 0 + n = n
      BY <2>2, <2>3 DEF gp
    <3> HIDE DEF n
    <3>2. Numbered(SubSeq(pending, 1, m), 0 + Len(gp)) /\ Len(SubSeq(pending, 1, m)) = m
      BY <2>4, <3>1
    <3>3. 0 \in Nat
      OBVIOUS
    <3> QED
      BY ZenonT(60), <3>1, <3>2, <3>3, NumberedJoin
  <2>6. Numbered(tlsGot', 0) /\ Len(tlsGot') = n + m
    BY <2>5 DEF gp
  <2> HIDE DEF n
  <2>7. Numbered(peek', n + m) /\ Len(peek') = 0
    BY EmptyIsNumbered
  <2>8. n + Len(pending) = tlsArrived /\ Len(pending) \in Nat
    BY <1>1, <2>1, <2>3 DEF n
  <2>9. Len(tlsGot') <= tlsArrived /\ Len(tlsGot') + Len(peek') + Len(pending') = tlsArrived
    <3>1. m \in Nat /\ m <= Len(pending)
      BY <2>8
    <3>2. n + m <= tlsArrived /\ (n + m) + 0 + (Len(pending) - m) = tlsArrived
      BY <2>3, <2>8, <3>1
    <3>3. Len(tlsGot') = n + m /\ Len(peek') = 0 /\ Len(pending') = Len(pending) - m
      BY <2>4, <2>6, <2>7
    <3> QED
      BY ONLY <3>2, <3>3
  <2>10. Len(tlsGot') + Len(peek') = n + m
    BY <2>3, <2>6, <2>7
  <2>11. Numbered(peek', Len(tlsGot')) /\ Numbered(pending', Len(tlsGot') + Len(peek'))
    BY <2>4, <2>6, <2>7, <2>10
  <2>12. Numbered(tlsGot', 0)
    BY <2>6
  <2>13. tlsArrived' = tlsArrived
    OBVIOUS
  <2> QED
    BY <1>2, <2>9, <2>11, <2>12, <2>13 DEF BytesInv
<1>4. CASE ~again /\ ~session
  <2>1. ~tlsConnected /\ m = 0 /\ peek = <<>> /\ Numbered(tlsGot, 0)
        /\ Len(tlsGot) <= tlsArrived
    BY <1>4 DEF TlsInv, SessionInv, BytesInv
  <2>2. SubSeq(pending, 1, m) = <<>>
    BY <1>1, <2>1
  <2>3. tlsGot' = tlsGot
    BY <1>1, <2>1, <2>2
  <2> QED
    BY <1>2, <1>4, <2>1, <2>3 DEF BytesInv
<1>5. CASE again
  BY <1>2, <1>5 DEF BytesInv
<1> QED
  BY <1>3, <1>4, <1>5

LEMMA TlsReadKeeps ==
  ASSUME Tls!SizesOK, TlsInv, NEW n \in 1 .. 2, Tls!Read(n), tlsStep = "rest",
         UNCHANGED <<tlsStep, trust, cert, again>>
  PROVE  TlsInv'
<1>1. UNCHANGED <<tlsPeer, tlsArrived>>
  BY DEF Tls!Read
<1>2. CASE Tls!Dropped
  <2>1. Tls!StopClosing({socket} \cup (IF peek = <<>> THEN {} ELSE {0})) /\ tlsGot' = tlsGot
    BY <1>2 DEF Tls!Read
  <2> DEFINE fds == {socket} \cup (IF peek = <<>> THEN {} ELSE {0})
  <2>2. socket \in fds
    OBVIOUS
  <2> HIDE DEF fds
  <2>3. Tls!StopClosing(fds)
    BY <2>1 DEF fds
  <2> QED
    BY <1>1, <2>1, <2>2, <2>3, TlsStopKeeps
<1>3. CASE ~Tls!Dropped
  <2> DEFINE m == IF tlsConnected THEN Tls!Min({n - Len(peek), Len(pending)}) ELSE 0
  <2>1. /\ tlsGot' = tlsGot \o peek \o SubSeq(pending, 1, m)
        /\ pending' = SubSeq(pending, m + 1, Len(pending)) /\ peek' = <<>>
        /\ UNCHANGED <<tlsSockets, socket, tlsConnected, memory, conf, session>>
    BY <1>3 DEF Tls!Read
  <2>2. m \in 0 .. Len(pending) /\ (tlsConnected \/ m = 0)
    <3>1. n - Len(peek) \in Nat /\ Len(pending) \in Nat
      BY DEF TlsInv, TlsBytes
    <3>2. Tls!Min({n - Len(peek), Len(pending)}) \in 0 .. Len(pending)
      <4> DEFINE S == {n - Len(peek), Len(pending)}
      <4>1. S \in SUBSET Nat /\ S # {} /\ Len(pending) \in S
        BY <3>1
      <4> HIDE DEF S
      <4>2. Tls!Min(S) \in S /\ \A y \in S : Tls!Min(S) <= y
        BY <4>1, LeastOf DEF Tls!Min
      <4> QED
        BY <3>1, <4>1, <4>2 DEF S
    <3> QED
      BY <3>1, <3>2
  <2> HIDE DEF m
  <2>3. TlsBytes' /\ BytesInv'
    BY <1>1, <2>1, <2>2, ReadBytes
  <2>4. TlsFlags' /\ SocketInv' /\ MemoryInv' /\ SessionInv'
    BY <1>1, <2>1, OnlyBytesChange DEF TlsInv, TlsFlags
  <2> QED
    BY <2>3, <2>4 DEF TlsInv
<1> QED
  BY <1>2, <1>3

LEMMA PeekKeeps ==
  ASSUME Tls!SizesOK, TlsInv, Tls!Peek, tlsStep = "rest",
         UNCHANGED <<tlsStep, trust, cert, again>>
  PROVE  TlsInv'
<1>1. CASE Tls!Dropped
  <2>1. Tls!StopClosing({socket}) /\ UNCHANGED <<tlsGot, tlsPeer, tlsArrived>>
        /\ socket \in {socket}
    BY <1>1 DEF Tls!Peek, Tls!Stop
  <2> QED
    BY <2>1, TlsStopKeeps
<1>2. CASE ~Tls!Dropped
  <2>1. /\ tlsConnected /\ pending # <<>> /\ peek = <<>>
        /\ peek' = <<Head(pending)>> /\ pending' = Tail(pending)
        /\ UNCHANGED <<tlsSockets, socket, tlsConnected, memory, conf, session, tlsGot, tlsPeer, tlsArrived>>
    BY <1>2 DEF Tls!Peek
  <2>2. TlsFlags' /\ SocketInv' /\ MemoryInv' /\ SessionInv'
    BY <2>1, OnlyBytesChange DEF TlsInv, TlsFlags
  <2>3. TlsBytes'
    <3>1. pending \in Seq(Nat)
      BY DEF TlsInv, TlsBytes
    <3>2. peek' \in Seq(Nat) /\ Len(peek') <= 1 /\ pending' \in Seq(Nat)
      BY <2>1, <3>1
    <3> QED
      BY <2>1, <3>2 DEF TlsInv, TlsBytes
  <2>4. BytesInv'
    <3>1. CASE ~again /\ session
      <4>1. /\ Numbered(tlsGot, 0) /\ Numbered(pending, Len(tlsGot) + Len(peek))
            /\ Len(tlsGot) + Len(peek) + Len(pending) = tlsArrived /\ Len(peek) = 0
            /\ Len(tlsGot) \in Nat /\ Len(pending) \in Nat /\ tlsArrived \in Nat
        BY <2>1, <3>1 DEF TlsInv, BytesInv, TlsBytes
      <4>2. Numbered(pending, Len(tlsGot)) /\ Len(tlsGot) + Len(pending) = tlsArrived
        BY <4>1
      <4>3. /\ Numbered(peek', Len(tlsGot)) /\ Len(peek') = 1
            /\ Numbered(pending', Len(tlsGot) + 1) /\ Len(pending') = Len(pending) - 1 /\ Len(pending) >= 1
        BY <2>1, <4>1, <4>2, NumberedHead
      <4> QED
        BY <2>1, <3>1, <4>1, <4>2, <4>3 DEF BytesInv
    <3>2. CASE again \/ ~session
      BY <2>1, <3>2 DEF TlsInv, BytesInv
    <3> QED
      BY <3>1, <3>2
  <2> QED
    BY <2>2, <2>3, <2>4 DEF TlsInv
<1> QED
  BY <1>1, <1>2

LEMMA ServerKeeps ==
  ASSUME Tls!SizesOK, TlsInv, Tls!Server, UNCHANGED <<tlsStep, trust, cert, again>>
  PROVE  TlsInv'
<1>1. UNCHANGED <<tlsSockets, socket, tlsConnected, memory, conf, session, tlsGot, peek>>
      /\ session /\ tlsPeer
  BY DEF Tls!Server
<1>2. TlsFlags' /\ SocketInv' /\ MemoryInv' /\ SessionInv'
  <2>1. tlsPeer' \in BOOLEAN
    BY DEF Tls!Server, TlsInv, TlsFlags
  <2> QED
    BY <1>1, <2>1, OnlyBytesChange
<1>3. CASE UNCHANGED <<tlsArrived, pending>>
  BY <1>1, <1>2, <1>3 DEF TlsInv, TlsBytes, BytesInv
<1>4. CASE tlsArrived < MaxIn /\ tlsArrived' = tlsArrived + 1
           /\ pending' = Append(pending, tlsArrived + 1)
  <2>1. tlsArrived \in Nat /\ pending \in Seq(Nat) /\ Len(pending) \in Nat
        /\ tlsGot \in Seq(Nat) /\ peek \in Seq(Nat)
    BY DEF TlsInv, TlsBytes
  <2>2. TlsBytes'
    <3>1. pending' \in Seq(Nat)
      BY <1>4, <2>1
    <3>2. tlsArrived' \in 0 .. MaxIn
      BY <1>4, <2>1 DEF Tls!SizesOK
    <3> QED
      BY <1>1, <3>1, <3>2 DEF TlsInv, TlsBytes
  <2>3. BytesInv'
    <3>1. SUFFICES ASSUME ~again PROVE BytesInv'
      BY DEF BytesInv
    <3>2. /\ Numbered(tlsGot, 0) /\ Numbered(peek, Len(tlsGot)) /\ Numbered(pending, Len(tlsGot) + Len(peek))
          /\ Len(tlsGot) + Len(peek) + Len(pending) = tlsArrived /\ Len(tlsGot) <= tlsArrived
      BY <1>1, <3>1 DEF TlsInv, BytesInv
    <3> DEFINE n == Len(tlsGot) + Len(peek)
    <3>3. n \in Nat /\ n + Len(pending) = tlsArrived /\ n + Len(pending) + 1 = tlsArrived + 1
      <4>1. Len(tlsGot) \in Nat /\ Len(peek) \in Nat /\ Len(pending) \in Nat
        BY <2>1
      <4> QED
        BY <3>2, <4>1
    <3>4. Numbered(pending', n) /\ Len(pending') = Len(pending) + 1
      <4> HIDE DEF n
      <4> QED
        BY <1>4, <3>2, <3>3, NumberedGrows DEF n
    <3>5. /\ Numbered(pending', Len(tlsGot) + Len(peek))
          /\ Len(tlsGot) + Len(peek) + Len(pending') = tlsArrived + 1
      <4>1. n + Len(pending') = tlsArrived + 1
        <5> HIDE DEF n
        <5> QED
          BY <2>1, <3>3, <3>4
      <4> QED
        BY <3>4, <4>1
    <3>6. Len(tlsGot) <= tlsArrived + 1
      BY <2>1, <3>2
    <3>7. tlsGot' = tlsGot /\ peek' = peek /\ tlsArrived' = tlsArrived + 1
      BY <1>1, <1>4
    <3> QED
      BY <3>2, <3>5, <3>6, <3>7 DEF BytesInv
  <2> QED
    BY <1>2, <2>2, <2>3 DEF TlsInv
<1> QED
  BY <1>3, <1>4 DEF Tls!Server

(* Other tasks open and close sockets that are not this client's.          *)
LEMMA OtherKeeps ==
  ASSUME Tls!SizesOK, TlsInv, Tls!Other
  PROVE  TlsInv'
<1>1. UNCHANGED <<socket, tlsConnected, tlsStep, trust, cert, memory, conf, session, Tls!data, again>>
  BY DEF Tls!Other, Tls!setup
<1>2. PICK f \in Tls!Fds, v \in {"other", "free"} :
        tlsSockets[f] # "mine" /\ tlsSockets' = [tlsSockets EXCEPT ![f] = v]
  <2>1. Tls!Lowest = Tls!None \/ Tls!Lowest \in Tls!Fds
    BY LowestIsFree
  <2> QED
    BY <2>1, FdsOK DEF Tls!Other
<1>3. TlsFlags'
  BY <1>1, <1>2 DEF TlsInv, TlsFlags, Tls!data
<1>4. TlsBytes' /\ BytesInv' /\ MemoryInv'
  BY <1>1 DEF TlsInv, TlsBytes, BytesInv, MemoryInv, Tls!data
<1>5. \A g \in Tls!Fds : tlsSockets'[g] = "mine" <=> tlsSockets[g] = "mine"
  BY <1>2 DEF TlsInv, TlsFlags
<1>6. SocketInv'
  BY <1>1, <1>5, FdsOK DEF TlsInv, TlsFlags, SocketInv, Tls!SocketIsOwn, Tls!HasSocket
<1>7. SessionInv'
  BY <1>1, <1>5 DEF TlsInv, SessionInv, Tls!HasSocket, Tls!data
<1> QED
  BY <1>3, <1>4, <1>6, <1>7 DEF TlsInv

LEMMA NextTls ==
  ASSUME Tls!SizesOK, TlsInv, [Tls!Next]_Tls!vars
  PROVE  TlsInv'
<1>1. CASE Tls!Failed /\ UNCHANGED <<trust, cert, again, tlsPeer, tlsArrived, tlsGot>>
  <2>1. socket \in {socket}
    OBVIOUS
  <2> QED
    BY <1>1, <2>1, TlsStopKeeps DEF Tls!Failed, Tls!Stop
<1>2. CASE tlsStep = "rest" /\ (Tls!Probe \/ Tls!Write \/ Tls!StopCall)
           /\ UNCHANGED <<tlsStep, trust, cert, again>>
  <2>1. socket \in {socket}
    OBVIOUS
  <2> QED
    BY <1>2, <2>1, TlsStopKeeps DEF Tls!Probe, Tls!Write, Tls!StopCall, Tls!Stop
<1>3. CASE UNCHANGED Tls!vars
  <2>1. UNCHANGED <<tlsSockets, socket, tlsConnected, tlsStep, trust, cert, memory, conf,
                    session, Tls!data, again>>
    BY <1>3 DEF Tls!vars, Tls!setup
  <2>2. TlsFlags' /\ TlsBytes'
    BY <2>1 DEF TlsInv, TlsFlags, TlsBytes, Tls!data
  <2> QED
    BY <2>1, <2>2 DEF TlsInv, SocketInv, Tls!SocketIsOwn, Tls!HasSocket, MemoryInv, SessionInv,
          BytesInv, Tls!data
<1> QED
  BY <1>1, <1>2, <1>3, TlsConnectKeeps, StartingKeeps, VerifyKeeps, TlsReadKeeps, PeekKeeps,
     ServerKeeps, OtherKeeps DEF Tls!Next

LEMMA InitTls == ASSUME Tls!SizesOK, Tls!Init PROVE TlsInv
<1>1. TlsFlags
  BY FdsOK DEF Tls!Init, TlsFlags, Tls!Trusts
<1>2. TlsBytes
  BY DEF Tls!Init, TlsBytes, Tls!SizesOK
<1>3. SocketInv
  BY FdsOK DEF Tls!Init, SocketInv, Tls!SocketIsOwn, Tls!HasSocket, Opening
<1>4. MemoryInv /\ SessionInv
  BY FdsOK DEF Tls!Init, MemoryInv, SessionInv, Tls!HasSocket
<1>5. BytesInv
  BY EmptyIsNumbered DEF Tls!Init, BytesInv
<1> QED
  BY <1>1, <1>2, <1>3, <1>4, <1>5 DEF TlsInv

LEMMA TlsSuffices == ASSUME TlsInv PROVE Tls!TypeOK /\ Tls!TlsIsSound
<1>1. Tls!TypeOK
  BY DEF TlsInv, TlsFlags, TlsBytes, Tls!TypeOK
<1>2. Tls!SocketIsOwn
  BY DEF TlsInv, SocketInv
<1>3. Tls!SessionIsWhole
  BY DEF TlsInv, MemoryInv, SessionInv, Tls!SessionIsWhole
<1>4. Tls!PlaintextIntact
  <2>1. tlsArrived \in Nat /\ tlsGot \in Seq(Nat) /\ peek \in Seq(Nat) /\ pending \in Seq(Nat)
    BY DEF TlsInv, TlsBytes
  <2>2. ~again => Tls!IsPrefix(tlsGot, Tls!Up(tlsArrived))
    BY <2>1, NumberedIsPrefix DEF TlsInv, BytesInv
  <2>3. ASSUME session, ~again PROVE tlsGot \o peek \o pending = Tls!Up(tlsArrived)
    <3>1. /\ Numbered(tlsGot, 0) /\ Numbered(peek, Len(tlsGot)) /\ Numbered(pending, Len(tlsGot) + Len(peek))
          /\ Len(tlsGot) + Len(peek) + Len(pending) = tlsArrived
      BY <2>3 DEF TlsInv, BytesInv
    <3>2. Numbered(tlsGot \o peek, 0) /\ Len(tlsGot \o peek) = Len(tlsGot) + Len(peek)
      BY <3>1, <2>1, NumberedJoin
    <3> DEFINE gp == tlsGot \o peek
    <3>3. gp \in Seq(Nat)
      BY <2>1
    <3> HIDE DEF gp
    <3>4. Numbered(gp \o pending, 0) /\ Len(gp \o pending) = tlsArrived
      <4>1. Numbered(gp, 0) /\ Len(gp) = Len(tlsGot) + Len(peek)
        BY <3>2 DEF gp
      <4>2. Len(gp) \in Nat /\ 0 \in Nat
        BY <3>3
      <4>3. 0 + Len(gp) = Len(gp)
        BY <4>2
      <4>4. Numbered(pending, 0 + Len(gp)) /\ Len(gp) + Len(pending) = tlsArrived
        BY <3>1, <4>1, <4>3
      <4> QED
        BY <4>1, <4>2, <4>4, NumberedJoin
    <3>5. gp \o pending = Tls!Up(tlsArrived)
      BY <3>4, NumberedIsUp
    <3> QED
      BY <3>5 DEF gp
  <2> QED
    BY <2>2, <2>3 DEF Tls!PlaintextIntact
<1> QED
  BY <1>1, <1>2, <1>3, <1>4 DEF Tls!TlsIsSound

(* Wherever start_ssl_client fails, and whatever other tasks do with the   *)
(* table: outside of the two places named in TlsClient the socket of the   *)
(* context is this client's; between calls a client is connected exactly   *)
(* when it has a session and a socket, and has freed its certificates; what *)
(* was read, the byte peeked at and what is pending are what has come.     *)
THEOREM SessionsAreSound == Tls!Spec => [](Tls!TypeOK /\ Tls!TlsIsSound)
<1> USE LibraryAssumption
<1>1. Tls!Init => TlsInv
  BY InitTls
<1>2. TlsInv /\ [Tls!Next]_Tls!vars => TlsInv'
  BY NextTls
<1>3. TlsInv => Tls!TypeOK /\ Tls!TlsIsSound
  BY TlsSuffices
<1> QED
  BY <1>1, <1>2, <1>3, PTL DEF Tls!Spec

-----------------------------------------------------------------------------
(* The bundle of roots, of any length, whatever replaces it.              *)

(* The middle of a range lies in it.                                       *)
LEMMA HalfwayLiesBetween ==
  ASSUME NEW s \in Nat, NEW e \in Int, e >= -1
  PROVE  Bundle!Halfway(s, e) \in Nat /\ (s <= e => s <= Bundle!Halfway(s, e) /\ Bundle!Halfway(s, e) <= e)
  BY DEF Bundle!Halfway

-----------------------------------------------------------------------------
LEMMA BundleNextTypeOK ==
  ASSUME Bundle!BundlesAreSorted, Bundle!TypeOK, [Bundle!Next]_Bundle!vars
  PROVE  Bundle!TypeOK'
<1> USE DEF Bundle!TypeOK
<1>1. ASSUME NEW b \in Bundles, Bundle!Set(b) PROVE Bundle!TypeOK'
  <2>1. Len(b) \in Nat
    BY DEF Bundle!BundlesAreSorted
  <2> QED
    BY <1>1, <2>1 DEF Bundle!Set, Bundle!Races, Bundle!search
<1>2. CASE Bundle!Attach \/ Bundle!Detach
  BY <1>2 DEF Bundle!Attach, Bundle!Detach, Bundle!Races, Bundle!search
<1>3. CASE Bundle!Verify
  <2>1. num_certs - 1 \in Int /\ num_certs - 1 >= -1
    OBVIOUS
  <2>2. Bundle!Halfway(0, num_certs - 1) \in Nat
    BY <2>1, HalfwayLiesBetween
  <2> QED
    BY <1>3, <2>1, <2>2 DEF Bundle!Verify, Bundle!Returns, Bundle!bundle
<1>4. CASE Bundle!NotAsked \/ Bundle!CheckSignature
  BY <1>4 DEF Bundle!NotAsked, Bundle!CheckSignature, Bundle!Returns, Bundle!bundle,
        Bundle!search
<1>5. CASE Bundle!Search
  <2>1. middle - 1 \in Int /\ middle - 1 >= -1 /\ middle + 1 \in Nat
    OBVIOUS
  <2>2. Bundle!Halfway(start, middle - 1) \in Nat /\ Bundle!Halfway(middle + 1, end) \in Nat
    BY <2>1, HalfwayLiesBetween
  <2> QED
    BY <1>5, <2>1, <2>2 DEF Bundle!Search, Bundle!SearchStep, Bundle!Narrow, Bundle!Returns,
          Bundle!bundle
<1>6. CASE UNCHANGED Bundle!vars
  BY <1>6 DEF Bundle!vars, Bundle!bundle, Bundle!search
<1> QED
  BY <1>1, <1>2, <1>3, <1>4, <1>5, <1>6 DEF Bundle!Next

-----------------------------------------------------------------------------
(* As long as nobody replaces the bundle: the count is the table's, every  *)
(* certificate of the issuer's name is still in the range that is searched,*)
(* and the one that is found has that name.                                *)
TableCounted == crts # NoTable => num_certs = Len(crts)

RangeHoldsIssuer ==
  at_cert = "search" /\ ~replaced =>
    /\ crts # NoTable /\ end < Len(crts) /\ middle = Bundle!Halfway(start, end)
    /\ \A k \in 1..Len(crts) : crts[k].name = issuer => start < k /\ k <= end + 1

FoundIsIssuer ==
  at_cert = "check" /\ ~replaced =>
    crts # NoTable /\ middle < Len(crts) /\ crts[middle + 1].name = issuer

SearchInv == TableCounted /\ RangeHoldsIssuer /\ FoundIsIssuer /\ Bundle!ReadsAreSafe /\ Bundle!VerdictIsRight

LEMMA EntriesHaveType ==
  ASSUME NEW S, NEW s \in Seq(S), NEW k \in 1..Len(s)
  PROVE  s[k] \in S
  OBVIOUS

LEMMA TableIsSequence ==
  ASSUME Bundle!BundlesAreSorted, Bundle!TypeOK, crts # NoTable
  PROVE  /\ crts \in Seq([name : Int, key : Keys]) /\ Len(crts) \in Nat
         /\ DOMAIN crts = 1..Len(crts)
         /\ \A k \in 1..Len(crts) : crts[k] \in [name : Int, key : Keys]
         /\ \A i, j \in 1..Len(crts) : i < j => crts[i].name <= crts[j].name
         /\ issuer \in Int
<1>1. crts \in Bundles /\ issuer \in Int
  BY DEF Bundle!BundlesAreSorted, Bundle!TypeOK
<1>2. crts \in Seq([name : Int, key : Keys]) /\ \A i, j \in 1..Len(crts) : i < j => crts[i].name <= crts[j].name
  BY <1>1 DEF Bundle!BundlesAreSorted
<1>3. Len(crts) \in Nat /\ DOMAIN crts = 1..Len(crts)
  BY <1>2
<1>4. \A k \in 1..Len(crts) : crts[k] \in [name : Int, key : Keys]
  BY <1>2, EntriesHaveType
<1> QED
  BY <1>1, <1>2, <1>3, <1>4

(* One comparison keeps every certificate of the issuer's name in range.   *)
LEMMA NarrowKeepsIssuer ==
  ASSUME Bundle!BundlesAreSorted, Bundle!TypeOK, RangeHoldsIssuer, at_cert = "search",
         ~replaced,
         Bundle!InRange, Bundle!Readable, Bundle!SearchStep, UNCHANGED <<Bundle!bundle, issuer, signer, replaced>>
  PROVE  RangeHoldsIssuer' /\ FoundIsIssuer'
<1> USE DEF Bundle!TypeOK
<1>1. /\ crts # NoTable /\ end < Len(crts) /\ middle = Bundle!Halfway(start, end)
      /\ \A k \in 1..Len(crts) : crts[k].name = issuer => start < k /\ k <= end + 1
  BY DEF RangeHoldsIssuer
<1>2. start <= middle /\ middle <= end /\ middle + 1 \in 1..Len(crts)
  <2>1. start <= middle /\ middle <= end
    BY <1>1, HalfwayLiesBetween DEF Bundle!InRange
  <2>2. Len(crts) \in Nat
    BY <1>1, TableIsSequence
  <2> QED
    BY <1>1, <2>1, <2>2
<1>3. crts[middle + 1].name \in Int /\ issuer \in Int
  BY <1>1, <1>2, TableIsSequence
<1>4. crts' = crts /\ issuer' = issuer /\ replaced' = replaced
  BY DEF Bundle!bundle
<1>5. CASE Bundle!Compare = 0 /\ at_cert' = "check" /\ UNCHANGED <<verdict, start, end, middle>>
  BY <1>1, <1>2, <1>3, <1>4, <1>5 DEF Bundle!Compare, RangeHoldsIssuer, FoundIsIssuer
<1>6. CASE Bundle!Compare < 0 /\ Bundle!Narrow(start, middle - 1)
  <2>1. \A k \in 1..Len(crts) : crts[k].name = issuer => k <= middle
    <3> SUFFICES ASSUME NEW k \in 1..Len(crts), crts[k].name = issuer, ~(k <= middle) PROVE FALSE
      OBVIOUS
    <3>1. k = middle + 1 \/ middle + 1 < k
      OBVIOUS
    <3>2. crts[middle + 1].name <= crts[k].name
      BY <1>1, <1>2, <1>3, <3>1, TableIsSequence
    <3> QED
      BY <1>3, <1>6, <3>2 DEF Bundle!Compare
  <2>2. start' = start /\ end' = middle - 1 /\ middle' = Bundle!Halfway(start, middle - 1)
        /\ at_cert' = at_cert
    BY <1>6 DEF Bundle!Narrow
  <2> QED
    BY <1>1, <1>2, <1>4, <2>1, <2>2 DEF RangeHoldsIssuer, FoundIsIssuer
<1>7. CASE Bundle!Compare > 0 /\ Bundle!Narrow(middle + 1, end)
  <2>1. \A k \in 1..Len(crts) : crts[k].name = issuer => middle + 1 < k
    <3> SUFFICES ASSUME NEW k \in 1..Len(crts), crts[k].name = issuer, ~(middle + 1 < k) PROVE FALSE
      OBVIOUS
    <3>1. k = middle + 1 \/ k < middle + 1
      OBVIOUS
    <3>2. crts[k].name <= crts[middle + 1].name
      BY <1>1, <1>2, <1>3, <3>1, TableIsSequence
    <3> QED
      BY <1>3, <1>7, <3>2 DEF Bundle!Compare
  <2>2. start' = middle + 1 /\ end' = end /\ middle' = Bundle!Halfway(middle + 1, end)
        /\ at_cert' = at_cert
    BY <1>7 DEF Bundle!Narrow
  <2> QED
    BY <1>1, <1>2, <1>4, <2>1, <2>2 DEF RangeHoldsIssuer, FoundIsIssuer
<1> QED
  BY <1>5, <1>6, <1>7 DEF Bundle!SearchStep

LEMMA SearchInvStep ==
  ASSUME Bundle!BundlesAreSorted, Bundle!TypeOK, SearchInv, [Bundle!Next]_Bundle!vars
  PROVE  SearchInv'
<1> USE DEF Bundle!TypeOK, SearchInv
<1>1. ASSUME NEW b \in Bundles, Bundle!Set(b) PROVE SearchInv'
  BY <1>1 DEF Bundle!Set, Bundle!Races, Bundle!search, TableCounted, RangeHoldsIssuer,
        FoundIsIssuer, Bundle!ReadsAreSafe, Bundle!VerdictIsRight
<1>2. CASE Bundle!Detach
  BY <1>2 DEF Bundle!Detach, Bundle!Races, Bundle!search, TableCounted, RangeHoldsIssuer,
        FoundIsIssuer, Bundle!ReadsAreSafe, Bundle!VerdictIsRight
<1>3. CASE Bundle!Attach
  BY <1>3 DEF Bundle!Attach, Bundle!search, TableCounted, RangeHoldsIssuer, FoundIsIssuer,
        Bundle!ReadsAreSafe, Bundle!VerdictIsRight, Bundle!Listed
<1>4. CASE ~misread /\ Bundle!Verify
  <2>1. crts' = crts /\ num_certs' = num_certs /\ misread' = misread /\ replaced' = FALSE
    BY <1>4 DEF Bundle!Verify, Bundle!bundle
  <2>2. ~misread
    BY <1>4
  <2>3. CASE crts = NoTable
    BY <1>4, <2>1, <2>2, <2>3 DEF Bundle!Verify, Bundle!Returns, TableCounted, RangeHoldsIssuer,
          FoundIsIssuer, Bundle!ReadsAreSafe, Bundle!VerdictIsRight
  <2>4. CASE crts # NoTable
    <3>1. at_cert' = "search" /\ start' = 0 /\ end' = Len(crts) - 1
          /\ middle' = Bundle!Halfway(0, Len(crts) - 1)
      BY <1>4, <2>4 DEF Bundle!Verify, TableCounted
    <3>2. Len(crts) \in Nat
      BY <2>4, TableIsSequence
    <3>3. RangeHoldsIssuer'
      BY <2>1, <2>4, <3>1, <3>2 DEF RangeHoldsIssuer
    <3> QED
      BY <2>1, <2>2, <3>1, <3>3 DEF TableCounted, FoundIsIssuer, Bundle!ReadsAreSafe,
            Bundle!VerdictIsRight
  <2> QED
    BY <2>3, <2>4
<1>5. CASE Bundle!NotAsked
  BY <1>5 DEF Bundle!NotAsked, Bundle!Returns, Bundle!bundle, Bundle!search, TableCounted,
        RangeHoldsIssuer, FoundIsIssuer, Bundle!ReadsAreSafe, Bundle!VerdictIsRight
<1>6. CASE Bundle!Search
  <2>1. /\ crts' = crts /\ num_certs' = num_certs /\ replaced' = replaced /\ at_cert = "search"
        /\ issuer' = issuer /\ signer' = signer
    BY <1>6 DEF Bundle!Search, Bundle!bundle
  <2>2. CASE replaced
    BY <1>6, <2>1, <2>2 DEF TableCounted, RangeHoldsIssuer, FoundIsIssuer, Bundle!ReadsAreSafe,
          Bundle!VerdictIsRight
  <2>3. CASE ~replaced /\ ~Bundle!InRange
    <3>1. crts # NoTable /\ \A k \in 1..Len(crts) : crts[k].name # issuer
      BY <2>1, <2>3 DEF RangeHoldsIssuer, Bundle!InRange
    <3>2. Bundle!Listed(issuer) = {}
      BY <3>1, TableIsSequence DEF Bundle!Listed, Bundle!ToSet
    <3>3. at_cert' = "rest" /\ verdict' = "refused" /\ misread' = misread
      BY <1>6, <2>3 DEF Bundle!Search, Bundle!SearchStep, Bundle!Returns
    <3>4. Bundle!Listed(issuer)' = Bundle!Listed(issuer)
      BY <2>1 DEF Bundle!Listed
    <3> QED
      BY <2>1, <3>2, <3>3, <3>4 DEF TableCounted, RangeHoldsIssuer, FoundIsIssuer,
            Bundle!ReadsAreSafe, Bundle!VerdictIsRight
  <2>4. CASE ~replaced /\ Bundle!InRange
    <3>1. Bundle!Readable
      BY <2>1, <2>4, TableIsSequence, HalfwayLiesBetween DEF RangeHoldsIssuer, Bundle!InRange,
            Bundle!Readable
    <3>2. RangeHoldsIssuer' /\ FoundIsIssuer'
      BY <1>6, <2>1, <2>4, <3>1, NarrowKeepsIssuer DEF Bundle!Search
    <3>3. misread' = misread /\ at_cert' # "rest"
      BY <1>6, <2>1, <2>4, <3>1 DEF Bundle!Search, Bundle!SearchStep, Bundle!Narrow
    <3> QED
      BY <2>1, <3>2, <3>3 DEF TableCounted, Bundle!ReadsAreSafe, Bundle!VerdictIsRight
  <2> QED
    BY <2>2, <2>3, <2>4
<1>7. CASE Bundle!CheckSignature
  <2>1. /\ crts' = crts /\ num_certs' = num_certs /\ replaced' = replaced /\ at_cert = "check" /\ at_cert' = "rest"
        /\ issuer' = issuer /\ signer' = signer
    BY <1>7 DEF Bundle!CheckSignature, Bundle!Returns, Bundle!bundle, Bundle!search
  <2>2. CASE replaced
    BY <2>1, <2>2 DEF TableCounted, RangeHoldsIssuer, FoundIsIssuer, Bundle!ReadsAreSafe,
          Bundle!VerdictIsRight
  <2>3. CASE ~replaced
    <3> DEFINE entry == crts[middle + 1]
    <3>1. crts # NoTable /\ middle + 1 \in 1..Len(crts) /\ entry.name = issuer
      BY <2>1, <2>3, TableIsSequence DEF FoundIsIssuer
    <3>2. entry \in [name : Int, key : Keys] /\ entry \in Bundle!Listed(issuer)
      BY <3>1, TableIsSequence DEF Bundle!Listed, Bundle!ToSet
    <3>3. Bundle!Readable
      BY <2>1, <2>3 DEF FoundIsIssuer, Bundle!Readable
    <3>4. misread' = misread /\ verdict' = IF entry.key = signer THEN "accepted" ELSE "refused"
      BY <1>7, <3>3 DEF Bundle!CheckSignature, Bundle!Returns
    <3>5. entry = [name |-> entry.name, key |-> entry.key]
      BY <3>2
    <3>6. Bundle!Listed(issuer)' = Bundle!Listed(issuer)
      BY <2>1 DEF Bundle!Listed
    <3>7. Bundle!VerdictIsRight'
      <4> HIDE DEF entry
      <4> QED
        BY <2>1, <3>1, <3>2, <3>4, <3>5, <3>6 DEF Bundle!VerdictIsRight
    <3> QED
      BY <2>1, <3>4, <3>7 DEF TableCounted, RangeHoldsIssuer, FoundIsIssuer, Bundle!ReadsAreSafe
  <2> QED
    BY <2>2, <2>3
<1>8. CASE UNCHANGED Bundle!vars
  BY <1>8 DEF Bundle!vars, Bundle!bundle, Bundle!search, TableCounted, RangeHoldsIssuer,
        FoundIsIssuer, Bundle!ReadsAreSafe, Bundle!VerdictIsRight, Bundle!Listed
<1> QED
  BY <1>1, <1>2, <1>3, <1>4, <1>5, <1>6, <1>7, <1>8 DEF Bundle!Next

-----------------------------------------------------------------------------
(* Whatever sorted bundles are set, replaced and detached: a verification  *)
(* that was not disturbed accepts exactly what a root of the issuer's name *)
(* has signed, and the search reads outside its table only if it was.      *)
THEOREM SearchIsRight == Bundle!Spec => [](Bundle!TypeOK /\ Bundle!VerdictIsRight /\ Bundle!ReadsAreSafe)
<1> USE LibraryAssumption
<1>1. Bundle!Init => Bundle!TypeOK /\ SearchInv
  <2>1. Bundle!Init => Bundle!TypeOK
    <3>1. 0 \in Nat /\ 0 \in Int /\ 0 >= -1
      OBVIOUS
    <3> QED
      BY <3>1, Zenon DEF Bundle!Init, Bundle!TypeOK
  <2>2. Bundle!Init => SearchInv
    BY DEF Bundle!Init, SearchInv, TableCounted, RangeHoldsIssuer, FoundIsIssuer,
          Bundle!ReadsAreSafe, Bundle!VerdictIsRight
  <2> QED
    BY <2>1, <2>2
<1>2. Bundle!TypeOK /\ SearchInv /\ [Bundle!Next]_Bundle!vars => Bundle!TypeOK' /\ SearchInv'
  BY BundleNextTypeOK, SearchInvStep
<1>3. SearchInv => Bundle!VerdictIsRight /\ Bundle!ReadsAreSafe
  BY DEF SearchInv
<1> QED
  BY <1>1, <1>2, <1>3, PTL DEF Bundle!Spec

-----------------------------------------------------------------------------
(* WiFiUDP.                                                                *)

UdpFlags ==
  /\ udp_server \in BOOLEAN /\ tx_buffer \in BOOLEAN /\ joined \in BOOLEAN
  /\ server_port \in BOOLEAN /\ moved \in BOOLEAN /\ panic \in BOOLEAN
  /\ multicast_ip \in {Group, Nobody} /\ remote \in Hosts \cup {Group, Nobody}
  /\ began \in Hosts \cup {Group, Nobody} /\ sender \in Hosts \cup {Nobody}

UdpData ==
  /\ tx \in Seq(Nat) /\ Len(tx) <= Cap /\ written \in Nat \ {0} /\ base \in 1 .. written
  /\ rx_buffer \in Seq(Nat) /\ Len(rx_buffer) <= Cap
  /\ inbox \in Seq(Hosts \X Nat) /\ Len(inbox) <= MaxPackets

UdpInv == UdpFlags /\ UdpData

(* A byte more.                                                            *)
LEMMA PartGrows ==
  ASSUME NEW b \in Nat, NEW n \in Nat, b <= n
  PROVE  Append([i \in 1 .. n - b |-> b + i - 1], n) = [i \in 1 .. (n + 1) - b |-> b + i - 1]
  OBVIOUS

(* write() sends a full buffer as a datagram of its own and goes on with the *)
(* next part.                                                              *)
LEMMA UdpWriteKeeps ==
  ASSUME Udp!PacketsOK, UdpInv, Udp!DatagramIntact, Udp!Write
  PROVE  UdpInv' /\ Udp!DatagramIntact'
<1> USE DEF UdpInv, UdpFlags, UdpData, Udp!PacketsOK
<1> DEFINE kept == IF Len(tx) = Cap THEN <<>> ELSE tx
<1>1. /\ written' = written + 1 /\ base' = (IF Len(tx) = Cap THEN written ELSE base)
      /\ IF tx_buffer THEN tx' = Append(kept, written) /\ UNCHANGED panic ELSE panic' = TRUE /\ tx' = tx
      /\ UNCHANGED <<Udp!socket, remote, tx_buffer, began, Udp!receiving, moved>>
  BY DEF Udp!Write
<1>2. kept \in Seq(Nat) /\ Len(kept) + 1 <= Cap
  OBVIOUS
<1>3. Append(kept, written) \in Seq(Nat) /\ Len(Append(kept, written)) <= Cap
  BY <1>2
<1>4. UdpInv'
  <2>1. UdpFlags'
    BY <1>1 DEF Udp!socket, Udp!receiving
  <2>2. tx' \in Seq(Nat) /\ Len(tx') <= Cap
    BY <1>1, <1>3
  <2>3. written' \in Nat \ {0} /\ base' \in 1 .. written'
    BY <1>1
  <2>4. rx_buffer' = rx_buffer /\ inbox' = inbox
    BY <1>1 DEF Udp!receiving
  <2> QED
    BY <2>1, <2>2, <2>3, <2>4
<1>5. Udp!PacketIsWhole'
  <2>1. CASE began = Nobody
    BY <1>1, <2>1 DEF Udp!PacketIsWhole
  <2>2. CASE began # Nobody
    <3>1. udp_server /\ tx_buffer /\ tx = Udp!Part /\ (moved \/ remote = began) /\ ~panic
      BY <2>2 DEF Udp!DatagramIntact, Udp!PacketIsWhole
    <3>2. tx' = Append(kept, written) /\ ~panic'
      BY <1>1, <3>1
    <3>3. kept = [i \in 1 .. written - base' |-> base' + i - 1]
      BY <1>1, <3>1 DEF Udp!Part
    <3>4. tx' = Udp!Part'
      <4>1. base' \in Nat /\ written \in Nat /\ base' <= written /\ written' = written + 1
        BY <1>1
      <4> HIDE DEF kept
      <4>2. Append(kept, written) = [i \in 1 .. (written + 1) - base' |-> base' + i - 1]
        BY <3>3, <4>1, PartGrows
      <4> QED
        BY <3>2, <4>1, <4>2 DEF Udp!Part
    <3> QED
      BY <1>1, <3>1, <3>2, <3>4 DEF Udp!PacketIsWhole, Udp!socket
  <2> QED
    BY <2>1, <2>2
<1>6. Udp!RemoteIsSender'
  BY <1>1 DEF Udp!DatagramIntact, Udp!RemoteIsSender, Udp!socket, Udp!receiving
<1> QED
  BY <1>4, <1>5, <1>6 DEF Udp!DatagramIntact

(* The three ways to begin a packet.                                       *)
LEMMA AimKeeps ==
  ASSUME Udp!PacketsOK, UdpInv, Udp!DatagramIntact, ~panic,
         NEW to \in Hosts \cup {Group, Nobody}, Udp!Aim(to)
  PROVE  UdpInv' /\ Udp!DatagramIntact'
<1> USE DEF UdpInv, UdpFlags, UdpData, Udp!PacketsOK
<1>1. /\ remote' = to /\ moved' = FALSE
      /\ UNCHANGED <<multicast_ip, server_port, joined, written, panic, Udp!receiving>>
  BY DEF Udp!Aim
<1>2. CASE to = Nobody
  <2>1. UNCHANGED <<tx_buffer, tx, base, udp_server>> /\ began' = Nobody
    BY <1>2 DEF Udp!Aim
  <2> QED
    BY <1>1, <2>1 DEF Udp!receiving, Udp!DatagramIntact, Udp!PacketIsWhole, Udp!RemoteIsSender
<1>3. CASE to # Nobody
  <2>1. /\ tx_buffer' = TRUE /\ tx' = <<>> /\ base' = written
        /\ \/ udp_server' = TRUE /\ began' = to
           \/ (~udp_server /\ udp_server' = FALSE /\ began' = Nobody)
    BY <1>3 DEF Udp!Aim
  <2>2. UdpInv'
    <3>1. UdpFlags'
      BY <1>1, <2>1 DEF Udp!receiving
    <3>2. UdpData'
      BY <1>1, <2>1 DEF Udp!receiving
    <3> QED
      BY <3>1, <3>2
  <2>3. tx' = Udp!Part'
    BY <1>1, <2>1 DEF Udp!Part
  <2> QED
    BY <1>1, <2>1, <2>2, <2>3 DEF Udp!receiving, Udp!DatagramIntact, Udp!PacketIsWhole,
          Udp!RemoteIsSender
<1> QED
  BY <1>2, <1>3

(* parsePacket() and read(), and what arrives meanwhile.                   *)
LEMMA UdpReceiveKeeps ==
  ASSUME Udp!PacketsOK, UdpInv, Udp!DatagramIntact, Udp!ParsePacket \/ Udp!Read \/ Udp!Arrives
  PROVE  UdpInv' /\ Udp!DatagramIntact'
<1> USE DEF UdpInv, UdpFlags, UdpData, Udp!PacketsOK
<1>1. CASE Udp!ParsePacket
  <2> DEFINE packet == Head(inbox)
             n == IF packet[2] > Cap THEN Cap ELSE packet[2]
  <2>1. packet \in Hosts \X Nat /\ Tail(inbox) \in Seq(Hosts \X Nat)
        /\ Len(Tail(inbox)) <= MaxPackets
    BY <1>1 DEF Udp!ParsePacket
  <2>2. packet[1] \in Hosts /\ n \in 0 .. Cap
    BY <2>1
  <2>3. [i \in 1 .. n |-> i] \in Seq(Nat) /\ Len([i \in 1 .. n |-> i]) = n
    BY <2>2
  <2>4. /\ remote' = packet[1] /\ rx_buffer' = [i \in 1 .. n |-> i]
        /\ sender' = (IF n = 0 THEN Nobody ELSE packet[1])
        /\ inbox' = Tail(inbox) /\ moved' = TRUE /\ UNCHANGED <<Udp!socket, Udp!sending>>
    BY <1>1 DEF Udp!ParsePacket
  <2> HIDE DEF n, packet
  <2>5. UdpInv'
    BY <2>1, <2>2, <2>3, <2>4 DEF Udp!socket, Udp!sending
  <2> QED
    BY <2>4, <2>5 DEF Udp!socket, Udp!sending, Udp!DatagramIntact, Udp!PacketIsWhole,
          Udp!RemoteIsSender, Udp!Part
<1>2. CASE Udp!Read
  <2>1. PICK n \in {1, Cap} :
          rx_buffer' = IF n >= Len(rx_buffer) THEN <<>> ELSE SubSeq(rx_buffer, n + 1, Len(rx_buffer))
    BY <1>2 DEF Udp!Read
  <2>2. rx_buffer' \in Seq(Nat) /\ Len(rx_buffer') <= Cap
    BY <2>1
  <2> QED
    BY <1>2, <2>2 DEF Udp!Read, Udp!socket, Udp!sending, Udp!DatagramIntact, Udp!PacketIsWhole,
          Udp!RemoteIsSender, Udp!Part
<1>3. CASE Udp!Arrives
  <2>1. PICK from \in Hosts, n \in 0 .. Cap + 1 : inbox' = Append(inbox, <<from, n>>)
    BY <1>3 DEF Udp!Arrives
  <2>2. inbox' \in Seq(Hosts \X Nat) /\ Len(inbox') <= MaxPackets
    BY <1>3, <2>1 DEF Udp!Arrives
  <2> QED
    BY <1>3, <2>2 DEF Udp!Arrives, Udp!socket, Udp!sending, Udp!DatagramIntact,
          Udp!PacketIsWhole, Udp!RemoteIsSender, Udp!Part
<1> QED
  BY <1>1, <1>2, <1>3

LEMMA NextUdp ==
  ASSUME Udp!PacketsOK, UdpInv, Udp!DatagramIntact, [~panic /\ Udp!Next]_Udp!vars
  PROVE  UdpInv' /\ Udp!DatagramIntact'
<1> USE DEF UdpInv, UdpFlags, UdpData, Udp!PacketsOK
<1>1. CASE Udp!Stop
  <2>1. UdpFlags'
    BY <1>1 DEF Udp!Stop, Udp!Empty, Udp!Dropped
  <2>2. UdpData'
    BY <1>1 DEF Udp!Stop, Udp!Empty
  <2> QED
    BY <1>1, <2>1, <2>2 DEF Udp!Stop, Udp!Empty, Udp!Dropped, Udp!DatagramIntact,
          Udp!PacketIsWhole, Udp!RemoteIsSender
<1>2. ASSUME NEW group \in {Nobody, Group}, Udp!Begin(group) PROVE UdpInv' /\ Udp!DatagramIntact'
  <2>1. UdpFlags'
    BY <1>2 DEF Udp!Begin, Udp!Empty, Udp!Dropped
  <2>2. UdpData'
    BY <1>2 DEF Udp!Begin, Udp!Empty
  <2>3. began' = Nobody /\ sender' = Nobody
    BY <1>2 DEF Udp!Begin, Udp!Empty
  <2>4. multicast_ip' # Nobody => joined' /\ udp_server'
    BY <1>2 DEF Udp!Begin, Udp!Empty, Udp!Dropped, Udp!DatagramIntact, Udp!RemoteIsSender
  <2> QED
    BY <2>1, <2>2, <2>3, <2>4 DEF Udp!DatagramIntact, Udp!PacketIsWhole, Udp!RemoteIsSender
<1>3. CASE ~panic /\ (Udp!BeginPacket \/ Udp!BeginReply \/ Udp!BeginMulticastPacket)
  BY <1>3, AimKeeps DEF Udp!BeginPacket, Udp!BeginReply, Udp!BeginMulticastPacket
<1>4. CASE Udp!EndPacket
  BY <1>4 DEF Udp!EndPacket, Udp!socket, Udp!receiving, Udp!DatagramIntact, Udp!PacketIsWhole,
        Udp!RemoteIsSender, Udp!Part
<1>5. CASE UNCHANGED Udp!vars
  BY <1>5 DEF Udp!vars, Udp!socket, Udp!sending, Udp!receiving, Udp!DatagramIntact,
        Udp!PacketIsWhole, Udp!RemoteIsSender, Udp!Part
<1> QED
  BY <1>1, <1>2, <1>3, <1>4, <1>5, UdpWriteKeeps, UdpReceiveKeeps DEF Udp!Next

(* In any order of calls: a packet that was begun with success has a socket, *)
(* a buffer with exactly the bytes written since the last datagram, and its *)
(* destination, unless parsePacket() has set another; the remote address is *)
(* the sender's of what is read; a group is joined as long as it is kept.  *)
THEOREM DatagramsAreIntact == Udp!Spec => [](Udp!TypeOK /\ DatagramIntact)
<1> USE LibraryAssumption
<1>1. Udp!Init => UdpInv /\ Udp!DatagramIntact
  <2>1. Udp!Init => UdpFlags
    BY DEF Udp!Init, UdpFlags
  <2>2. Udp!Init => UdpData
    BY DEF Udp!PacketsOK, Udp!Init, UdpData
  <2>3. Udp!Init => Udp!DatagramIntact
    BY DEF Udp!Init, Udp!DatagramIntact, Udp!PacketIsWhole, Udp!RemoteIsSender
  <2> QED
    BY <2>1, <2>2, <2>3 DEF UdpInv
<1>2. UdpInv /\ Udp!DatagramIntact /\ [~panic /\ Udp!Next]_Udp!vars => UdpInv' /\ Udp!DatagramIntact'
  BY NextUdp
<1>3. UdpInv => Udp!TypeOK
  BY DEF Udp!PacketsOK, UdpInv, UdpFlags, UdpData, Udp!TypeOK
<1>4. Udp!DatagramIntact => DatagramIntact
  BY DEF DatagramIntact
<1> QED
  BY <1>1, <1>2, <1>3, <1>4, PTL DEF Udp!Spec

-----------------------------------------------------------------------------
(* WiFiScan and WiFiMulti.  What a scan finds is a sequence.               *)

ScanPending == driver \/ events > 0 \/ handler # "rest"

(* Until a scan has been reported and handled, it is under way.            *)
ScanRunInv == (SCANNING \/ Scan!Starting) /\ ~raced => ScanPending

(* Of one scan that has not been reported: the driver has it, or its       *)
(* report waits, or it is being handled.                                   *)
OneScan ==
  /\ driver => events = 0 /\ handler \notin {"alloc", "fetch", "stop", "done"}
  /\ events <= 1
  /\ events = 1 => handler \notin {"alloc", "fetch", "stop", "done"}

ScanFitInv ==
  ~impatient =>
    /\ OneScan
    /\ app \in {"delete", "start"} => ~Scan!Outstanding /\ ~DONE
    /\ app = "start" => result = <<>>
    /\ Scan!Outstanding => ~DONE
    /\ driver \/ events = 1 \/ handler = "alloc" => result = <<>>
    /\ handler \in {"alloc", "fetch"} => count = Len(found)
    /\ handler = "fetch" => Len(result) = count
    /\ handler # "alloc" => count = Len(result) \/ count = 0
    /\ ~leaked

ScanFlags == {SCANNING, DONE, started, driver, async, multi, raced, impatient, leaked} \subseteq BOOLEAN

ScanNumbers ==
  /\ count \in Nat /\ events \in Nat /\ scans \in Nat
  /\ Len(found) \in Nat /\ Len(result) \in Nat /\ DOMAIN result = 1 .. Len(result)
  /\ handler \in {"rest", "alloc", "fetch", "stop", "done", "clear"}
  /\ scanResult \in Int /\ index \in Nat

ScanTypes == ScanFlags /\ ScanNumbers

(* Every report was a scan.                                                *)
ScansCounted == scans <= MaxScans /\ events + (IF driver THEN 1 ELSE 0) <= scans

(* What `new' returns is as long as it was to be.                          *)
LEMMA LenOfFunction ==
  ASSUME NEW n \in Nat, NEW r, r = [i \in 1 .. n |-> r[i]]
  PROVE  Len(r) = n
<1> DEFINE S == {r[i] : i \in 1 .. n}
<1>1. r \in [1 .. n -> S]
  OBVIOUS
<1>2. r \in Seq(S)
  BY <1>1, SeqDef
<1>3. Len(r) \in Nat /\ DOMAIN r = 1 .. Len(r) /\ DOMAIN r = 1 .. n
  BY <1>1, <1>2, LenProperties
<1> QED
  BY <1>3

LEMMA AllocLen ==
  ASSUME ScanTypes, Scan!Alloc, handler' = "fetch"
  PROVE  Len(result') = count
<1>1. count \in Nat
  BY DEF ScanTypes, ScanNumbers
<1>2. result' = [i \in 1 .. count |-> [ssid |-> NoSsid, rssi |-> Low, open |-> FALSE]]
  BY DEF Scan!Alloc, Scan!Handles
<1>3. result' = [i \in 1 .. count |-> result'[i]]
  BY <1>2
<1> QED
  BY <1>1, <1>3, LenOfFunction

LEMMA FetchLen ==
  ASSUME ScanTypes, Scan!Fetch
  PROVE  Len(result') = Len(result) /\ DOMAIN result' = 1 .. Len(result')
<1>1. Len(result) \in Nat /\ DOMAIN result = 1 .. Len(result)
  BY DEF ScanTypes, ScanNumbers
<1>2. CASE UNCHANGED result
  BY <1>1, <1>2
<1>3. CASE result' = [i \in DOMAIN result |-> IF i <= count' THEN found[i] ELSE result[i]]
  <2>1. result' = [i \in 1 .. Len(result) |-> result'[i]]
    BY <1>1, <1>3
  <2>2. Len(result') = Len(result)
    BY <1>1, <2>1, LenOfFunction
  <2> QED
    BY <1>1, <1>3, <2>2
<1> QED
  BY <1>2, <1>3 DEF Scan!Fetch

(* scanNetworks(), scanComplete(), scanDelete() and WiFiMulti::run(), step *)
(* by step.                                                                *)
LEMMA ScanningKeeps ==
  ASSUME ScanTypes, ScanRunInv, ScanFitInv, Scan!Scanning, UNCHANGED <<handler, Scan!choosing>>
  PROVE  ScanTypes' /\ ScanRunInv' /\ ScanFitInv'
<1> USE DEF Scan!Goes, Scan!bits, Scan!results
<1>1. ScanTypes'
  <2>1. ScanFlags'
    BY DEF Scan!Scanning, ScanTypes, ScanFlags, Scan!ScanNetworks, Scan!ClearDone,
          Scan!Delete, Scan!Start, Scan!Stamp, Scan!ClearBit, Scan!SetBit, Scan!Wait,
          Scan!ScanComplete, Scan!Chosen, Scan!Again, Scan!Call, Scan!Run
  <2>2. /\ UNCHANGED <<events, handler>> /\ scans' \in {scans, scans + 1} /\ count' \in {count, 0}
        /\ result' \in {result, <<>>} /\ found' \in {found, <<>>}
    BY DEF Scan!Scanning, Scan!ScanNetworks, Scan!ClearDone, Scan!Delete, Scan!Start,
          Scan!Stamp, Scan!ClearBit, Scan!SetBit, Scan!Wait, Scan!ScanComplete, Scan!Chosen,
          Scan!Again, Scan!Call, Scan!Run
  <2> QED
    BY <2>1, <2>2 DEF ScanTypes, ScanNumbers, Scan!choosing
<1>2. ScanRunInv'
  BY DEF Scan!Scanning, ScanRunInv, ScanTypes, ScanFlags, Scan!Starting, ScanPending,
        Scan!ScanNetworks, Scan!ClearDone, Scan!Delete, Scan!Start, Scan!Stamp, Scan!ClearBit,
        Scan!SetBit, Scan!Wait, Scan!ScanComplete, Scan!Chosen, Scan!Again,
        Scan!Call, Scan!Run, Scan!Returns
<1>3. ScanFitInv'
  <2>1. CASE UNCHANGED <<async, multi>> /\ Scan!ClearDone
    BY <2>1 DEF Scan!Scanning, Scan!ClearDone, ScanFitInv, OneScan, Scan!Outstanding
  <2>2. CASE UNCHANGED <<async, multi>> /\ Scan!Delete
    BY <2>2 DEF Scan!Scanning, Scan!Delete, ScanFitInv, OneScan, Scan!Outstanding, ScanTypes,
          ScanNumbers
  <2>3. CASE UNCHANGED <<async, multi>> /\ Scan!Start
    <3>1. app = "start" /\ app' \in {"stamp", "again", "rest"} /\ events \in Nat
      BY <2>3 DEF Scan!Start, ScanTypes, ScanNumbers
    <3>2. UNCHANGED <<Scan!bits, Scan!results, events, handler, impatient>>
      BY <2>3 DEF Scan!Start, Scan!Scanning
    <3>3. CASE UNCHANGED <<driver, found>>
      BY <3>1, <3>2, <3>3 DEF ScanFitInv, OneScan, Scan!Outstanding
    <3>4. CASE driver' = TRUE /\ found' = <<>>
      BY <3>1, <3>2, <3>4 DEF ScanFitInv, OneScan, Scan!Outstanding
    <3> QED
      BY <2>3, <3>3, <3>4 DEF Scan!Start
  <2>4. CASE \/ UNCHANGED <<async, multi>>
                /\ (Scan!ScanNetworks \/ Scan!Stamp \/ Scan!ClearBit \/ Scan!SetBit \/ Scan!Wait
                    \/ Scan!ScanComplete \/ Scan!Chosen)
             \/ Scan!Again \/ Scan!Call("scan") \/ Scan!Call("clear_only") \/ Scan!Run
    <3>1. /\ UNCHANGED <<Scan!results, driver, found, events, handler>>
          /\ DONE' \in {DONE, FALSE} /\ impatient' \in {impatient, TRUE, impatient \/ Scan!Outstanding}
          /\ app' \notin {"delete", "start"}
      BY <2>4 DEF Scan!Scanning, Scan!ScanNetworks, Scan!Stamp, Scan!ClearBit, Scan!SetBit,
            Scan!Wait, Scan!ScanComplete, Scan!Chosen, Scan!Again, Scan!Call,
            Scan!Run, Scan!Returns
    <3> QED
      BY <3>1 DEF ScanFitInv, OneScan, Scan!Outstanding
  <2> QED
    BY <2>1, <2>2, <2>3, <2>4 DEF Scan!Scanning
<1> QED
  BY <1>1, <1>2, <1>3

LEMMA ApplicationKeeps ==
  ASSUME Scan!NearbyOK, ScanTypes, ScanRunInv, ScanFitInv, Scan!Application
  PROVE  ScanTypes' /\ ScanRunInv' /\ ScanFitInv'
<1>1. CASE Scan!Scanning /\ UNCHANGED Scan!choosing
  BY <1>1, ScanningKeeps DEF Scan!Application
<1>2. CASE (Scan!Analyse \/ Scan!Consider \/ Scan!Join) /\ UNCHANGED <<async, multi>>
  <2>1. /\ UNCHANGED <<SCANNING, DONE, started, count, result, leaked, driver, found, events, handler,
                      async, multi, scans, raced, impatient>>
        /\ app \notin {"delete", "start", "stamp", "clear_bit", "set_bit"}
        /\ app' \notin {"delete", "start", "stamp", "clear_bit", "set_bit"}
    BY <1>2 DEF Scan!Application, Scan!Analyse, Scan!Consider, Scan!Join, Scan!Goes, Scan!bits, Scan!results
  <2>2. ScanFlags'
    BY <2>1 DEF ScanTypes, ScanFlags
  <2>3. scanResult' \in Int /\ index' \in Nat
    <3>1. count \in Nat /\ Half \in Nat \ {0} /\ scanResult \in Int /\ index \in Nat
      BY DEF ScanTypes, ScanNumbers, Scan!NearbyOK
    <3>2. Scan!Int8(count) \in Int
      BY <3>1 DEF Scan!Int8
    <3> QED
      BY <1>2, <3>1, <3>2 DEF Scan!Analyse, Scan!Consider, Scan!Join
  <2>4. ScanNumbers'
    BY <2>1, <2>3 DEF ScanTypes, ScanNumbers
  <2>5. ScanRunInv'
    BY <2>1 DEF ScanRunInv, Scan!Starting, ScanPending
  <2>6. Scan!Outstanding' = Scan!Outstanding
    BY <2>1 DEF Scan!Outstanding
  <2>7. ScanFitInv'
    BY <2>1, <2>6 DEF ScanFitInv, OneScan
  <2> QED
    BY <2>2, <2>4, <2>5, <2>7 DEF ScanTypes
<1> QED
  BY <1>1, <1>2 DEF Scan!Application

(* _scanDone(), step by step.                                              *)
LEMMA ScanDoneKeeps ==
  ASSUME ScanTypes, ScanRunInv, ScanFitInv, Scan!ScanDone
  PROVE  ScanTypes' /\ ScanRunInv' /\ ScanFitInv'
<1> USE DEF Scan!Handles, Scan!bits, Scan!results
<1>1. ScanTypes'
  <2>1. ScanFlags'
    BY DEF Scan!ScanDone, ScanTypes, ScanFlags, Scan!Count, Scan!Alloc, Scan!Fetch, Scan!Stop,
          Scan!SetDone, Scan!ClearScanning
  <2>2. UNCHANGED <<scans, scanResult, index>>
        /\ handler' \in {"rest", "alloc", "fetch", "stop", "done", "clear"}
    BY DEF Scan!ScanDone, Scan!choosing, Scan!Count, Scan!Alloc, Scan!Fetch, Scan!Stop, Scan!SetDone,
          Scan!ClearScanning
  <2>3. events' \in Nat /\ Len(found') \in Nat
    BY DEF Scan!ScanDone, ScanTypes, ScanNumbers, Scan!Count, Scan!Alloc, Scan!Fetch, Scan!Stop,
          Scan!SetDone, Scan!ClearScanning
  <2>4. count' \in Nat
    BY DEF Scan!ScanDone, ScanTypes, ScanNumbers, Scan!Count, Scan!Alloc, Scan!Fetch, Scan!Stop,
          Scan!SetDone, Scan!ClearScanning
  <2>5. Len(result') \in Nat /\ DOMAIN result' = 1 .. Len(result')
    <3>1. CASE Scan!Alloc /\ count # 0
      <4>1. handler' = "fetch" /\ DOMAIN result' = 1 .. count
        BY <3>1 DEF Scan!Alloc
      <4> QED
        BY <3>1, <4>1, AllocLen DEF ScanTypes, ScanNumbers
    <3>2. CASE Scan!Fetch
      BY <3>2, FetchLen DEF ScanTypes, ScanNumbers
    <3>3. CASE UNCHANGED result
      BY <3>3 DEF ScanTypes, ScanNumbers
    <3> QED
      BY <3>1, <3>2, <3>3 DEF Scan!ScanDone, Scan!Count, Scan!Alloc, Scan!Stop, Scan!SetDone,
            Scan!ClearScanning
  <2> QED
    BY <2>1, <2>2, <2>3, <2>4, <2>5 DEF ScanTypes, ScanNumbers
<1>2. ScanRunInv'
  BY DEF Scan!ScanDone, ScanRunInv, Scan!Starting, ScanPending, Scan!Count, Scan!Alloc,
        Scan!Fetch, Scan!Stop, Scan!SetDone, Scan!ClearScanning
<1>3. ScanFitInv'
  <2>1. CASE Scan!Count
    <3>1. /\ handler = "rest" /\ handler' = "alloc" /\ events > 0 /\ events' = events - 1
          /\ count' = Len(found) /\ UNCHANGED <<DONE, result, leaked, found, driver, app, impatient>>
      BY <2>1 DEF Scan!ScanDone, Scan!Count
    <3>2. events \in Nat
      BY ZenonT(60) DEF ScanTypes, ScanNumbers
    <3> QED
      BY <3>1, <3>2 DEF ScanFitInv, OneScan, Scan!Outstanding
  <2>2. CASE Scan!Alloc
    BY ZenonT(60), <2>2, AllocLen DEF Scan!ScanDone, Scan!Alloc, ScanFitInv, OneScan, Scan!Outstanding,
          ScanTypes, ScanNumbers
  <2>3. CASE Scan!Fetch
    BY <2>3, FetchLen DEF Scan!ScanDone, Scan!Fetch, ScanFitInv, OneScan, Scan!Outstanding,
          ScanTypes, ScanNumbers
  <2>4. CASE Scan!Stop \/ Scan!SetDone \/ Scan!ClearScanning
    <3>1. UNCHANGED <<Scan!results, found, events, driver, app, impatient>>
      BY <2>4 DEF Scan!ScanDone, Scan!Stop, Scan!SetDone, Scan!ClearScanning
    <3>2. \/ handler = "stop" /\ handler' = "done" /\ DONE' = DONE
          \/ handler = "done" /\ handler' = "clear" /\ DONE' = TRUE
          \/ handler = "clear" /\ handler' = "rest" /\ DONE' = DONE
      BY <2>4 DEF Scan!Stop, Scan!SetDone, Scan!ClearScanning
    <3>3. events \in Nat
      BY ZenonT(60) DEF ScanTypes, ScanNumbers
    <3> QED
      BY <3>1, <3>2, <3>3 DEF ScanFitInv, OneScan, Scan!Outstanding
  <2> QED
    BY <2>1, <2>2, <2>3, <2>4 DEF Scan!ScanDone
<1> QED
  BY <1>1, <1>2, <1>3

LEMMA NextScan ==
  ASSUME Scan!NearbyOK, ScanTypes, ScanRunInv, ScanFitInv, [Scan!Next]_Scan!vars
  PROVE  ScanTypes' /\ ScanRunInv' /\ ScanFitInv'
<1>1. CASE Scan!Driver
  <2>1. /\ driver /\ driver' = FALSE /\ events' = events + 1 /\ found' \in Nearby
        /\ UNCHANGED <<Scan!bits, started, Scan!results, handler, app, async, multi, scans,
                       scanResult, index, raced, impatient>>
    BY <1>1 DEF Scan!Driver, Scan!choosing
  <2>2. ScanFlags'
    BY <2>1 DEF ScanTypes, ScanFlags, Scan!bits, Scan!results
  <2>3. ScanNumbers'
    BY <2>1 DEF ScanTypes, ScanNumbers, Scan!NearbyOK, Scan!results
  <2>4. events \in Nat
    BY DEF ScanTypes, ScanNumbers
  <2>5. ScanRunInv'
    BY <2>1, <2>4 DEF ScanRunInv, ScanPending
  <2>6. ScanFitInv'
    BY <2>1, <2>4 DEF ScanFitInv, OneScan, Scan!Outstanding, Scan!bits, Scan!results
  <2> QED
    BY <2>2, <2>3, <2>5, <2>6 DEF ScanTypes
<1>2. CASE UNCHANGED Scan!vars
  <2>1. ScanTypes'
    BY <1>2 DEF Scan!vars, ScanTypes, ScanFlags, ScanNumbers, Scan!bits, Scan!results, Scan!choosing
  <2>2. ScanRunInv' /\ ScanFitInv'
    BY <1>2 DEF Scan!vars, ScanRunInv, Scan!Starting, ScanPending, ScanFitInv, OneScan,
          Scan!Outstanding, Scan!bits, Scan!results
  <2> QED
    BY <2>1, <2>2
<1> QED
  BY <1>1, <1>2, ApplicationKeeps, ScanDoneKeeps DEF Scan!Next

LEMMA ScansCountedKeeps ==
  ASSUME Scan!NearbyOK, ScanTypes, ScansCounted, [Scan!Next]_Scan!vars
  PROVE  ScansCounted'
<1>1. events \in Nat /\ scans \in Nat /\ MaxScans \in Nat
  BY DEF ScanTypes, ScanNumbers, Scan!NearbyOK
<1>2. driver \in BOOLEAN
  BY DEF ScanTypes, ScanFlags
<1>3. CASE UNCHANGED <<driver, events, scans>>
  BY <1>3 DEF ScansCounted
<1>4. CASE ~driver /\ driver' /\ scans < MaxScans /\ scans' = scans + 1 /\ events' = events
  BY <1>1, <1>4 DEF ScansCounted
<1>5. CASE events > 0 /\ events' = events - 1 /\ UNCHANGED <<driver, scans>>
  BY <1>1, <1>5 DEF ScansCounted
<1>6. CASE driver /\ ~driver' /\ events' = events + 1 /\ scans' = scans
  BY <1>1, <1>6 DEF ScansCounted
<1>7. CASE Scan!Application
  <2>1. CASE Scan!Scanning
    BY <1>3, <1>4, <2>1 DEF Scan!Scanning, Scan!ScanNetworks, Scan!ClearDone, Scan!Delete,
          Scan!Start, Scan!Stamp, Scan!ClearBit, Scan!SetBit, Scan!Wait, Scan!ScanComplete,
          Scan!Chosen, Scan!Again, Scan!Call, Scan!Run, Scan!results, Scan!bits
  <2>2. CASE Scan!Analyse \/ Scan!Consider \/ Scan!Join
    BY <1>3, <2>2 DEF Scan!Analyse, Scan!Consider, Scan!Join
  <2> QED
    BY <1>7, <2>1, <2>2 DEF Scan!Application
<1>8. CASE Scan!ScanDone
  BY <1>3, <1>5, <1>8 DEF Scan!ScanDone, Scan!Count, Scan!Alloc, Scan!Fetch, Scan!Stop,
        Scan!SetDone, Scan!ClearScanning
<1>9. CASE Scan!Driver
  BY <1>6, <1>9 DEF Scan!Driver
<1>10. CASE UNCHANGED Scan!vars
  BY <1>3, <1>10 DEF Scan!vars
<1> QED
  BY <1>7, <1>8, <1>9, <1>10 DEF Scan!Next

LEMMA InitScan == Scan!NearbyOK /\ Scan!Init => ScanTypes /\ ScanRunInv /\ ScanFitInv
<1>1. Scan!Init => ScanFlags
  BY DEF Scan!Init, ScanFlags
<1>2. Scan!Init => ScanNumbers
  BY DEF Scan!Init, ScanNumbers
<1>3. Scan!Init => ScanRunInv /\ ScanFitInv
  BY DEF Scan!Init, ScanRunInv, Scan!Starting, ScanFitInv, OneScan, Scan!Outstanding
<1> QED
  BY <1>1, <1>2, <1>3 DEF ScanTypes

(* However often an application asks for scans, waits, takes the results   *)
(* or gives up: a scan that scanNetworks() has marked as running is going  *)
(* to be marked as done, and _scanCount is the length of _scanResult       *)
(* unless it was told to delete what the handler was still filling.        *)
THEOREM ScansEndAndFit == Scan!Spec => [](Scan!TypeOK /\ Scan!RunningScanEnds /\ Scan!ResultsFit)
<1> USE LibraryAssumption
<1>1. Scan!Init => ScanTypes /\ ScanRunInv /\ ScanFitInv /\ ScansCounted
  BY InitScan DEF Scan!Init, ScansCounted, Scan!NearbyOK
<1>2. /\ ScanTypes /\ ScanRunInv /\ ScanFitInv /\ ScansCounted /\ [Scan!Next]_Scan!vars
      => ScanTypes' /\ ScanRunInv' /\ ScanFitInv' /\ ScansCounted'
  BY NextScan, ScansCountedKeeps
<1>3. ScanTypes /\ ScanRunInv /\ ScanFitInv /\ ScansCounted
      => Scan!TypeOK /\ Scan!RunningScanEnds /\ Scan!ResultsFit
  <2>1. ScanRunInv => Scan!RunningScanEnds
    BY DEF ScanRunInv, ScanPending, Scan!RunningScanEnds
  <2>2. ASSUME ScanTypes, ScanFitInv, ~impatient PROVE Scan!ResultsFit
    <3>1. count \in Nat /\ Len(result) \in Nat
      BY <2>2 DEF ScanTypes, ScanNumbers
    <3>2. handler = "alloc" => result = <<>> /\ ~DONE
      BY <2>2 DEF ScanFitInv, Scan!Outstanding
    <3>3. ~leaked /\ (handler # "alloc" => count = Len(result) \/ count = 0)
      BY <2>2 DEF ScanFitInv
    <3> QED
      BY <3>1, <3>2, <3>3 DEF Scan!ResultsFit
  <2>3. ASSUME ScanTypes, ScansCounted PROVE Scan!TypeOK
    <3>1. events \in Nat /\ scans \in Nat /\ MaxScans \in Nat /\ count \in Nat
      BY <2>3 DEF ScanTypes, ScanNumbers, Scan!NearbyOK
    <3>2. events <= scans /\ scans <= MaxScans
      BY <2>3, <3>1 DEF ScansCounted
    <3>3. events \in 0 .. MaxScans /\ scans \in 0 .. MaxScans
      BY <3>1, <3>2
    <3> QED
      BY <2>3, <3>1, <3>3 DEF Scan!TypeOK, ScanTypes, ScanFlags, ScanNumbers
  <2> QED
    BY <2>1, <2>2, <2>3 DEF Scan!ResultsFit
<1> QED
  BY <1>1, <1>2, <1>3, PTL DEF Scan!Spec

-----------------------------------------------------------------------------
(* WiFiMulti::run() chooses.  The networks it considers are those of the   *)
(* scan it waited for: nobody touches them until it has chosen.            *)
RecordOK(r) == r.rssi \in Int /\ r.rssi > Low

RecordsInv ==
  /\ \A i \in 1 .. Len(found) : RecordOK(found[i])
  /\ handler \notin {"alloc", "fetch"} =>
       \A i \in 1 .. Len(result) : i <= count => RecordOK(result[i])

FewInv == count < 2 * Half /\ Len(found) < 2 * Half

(* Of those considered so far, the first of the strongest is kept.         *)
Considered == {i \in Scan!Usables : i <= index}

BestSoFar ==
  IF Considered = {} THEN best = Scan!NoBest
  ELSE \E i \in Considered :
         /\ best = [ssid |-> result[i].ssid, rssi |-> result[i].rssi]
         /\ Scan!IsFirstOfStrongest(i, Considered)

ChoiceInv ==
  ~impatient =>
    /\ app \in {"choose", "consider"} => ~Scan!Outstanding
    /\ app = "consider" => scanResult = count /\ index \in 0 .. scanResult /\ BestSoFar

(* A count that an int8_t holds as no negative number is what it holds, up *)
(* to twice what it can hold; from there on it wraps to small numbers.     *)
LEMMA SmallCounts ==
  ASSUME Half \in Nat \ {0}, NEW c \in Nat, c < 2 * Half, Scan!Int8(c) >= 0
  PROVE  Scan!Int8(c) = c
<1> DEFINE m == 2 * Half
           x == c + Half
<1>1. CASE c < Half
  <2>1. x % m = x
    <3>1. x \in 0 .. m - 1
      BY <1>1
    <3> QED
      BY <3>1, SMTT(30)
  <2> QED
    BY <2>1 DEF Scan!Int8
<1>2. CASE c >= Half
  <2>1. x % m = x - m
    <3>1. x - m \in 0 .. m - 1 /\ m \in Nat \ {0}
      BY <1>2
    <3>2. x = 1 * m + (x - m)
      OBVIOUS
    <3> QED
      BY <3>1, <3>2, SMTT(30)
  <2> QED
    BY <2>1 DEF Scan!Int8
<1> QED
  BY <1>1, <1>2

LEMMA RecordsKeep ==
  ASSUME Scan!NearbyOK, ScanTypes, RecordsInv, [Scan!Next]_Scan!vars
  PROVE  RecordsInv'
<1> USE DEF RecordsInv
<1>1. CASE /\ Scan!Fetch /\ found' = <<>> /\ count' = IF Len(found) < count THEN Len(found) ELSE count
           /\ result' = [i \in DOMAIN result |-> IF i <= count' THEN found[i] ELSE result[i]]
  <2>1. count' \in Nat /\ count' <= Len(found)
    BY <1>1 DEF ScanTypes, ScanNumbers
  <2>2. Len(found) \in Nat /\ Len(result) \in Nat /\ DOMAIN result = 1 .. Len(result)
    BY DEF ScanTypes, ScanNumbers
  <2>3. Len(result') = Len(result)
    BY <1>1, FetchLen
  <2>4. ASSUME NEW i \in 1 .. Len(result'), i <= count' PROVE RecordOK(result'[i])
    <3>1. i \in DOMAIN result /\ i \in 1 .. Len(found)
      BY <2>1, <2>2, <2>3, <2>4
    <3>2. result'[i] = found[i]
      BY <1>1, <2>4, <3>1
    <3> QED
      BY <3>1, <3>2
  <2>5. \A i \in 1 .. Len(found') : FALSE
    BY <1>1
  <2> QED
    BY <2>4, <2>5 DEF RecordOK
<1>2. CASE handler' \in {"alloc", "fetch"} /\ found' = found
  BY <1>2 DEF RecordOK
<1>3. CASE handler' = "stop" /\ count' = 0 /\ found' = found
  BY <1>3 DEF RecordOK
<1>4. CASE handler' = handler /\ result' = result /\ count' = count /\ found' \in {found, <<>>} \cup Nearby
  <2>1. \A i \in 1 .. Len(found') : RecordOK(found'[i])
    BY <1>4 DEF RecordOK, Scan!NearbyOK
  <2> QED
    BY <1>4, <2>1 DEF RecordOK
<1>5. CASE result' = <<>> /\ found' = found
  BY <1>5 DEF RecordOK
<1>6. CASE UNCHANGED <<result, count, found>> /\ handler \in {"stop", "done", "clear"}
  BY <1>6 DEF RecordOK
<1>7. CASE Scan!Application
  BY <1>4, <1>5, <1>7 DEF Scan!Application, Scan!Scanning, Scan!ScanNetworks, Scan!ClearDone, Scan!Delete,
        Scan!Start, Scan!Stamp, Scan!ClearBit, Scan!SetBit, Scan!Wait, Scan!ScanComplete, Scan!Chosen,
        Scan!Again, Scan!Call, Scan!Run, Scan!Analyse, Scan!Consider, Scan!Join, Scan!results
<1>8. CASE Scan!ScanDone
  BY <1>1, <1>2, <1>3, <1>6, <1>8 DEF Scan!ScanDone, Scan!Count, Scan!Alloc, Scan!Fetch, Scan!Stop,
        Scan!SetDone, Scan!ClearScanning, Scan!Handles, Scan!results
<1>9. CASE Scan!Driver \/ UNCHANGED Scan!vars
  BY <1>4, <1>9 DEF Scan!Driver, Scan!vars, Scan!results
<1> QED
  BY <1>7, <1>8, <1>9 DEF Scan!Next

LEMMA FewKeeps ==
  ASSUME \A n \in Nearby : Len(n) < 2 * Half, Scan!NearbyOK, ScanTypes, FewInv, [Scan!Next]_Scan!vars
  PROVE  FewInv'
<1>1. Half \in Nat \ {0} /\ count \in Nat /\ Len(found) \in Nat /\ Len(<<>>) = 0
  BY DEF Scan!NearbyOK, ScanTypes, ScanNumbers
<1>2. CASE count' \in {count, 0, Len(found)} /\ found' \in {found, <<>>} \cup Nearby
  BY <1>1, <1>2 DEF FewInv
<1>3. CASE Scan!Application
  BY <1>2, <1>3 DEF Scan!Application, Scan!Scanning, Scan!ScanNetworks, Scan!ClearDone, Scan!Delete,
        Scan!Start, Scan!Stamp, Scan!ClearBit, Scan!SetBit, Scan!Wait, Scan!ScanComplete, Scan!Chosen,
        Scan!Again, Scan!Call, Scan!Run, Scan!Analyse, Scan!Consider, Scan!Join, Scan!results
<1>4. CASE Scan!ScanDone
  BY <1>2, <1>4 DEF Scan!ScanDone, Scan!Count, Scan!Alloc, Scan!Fetch, Scan!Stop,
        Scan!SetDone, Scan!ClearScanning, Scan!Handles, Scan!results
<1>5. CASE Scan!Driver \/ UNCHANGED Scan!vars
  BY <1>2, <1>5 DEF Scan!Driver, Scan!vars, Scan!results
<1> QED
  BY <1>3, <1>4, <1>5 DEF Scan!Next

(* One round of the loop.                                                  *)
LEMMA UsablesStay ==
  ASSUME UNCHANGED <<count, result, APlist>>
  PROVE  Scan!Usables' = Scan!Usables /\ \A n : Scan!Usable(n)' = Scan!Usable(n)
  BY DEF Scan!Usables, Scan!Usable, Scan!Knows, Scan!LastEntry, Scan!Readable

LEMMA ConsiderKeeps ==
  ASSUME ScanTypes, RecordsInv, handler \notin {"alloc", "fetch"}, BestSoFar, Low \in Int,
         UNCHANGED <<count, result, APlist>>, index' = index + 1,
         best' = IF Scan!Readable(index') THEN Scan!Better(result[index']) ELSE best
  PROVE  BestSoFar'
<1> DEFINE n == index + 1
           U == Scan!Usables
           C == Considered
           Rec(i) == [ssid |-> result[i].ssid, rssi |-> result[i].rssi]
<1>1. index \in Nat /\ count \in Nat /\ Len(result) \in Nat
  BY DEF ScanTypes, ScanNumbers
<1>2. U' = U /\ U \subseteq 1 .. Len(result) /\ C = {i \in U : i <= index}
  BY UsablesStay DEF Scan!Usables, Considered
<1>3. \A i \in U : result[i].rssi \in Int /\ result[i].rssi > Low
  BY <1>1 DEF Scan!Usables, Scan!Readable, RecordsInv, RecordOK
<1>4. \A i : i \in Considered' <=> i \in C \/ (i = n /\ n \in U)
  <2>1. Considered' = {i \in U : i <= n}
    BY <1>2 DEF Considered
  <2>2. \A i \in U : i <= n <=> i <= index \/ i = n
    BY <1>1, <1>2
  <2>3. n <= n
    BY <1>1
  <2> QED
    BY <1>2, <2>1, <2>2, <2>3
<1>5. n \notin C /\ \A i \in C : i < n /\ i \in U
  BY <1>1, <1>2
<1>6. \/ C = {} /\ best = Scan!NoBest
      \/ \E i \in C : best = Rec(i) /\ \A j \in C :
           result[j].rssi < result[i].rssi \/ (result[j].rssi = result[i].rssi /\ i <= j)
  BY DEF BestSoFar, Scan!IsFirstOfStrongest
<1>7. n \in U <=> n \in 1 .. Len(result) /\ Scan!Readable(n) /\ Scan!Usable(result[n])
  BY DEF Scan!Usables
<1>8. Scan!Readable(index') <=> n <= count /\ n <= Len(result)
  BY DEF Scan!Readable
<1>9. best' = IF n \in U /\ result[n].rssi > best.rssi THEN Rec(n) ELSE best
  BY <1>1, <1>7, <1>8 DEF Scan!Better, Scan!Readable
<1>10. SUFFICES \/ Considered' = {} /\ best' = Scan!NoBest
                \/ \E i \in Considered' : best' = Rec(i) /\ \A j \in Considered' :
                     result[j].rssi < result[i].rssi \/ (result[j].rssi = result[i].rssi /\ i <= j)
  BY DEF BestSoFar, Scan!IsFirstOfStrongest, Scan!NoBest
<1> HIDE DEF U, C, n
<1>11. CASE n \notin U
  <2>1. best' = best /\ \A i : i \in Considered' <=> i \in C
    BY <1>4, <1>9, <1>11
  <2> QED
    BY <1>6, <2>1
<1>12. CASE n \in U /\ C = {}
  <2>1. best.rssi = Low
    BY <1>6, <1>12 DEF Scan!NoBest
  <2>2. best' = Rec(n) /\ \A i : i \in Considered' <=> i = n
    BY <1>3, <1>4, <1>9, <1>12, <2>1
  <2>3. n <= n
    BY <1>1 DEF n
  <2> QED
    BY <2>2, <2>3
<1>13. CASE n \in U /\ C # {}
  <2>1. PICK i \in C : best = Rec(i) /\ \A j \in C :
           result[j].rssi < result[i].rssi \/ (result[j].rssi = result[i].rssi /\ i <= j)
    BY <1>6, <1>13
  <2>2. best.rssi = result[i].rssi /\ i \in U /\ i < n
    BY <1>5, <2>1
  <2>3. \A j \in Considered' : j \in C \/ j = n
    BY <1>4
  <2>4. \A j \in C \cup {n} : result[j].rssi \in Int
    BY <1>3, <1>5, <1>13
  <2>5. n \in Int /\ i \in Int
    BY <1>1, <1>2, <2>2 DEF n
  <2>6. CASE result[n].rssi > result[i].rssi
    <3>1. best' = Rec(n) /\ n \in Considered'
      BY <1>4, <1>9, <1>13, <2>2, <2>6
    <3>2. \A j \in Considered' : result[j].rssi < result[n].rssi \/ (result[j].rssi = result[n].rssi /\ n <= j)
      <4> SUFFICES ASSUME NEW j \in Considered'
                   PROVE  result[j].rssi < result[n].rssi \/ (result[j].rssi = result[n].rssi /\ n <= j)
        OBVIOUS
      <4>1. CASE j \in C
        <5>1. result[j].rssi <= result[i].rssi /\ {result[j].rssi, result[i].rssi, result[n].rssi} \subseteq Int
          BY <2>1, <2>4, <4>1
        <5> QED
          BY <2>6, <5>1
      <4>2. CASE j = n
        BY <2>5, <4>2
      <4> QED
        BY <2>3, <4>1, <4>2
    <3> QED
      BY <3>1, <3>2
  <2>7. CASE ~(result[n].rssi > result[i].rssi)
    <3>1. best' = Rec(i) /\ i \in Considered'
      BY <1>4, <1>9, <1>13, <2>1, <2>2, <2>7
    <3>2. \A j \in Considered' : result[j].rssi < result[i].rssi \/ (result[j].rssi = result[i].rssi /\ i <= j)
      <4>1. result[n].rssi < result[i].rssi \/ (result[n].rssi = result[i].rssi /\ i <= n)
        <5>1. {result[i].rssi, result[n].rssi} \subseteq Int
          BY <2>4
        <5> QED
          BY <2>2, <2>5, <2>7, <5>1
      <4> QED
        BY <2>1, <2>3, <4>1
    <3> QED
      BY <3>1, <3>2
  <2> QED
    BY <2>6, <2>7
<1> QED
  BY <1>11, <1>12, <1>13

(* Nothing changes the results while a scan is not outstanding, but the    *)
(* application itself.                                                     *)
LEMMA ResultsRest ==
  ASSUME ScanTypes, ~Scan!Outstanding, Scan!ScanDone \/ Scan!Driver \/ UNCHANGED Scan!vars
  PROVE  /\ UNCHANGED <<count, result, APlist, scanResult, index, best, app, impatient>>
         /\ ~Scan!Outstanding'
<1>1. ~driver /\ events = 0 /\ handler \notin {"alloc", "fetch", "stop", "done"}
  BY DEF Scan!Outstanding, ScanTypes, ScanNumbers
<1>2. CASE Scan!ScanDone
  <2>1. Scan!ClearScanning
    BY <1>1, <1>2 DEF Scan!ScanDone, Scan!Count, Scan!Alloc, Scan!Fetch, Scan!Stop, Scan!SetDone, Scan!Handles
  <2> QED
    BY <1>1, <1>2, <2>1 DEF Scan!ScanDone, Scan!ClearScanning, Scan!Handles, Scan!results, Scan!choosing,
          Scan!Outstanding
<1>3. CASE UNCHANGED Scan!vars
  BY <1>1, <1>3 DEF Scan!vars, Scan!results, Scan!choosing, Scan!Outstanding
<1> QED
  BY <1>1, <1>2, <1>3 DEF Scan!Driver

LEMMA BestSoFarStays ==
  ASSUME BestSoFar, UNCHANGED <<count, result, APlist, index, best>>
  PROVE  BestSoFar'
<1>1. Scan!Usables' = Scan!Usables
  BY UsablesStay
<1>2. Considered' = Considered
  BY <1>1 DEF Considered
<1> QED
  BY <1>2 DEF BestSoFar, Scan!IsFirstOfStrongest, Scan!NoBest

LEMMA ChoiceKeeps ==
  ASSUME Scan!NearbyOK, ScanTypes, ScanFitInv, RecordsInv, FewInv, ChoiceInv, [Scan!Next]_Scan!vars
  PROVE  ChoiceInv'
<1> SUFFICES ASSUME ~impatient' PROVE ChoiceInv'
  BY DEF ChoiceInv
<1>1. Half \in Nat \ {0} /\ Low \in Int /\ count \in Nat /\ index \in Nat /\ scanResult \in Int
  BY DEF Scan!NearbyOK, ScanTypes, ScanNumbers
<1>2. CASE Scan!ScanDone \/ Scan!Driver \/ UNCHANGED Scan!vars
  <2>1. UNCHANGED <<app, impatient>>
    BY <1>2 DEF Scan!ScanDone, Scan!Driver, Scan!vars
  <2>2. CASE app \in {"choose", "consider"}
    <3>1. ~Scan!Outstanding
      BY <2>1, <2>2 DEF ChoiceInv
    <3>2. UNCHANGED <<count, result, APlist, scanResult, index, best>> /\ ~Scan!Outstanding'
      BY <1>2, <3>1, ResultsRest
    <3>3. app = "consider" => scanResult' = count' /\ index' \in 0 .. scanResult' /\ BestSoFar'
      BY <2>1, <3>2, BestSoFarStays DEF ChoiceInv
    <3> QED
      BY <2>1, <3>2, <3>3 DEF ChoiceInv
  <2> QED
    BY <2>1, <2>2 DEF ChoiceInv
<1>3. CASE Scan!Application
  <2>1. CASE Scan!Scanning /\ ~(Scan!Wait /\ app' = "choose")
    <3>1. app' \notin {"choose", "consider"}
      BY <2>1 DEF Scan!Scanning, Scan!ScanNetworks, Scan!ClearDone, Scan!Delete, Scan!Start, Scan!Stamp,
            Scan!ClearBit, Scan!SetBit, Scan!Wait, Scan!ScanComplete, Scan!Chosen, Scan!Again, Scan!Call,
            Scan!Run, Scan!Goes, Scan!Returns
    <3> QED
      BY <3>1 DEF ChoiceInv
  <2>2. CASE Scan!Wait /\ app' = "choose"
    <3>1. DONE /\ UNCHANGED <<driver, events, handler, impatient>>
      BY <1>3, <2>2 DEF Scan!Wait, Scan!Goes, Scan!Application
    <3>2. ~Scan!Outstanding
      BY <3>1 DEF ScanFitInv
    <3>3. ~Scan!Outstanding'
      BY <3>1, <3>2 DEF Scan!Outstanding
    <3> QED
      BY <2>2, <3>3 DEF ChoiceInv
  <2>3. CASE Scan!Analyse
    <3>1. /\ app = "choose" /\ UNCHANGED <<count, driver, events, handler, impatient>>
          /\ scanResult' = Scan!Int8(count) /\ index' = 0 /\ best' = Scan!NoBest
      BY <1>3, <2>3 DEF Scan!Analyse, Scan!Goes, Scan!Application, Scan!results
    <3>2. ~Scan!Outstanding'
      BY <3>1 DEF ChoiceInv, Scan!Outstanding
    <3>3. CASE app' = "consider"
      <4>1. Scan!Int8(count) >= 0
        <5>1. Scan!Int8(count) \in Int
          BY <1>1 DEF Scan!Int8
        <5> QED
          BY <2>3, <3>3, <5>1 DEF Scan!Analyse, Scan!Goes
      <4>2. scanResult' = count'
        BY <1>1, <3>1, <4>1, SmallCounts DEF FewInv
      <4>3. Considered' = {}
        BY <3>1 DEF Considered, Scan!Usables
      <4>4. BestSoFar'
        BY <3>1, <4>3 DEF BestSoFar, Scan!NoBest
      <4>5. index' \in 0 .. scanResult'
        BY <1>1, <3>1, <4>2
      <4> QED
        BY <3>2, <4>2, <4>4, <4>5 DEF ChoiceInv
    <3>4. CASE app' # "consider"
      BY <3>2, <3>4 DEF ChoiceInv
    <3> QED
      BY <3>3, <3>4
  <2>4. CASE Scan!Consider
    <3>1. /\ app = "consider" /\ app' = "consider" /\ index < scanResult /\ index' = index + 1
          /\ UNCHANGED <<count, result, APlist, scanResult, driver, events, handler, impatient>>
          /\ best' = IF Scan!Readable(index') THEN Scan!Better(result[index']) ELSE best
      BY <1>3, <2>4 DEF Scan!Consider, Scan!Goes, Scan!Application, Scan!results
    <3>2. ~Scan!Outstanding /\ scanResult = count /\ index \in 0 .. scanResult /\ BestSoFar
      BY <3>1 DEF ChoiceInv
    <3>3. handler \notin {"alloc", "fetch"} /\ ~Scan!Outstanding'
      BY <3>1, <3>2 DEF Scan!Outstanding
    <3>4. BestSoFar'
      BY <1>1, <3>1, <3>2, <3>3, ConsiderKeeps
    <3>5. index' \in 0 .. scanResult'
      BY <1>1, <3>1
    <3> QED
      BY <3>1, <3>2, <3>3, <3>4, <3>5 DEF ChoiceInv
  <2>5. CASE Scan!Join
    BY <2>5 DEF Scan!Join, Scan!Goes, ChoiceInv
  <2> QED
    BY <1>3, <2>1, <2>2, <2>3, <2>4, <2>5 DEF Scan!Application
<1> QED
  BY <1>2, <1>3 DEF Scan!Next

(* However scans, deletions and time-outs interleave with it: as long as   *)
(* fewer networks are found than twice what an int8_t holds, and nobody    *)
(* gave up a scan or deleted results before the report, what run() has     *)
(* chosen when its loop ends is the first of the strongest networks that   *)
(* it has a usable entry for.                                              *)
THEOREM BestHolds ==
  ASSUME \A n \in Nearby : Len(n) < 2 * Half
  PROVE  Scan!Spec => BestIsJoined
<1> USE LibraryAssumption
<1> DEFINE Inv == ScanTypes /\ ScanRunInv /\ ScanFitInv /\ RecordsInv /\ FewInv /\ ChoiceInv
<1>1. Scan!Init => Inv
  <2>1. Scan!Init => RecordsInv /\ FewInv
    BY DEF Scan!Init, RecordsInv, FewInv, Scan!NearbyOK
  <2>2. Scan!Init => ChoiceInv
    BY DEF Scan!Init, ChoiceInv
  <2> QED
    BY InitScan, <2>1, <2>2
<1>2. Inv /\ [Scan!Next]_Scan!vars => Inv'
  BY NextScan, RecordsKeep, FewKeeps, ChoiceKeeps
<1>3. ASSUME Inv, Scan!Next, app = "consider", app' = "clear_only", ~impatient
      PROVE  IF Scan!Usables = {} THEN best.ssid = NoSsid
             ELSE \E i \in Scan!Usables :
                    best.ssid = result[i].ssid /\ Scan!IsFirstOfStrongest(i, Scan!Usables)
  <2>1. index >= scanResult
    BY <1>3 DEF Scan!Next, Scan!Application, Scan!Scanning, Scan!ScanNetworks, Scan!ClearDone, Scan!Delete,
          Scan!Start, Scan!Stamp, Scan!ClearBit, Scan!SetBit, Scan!Wait, Scan!ScanComplete, Scan!Chosen,
          Scan!Again, Scan!Call, Scan!Run, Scan!Analyse, Scan!Consider, Scan!Join, Scan!Goes,
          Scan!ScanDone, Scan!Driver
  <2>2. scanResult = count /\ index \in 0 .. scanResult /\ BestSoFar
    BY <1>3 DEF ChoiceInv
  <2>3. index = count /\ count \in Nat
    BY <1>3, <2>1, <2>2 DEF ScanTypes, ScanNumbers
  <2>4. Considered = Scan!Usables
    BY <2>3 DEF Considered, Scan!Usables, Scan!Readable
  <2> QED
    BY <2>2, <2>4 DEF BestSoFar, Scan!NoBest
<1> QED
  BY <1>1, <1>2, <1>3, PTL DEF Scan!Spec, BestIsJoined, Scan!BestIsJoined

-----------------------------------------------------------------------------
(* The set-up of a station, for any networks and static addresses.         *)

NetSteps == {"read", "leave", "store", "choose", "connect"}

(* One step of a task changes its own program counter and locals only.     *)
Own(t) ==
  \A o \in Setup!Tasks \ {t} :
    caller'[o] = caller[o] /\ call'[o] = call[o] /\ net'[o] = net[o] /\ addr'[o] = addr[o]

LEMMA ReturnsEffect ==
  ASSUME Setup!TypeOK, NEW t \in Setup!Tasks, NEW ok \in BOOLEAN, Setup!Returns(t, ok)
  PROVE  /\ Own(t) /\ caller'[t] = "rest" /\ call'[t] = "begin"
         /\ useStaticIp' = (IF call[t] = "config" THEN ok ELSE useStaticIp)
         /\ static' = (IF call[t] = "config" /\ ok THEN addr[t] ELSE static)
  BY DEF Setup!TypeOK, Setup!Returns, Setup!Goes, Own

LEMMA KeepsEffect ==
  ASSUME Setup!TypeOK, NEW t \in Setup!Tasks, NEW p, Setup!Goes(t, p), Setup!Keeps
  PROVE  /\ Own(t) /\ caller'[t] = p /\ call'[t] = call[t] /\ net'[t] = net[t] /\ addr'[t] = addr[t]
         /\ useStaticIp' = useStaticIp /\ static' = static
  BY DEF Setup!TypeOK, Setup!Keeps, Setup!Goes, Own

LEMMA ReturnsType ==
  ASSUME Setup!TypeOK, NEW t \in Setup!Tasks, NEW ok \in BOOLEAN, Setup!Returns(t, ok)
  PROVE  /\ caller' \in [Setup!Tasks -> {"rest", "read", "leave", "store", "choose", "connect"}
                                        \cup Setup!AddressSteps]
         /\ call' \in [Setup!Tasks -> {"begin", "again", "config"}]
         /\ net' \in [Setup!Tasks -> Ssids \cup {NoNet}]
         /\ addr' \in [Setup!Tasks -> Statics \cup {Nothing}]
         /\ useStaticIp' \in BOOLEAN /\ static' \in Statics \cup {Nothing}
<1>1. addr[t] \in Statics \cup {Nothing}
  BY DEF Setup!TypeOK
<1> QED
  BY <1>1 DEF Setup!TypeOK, Setup!Returns, Setup!Goes

LEMMA SetupNextTypeOK == Setup!TypeOK /\ [Setup!Next]_Setup!vars => Setup!TypeOK'
<1> SUFFICES ASSUME Setup!TypeOK, [Setup!Next]_Setup!vars PROVE Setup!TypeOK'
  OBVIOUS
<1> USE DEF Setup!TypeOK, Setup!Goes, Setup!AddressSteps, Setup!radio, Setup!interface,
           Setup!EntersNet, Setup!EntersAddress
<1>1. ASSUME NEW t \in Setup!Tasks, NEW n \in Ssids, Setup!Begin(t, n) PROVE Setup!TypeOK'
  BY <1>1 DEF Setup!Begin
<1>2. ASSUME NEW t \in Setup!Tasks, NEW a \in Statics \cup {Nothing}, Setup!Configure(t, a)
      PROVE Setup!TypeOK'
  BY <1>2 DEF Setup!Configure
<1>3. ASSUME NEW t \in Setup!Tasks, Setup!BeginAgain(t) PROVE Setup!TypeOK'
  BY <1>3 DEF Setup!BeginAgain
<1>4. ASSUME NEW t \in Setup!Tasks, Setup!Step(t) PROVE Setup!TypeOK'
  <2>1. CASE Setup!Read(t)
    <3>1. CASE \E ok \in BOOLEAN : Setup!Returns(t, ok)
      BY <2>1, <3>1, ReturnsType DEF Setup!Read
    <3>2. CASE Setup!Keeps /\ (Setup!Goes(t, "leave") \/ Setup!Goes(t, "store"))
      BY <2>1, <3>2 DEF Setup!Read, Setup!Keeps
    <3>3. CASE /\ net' = [net EXCEPT ![t] = conf_net] /\ Setup!Goes(t, "store")
               /\ UNCHANGED <<useStaticIp, static, call, addr>>
      BY <2>1, <3>3 DEF Setup!Read
    <3> QED
      BY <2>1, <3>1, <3>2, <3>3 DEF Setup!Read
  <2>2. CASE Setup!Leave(t)
    BY <2>2, ReturnsType DEF Setup!Leave, Setup!Keeps
  <2>3. CASE Setup!StoreConf(t)
    BY ZenonT(60), <2>3, ReturnsType DEF Setup!StoreConf, Setup!Keeps
  <2>4. CASE Setup!Choose(t)
    BY <2>4 DEF Setup!Choose, Setup!Keeps
  <2>5. CASE Setup!StopDhcp(t)
    BY <2>5, ReturnsType DEF Setup!StopDhcp, Setup!Keeps
  <2>6. CASE Setup!SetAddress(t)
    BY ZenonT(60), <2>6, ReturnsType DEF Setup!SetAddress, Setup!Keeps, Setup!AfterAddress
  <2>7. CASE Setup!StartDhcp(t)
    BY <2>7, ReturnsType DEF Setup!StartDhcp, Setup!Keeps, Setup!AfterAddress
  <2>8. CASE Setup!SetDns(t)
    BY <2>8, ReturnsType DEF Setup!SetDns
  <2>9. CASE Setup!Connect(t)
    BY <2>9, ReturnsType DEF Setup!Connect
  <2> QED
    BY <1>4, <2>1, <2>2, <2>3, <2>4, <2>5, <2>6, <2>7, <2>8, <2>9 DEF Setup!Step
<1>5. CASE Setup!Lose
  BY <1>5 DEF Setup!Lose, Setup!history
<1>6. CASE UNCHANGED Setup!vars
  BY <1>6 DEF Setup!vars, Setup!history
<1>7. "app" \in Setup!Tasks
  BY DEF Setup!Tasks
<1> QED
  BY <1>1, <1>2, <1>3, <1>4, <1>5, <1>6, <1>7 DEF Setup!Next

(* Every variable has its type in every reachable state.                   *)
THEOREM SetupTypeCorrect == Setup!Spec => []Setup!TypeOK
<1>1. Setup!Init => Setup!TypeOK
  BY DEF Setup!Init, Setup!TypeOK, Setup!NoCall
<1> QED
  BY <1>1, SetupNextTypeOK, PTL DEF Setup!Spec

-----------------------------------------------------------------------------
(* Where a call is tells which it is; a begin() sets an address only while *)
(* no static one is in use, or another call crossed it.                    *)
CallsHavePlaces ==
  \A t \in Setup!Tasks :
    /\ caller[t] \in NetSteps => call[t] # "config"
    /\ caller[t] = "dns" => call[t] = "config"
    /\ caller[t] = "leave" => call[t] = "begin"

(* As long as no two tasks set an address at once, what one of them has    *)
(* done so far.                                                            *)
AddressInProgress ==
  ~crossed =>
    /\ \A t, o \in Setup!Tasks : caller[t] \in Setup!AddressSteps /\ caller[o] \in Setup!AddressSteps
                                 => t = o
    /\ \A t \in Setup!Tasks :
         /\ caller[t] \in Setup!AddressSteps /\ call[t] # "config" => ~useStaticIp
         /\ caller[t] \in {"address", "start"} => dhcpc = "stopped"
         /\ caller[t] = "start" => addr[t] = Nothing /\ ip = Nothing
         /\ caller[t] = "dns" => ip = addr[t] /\ (dhcpc = "started" <=> addr[t] = Nothing)

AddressInv == CallsHavePlaces /\ AddressInProgress /\ Setup!AddressHolds

(* A task that sets no address, before or after its step.                  *)
LEMMA OutsideStays ==
  ASSUME Setup!TypeOK, AddressInv, NEW t \in Setup!Tasks, Own(t),
         caller[t] \notin Setup!AddressSteps, caller'[t] \notin Setup!AddressSteps,
         caller'[t] \in NetSteps => call'[t] # "config",
         caller'[t] = "leave" => call'[t] = "begin",
         UNCHANGED <<useStaticIp, static, dhcpc, ip, crossed>>
  PROVE  AddressInv'
<1>1. CallsHavePlaces'
  BY DEF AddressInv, CallsHavePlaces, Own, Setup!AddressSteps
<1>2. AddressInProgress' /\ Setup!AddressHolds'
  BY DEF AddressInv, AddressInProgress, Setup!AddressHolds, Own, Setup!AddressSteps
<1> QED
  BY <1>1, <1>2 DEF AddressInv

(* One that begins to set an address.                                      *)
LEMMA EntryHolds ==
  ASSUME Setup!TypeOK, AddressInv, NEW t \in Setup!Tasks, Own(t),
         caller[t] \notin Setup!AddressSteps, caller'[t] = "stop",
         call'[t] # "config" => ~useStaticIp, Setup!EntersAddress(t),
         UNCHANGED <<useStaticIp, static, dhcpc, ip>>
  PROVE  AddressInv'
<1>1. CallsHavePlaces'
  BY DEF AddressInv, CallsHavePlaces, Own, NetSteps
<1>2. ~crossed' => ~crossed /\ \A o \in Setup!Tasks \ {t} : caller[o] \notin Setup!AddressSteps
  BY DEF Setup!EntersAddress
<1>3. AddressInProgress' /\ Setup!AddressHolds'
  BY <1>2 DEF AddressInv, AddressInProgress, Setup!AddressHolds, Own, Setup!AddressSteps
<1> QED
  BY <1>1, <1>3 DEF AddressInv

(* One that goes on setting an address, and does its part.                 *)
LEMMA InsideGoesOn ==
  ASSUME Setup!TypeOK, AddressInv, NEW t \in Setup!Tasks, Own(t),
         caller[t] \in Setup!AddressSteps, caller'[t] \in Setup!AddressSteps,
         UNCHANGED <<useStaticIp, static, crossed>>, call'[t] = call[t], addr'[t] = addr[t],
         ~crossed /\ caller'[t] \in {"address", "start"} => dhcpc' = "stopped",
         ~crossed /\ caller'[t] = "start" => addr[t] = Nothing /\ ip' = Nothing,
         caller'[t] = "dns" => call[t] = "config",
         ~crossed /\ caller'[t] = "dns" => ip' = addr[t] /\ (dhcpc' = "started" <=> addr[t] = Nothing)
  PROVE  AddressInv'
<1>1. CallsHavePlaces'
  BY DEF AddressInv, CallsHavePlaces, Own, NetSteps, Setup!AddressSteps
<1>2. ~crossed => \A o \in Setup!Tasks \ {t} : caller'[o] \notin Setup!AddressSteps
  BY DEF AddressInv, AddressInProgress, Own
<1>3. AddressInProgress'
  BY <1>2 DEF AddressInv, AddressInProgress, Own, Setup!AddressSteps
<1>4. Setup!AddressHolds'
  BY DEF Setup!AddressHolds
<1> QED
  BY <1>1, <1>3, <1>4 DEF AddressInv

(* One that stops setting it, and leaves what it should.                   *)
LEMMA ExitHolds ==
  ASSUME Setup!TypeOK, AddressInv, NEW t \in Setup!Tasks, Own(t),
         caller[t] \in Setup!AddressSteps, caller'[t] \in {"rest", "connect"},
         call'[t] # "config", crossed' = crossed,
         useStaticIp' /\ ~crossed => ip' = static' /\ (dhcpc' = "started" <=> static' = Nothing)
  PROVE  AddressInv'
<1>1. CallsHavePlaces'
  BY DEF AddressInv, CallsHavePlaces, Own, NetSteps
<1>2. ~crossed => \A o \in Setup!Tasks : caller'[o] \notin Setup!AddressSteps
  BY DEF AddressInv, AddressInProgress, Own, Setup!AddressSteps
<1>3. AddressInProgress' /\ Setup!AddressHolds'
  BY <1>2 DEF AddressInProgress, Setup!AddressHolds, Setup!AddressSteps
<1> QED
  BY <1>1, <1>3 DEF AddressInv

(* A call that fails while it sets an address.                             *)
LEMMA FailureHolds ==
  ASSUME Setup!TypeOK, AddressInv, NEW t \in Setup!Tasks, caller[t] \in Setup!AddressSteps,
         Setup!Returns(t, FALSE), crossed' = crossed
  PROVE  AddressInv'
<1>1. Own(t) /\ caller'[t] = "rest" /\ call'[t] # "config"
  BY ReturnsEffect
<1>2. useStaticIp' => useStaticIp /\ call[t] # "config"
  BY ReturnsEffect
<1>3. useStaticIp' => crossed
  BY <1>2 DEF AddressInv, AddressInProgress
<1> QED
  BY <1>1, <1>3, ExitHolds

LEMMA AddressStep == Setup!TypeOK /\ AddressInv /\ [Setup!Next]_Setup!vars => AddressInv'
<1> SUFFICES ASSUME Setup!TypeOK, AddressInv, [Setup!Next]_Setup!vars PROVE AddressInv'
  OBVIOUS
<1>1. ASSUME NEW t \in Setup!Tasks, NEW n \in Ssids, Setup!Begin(t, n) PROVE AddressInv'
  <2>1. Own(t) /\ caller[t] = "rest" /\ caller'[t] = "read" /\ call'[t] = "begin"
    BY <1>1 DEF Setup!Begin, Setup!Goes, Own, Setup!TypeOK
  <2> QED
    BY <1>1, <2>1, OutsideStays DEF Setup!Begin, Setup!AddressSteps, Setup!interface
<1>2. ASSUME NEW t \in Setup!Tasks, NEW a \in Statics \cup {Nothing}, Setup!Configure(t, a)
      PROVE AddressInv'
  <2>1. Own(t) /\ caller[t] = "rest" /\ caller'[t] = "stop" /\ call'[t] = "config"
    BY <1>2 DEF Setup!Configure, Setup!Goes, Own, Setup!TypeOK
  <2> QED
    BY <1>2, <2>1, EntryHolds DEF Setup!Configure, Setup!AddressSteps, Setup!interface
<1>3. ASSUME NEW t \in Setup!Tasks, Setup!BeginAgain(t) PROVE AddressInv'
  <2>1. Own(t) /\ caller[t] = "rest" /\ caller'[t] = "read" /\ call'[t] = "again"
    BY <1>3 DEF Setup!BeginAgain, Setup!Goes, Own, Setup!TypeOK
  <2> QED
    BY <1>3, <2>1, OutsideStays DEF Setup!BeginAgain, Setup!AddressSteps, Setup!interface
<1>4. ASSUME NEW t \in Setup!Tasks, Setup!Step(t) PROVE AddressInv'
  <2>1. CASE Setup!Read(t) \/ Setup!Leave(t) \/ Setup!StoreConf(t) \/ Setup!Connect(t)
    <3>1. caller[t] \in NetSteps /\ caller[t] \notin Setup!AddressSteps
          /\ UNCHANGED <<dhcpc, ip, crossed>>
      BY <2>1 DEF Setup!Read, Setup!Leave, Setup!StoreConf, Setup!Connect, NetSteps,
            Setup!AddressSteps, Setup!interface
    <3>2. call[t] # "config"
      BY <3>1 DEF AddressInv, CallsHavePlaces
    <3>3. CASE \E ok \in BOOLEAN : Setup!Returns(t, ok)
      <4>1. Own(t) /\ caller'[t] = "rest" /\ UNCHANGED <<useStaticIp, static>>
        BY <3>2, <3>3, ReturnsEffect
      <4> QED
        BY <3>1, <4>1, OutsideStays DEF Setup!AddressSteps, NetSteps
    <3>4. CASE Setup!Keeps
               /\ \/ Setup!Goes(t, "leave") /\ call[t] = "begin"
                  \/ Setup!Goes(t, "store") \/ Setup!Goes(t, "choose")
      <4>1. Own(t) /\ caller'[t] \in {"leave", "store", "choose"} /\ call'[t] = call[t]
            /\ (caller'[t] = "leave" => call[t] = "begin")
            /\ UNCHANGED <<useStaticIp, static>>
        BY <3>4, KeepsEffect
      <4> QED
        BY <3>1, <3>2, <4>1, OutsideStays DEF Setup!AddressSteps
    <3>5. CASE Setup!Read(t) /\ net' = [net EXCEPT ![t] = conf_net] /\ Setup!Goes(t, "store")
               /\ UNCHANGED <<useStaticIp, static, call, addr>>
      <4>1. Own(t) /\ caller'[t] = "store"
        BY <3>5 DEF Own, Setup!Goes, Setup!TypeOK
      <4> QED
        BY <3>1, <3>2, <3>5, <4>1, OutsideStays DEF Setup!AddressSteps
    <3> QED
      BY <2>1, <3>3, <3>4, <3>5 DEF Setup!Read, Setup!Leave, Setup!StoreConf, Setup!Connect
  <2>2. CASE Setup!Choose(t)
    <3>1. caller[t] = "choose" /\ call[t] # "config" /\ UNCHANGED <<dhcpc, ip>>
      BY <2>2 DEF Setup!Choose, AddressInv, CallsHavePlaces, NetSteps, Setup!interface
    <3>2. CASE Setup!Goes(t, "connect") /\ UNCHANGED crossed
      BY <2>2, <3>1, <3>2, KeepsEffect, OutsideStays DEF Setup!Choose, Setup!AddressSteps
    <3>3. CASE ~useStaticIp /\ Setup!Goes(t, "stop") /\ Setup!EntersAddress(t)
      BY <2>2, <3>1, <3>3, KeepsEffect, EntryHolds DEF Setup!Choose, Setup!AddressSteps
    <3> QED
      BY <2>2, <3>2, <3>3 DEF Setup!Choose
  <2>3. CASE Setup!StopDhcp(t)
    <3>1. caller[t] = "stop" /\ caller[t] \in Setup!AddressSteps /\ crossed' = crossed
      BY <2>3 DEF Setup!StopDhcp, Setup!AddressSteps
    <3>2. CASE dhcpc' = "stopped" /\ Setup!Goes(t, "address") /\ Setup!Keeps
      BY <3>1, <3>2, KeepsEffect, InsideGoesOn DEF Setup!AddressSteps
    <3> QED
      BY <2>3, <3>1, <3>2, FailureHolds DEF Setup!StopDhcp
  <2>4. CASE Setup!SetAddress(t)
    <3>1. caller[t] = "address" /\ caller[t] \in Setup!AddressSteps
          /\ UNCHANGED <<dhcpc, crossed>>
      BY <2>4 DEF Setup!SetAddress, Setup!AddressSteps
    <3>2. CASE dhcpc = "stopped" /\ ip' = addr[t] /\ Setup!Keeps /\ addr[t] = Nothing
               /\ Setup!Goes(t, "start")
      BY <3>1, <3>2, KeepsEffect, InsideGoesOn DEF Setup!AddressSteps
    <3>3. CASE dhcpc = "stopped" /\ ip' = addr[t] /\ Setup!Keeps /\ addr[t] # Nothing
               /\ Setup!Goes(t, "dns") /\ call[t] = "config"
      BY <3>1, <3>3, KeepsEffect, InsideGoesOn DEF Setup!AddressSteps
    <3>4. CASE Setup!Keeps /\ Setup!Goes(t, "connect") /\ call[t] # "config"
      <4>1. useStaticIp => crossed
        BY <3>1, <3>4 DEF AddressInv, AddressInProgress
      <4> QED
        BY <3>1, <3>4, <4>1, KeepsEffect, ExitHolds
    <3> QED
      BY <2>4, <3>1, <3>2, <3>3, <3>4, FailureHolds DEF Setup!SetAddress, Setup!AfterAddress
  <2>5. CASE Setup!StartDhcp(t)
    <3>1. caller[t] = "start" /\ caller[t] \in Setup!AddressSteps /\ UNCHANGED <<ip, crossed>>
      BY <2>5 DEF Setup!StartDhcp, Setup!AddressSteps
    <3>2. ~crossed => addr[t] = Nothing /\ ip = Nothing
      BY <3>1 DEF AddressInv, AddressInProgress
    <3>3. CASE dhcpc' = "started" /\ Setup!Keeps /\ Setup!Goes(t, "dns") /\ call[t] = "config"
      BY <3>1, <3>2, <3>3, KeepsEffect, InsideGoesOn DEF Setup!AddressSteps
    <3>4. CASE Setup!Keeps /\ Setup!Goes(t, "connect") /\ call[t] # "config"
      <4>1. useStaticIp => crossed
        BY <3>1, <3>4 DEF AddressInv, AddressInProgress
      <4> QED
        BY <3>1, <3>4, <4>1, KeepsEffect, ExitHolds
    <3> QED
      BY <2>5, <3>1, <3>3, <3>4, FailureHolds DEF Setup!StartDhcp, Setup!AfterAddress
  <2>6. CASE Setup!SetDns(t)
    <3>1. caller[t] = "dns" /\ caller[t] \in Setup!AddressSteps
          /\ UNCHANGED <<dhcpc, ip, crossed>> /\ call[t] = "config"
      BY <2>6 DEF Setup!SetDns, Setup!AddressSteps, Setup!interface, AddressInv, CallsHavePlaces
    <3>2. CASE Setup!Returns(t, TRUE)
      <4>1. ~crossed => ip = addr[t] /\ (dhcpc = "started" <=> addr[t] = Nothing)
        BY <3>1 DEF AddressInv, AddressInProgress
      <4>2. Own(t) /\ caller'[t] = "rest" /\ call'[t] # "config" /\ static' = addr[t]
        BY <3>1, <3>2, ReturnsEffect
      <4> QED
        BY <3>1, <4>1, <4>2, ExitHolds
    <3> QED
      BY <2>6, <3>1, <3>2, FailureHolds DEF Setup!SetDns
  <2> QED
    BY <1>4, <2>1, <2>2, <2>3, <2>4, <2>5, <2>6 DEF Setup!Step
<1>5. CASE Setup!Lose \/ UNCHANGED Setup!vars
  BY <1>5 DEF Setup!Lose, Setup!vars, Setup!history, Setup!interface, AddressInv,
        CallsHavePlaces, AddressInProgress, Setup!AddressHolds
<1>6. "app" \in Setup!Tasks
  BY DEF Setup!Tasks
<1> QED
  BY <1>1, <1>2, <1>3, <1>4, <1>5, <1>6 DEF Setup!Next

-----------------------------------------------------------------------------
InNet(t) == caller[t] # "rest" /\ call[t] # "config"

(* As long as no two tasks look for a network at once, what one of them    *)
(* has read is what the driver has.                                        *)
NetworkInProgress ==
  ~crossedNet =>
    /\ \A t, o \in Setup!Tasks : InNet(t) /\ InNet(o) => t = o
    /\ \A t \in Setup!Tasks :
         caller[t] = "store" => IF call[t] = "begin" THEN net[t] = conf_net \/ linked = NoNet
                                ELSE net[t] = conf_net

NetworkInv == CallsHavePlaces /\ NetworkInProgress /\ Setup!NetworkHolds

(* A task that looks for no network, before or after its step.             *)
LEMMA ElsewhereStays ==
  ASSUME Setup!TypeOK, CallsHavePlaces', NetworkInv, NEW t \in Setup!Tasks, Own(t), ~InNet(t),
         ~InNet(t)',
         UNCHANGED <<conf_net, linked, asked, crossedNet>>
  PROVE  NetworkInv'
<1>1. caller'[t] # "store"
  BY DEF InNet, CallsHavePlaces, NetSteps
<1>2. \A o \in Setup!Tasks \ {t} : InNet(o)' = InNet(o)
  BY DEF InNet, Own
<1>3. NetworkInProgress'
  BY <1>1, <1>2 DEF NetworkInv, NetworkInProgress, Own
<1> QED
  BY <1>3 DEF NetworkInv, Setup!NetworkHolds

(* One that begins to.                                                     *)
LEMMA SearchBegins ==
  ASSUME Setup!TypeOK, CallsHavePlaces', NetworkInv, NEW t \in Setup!Tasks, Own(t),
         caller[t] = "rest", caller'[t] = "read",
         Setup!EntersNet(t), UNCHANGED <<conf_net, linked, asked>>
  PROVE  NetworkInv'
<1>1. ~crossedNet' => ~crossedNet /\ \A o \in Setup!Tasks \ {t} : ~InNet(o)
  BY DEF Setup!EntersNet, InNet
<1>2. \A o \in Setup!Tasks \ {t} : InNet(o)' = InNet(o)
  BY DEF InNet, Own
<1>3. NetworkInProgress'
  BY <1>1, <1>2 DEF NetworkInv, NetworkInProgress, Own
<1> QED
  BY <1>1, <1>3 DEF NetworkInv, Setup!NetworkHolds

(* One that goes on, or ends.                                              *)
LEMMA SearchGoesOn ==
  ASSUME Setup!TypeOK, CallsHavePlaces', NetworkInv, NEW t \in Setup!Tasks, Own(t), InNet(t),
         crossedNet' = crossedNet,
         ~crossedNet => conf_net' = asked' /\ linked' \in {NoNet, conf_net'},
         ~crossedNet /\ caller'[t] = "store" =>
           IF call'[t] = "begin" THEN net'[t] = conf_net' \/ linked' = NoNet ELSE net'[t] = conf_net'
  PROVE  NetworkInv'
<1>1. ~crossedNet => \A o \in Setup!Tasks \ {t} : ~InNet(o)'
  BY DEF NetworkInv, NetworkInProgress, InNet, Own
<1>2. ~crossedNet => \A o \in Setup!Tasks \ {t} : caller'[o] # "store"
  BY <1>1 DEF InNet, CallsHavePlaces, NetSteps
<1>3. NetworkInProgress'
  BY <1>1, <1>2 DEF NetworkInProgress
<1> QED
  BY <1>3 DEF NetworkInv, Setup!NetworkHolds

LEMMA NetworkStep ==
  Setup!TypeOK /\ CallsHavePlaces' /\ NetworkInv /\ [Setup!Next]_Setup!vars => NetworkInv'
<1> SUFFICES ASSUME Setup!TypeOK, CallsHavePlaces', NetworkInv, [Setup!Next]_Setup!vars
             PROVE  NetworkInv'
  OBVIOUS
<1>0. ~crossedNet => conf_net = asked /\ linked \in {NoNet, conf_net}
  BY DEF NetworkInv, Setup!NetworkHolds
<1>1. ASSUME NEW t \in Setup!Tasks, NEW n \in Ssids, Setup!Begin(t, n) PROVE NetworkInv'
  <2>1. Own(t) /\ caller[t] = "rest" /\ caller'[t] = "read"
    BY <1>1 DEF Setup!Begin, Setup!Goes, Own, Setup!TypeOK
  <2> QED
    BY <1>1, <2>1, SearchBegins DEF Setup!Begin, Setup!radio
<1>2. ASSUME NEW t \in Setup!Tasks, NEW a \in Statics \cup {Nothing}, Setup!Configure(t, a)
      PROVE NetworkInv'
  <2>1. Own(t) /\ ~InNet(t) /\ ~InNet(t)'
    BY <1>2 DEF Setup!Configure, Setup!Goes, Own, Setup!TypeOK, InNet
  <2> QED
    BY <1>2, <2>1, ElsewhereStays DEF Setup!Configure, Setup!radio
<1>3. ASSUME NEW t \in Setup!Tasks, Setup!BeginAgain(t) PROVE NetworkInv'
  <2>1. Own(t) /\ caller[t] = "rest" /\ caller'[t] = "read"
    BY <1>3 DEF Setup!BeginAgain, Setup!Goes, Own, Setup!TypeOK
  <2> QED
    BY <1>3, <2>1, SearchBegins DEF Setup!BeginAgain, Setup!radio
<1>4. ASSUME NEW t \in Setup!Tasks, Setup!Step(t) PROVE NetworkInv'
  <2>0. caller[t] # "rest" /\ crossedNet' = crossedNet
    BY <1>4 DEF Setup!Step, Setup!Read, Setup!Leave, Setup!StoreConf, Setup!Choose,
          Setup!StopDhcp, Setup!SetAddress, Setup!StartDhcp, Setup!SetDns, Setup!Connect
  <2>1. CASE Setup!Read(t)
    <3>1. InNet(t) /\ UNCHANGED <<conf_net, linked, asked>>
      BY <2>1 DEF Setup!Read, InNet, NetworkInv, CallsHavePlaces, NetSteps, Setup!radio
    <3>2. CASE \E ok \in BOOLEAN : Setup!Returns(t, ok)
      BY <1>0, <2>0, <3>1, <3>2, ReturnsEffect, SearchGoesOn
    <3>3. CASE Setup!Keeps /\ Setup!Goes(t, "leave")
      BY <1>0, <2>0, <3>1, <3>3, KeepsEffect, SearchGoesOn
    <3>4. CASE Setup!Keeps /\ Setup!Goes(t, "store") /\ net[t] = conf_net
      BY <1>0, <2>0, <3>1, <3>4, KeepsEffect, SearchGoesOn
    <3>5. CASE net' = [net EXCEPT ![t] = conf_net] /\ Setup!Goes(t, "store")
               /\ UNCHANGED <<useStaticIp, static, call, addr>>
      <4>1. Own(t) /\ caller'[t] = "store" /\ net'[t] = conf_net
        BY <3>5 DEF Own, Setup!Goes, Setup!TypeOK
      <4> QED
        BY <1>0, <2>0, <3>1, <4>1, SearchGoesOn
    <3> QED
      BY <2>1, <3>2, <3>3, <3>4, <3>5 DEF Setup!Read
  <2>2. CASE Setup!Leave(t)
    <3>1. InNet(t) /\ UNCHANGED <<conf_net, asked>>
      BY <2>2 DEF Setup!Leave, InNet, NetworkInv, CallsHavePlaces, NetSteps
    <3>2. CASE Setup!Returns(t, FALSE) /\ UNCHANGED linked
      BY <1>0, <2>0, <3>1, <3>2, ReturnsEffect, SearchGoesOn
    <3>3. CASE linked' = NoNet /\ Setup!Goes(t, "store") /\ Setup!Keeps
      <4>1. Own(t) /\ caller'[t] = "store" /\ call'[t] = call[t] /\ net'[t] = net[t]
        BY <3>3, KeepsEffect
      <4>2. call[t] = "begin"
        BY <2>2 DEF Setup!Leave, NetworkInv, CallsHavePlaces
      <4> QED
        BY <1>0, <2>0, <3>1, <3>3, <4>1, <4>2, SearchGoesOn
    <3> QED
      BY <2>2, <3>2, <3>3 DEF Setup!Leave
  <2>3. CASE Setup!StoreConf(t)
    <3>1. InNet(t) /\ UNCHANGED linked /\ caller[t] = "store"
      BY <2>3 DEF Setup!StoreConf, InNet, NetworkInv, CallsHavePlaces, NetSteps
    <3>2. CASE Setup!Returns(t, FALSE) /\ UNCHANGED <<conf_net, asked>>
      BY <1>0, <2>0, <3>1, <3>2, ReturnsEffect, SearchGoesOn
    <3>3. CASE conf_net' = net[t] /\ Setup!Goes(t, "choose") /\ Setup!Keeps
               /\ asked' = (IF call[t] = "begin" THEN net[t] ELSE asked)
      <4>1. ~crossedNet => IF call[t] = "begin" THEN net[t] = conf_net \/ linked = NoNet
                           ELSE net[t] = conf_net
        BY <3>1 DEF NetworkInv, NetworkInProgress
      <4>2. ~crossedNet => conf_net' = asked' /\ linked' \in {NoNet, conf_net'}
        BY <1>0, <3>1, <3>3, <4>1
      <4> QED
        BY <2>0, <3>1, <3>3, <4>2, KeepsEffect, SearchGoesOn
    <3> QED
      BY <2>3, <3>2, <3>3 DEF Setup!StoreConf
  <2>4. CASE Setup!Connect(t)
    <3>1. InNet(t) /\ UNCHANGED <<conf_net, asked>>
      BY <2>4 DEF Setup!Connect, InNet, NetworkInv, CallsHavePlaces, NetSteps
    <3>2. ~crossedNet => linked' \in {NoNet, conf_net'}
      BY <1>0, <2>4, <3>1 DEF Setup!Connect
    <3> QED
      BY <1>0, <2>0, <2>4, <3>1, <3>2, ReturnsEffect, SearchGoesOn DEF Setup!Connect
  <2>5. CASE Setup!Choose(t) \/ Setup!StopDhcp(t) \/ Setup!SetAddress(t)
             \/ Setup!StartDhcp(t) \/ Setup!SetDns(t)
    <3>1. UNCHANGED <<conf_net, linked, asked>>
      BY <2>5 DEF Setup!Choose, Setup!StopDhcp, Setup!SetAddress, Setup!StartDhcp, Setup!SetDns,
            Setup!radio
    <3>2. /\ Own(t) /\ caller'[t] # "store"
          /\ caller'[t] = "rest" \/ call'[t] = call[t]
      <4>1. CASE \E ok \in BOOLEAN : Setup!Returns(t, ok)
        BY <4>1, ReturnsEffect
      <4>2. CASE Setup!Keeps
                 /\ \E p \in {"connect", "stop", "address", "start", "dns"} : Setup!Goes(t, p)
        BY <4>2, KeepsEffect
      <4> QED
        BY <2>5, <4>1, <4>2 DEF Setup!Choose, Setup!StopDhcp, Setup!SetAddress, Setup!StartDhcp,
              Setup!SetDns, Setup!AfterAddress
    <3>3. CASE InNet(t)
      BY <1>0, <2>0, <3>1, <3>2, <3>3, SearchGoesOn
    <3>4. CASE ~InNet(t)
      <4>1. ~InNet(t)'
        BY <2>0, <3>2, <3>4 DEF InNet
      <4> QED
        BY <2>0, <3>1, <3>2, <3>4, <4>1, ElsewhereStays
    <3> QED
      BY <3>3, <3>4
  <2> QED
    BY <1>4, <2>1, <2>2, <2>3, <2>4, <2>5 DEF Setup!Step
<1>5. CASE Setup!Lose
  BY <1>0, <1>5 DEF Setup!Lose, Setup!history, NetworkInv, NetworkInProgress,
        Setup!NetworkHolds, CallsHavePlaces, InNet
<1>6. CASE UNCHANGED Setup!vars
  BY <1>6 DEF Setup!vars, Setup!radio, Setup!history, NetworkInv, NetworkInProgress,
        Setup!NetworkHolds, CallsHavePlaces, InNet
<1>7. "app" \in Setup!Tasks
  BY DEF Setup!Tasks
<1> QED
  BY <1>1, <1>2, <1>3, <1>4, <1>5, <1>6, <1>7 DEF Setup!Next

(* However begin(ssid), config() and the event task's begin() fail and     *)
(* follow one another: unless two of them set an address at once, a static *)
(* address in use is the one that was given; unless two of them looked for *)
(* a network at once, the station is on the network it was given, or none. *)
THEOREM SetupHolds == Setup!Spec => []Setup!SetupIsSound
<1>1. Setup!Init => AddressInv /\ NetworkInv
  BY DEF Setup!Init, Setup!NoCall, AddressInv, NetworkInv, CallsHavePlaces, AddressInProgress,
        Setup!AddressHolds, NetworkInProgress, Setup!NetworkHolds, InNet, NetSteps,
        Setup!AddressSteps
<1>2. Setup!TypeOK /\ AddressInv /\ NetworkInv /\ [Setup!Next]_Setup!vars => AddressInv' /\ NetworkInv'
  BY AddressStep, NetworkStep DEF AddressInv
<1>3. AddressInv /\ NetworkInv => Setup!SetupIsSound
  BY DEF AddressInv, NetworkInv, Setup!SetupIsSound
<1> QED
  BY <1>1, <1>2, <1>3, SetupTypeCorrect, PTL DEF Setup!Spec

-----------------------------------------------------------------------------
(* The leases of an access point.                                          *)

(* The range f to l suits the octet o of the access point and m of its mask. *)
Fits(o, m, f, l) ==
  m \in Leases!Roomy /\ o \in 1 .. (254 - m) => l - f = 10 /\ f >= 1 /\ l < 255 - m /\ o \notin f .. l

(* While softAPConfig() is under way: which octets the interface has, and  *)
(* from where on the range of the stopped server suits them.               *)
LeaseInv ==
  /\ toOwn \in 0 .. 255 /\ toMask \in 0 .. 255
  /\ own \in 0 .. 255 /\ mask \in 0 .. 255 /\ first \in 0 .. 255 /\ last \in 0 .. 255
  /\ leasing \in {"rest", "stop", "address", "lease", "start"}
  /\ dhcps => leasing \in {"rest", "stop"} /\ Fits(own, mask, first, last)
  /\ leasing \in {"lease", "start"} => own = toOwn /\ mask = toMask
  /\ leasing = "start" => Fits(own, mask, first, last)

(* The octet where the leases may start, computed in uint8_t.              *)
LEMMA RangeFits ==
  ASSUME NEW m \in Leases!Roomy, NEW o \in 1 .. (254 - m), NEW s, s = (255 - m - 12) % 256
  PROVE  /\ o < s => Fits(o, m, (o + 1) % 256, (o + 11) % 256)
         /\ o >= s => Fits(o, m, 1, 11)
<1>1. CASE m = 0
  BY <1>1 DEF Fits
<1>2. CASE m = 128
  BY <1>2 DEF Fits
<1>3. CASE m = 192
  BY <1>3 DEF Fits
<1>4. CASE m = 224
  BY <1>4 DEF Fits
<1> QED
  BY <1>1, <1>2, <1>3, <1>4 DEF Leases!Roomy

LEMMA SetLeaseFits ==
  ASSUME LeaseInv, leasing = "lease", Leases!SetLease, leasing' # "rest"
  PROVE  Fits(own, mask, first', last')
<1>1. CASE mask \in Leases!Roomy /\ own \in 1 .. (254 - mask)
  <2>1. own = toOwn /\ mask = toMask
    BY DEF LeaseInv
  <2>2. /\ own < Leases!LeaseStart => Fits(own, mask, (own + 1) % 256, (own + 11) % 256)
        /\ own >= Leases!LeaseStart => Fits(own, mask, 1, 11)
    BY <1>1, <2>1, RangeFits DEF Leases!LeaseStart
  <2>3. \/ own < Leases!LeaseStart /\ first' = (own + 1) % 256 /\ last' = (own + 11) % 256
        \/ own >= Leases!LeaseStart /\ first' = 1 /\ last' = 11
    BY <2>1 DEF Leases!SetLease, Leases!Fails
  <2> QED
    BY <2>2, <2>3
<1> QED
  BY <1>1 DEF Fits

LEMMA NextLease ==
  ASSUME Leases!OctetsOK, LeaseInv, [Leases!Next]_Leases!vars
  PROVE  LeaseInv'
<1> USE DEF LeaseInv, Leases!Fails, Leases!Goes
<1>1. CASE Leases!SoftAPConfig
  BY <1>1 DEF Leases!SoftAPConfig, Leases!OctetsOK
<1>2. CASE Leases!Stop
  BY <1>2 DEF Leases!Stop
<1>3. CASE Leases!SetAddress
  BY <1>3 DEF Leases!SetAddress
<1>4. CASE Leases!SetLease
  <2>1. first' \in 0 .. 255 /\ last' \in 0 .. 255
    BY <1>4 DEF Leases!SetLease
  <2>2. leasing' # "rest" => Fits(own, mask, first', last')
    BY <1>4, SetLeaseFits DEF Leases!SetLease
  <2>3. leasing = "lease" /\ leasing' \in {"rest", "start"}
        /\ UNCHANGED <<dhcps, own, mask, toOwn, toMask>>
    BY <1>4 DEF Leases!SetLease
  <2> QED
    BY <2>1, <2>2, <2>3
<1>5. CASE Leases!Start
  BY <1>5 DEF Leases!Start
<1>6. CASE UNCHANGED Leases!vars
  BY <1>6 DEF Leases!vars
<1> QED
  BY <1>1, <1>2, <1>3, <1>4, <1>5, <1>6 DEF Leases!Next

(* Whatever addresses softAPConfig() is given and whichever of its calls   *)
(* fail: a DHCP server that runs leases eleven addresses of the subnet that *)
(* are neither the access point's own nor the broadcast address.           *)
THEOREM RunningServerFits == Leases!Spec => [](Leases!TypeOK /\ Leases!LeasesFit)
<1> USE LibraryAssumption
<1>1. Leases!Init => LeaseInv
  BY DEF Leases!Init, LeaseInv, Fits, Leases!Roomy
<1>2. LeaseInv /\ [Leases!Next]_Leases!vars => LeaseInv'
  BY NextLease
<1>3. LeaseInv => Leases!TypeOK /\ Leases!LeasesFit
  BY DEF LeaseInv, Leases!TypeOK, Leases!LeasesFit, Fits
<1> QED
  BY <1>1, <1>2, <1>3, PTL DEF Leases!Spec

-----------------------------------------------------------------------------
(* WifiEvents: the bits of access point and Ethernet, behind two queues.   *)

ReportNames ==
  {"AP_START", "AP_STOP", "AP_STACONNECTED", "AP_STADISCONNECTED", "AP_GOT_IP6", "ETH_START",
   "ETH_STOP", "ETH_CONNECTED", "ETH_DISCONNECTED", "ETH_GOT_IP", "ETH_GOT_IP6", "SC_SEND_ACK_DONE"}
Reports == [event : ReportNames, copies : Nat]
BaseNames == {"WIFI", "IP", "SC", "ETH", "PROV"}

(* The last event of T, which set the bit b, or F, which clear it, in the  *)
(* library's queue q says whether x is in S; without one the bit does.     *)
Agrees(q, bs, T, F, b, x, S) ==
  /\ \A k \in 1 .. Len(q) :
       q[k] \in T \cup F /\ (\A j \in k + 1 .. Len(q) : q[j] \notin T \cup F) => (q[k] \in T <=> x \in S)
  /\ (\A k \in 1 .. Len(q) : q[k] \notin T \cup F) => (b \in bs <=> x \in S)

(* The last event of T or F in the system's loop p says whether x is in S; *)
(* without one that has still to be copied the library's queue does.       *)
TellsBit(p, q, bs, T, F, b, x, S) ==
  /\ \A k \in 1 .. Len(p) :
       p[k].event \in T \cup F /\ (\A j \in k + 1 .. Len(p) : p[j].event \notin T \cup F)
         => (p[k].event \in T <=> x \in S)
  /\ (\A k \in 1 .. Len(p) : p[k].event \in T \cup F => k = 1 /\ p[1].copies = 0)
       => Agrees(q, bs, T, F, b, x, S)

(* A report is posted: what it says of the bit is so.                      *)
LEMMA ReportPosted ==
  ASSUME NEW p \in Seq(Reports), NEW q, NEW bs, NEW T, NEW F, NEW b, NEW x, NEW S,
         NEW e \in ReportNames, NEW c \in Nat \ {0},
         NEW y, NEW R, e \in T \cup F => (e \in T <=> y \in R),
         e \notin T \cup F => (y \in R <=> x \in S) /\ TellsBit(p, q, bs, T, F, b, x, S)
  PROVE  TellsBit(Append(p, [event |-> e, copies |-> c]), q, bs, T, F, b, y, R)
<1> DEFINE r == [event |-> e, copies |-> c]
           p2 == Append(p, r)
<1>1. r \in Reports /\ r.event = e /\ r.copies = c
  BY DEF Reports
<1>2. /\ p2 \in Seq(Reports) /\ Len(p2) = Len(p) + 1 /\ p2[Len(p) + 1] = r
      /\ \A k \in 1 .. Len(p) : p2[k] = p[k]
      /\ Len(p) \in Nat
  BY <1>1
<1> HIDE DEF r, p2
<1>3. CASE e \in T \cup F
  <2>1. ASSUME NEW k \in 1 .. Len(p2), p2[k].event \in T \cup F,
               \A j \in k + 1 .. Len(p2) : p2[j].event \notin T \cup F
        PROVE  p2[k].event \in T <=> y \in R
    <3>1. k = Len(p) + 1
      BY <1>1, <1>2, <1>3, <2>1
    <3> QED
      BY <1>1, <1>2, <1>3, <3>1
  <2>2. ~(\A k \in 1 .. Len(p2) : p2[k].event \in T \cup F => k = 1 /\ p2[1].copies = 0)
    BY <1>1, <1>2, <1>3
  <2> QED
    BY <2>1, <2>2 DEF TellsBit, r, p2
<1>4. CASE e \notin T \cup F
  <2>1. ASSUME NEW k \in 1 .. Len(p2), p2[k].event \in T \cup F,
               \A j \in k + 1 .. Len(p2) : p2[j].event \notin T \cup F
        PROVE  p2[k].event \in T <=> y \in R
    <3>1. k \in 1 .. Len(p) /\ p2[k] = p[k]
      BY <1>1, <1>2, <1>4, <2>1
    <3>2. \A j \in k + 1 .. Len(p) : p[j].event \notin T \cup F
      BY <1>2, <2>1, <3>1
    <3> QED
      BY <1>4, <2>1, <3>1, <3>2 DEF TellsBit
  <2>2. ASSUME \A k \in 1 .. Len(p2) : p2[k].event \in T \cup F => k = 1 /\ p2[1].copies = 0
        PROVE  Agrees(q, bs, T, F, b, y, R)
    <3>1. ASSUME NEW k \in 1 .. Len(p), p[k].event \in T \cup F PROVE k = 1 /\ p[1].copies = 0
      <4>1. k \in 1 .. Len(p2) /\ p2[k] = p[k]
        BY <1>2
      <4> QED
        BY <1>2, <2>2, <3>1, <4>1
    <3>2. Agrees(q, bs, T, F, b, x, S)
      BY <1>4, <3>1 DEF TellsBit
    <3> QED
      BY <1>4, <3>2 DEF Agrees
  <2> QED
    BY <2>1, <2>2 DEF TellsBit, r, p2
<1> QED
  BY <1>3, <1>4

(* The first report has been copied as often as it is registered, and is   *)
(* dropped.                                                                *)
LEMMA ReportDropped ==
  ASSUME NEW p \in Seq(Reports), NEW q, NEW bs, NEW T, NEW F, NEW b, NEW x, NEW S,
         p # <<>>, p[1].copies = 0, \A k \in 2 .. Len(p) : p[k].copies # 0,
         TellsBit(p, q, bs, T, F, b, x, S)
  PROVE  TellsBit(Tail(p), q, bs, T, F, b, x, S)
<1> DEFINE p2 == Tail(p)
<1>1. /\ Len(p) \in Nat /\ Len(p) > 0 /\ p2 \in Seq(Reports) /\ Len(p2) = Len(p) - 1
      /\ \A k \in 1 .. Len(p2) : p2[k] = p[k + 1]
  OBVIOUS
<1> HIDE DEF p2
<1>2. ASSUME NEW k \in 1 .. Len(p2), p2[k].event \in T \cup F,
             \A j \in k + 1 .. Len(p2) : p2[j].event \notin T \cup F
      PROVE  p2[k].event \in T <=> x \in S
  <2>1. k + 1 \in 1 .. Len(p) /\ p2[k] = p[k + 1]
    BY <1>1
  <2>2. ASSUME NEW j \in (k + 1) + 1 .. Len(p) PROVE p[j].event \notin T \cup F
    <3>1. j - 1 \in k + 1 .. Len(p2) /\ (j - 1) \in 1 .. Len(p2) /\ (j - 1) + 1 = j
      BY <1>1
    <3> QED
      BY <1>1, <1>2, <3>1
  <2> QED
    BY <1>2, <2>1, <2>2 DEF TellsBit
<1>3. ASSUME \A k \in 1 .. Len(p2) : p2[k].event \in T \cup F => k = 1 /\ p2[1].copies = 0
      PROVE  Agrees(q, bs, T, F, b, x, S)
  <2>1. ASSUME NEW k \in 1 .. Len(p), p[k].event \in T \cup F PROVE k = 1
    <3>1. SUFFICES ASSUME k # 1 PROVE FALSE
      OBVIOUS
    <3>2. k - 1 \in 1 .. Len(p2) /\ (k - 1) + 1 = k /\ k \in 2 .. Len(p)
      BY <1>1, <3>1
    <3>3. p2[k - 1] = p[k]
      BY <1>1, <3>2
    <3>4. k - 1 = 1 /\ p2[1].copies = 0
      BY <1>3, <2>1, <3>2, <3>3
    <3> QED
      BY <3>2, <3>3, <3>4
  <2> QED
    BY <2>1 DEF TellsBit
<1> QED
  BY <1>2, <1>3 DEF TellsBit, p2

(* A copy of the first report goes into the library's queue.               *)
LEMMA ReportCopied ==
  ASSUME NEW p \in Seq(Reports), NEW q \in Seq(ReportNames), NEW bs, NEW T, NEW F, NEW b, NEW x, NEW S,
         NEW p2 \in Seq(Reports), p # <<>>, p[1].copies # 0,
         Len(p2) = Len(p), \A k \in 1 .. Len(p) : p2[k].event = p[k].event,
         TellsBit(p, q, bs, T, F, b, x, S)
  PROVE  TellsBit(p2, Append(q, p[1].event), bs, T, F, b, x, S)
<1> DEFINE e == p[1].event
           q2 == Append(q, e)
<1>0. Len(p) \in Nat /\ Len(p) > 0 /\ e \in ReportNames
  <2>1. Len(p) \in Nat /\ Len(p) > 0
    OBVIOUS
  <2>2. p[1] \in Reports
    BY <2>1
  <2> QED
    BY <2>1, <2>2 DEF Reports
<1>1. /\ Len(q) \in Nat /\ Len(q2) = Len(q) + 1 /\ q2[Len(q) + 1] = e
      /\ \A k \in 1 .. Len(q) : q2[k] = q[k]
  BY <1>0
<1> HIDE DEF e, q2
<1>2. ASSUME NEW k \in 1 .. Len(p2), p2[k].event \in T \cup F,
             \A j \in k + 1 .. Len(p2) : p2[j].event \notin T \cup F
      PROVE  p2[k].event \in T <=> x \in S
  <2>1. \A j \in k + 1 .. Len(p) : p[j].event \notin T \cup F
    BY <1>0, <1>2
  <2> QED
    BY <1>2, <2>1 DEF TellsBit
<1>3. ASSUME \A k \in 1 .. Len(p2) : p2[k].event \in T \cup F => k = 1 /\ p2[1].copies = 0
      PROVE  Agrees(q2, bs, T, F, b, x, S)
  <2>1. \A k \in 1 .. Len(p) : p[k].event \in T \cup F => k = 1
    BY <1>3
  <2>2. CASE e \in T \cup F
    <3>1. e \in T <=> x \in S
      <4>1. 1 \in 1 .. Len(p) /\ \A j \in 1 + 1 .. Len(p) : p[j].event \notin T \cup F
        BY <1>0, <2>1
      <4> QED
        BY <2>2, <4>1 DEF TellsBit, e
    <3>2. ASSUME NEW k \in 1 .. Len(q2), q2[k] \in T \cup F,
                 \A j \in k + 1 .. Len(q2) : q2[j] \notin T \cup F
          PROVE  q2[k] \in T <=> x \in S
      <4>1. k = Len(q) + 1
        BY <1>1, <2>2, <3>2
      <4> QED
        BY <1>1, <3>1, <4>1
    <3>3. ~(\A k \in 1 .. Len(q2) : q2[k] \notin T \cup F)
      BY <1>1, <2>2
    <3> QED
      BY <3>2, <3>3 DEF Agrees
  <2>3. CASE e \notin T \cup F
    <3>1. Agrees(q, bs, T, F, b, x, S)
      <4>1. \A k \in 1 .. Len(p) : p[k].event \notin T \cup F
        BY <2>1, <2>3 DEF e
      <4> QED
        BY <4>1 DEF TellsBit
    <3>2. ASSUME NEW k \in 1 .. Len(q2), q2[k] \in T \cup F,
                 \A j \in k + 1 .. Len(q2) : q2[j] \notin T \cup F
          PROVE  q2[k] \in T <=> x \in S
      <4>1. k \in 1 .. Len(q) /\ q2[k] = q[k]
        BY <1>1, <2>3, <3>2
      <4>2. \A j \in k + 1 .. Len(q) : q[j] \notin T \cup F
        BY <1>1, <3>2, <4>1
      <4> QED
        BY <3>1, <3>2, <4>1, <4>2 DEF Agrees
    <3>3. ASSUME \A k \in 1 .. Len(q2) : q2[k] \notin T \cup F PROVE b \in bs <=> x \in S
      <4>1. \A k \in 1 .. Len(q) : q[k] \notin T \cup F
        BY <1>1, <3>3
      <4> QED
        BY <3>1, <4>1 DEF Agrees
    <3> QED
      BY <3>2, <3>3 DEF Agrees
  <2> QED
    BY <2>2, <2>3
<1> QED
  BY <1>2, <1>3 DEF TellsBit, q2, e

(* The first event of the library's queue is handled, and the bit follows. *)
LEMMA ReportHandled ==
  ASSUME NEW p, NEW q \in Seq(ReportNames), NEW bs, NEW bs2, NEW T, NEW F, NEW b, NEW x, NEW S,
         q # <<>>, q[1] \in T => b \in bs2, q[1] \in F /\ q[1] \notin T => b \notin bs2,
         q[1] \notin T \cup F => (b \in bs2 <=> b \in bs),
         TellsBit(p, q, bs, T, F, b, x, S)
  PROVE  TellsBit(p, Tail(q), bs2, T, F, b, x, S)
<1> DEFINE q2 == Tail(q)
<1>1. /\ Len(q) \in Nat /\ Len(q) > 0 /\ Len(q2) = Len(q) - 1
      /\ \A k \in 1 .. Len(q2) : q2[k] = q[k + 1]
  OBVIOUS
<1> HIDE DEF q2
<1>2. ASSUME Agrees(q, bs, T, F, b, x, S) PROVE Agrees(q2, bs2, T, F, b, x, S)
  <2>1. ASSUME NEW k \in 1 .. Len(q2), q2[k] \in T \cup F,
               \A j \in k + 1 .. Len(q2) : q2[j] \notin T \cup F
        PROVE  q2[k] \in T <=> x \in S
    <3>1. k + 1 \in 1 .. Len(q) /\ q2[k] = q[k + 1]
      BY <1>1
    <3>2. ASSUME NEW j \in (k + 1) + 1 .. Len(q) PROVE q[j] \notin T \cup F
      <4>1. j - 1 \in k + 1 .. Len(q2) /\ (j - 1) \in 1 .. Len(q2) /\ (j - 1) + 1 = j
        BY <1>1
      <4> QED
        BY <1>1, <2>1, <4>1
    <3> QED
      BY <1>2, <2>1, <3>1, <3>2 DEF Agrees
  <2>2. ASSUME \A k \in 1 .. Len(q2) : q2[k] \notin T \cup F PROVE b \in bs2 <=> x \in S
    <3>1. ASSUME NEW j \in 2 .. Len(q) PROVE q[j] \notin T \cup F
      <4>1. (j - 1) \in 1 .. Len(q2) /\ (j - 1) + 1 = j
        BY <1>1
      <4> QED
        BY <1>1, <2>2, <4>1
    <3>2. CASE q[1] \in T \cup F
      <4>1. 1 \in 1 .. Len(q) /\ \A j \in 1 + 1 .. Len(q) : q[j] \notin T \cup F
        BY <1>1, <3>1
      <4>2. q[1] \in T <=> x \in S
        BY <1>2, <3>2, <4>1 DEF Agrees
      <4> QED
        BY <3>2, <4>2
    <3>3. CASE q[1] \notin T \cup F
      <4>1. \A k \in 1 .. Len(q) : q[k] \notin T \cup F
        BY <1>1, <3>1, <3>3
      <4> QED
        BY <1>2, <3>3, <4>1 DEF Agrees
    <3> QED
      BY <3>2, <3>3
  <2> QED
    BY <2>1, <2>2 DEF Agrees
<1> QED
  BY <1>2 DEF TellsBit, q2

(* With both queues empty the bit itself says it.                          *)
LEMMA BitTold ==
  ASSUME NEW bs, NEW T, NEW F, NEW b, NEW x, NEW S, TellsBit(<<>>, <<>>, bs, T, F, b, x, S)
  PROVE  b \in bs <=> x \in S
<1>1. 1 .. Len(<<>>) = {}
  OBVIOUS
<1> QED
  BY <1>1 DEF TellsBit, Agrees

(* Nothing waits, and the bit is as the world.                             *)
LEMMA NothingPosted ==
  ASSUME NEW T, NEW F, NEW b, NEW bs, NEW x, NEW S, b \in bs <=> x \in S
  PROVE  TellsBit(<<>>, <<>>, bs, T, F, b, x, S)
<1>1. 1 .. Len(<<>>) = {}
  OBVIOUS
<1> QED
  BY <1>1 DEF TellsBit, Agrees

EthInterface == {"started", "connected", "ip", "ip6"}
EthLinked == {"ETH_CONNECTED", "ETH_GOT_IP", "ETH_GOT_IP6"}
EthGone == {"ETH_STOP", "ETH_DISCONNECTED"}
Left == IF stations = 0 THEN {"AP_STOP", "AP_STADISCONNECTED"} ELSE {"AP_STOP"}

StartTypes ==
  /\ made \subseteq {"group", "queue", "loop", "task"} /\ registered \in [BaseNames -> Nat]
  /\ initialized \in BOOLEAN /\ eventLost \in BOOLEAN
  /\ initialized /\ ~eventLost => \A kind \in BaseNames : registered[kind] # 0

WorldTypes ==
  /\ ap \in BOOLEAN /\ apIp6 \in BOOLEAN /\ stations \in 0 .. MaxClients
  /\ ~ap => stations = 0 /\ ~apIp6
  /\ eth \subseteq EthInterface /\ (eth # {} => "started" \in eth)
  /\ "connected" \notin eth => "ip" \notin eth /\ "ip6" \notin eth
  /\ scSession \in -1 .. 1 /\ smart \in BOOLEAN /\ smartDone \in BOOLEAN /\ overtaken \in BOOLEAN

(* Only the first report in the system's loop may be copied already.       *)
QueueTypes ==
  /\ posted \in Seq(Reports) /\ queue \in Seq(ReportNames) /\ Len(queue) <= QueueLen
  /\ ~eventLost => \A k \in 2 .. Len(posted) : posted[k].copies # 0

ApBits ==
  /\ TellsBit(posted, queue, bits, {"AP_START"}, {"AP_STOP"}, "AP_STARTED", ap, {TRUE})
  /\ TellsBit(posted, queue, bits, {"AP_STACONNECTED"}, Left, "AP_HAS_CLIENT", stations, Nat \ {0})
  /\ apIp6 => TellsBit(posted, queue, bits, {"AP_GOT_IP6"}, {}, "AP_HAS_IP6", TRUE, {TRUE})

EthBits ==
  /\ TellsBit(posted, queue, bits, {"ETH_START"}, {"ETH_STOP"}, "ETH_STARTED", "started", eth)
  /\ TellsBit(posted, queue, bits, EthLinked, EthGone, "ETH_CONNECTED", "connected", eth)
  /\ TellsBit(posted, queue, bits, {"ETH_GOT_IP"}, EthGone, "ETH_HAS_IP", "ip", eth)
  /\ TellsBit(posted, queue, bits, {"ETH_GOT_IP6"}, EthGone, "ETH_HAS_IP6", "ip6", eth)

BitsInv == ~eventLost => ApBits /\ EthBits

(* While a session waits for its acknowledgement none is on its way.       *)
AckInv ==
  smart /\ ~overtaken /\ scSession = 1 =>
    /\ ~smartDone /\ \A k \in 1 .. Len(posted) : posted[k].event # "SC_SEND_ACK_DONE"
    /\ \A k \in 1 .. Len(queue) : queue[k] # "SC_SEND_ACK_DONE"

ReportTypes == StartTypes /\ WorldTypes /\ QueueTypes

LEMMA BasesAre == Status!ToSet(Status!Bases) = BaseNames /\ Status!ToSet(Status!Parts) = {"group", "queue", "loop", "task"}
<1>1. ASSUME NEW x PROVE x \in Status!ToSet(Status!Bases) <=> x \in BaseNames
  BY DEF Status!ToSet, Status!Bases, BaseNames
<1>2. ASSUME NEW x PROVE x \in Status!ToSet(Status!Parts) <=> x \in {"group", "queue", "loop", "task"}
  BY DEF Status!ToSet, Status!Parts
<1> QED
  BY <1>1, <1>2

(* What Post appends: one report of one event, or nothing.                 *)
LEMMA PostedOne ==
  ASSUME NEW p \in Seq(Reports), NEW e \in ReportNames, NEW c \in Nat
  PROVE  p \o [k \in DOMAIN <<e>> |-> [event |-> <<e>>[k], copies |-> c]]
           = Append(p, [event |-> e, copies |-> c])
<1> DEFINE r == [event |-> e, copies |-> c]
           s == [k \in DOMAIN <<e>> |-> [event |-> <<e>>[k], copies |-> c]]
<1>1. r \in Reports
  BY DEF Reports
<1>2. DOMAIN <<e>> = 1 .. 1 /\ <<e>>[1] = e
  OBVIOUS
<1>3. s = <<r>>
  <2>1. s = [k \in 1 .. 1 |-> r]
    BY <1>2
  <2>2. <<r>> = [k \in 1 .. 1 |-> r]
    OBVIOUS
  <2> QED
    BY <2>1, <2>2
<1> HIDE DEF r, s
<1>4. p \o <<r>> = Append(p, r)
  BY <1>1, AppendIsConcat
<1> QED
  BY <1>3, <1>4 DEF r, s

LEMMA PostedNone ==
  ASSUME NEW p \in Seq(Reports), NEW c
  PROVE  p \o [k \in DOMAIN <<>> |-> [event |-> <<>>[k], copies |-> c]] = p
<1>1. [k \in DOMAIN <<>> |-> [event |-> <<>>[k], copies |-> c]] = <<>>
  OBVIOUS
<1> QED
  BY <1>1, ConcatEmptySeq

(* A copy leaves everything but the count of the first report.             *)
LEMMA CopiedFirst ==
  ASSUME NEW p \in Seq(Reports), p # <<>>, Head(p).copies > 0
  PROVE  LET p2 == <<[Head(p) EXCEPT !.copies = @ - 1]>> \o Tail(p) IN
         /\ p2 \in Seq(Reports) /\ Len(p2) = Len(p)
         /\ \A k \in 1 .. Len(p) : p2[k].event = p[k].event
         /\ \A k \in 2 .. Len(p) : p2[k].copies = p[k].copies
<1> DEFINE r == [Head(p) EXCEPT !.copies = @ - 1]
           p2 == <<r>> \o Tail(p)
<1>1. /\ Head(p) = p[1] /\ p[1] \in Reports /\ Len(p) \in Nat /\ Len(p) > 0
      /\ Tail(p) \in Seq(Reports) /\ Len(Tail(p)) = Len(p) - 1
      /\ \A k \in 1 .. Len(Tail(p)) : Tail(p)[k] = p[k + 1]
  OBVIOUS
<1>2. r \in Reports /\ r.event = p[1].event
  BY <1>1 DEF Reports
<1> HIDE DEF r
<1>3. <<r>> \in Seq(Reports) /\ Len(<<r>>) = 1 /\ <<r>>[1] = r
  BY <1>2
<1>4. /\ p2 \in Seq(Reports) /\ Len(p2) = 1 + Len(Tail(p))
      /\ \A k \in 1 .. 1 + Len(Tail(p)) : p2[k] = IF k <= 1 THEN <<r>>[k] ELSE Tail(p)[k - 1]
  BY <1>1, <1>3, ConcatProperties
<1> HIDE DEF p2
<1>5. \A k \in 2 .. Len(p) : p2[k] = p[k]
  <2>1. ASSUME NEW k \in 2 .. Len(p) PROVE p2[k] = p[k]
    <3>1. k - 1 \in 1 .. Len(Tail(p)) /\ (k - 1) + 1 = k /\ k \in 1 .. 1 + Len(Tail(p)) /\ ~(k <= 1)
      BY <1>1
    <3>2. p2[k] = Tail(p)[k - 1]
      BY <1>4, <3>1
    <3> QED
      BY <1>1, <3>1, <3>2
  <2> QED
    BY <2>1
<1>6. p2[1] = r
  BY <1>1, <1>3, <1>4
<1>7. Len(p2) = Len(p) /\ \A k \in 1 .. Len(p) : k = 1 \/ k \in 2 .. Len(p)
  BY <1>1, <1>4
<1>8. \A k \in 1 .. Len(p) : p2[k].event = p[k].event
  BY <1>2, <1>5, <1>6, <1>7
<1> QED
  BY <1>4, <1>5, <1>7, <1>8 DEF p2, r

LEMMA PostIs ==
  ASSUME ReportTypes, NEW kind \in BaseNames, NEW e \in ReportNames, Status!Post(kind, <<e>>)
  PROVE  /\ posted' = Append(posted, [event |-> e, copies |-> registered[kind]])
         /\ registered[kind] \in Nat /\ (~eventLost => registered[kind] # 0)
         /\ UNCHANGED <<made, registered, initialized, queue, bits, eventLost>>
<1>1. posted \in Seq(Reports) /\ registered[kind] \in Nat
  BY DEF ReportTypes, QueueTypes, StartTypes
<1>2. /\ posted' = posted \o [k \in DOMAIN <<e>> |-> [event |-> <<e>>[k], copies |-> registered[kind]]]
      /\ initialized /\ UNCHANGED <<made, registered, initialized, queue, bits, eventLost>>
  BY DEF Status!Post, Status!start
<1>3. ~eventLost => registered[kind] # 0
  BY <1>2 DEF ReportTypes, StartTypes
<1> QED
  BY <1>1, <1>2, <1>3, PostedOne

(* A report that says what has become of the interfaces, which are as they *)
(* were where it says nothing, is posted.                                  *)
Reported(e) ==
  /\ \E kind \in BaseNames : Status!Post(kind, <<e>>)
  /\ IF e \in {"AP_START", "AP_STOP"} THEN ap' = (e = "AP_START") ELSE ap' = ap
  /\ stations' \in Nat
  /\ IF e \in {"AP_STACONNECTED"} \cup Left' THEN stations' \in Nat \ {0} <=> e = "AP_STACONNECTED"
     ELSE stations' \in Nat \ {0} <=> stations \in Nat \ {0}
  /\ apIp6' => apIp6 \/ e = "AP_GOT_IP6"
  /\ IF e \in {"ETH_START", "ETH_STOP"} THEN "started" \in eth' <=> e = "ETH_START"
     ELSE "started" \in eth' <=> "started" \in eth
  /\ IF e \in EthLinked \cup EthGone THEN "connected" \in eth' <=> e \in EthLinked
     ELSE "connected" \in eth' <=> "connected" \in eth
  /\ IF e \in {"ETH_GOT_IP"} \cup EthGone THEN "ip" \in eth' <=> e = "ETH_GOT_IP"
     ELSE "ip" \in eth' <=> "ip" \in eth
  /\ IF e \in {"ETH_GOT_IP6"} \cup EthGone THEN "ip6" \in eth' <=> e = "ETH_GOT_IP6"
     ELSE "ip6" \in eth' <=> "ip6" \in eth

LEMMA ReportedQueues ==
  ASSUME ReportTypes, NEW e \in ReportNames, Reported(e)
  PROVE  StartTypes' /\ QueueTypes'
<1>1. PICK kind \in BaseNames : Status!Post(kind, <<e>>)
  BY DEF Reported
<1>2. /\ posted' = Append(posted, [event |-> e, copies |-> registered[kind]])
      /\ registered[kind] \in Nat /\ (~eventLost => registered[kind] # 0)
      /\ UNCHANGED <<made, registered, initialized, queue, bits, eventLost>>
  BY <1>1, PostIs
<1>3. StartTypes'
  BY <1>2 DEF ReportTypes, StartTypes
<1>4. [event |-> e, copies |-> registered[kind]] \in Reports
  BY <1>2 DEF Reports
<1>5. /\ posted' \in Seq(Reports) /\ Len(posted') = Len(posted) + 1 /\ Len(posted) \in Nat
      /\ \A k \in 1 .. Len(posted) : posted'[k] = posted[k]
      /\ posted'[Len(posted) + 1].copies = registered[kind]
  BY <1>2, <1>4 DEF ReportTypes, QueueTypes
<1>6. ~eventLost' => \A k \in 2 .. Len(posted') : posted'[k].copies # 0
  <2>1. ASSUME ~eventLost', NEW k \in 2 .. Len(posted') PROVE posted'[k].copies # 0
    <3>1. CASE k = Len(posted) + 1
      BY <1>2, <1>5, <2>1, <3>1
    <3>2. CASE k # Len(posted) + 1
      <4>1. k \in 2 .. Len(posted) /\ k \in 1 .. Len(posted)
        BY <1>5, <3>2
      <4> QED
        BY <1>2, <1>5, <2>1, <4>1 DEF ReportTypes, QueueTypes
    <3> QED
      BY <3>1, <3>2
  <2> QED
    BY <2>1
<1> QED
  BY <1>2, <1>3, <1>5, <1>6 DEF ReportTypes, QueueTypes

LEMMA ReportedBits ==
  ASSUME ReportTypes, BitsInv, NEW e \in ReportNames, Reported(e)
  PROVE  BitsInv'
<1>1. PICK kind \in BaseNames : Status!Post(kind, <<e>>)
  BY DEF Reported
<1> DEFINE c == registered[kind]
<1>2. /\ posted' = Append(posted, [event |-> e, copies |-> c])
      /\ c \in Nat /\ (~eventLost => c # 0) /\ UNCHANGED <<queue, bits, eventLost>>
      /\ posted \in Seq(Reports)
  BY <1>1, PostIs DEF ReportTypes, QueueTypes
<1> HIDE DEF c
<1> SUFFICES ASSUME ~eventLost' PROVE ApBits' /\ EthBits'
  BY DEF BitsInv
<1>3. c \in Nat \ {0} /\ ApBits /\ EthBits
  BY <1>2 DEF BitsInv
<1>4. TellsBit(posted', queue', bits', {"AP_START"}, {"AP_STOP"}, "AP_STARTED", ap', {TRUE})
  <2>1. e \in {"AP_START"} \cup {"AP_STOP"} => (e \in {"AP_START"} <=> ap' \in {TRUE})
    BY DEF Reported
  <2>2. e \notin {"AP_START"} \cup {"AP_STOP"} => (ap' \in {TRUE} <=> ap \in {TRUE})
    BY DEF Reported
  <2> QED
    BY <1>2, <1>3, <2>1, <2>2, ReportPosted DEF ApBits
<1>5. TellsBit(posted', queue', bits', {"AP_STACONNECTED"}, Left', "AP_HAS_CLIENT", stations', Nat \ {0})
  <2>1. e \in {"AP_STACONNECTED"} \cup Left'
          => (e \in {"AP_STACONNECTED"} <=> stations' \in Nat \ {0})
    BY DEF Reported
  <2>2. e \notin {"AP_STACONNECTED"} \cup Left'
          => (stations' \in Nat \ {0} <=> stations \in Nat \ {0}) /\ Left' = Left
    <3>1. stations \in Nat /\ stations' \in Nat
      BY LibraryAssumption DEF Reported, ReportTypes, WorldTypes, Status!ClientsOK
    <3> QED
      BY <3>1 DEF Reported, Left
  <2>3. TellsBit(posted, queue, bits, {"AP_STACONNECTED"}, Left, "AP_HAS_CLIENT", stations, Nat \ {0})
    BY <1>3 DEF ApBits
  <2>4. e \notin {"AP_STACONNECTED"} \cup Left'
          => TellsBit(posted, queue, bits, {"AP_STACONNECTED"}, Left', "AP_HAS_CLIENT", stations,
                      Nat \ {0})
    BY <2>2, <2>3
  <2>5. TellsBit(Append(posted, [event |-> e, copies |-> c]), queue, bits, {"AP_STACONNECTED"}, Left',
                 "AP_HAS_CLIENT", stations', Nat \ {0})
    BY <1>2, <1>3, <2>1, <2>2, <2>4, ReportPosted
  <2> QED
    BY <1>2, <2>5
<1>6. apIp6' => TellsBit(posted', queue', bits', {"AP_GOT_IP6"}, {}, "AP_HAS_IP6", TRUE, {TRUE})
  <2>1. SUFFICES ASSUME apIp6'
                 PROVE  TellsBit(posted', queue', bits', {"AP_GOT_IP6"}, {}, "AP_HAS_IP6", TRUE, {TRUE})
    OBVIOUS
  <2>2. e \in {"AP_GOT_IP6"} \cup {} => (e \in {"AP_GOT_IP6"} <=> TRUE \in {TRUE})
    OBVIOUS
  <2>3. e \notin {"AP_GOT_IP6"} \cup {} => (TRUE \in {TRUE} <=> TRUE \in {TRUE})
          /\ TellsBit(posted, queue, bits, {"AP_GOT_IP6"}, {}, "AP_HAS_IP6", TRUE, {TRUE})
    BY <1>3, <2>1 DEF Reported, ApBits
  <2> QED
    BY <1>2, <1>3, <2>2, <2>3, ReportPosted
<1>7. TellsBit(posted', queue', bits', {"ETH_START"}, {"ETH_STOP"}, "ETH_STARTED", "started", eth')
  <2>1. e \in {"ETH_START"} \cup {"ETH_STOP"} => (e \in {"ETH_START"} <=> "started" \in eth')
    BY DEF Reported
  <2>2. e \notin {"ETH_START"} \cup {"ETH_STOP"} => ("started" \in eth' <=> "started" \in eth)
    BY DEF Reported
  <2> QED
    BY <1>2, <1>3, <2>1, <2>2, ReportPosted DEF EthBits
<1>8. TellsBit(posted', queue', bits', EthLinked, EthGone, "ETH_CONNECTED", "connected", eth')
  <2>1. e \in EthLinked \cup EthGone => (e \in EthLinked <=> "connected" \in eth')
    BY DEF Reported
  <2>2. e \notin EthLinked \cup EthGone => ("connected" \in eth' <=> "connected" \in eth)
    BY DEF Reported
  <2> QED
    BY <1>2, <1>3, <2>1, <2>2, ReportPosted DEF EthBits
<1>9. TellsBit(posted', queue', bits', {"ETH_GOT_IP"}, EthGone, "ETH_HAS_IP", "ip", eth')
  <2>1. e \in {"ETH_GOT_IP"} \cup EthGone => (e \in {"ETH_GOT_IP"} <=> "ip" \in eth')
    BY DEF Reported
  <2>2. e \notin {"ETH_GOT_IP"} \cup EthGone => ("ip" \in eth' <=> "ip" \in eth)
    BY DEF Reported
  <2> QED
    BY <1>2, <1>3, <2>1, <2>2, ReportPosted DEF EthBits
<1>10. TellsBit(posted', queue', bits', {"ETH_GOT_IP6"}, EthGone, "ETH_HAS_IP6", "ip6", eth')
  <2>1. e \in {"ETH_GOT_IP6"} \cup EthGone => (e \in {"ETH_GOT_IP6"} <=> "ip6" \in eth')
    BY DEF Reported
  <2>2. e \notin {"ETH_GOT_IP6"} \cup EthGone => ("ip6" \in eth' <=> "ip6" \in eth)
    BY DEF Reported
  <2> QED
    BY <1>2, <1>3, <2>1, <2>2, ReportPosted DEF EthBits
<1> QED
  BY <1>4, <1>5, <1>6, <1>7, <1>8, <1>9, <1>10 DEF ApBits, EthBits

(* Each change of an interface is reported, and the report says it.        *)
LEMMA ApReports ==
  ASSUME ReportTypes, Status!SoftAP \/ Status!Station \/ Status!ApIp6, eth' = eth
  PROVE  /\ \E e \in ReportNames \ {"SC_SEND_ACK_DONE"} : Reported(e)
         /\ ap' \in BOOLEAN /\ apIp6' \in BOOLEAN /\ stations' \in 0 .. MaxClients
         /\ ~ap' => stations' = 0 /\ ~apIp6'
<1> USE DEF ReportTypes, WorldTypes, Left, EthLinked, EthGone, BaseNames, ReportNames
<1>0. MaxClients \in Nat /\ stations \in Nat
  BY LibraryAssumption DEF Status!ClientsOK
<1>1. CASE Status!SoftAP
  <2>1. CASE ~ap /\ ap' = TRUE /\ Status!Post("WIFI", <<"AP_START">>)
               /\ UNCHANGED <<stations, apIp6>>
    <3>1. Reported("AP_START")
      BY <1>0, <2>1 DEF Reported
    <3> QED
      BY <2>1, <3>1
  <2>2. CASE ap /\ ap' = FALSE /\ stations' = 0 /\ apIp6' = FALSE
               /\ Status!Post("WIFI", <<"AP_STOP">>)
    <3>1. Reported("AP_STOP")
      BY <2>2 DEF Reported
    <3>2. 0 \in 0 .. MaxClients
      BY <1>0
    <3> QED
      BY <2>2, <3>1, <3>2, Zenon
  <2> QED
    BY <1>1, <2>1, <2>2 DEF Status!SoftAP
<1>2. CASE Status!Station
  <2>0. ap /\ UNCHANGED <<ap, apIp6>>
    BY <1>2 DEF Status!Station
  <2>1. CASE stations < MaxClients /\ stations' = stations + 1
               /\ Status!Post("WIFI", <<"AP_STACONNECTED">>)
    <3>1. Reported("AP_STACONNECTED")
      BY <1>0, <2>0, <2>1 DEF Reported
    <3>2. stations' \in 0 .. MaxClients
      BY <1>0, <2>1
    <3> QED
      BY <2>0, <2>1, <3>1, <3>2, Zenon
  <2>2. CASE stations > 0 /\ stations' = stations - 1
               /\ Status!Post("WIFI", <<"AP_STADISCONNECTED">>)
    <3>1. Reported("AP_STADISCONNECTED")
      BY <1>0, <2>0, <2>2 DEF Reported
    <3>2. stations' \in 0 .. MaxClients
      BY <1>0, <2>2
    <3> QED
      BY <2>0, <2>2, <3>1, <3>2, Zenon
  <2> QED
    BY <1>2, <2>1, <2>2 DEF Status!Station
<1>3. CASE Status!ApIp6
  <2>1. /\ ap /\ apIp6' = TRUE /\ UNCHANGED <<ap, stations>>
        /\ Status!Post("IP", <<"AP_GOT_IP6">>)
    BY <1>3 DEF Status!ApIp6
  <2>2. Reported("AP_GOT_IP6")
    BY <2>1 DEF Reported
  <2> QED
    BY <2>1, <2>2
<1> QED
  BY <1>1, <1>2, <1>3

EthTypes(e) ==
  /\ e \subseteq EthInterface /\ (e # {} => "started" \in e)
  /\ "connected" \notin e => "ip" \notin e /\ "ip6" \notin e

LEMMA EthReports ==
  ASSUME ReportTypes, Status!Ethernet, UNCHANGED <<ap, stations, apIp6>>
  PROVE  /\ \E e \in ReportNames \ {"SC_SEND_ACK_DONE"} : Reported(e)
         /\ EthTypes(eth')
<1> USE DEF EthLinked, EthGone, BaseNames, ReportNames, EthTypes, EthInterface
<1>0. Left' = Left /\ EthTypes(eth) /\ stations \in Nat
  BY LibraryAssumption DEF Left, ReportTypes, WorldTypes, Status!ClientsOK
<1>1. CASE eth = {} /\ eth' = {"started"} /\ Status!Post("ETH", <<"ETH_START">>)
  <2>1. Reported("ETH_START")
    BY <1>0, <1>1 DEF Reported, Left
  <2> QED
    BY <1>1, <2>1
<1>2. CASE eth # {} /\ eth' = {} /\ Status!Post("ETH", <<"ETH_STOP">>)
  <2>1. Reported("ETH_STOP")
    BY <1>0, <1>2 DEF Reported, Left
  <2> QED
    BY <1>2, <2>1
<1>3. CASE eth = {"started"} /\ eth' = {"started", "connected"}
             /\ Status!Post("ETH", <<"ETH_CONNECTED">>)
  <2>1. Reported("ETH_CONNECTED")
    BY <1>0, <1>3 DEF Reported, Left
  <2> QED
    BY <1>3, <2>1
<1>4. CASE "connected" \in eth /\ eth' = {"started"} /\ Status!Post("ETH", <<"ETH_DISCONNECTED">>)
  <2>1. Reported("ETH_DISCONNECTED")
    BY <1>0, <1>4 DEF Reported, Left
  <2> QED
    BY <1>4, <2>1
<1>5. CASE "connected" \in eth /\ eth' = eth \cup {"ip"} /\ Status!Post("IP", <<"ETH_GOT_IP">>)
  <2>1. Reported("ETH_GOT_IP")
    BY <1>0, <1>5 DEF Reported, Left
  <2> QED
    BY <1>0, <1>5, <2>1
<1>6. CASE "connected" \in eth /\ eth' = eth \cup {"ip6"} /\ Status!Post("IP", <<"ETH_GOT_IP6">>)
  <2>1. Reported("ETH_GOT_IP6")
    BY <1>0, <1>6 DEF Reported, Left
  <2> QED
    BY <1>0, <1>6, <2>1
<1> QED
  BY <1>1, <1>2, <1>3, <1>4, <1>5, <1>6 DEF Status!Ethernet

(* What happens between the two queues alone keeps what tells every bit.   *)
LEMMA BitsFollow ==
  ASSUME ApBits, EthBits, NEW p, NEW q,
         \A T, F, b, x, S : TellsBit(posted, queue, bits, T, F, b, x, S) => TellsBit(p, q, bits, T, F, b, x, S),
         posted' = p, queue' = q, UNCHANGED <<bits, ap, stations, apIp6, eth>>
  PROVE  ApBits' /\ EthBits'
<1>1. Left' = Left
  BY DEF Left
<1>2. TellsBit(p, q, bits, {"AP_START"}, {"AP_STOP"}, "AP_STARTED", ap, {TRUE})
  <2>1. TellsBit(posted, queue, bits, {"AP_START"}, {"AP_STOP"}, "AP_STARTED", ap, {TRUE})
    BY DEF ApBits
  <2> QED
    BY <2>1
<1>3. TellsBit(p, q, bits, {"AP_STACONNECTED"}, Left, "AP_HAS_CLIENT", stations, Nat \ {0})
  <2>1. TellsBit(posted, queue, bits, {"AP_STACONNECTED"}, Left, "AP_HAS_CLIENT", stations, Nat \ {0})
    BY DEF ApBits
  <2> QED
    BY <2>1
<1>4. ASSUME apIp6 PROVE TellsBit(p, q, bits, {"AP_GOT_IP6"}, {}, "AP_HAS_IP6", TRUE, {TRUE})
  <2>1. TellsBit(posted, queue, bits, {"AP_GOT_IP6"}, {}, "AP_HAS_IP6", TRUE, {TRUE})
    BY <1>4 DEF ApBits
  <2> QED
    BY <2>1
<1>5. TellsBit(p, q, bits, {"ETH_START"}, {"ETH_STOP"}, "ETH_STARTED", "started", eth)
  <2>1. TellsBit(posted, queue, bits, {"ETH_START"}, {"ETH_STOP"}, "ETH_STARTED", "started", eth)
    BY DEF EthBits
  <2> QED
    BY <2>1
<1>6. TellsBit(p, q, bits, EthLinked, EthGone, "ETH_CONNECTED", "connected", eth)
  <2>1. TellsBit(posted, queue, bits, EthLinked, EthGone, "ETH_CONNECTED", "connected", eth)
    BY DEF EthBits
  <2> QED
    BY <2>1
<1>7. TellsBit(p, q, bits, {"ETH_GOT_IP"}, EthGone, "ETH_HAS_IP", "ip", eth)
  <2>1. TellsBit(posted, queue, bits, {"ETH_GOT_IP"}, EthGone, "ETH_HAS_IP", "ip", eth)
    BY DEF EthBits
  <2> QED
    BY <2>1
<1>8. TellsBit(p, q, bits, {"ETH_GOT_IP6"}, EthGone, "ETH_HAS_IP6", "ip6", eth)
  <2>1. TellsBit(posted, queue, bits, {"ETH_GOT_IP6"}, EthGone, "ETH_HAS_IP6", "ip6", eth)
    BY DEF EthBits
  <2> QED
    BY <2>1
<1>9. ApBits'
  BY <1>1, <1>2, <1>3, <1>4, Zenon DEF ApBits
<1>10. EthBits'
  BY <1>5, <1>6, <1>7, <1>8, Zenon DEF EthBits
<1> QED
  BY <1>9, <1>10

(* The first report in the loop is dropped, or a copy of it goes on.       *)
LEMMA ForwardStep ==
  ASSUME ReportTypes, BitsInv, AckInv, Status!Forward
  PROVE  QueueTypes' /\ BitsInv' /\ AckInv'
<1> DEFINE head == Head(posted)
<1>1. /\ posted # <<>> /\ posted \in Seq(Reports) /\ queue \in Seq(ReportNames)
      /\ Len(queue) <= QueueLen /\ Len(queue) \in Nat
      /\ UNCHANGED <<ap, stations, apIp6, eth, scSession, smart, smartDone, overtaken, bits>>
  BY DEF Status!Forward, ReportTypes, QueueTypes, Status!world, Status!smartConfig
<1>2. head = posted[1] /\ head \in Reports /\ Len(posted) \in Nat /\ Len(posted) > 0
  BY <1>1
<1>3. head.copies \in Nat /\ head.event \in ReportNames
  BY <1>2 DEF Reports
<1>4. ~eventLost => \A k \in 2 .. Len(posted) : posted[k].copies # 0
  BY DEF ReportTypes, QueueTypes
<1>5. CASE head.copies = 0 /\ posted' = Tail(posted) /\ UNCHANGED <<queue, eventLost>>
  <2>1. /\ Tail(posted) \in Seq(Reports) /\ Len(Tail(posted)) = Len(posted) - 1
        /\ \A k \in 1 .. Len(Tail(posted)) : Tail(posted)[k] = posted[k + 1]
    BY <1>1
  <2>2. ASSUME ~eventLost', NEW k \in 2 .. Len(posted') PROVE posted'[k].copies # 0
    <3>1. k + 1 \in 2 .. Len(posted) /\ k \in 1 .. Len(Tail(posted))
      BY <1>2, <1>5, <2>1
    <3> QED
      BY <1>4, <1>5, <2>1, <2>2, <3>1
  <2>3. QueueTypes'
    BY <1>1, <1>5, <2>1, <2>2 DEF QueueTypes
  <2>4. BitsInv'
    <3> SUFFICES ASSUME ~eventLost' PROVE ApBits' /\ EthBits'
      BY DEF BitsInv
    <3>1. ApBits /\ EthBits /\ posted[1].copies = 0
          /\ \A k \in 2 .. Len(posted) : posted[k].copies # 0
      BY <1>2, <1>4, <1>5 DEF BitsInv
    <3>2. \A T, F, b, x, S : TellsBit(posted, queue, bits, T, F, b, x, S)
            => TellsBit(Tail(posted), queue, bits, T, F, b, x, S)
      BY <1>1, <3>1, ReportDropped
    <3>3. posted' = Tail(posted) /\ queue' = queue
      BY <1>5
    <3> QED
      BY <1>1, <3>1, <3>2, <3>3, BitsFollow
  <2>5. AckInv'
    <3>1. ASSUME NEW k \in 1 .. Len(posted') PROVE posted'[k] = posted[k + 1] /\ k + 1 \in 1 .. Len(posted)
      BY <1>2, <1>5, <2>1
    <3> QED
      BY <1>1, <1>5, <3>1 DEF AckInv
  <2> QED
    BY <2>3, <2>4, <2>5
<1>6. CASE /\ head.copies > 0
           /\ posted' = <<[head EXCEPT !.copies = @ - 1]>> \o Tail(posted)
           /\ \/ Len(queue) < QueueLen /\ queue' = Append(queue, head.event) /\ eventLost' = eventLost
              \/ eventLost' = TRUE /\ queue' = queue
  <2>1. /\ posted' \in Seq(Reports) /\ Len(posted') = Len(posted)
        /\ \A k \in 1 .. Len(posted) : posted'[k].event = posted[k].event
        /\ \A k \in 2 .. Len(posted) : posted'[k].copies = posted[k].copies
    BY <1>1, <1>6, CopiedFirst
  <2>2. queue' \in Seq(ReportNames) /\ Len(queue') <= QueueLen
    <3>1. QueueLen \in Nat
      BY LibraryAssumption DEF Status!ClientsOK
    <3>2. \/ Len(queue) < QueueLen /\ queue' = Append(queue, head.event)
          \/ queue' = queue
      BY <1>6
    <3> HIDE DEF head
    <3>3. CASE Len(queue) < QueueLen /\ queue' = Append(queue, head.event)
      <4>1. queue' \in Seq(ReportNames) /\ Len(queue') = Len(queue) + 1
        BY <1>1, <1>3, <3>3
      <4> QED
        BY <1>1, <3>1, <3>3, <4>1
    <3> QED
      BY <1>1, <3>2, <3>3
  <2>3. QueueTypes'
    <3>1. ~eventLost' => ~eventLost
      BY <1>6 DEF ReportTypes, StartTypes
    <3> HIDE DEF head
    <3> QED
      BY <1>4, <2>1, <2>2, <3>1 DEF QueueTypes
  <2>4. BitsInv'
    <3> SUFFICES ASSUME ~eventLost' PROVE ApBits' /\ EthBits'
      BY DEF BitsInv
    <3>1. ApBits /\ EthBits /\ posted[1].copies # 0 /\ queue' = Append(queue, posted[1].event)
      BY <1>2, <1>3, <1>6 DEF BitsInv
    <3>2. \A T, F, b, x, S : TellsBit(posted, queue, bits, T, F, b, x, S)
            => TellsBit(posted', Append(queue, posted[1].event), bits, T, F, b, x, S)
      BY <1>1, <2>1, <3>1, ReportCopied
    <3>3. queue' = Append(queue, posted[1].event)
      BY <3>1
    <3> QED
      BY <1>1, <3>1, <3>2, <3>3, BitsFollow
  <2>5. AckInv'
    <3> SUFFICES ASSUME smart', ~overtaken', scSession' = 1
                 PROVE  /\ ~smartDone'
                        /\ \A k \in 1 .. Len(posted') : posted'[k].event # "SC_SEND_ACK_DONE"
                        /\ \A k \in 1 .. Len(queue') : queue'[k] # "SC_SEND_ACK_DONE"
      BY DEF AckInv
    <3>1. /\ ~smartDone /\ \A k \in 1 .. Len(posted) : posted[k].event # "SC_SEND_ACK_DONE"
          /\ \A k \in 1 .. Len(queue) : queue[k] # "SC_SEND_ACK_DONE"
      BY <1>1 DEF AckInv
    <3>2. head.event # "SC_SEND_ACK_DONE"
      BY <1>2, <3>1
    <3>3. ASSUME NEW k \in 1 .. Len(queue') PROVE queue'[k] # "SC_SEND_ACK_DONE"
      <4>1. CASE queue' = queue
        BY <3>1, <4>1
      <4>2. CASE queue' = Append(queue, head.event)
        <5>1. (k \in 1 .. Len(queue) /\ queue'[k] = queue[k]) \/ queue'[k] = head.event
          BY <1>1, <1>3, <4>2
        <5> QED
          BY <3>1, <3>2, <5>1
      <4> QED
        BY <1>6, <4>1, <4>2
    <3>4. \A k \in 1 .. Len(posted') : posted'[k].event # "SC_SEND_ACK_DONE"
      BY <2>1, <3>1
    <3> QED
      BY <1>1, <3>1, <3>3, <3>4
  <2> QED
    BY <2>3, <2>4, <2>5
<1> QED
  BY <1>5, <1>6 DEF Status!Forward

LEMMA CallbackStep ==
  ASSUME ReportTypes, BitsInv, AckInv, Status!EventCallback
  PROVE  QueueTypes' /\ BitsInv' /\ AckInv'
<1> DEFINE e == Head(queue)
<1>1. /\ queue # <<>> /\ queue \in Seq(ReportNames) /\ queue' = Tail(queue)
      /\ bits' = (bits \cup Status!Set(e)) \ Status!Cleared(e)
      /\ IF e = "SC_SEND_ACK_DONE" THEN smartDone' = TRUE /\ scSession' = 0
         ELSE UNCHANGED <<smartDone, scSession>>
      /\ UNCHANGED <<ap, stations, apIp6, eth, smart, overtaken, posted, eventLost>>
  BY DEF Status!EventCallback, ReportTypes, QueueTypes
<1>2. /\ e = queue[1] /\ e \in ReportNames /\ Len(queue) \in Nat /\ Len(queue) > 0
      /\ Tail(queue) \in Seq(ReportNames) /\ Len(Tail(queue)) = Len(queue) - 1
      /\ \A k \in 1 .. Len(Tail(queue)) : Tail(queue)[k] = queue[k + 1]
  BY <1>1
<1>3. QueueTypes'
  <2>1. Len(queue') <= QueueLen
    BY <1>1, <1>2, LibraryAssumption DEF ReportTypes, QueueTypes, Status!ClientsOK
  <2> QED
    BY <1>1, <1>2, <2>1 DEF ReportTypes, QueueTypes
<1>4. AckInv'
  <2>1. ASSUME NEW k \in 1 .. Len(queue') PROVE queue'[k] = queue[k + 1] /\ k + 1 \in 1 .. Len(queue)
    BY <1>1, <1>2
  <2>2. 1 \in 1 .. Len(queue)
    BY <1>2
  <2> HIDE DEF e
  <2> QED
    BY <1>1, <1>2, <2>1, <2>2 DEF AckInv
<1> HIDE DEF e
<1>5. BitsInv'
  <2> SUFFICES ASSUME ~eventLost' PROVE ApBits' /\ EthBits'
    BY DEF BitsInv
  <2>1. ApBits /\ EthBits
    BY <1>1 DEF BitsInv
  <2>2. \A T, F, b, x, S :
          /\ e \in T => b \in bits'
          /\ e \in F /\ e \notin T => b \notin bits'
          /\ e \notin T \cup F => (b \in bits' <=> b \in bits)
          /\ TellsBit(posted, queue, bits, T, F, b, x, S)
          => TellsBit(posted, Tail(queue), bits', T, F, b, x, S)
    BY <1>1, <1>2, ReportHandled
  <2> USE DEF Status!Set, Status!Cleared, EthLinked, EthGone, Left
  <2>3. /\ e = "AP_START" => "AP_STARTED" \in bits'
        /\ e = "AP_STOP" => "AP_STARTED" \notin bits'
        /\ e \notin {"AP_START", "AP_STOP"} => ("AP_STARTED" \in bits' <=> "AP_STARTED" \in bits)
    BY <1>1, <1>2 DEF ReportNames
  <2>4. /\ e = "AP_STACONNECTED" => "AP_HAS_CLIENT" \in bits'
        /\ e \in Left => "AP_HAS_CLIENT" \notin bits'
        /\ e \notin {"AP_STACONNECTED"} \cup Left
             => ("AP_HAS_CLIENT" \in bits' <=> "AP_HAS_CLIENT" \in bits)
    BY <1>1, <1>2 DEF ReportNames
  <2>5. /\ e = "AP_GOT_IP6" => "AP_HAS_IP6" \in bits'
        /\ e # "AP_GOT_IP6" => ("AP_HAS_IP6" \in bits' <=> "AP_HAS_IP6" \in bits)
    BY <1>1, <1>2 DEF ReportNames
  <2>6. /\ e = "ETH_START" => "ETH_STARTED" \in bits'
        /\ e = "ETH_STOP" => "ETH_STARTED" \notin bits'
        /\ e \notin {"ETH_START", "ETH_STOP"} => ("ETH_STARTED" \in bits' <=> "ETH_STARTED" \in bits)
    BY <1>1, <1>2 DEF ReportNames
  <2>7. /\ e \in EthLinked => "ETH_CONNECTED" \in bits'
        /\ e \in EthGone => "ETH_CONNECTED" \notin bits'
        /\ e \notin EthLinked \cup EthGone
             => ("ETH_CONNECTED" \in bits' <=> "ETH_CONNECTED" \in bits)
    BY <1>1, <1>2 DEF ReportNames
  <2>8. /\ e = "ETH_GOT_IP" => "ETH_HAS_IP" \in bits'
        /\ e \in EthGone => "ETH_HAS_IP" \notin bits'
        /\ e \notin {"ETH_GOT_IP"} \cup EthGone
             => ("ETH_HAS_IP" \in bits' <=> "ETH_HAS_IP" \in bits)
    BY <1>1, <1>2 DEF ReportNames
  <2>9. /\ e = "ETH_GOT_IP6" => "ETH_HAS_IP6" \in bits'
        /\ e \in EthGone => "ETH_HAS_IP6" \notin bits'
        /\ e \notin {"ETH_GOT_IP6"} \cup EthGone
             => ("ETH_HAS_IP6" \in bits' <=> "ETH_HAS_IP6" \in bits)
    BY <1>1, <1>2 DEF ReportNames
  <2>10. Left' = Left /\ posted' = posted /\ queue' = Tail(queue)
         /\ UNCHANGED <<ap, stations, apIp6, eth>>
    BY <1>1
  <2> HIDE DEF Status!Set, Status!Cleared, EthLinked, EthGone, Left
  <2>11. ApBits'
    <3>1. TellsBit(posted, Tail(queue), bits', {"AP_START"}, {"AP_STOP"}, "AP_STARTED", ap, {TRUE})
      <4>1. TellsBit(posted, queue, bits, {"AP_START"}, {"AP_STOP"}, "AP_STARTED", ap, {TRUE})
        BY <2>1 DEF ApBits
      <4> QED
        BY <2>2, <2>3, <4>1
    <3>2. TellsBit(posted, Tail(queue), bits', {"AP_STACONNECTED"}, Left, "AP_HAS_CLIENT", stations,
                   Nat \ {0})
      <4>1. TellsBit(posted, queue, bits, {"AP_STACONNECTED"}, Left, "AP_HAS_CLIENT", stations,
                     Nat \ {0})
        BY <2>1 DEF ApBits
      <4> QED
        BY <2>2, <2>4, <4>1
    <3>3. apIp6 => TellsBit(posted, Tail(queue), bits', {"AP_GOT_IP6"}, {}, "AP_HAS_IP6", TRUE, {TRUE})
      <4>1. SUFFICES ASSUME apIp6
              PROVE TellsBit(posted, Tail(queue), bits', {"AP_GOT_IP6"}, {}, "AP_HAS_IP6", TRUE, {TRUE})
        OBVIOUS
      <4>2. TellsBit(posted, queue, bits, {"AP_GOT_IP6"}, {}, "AP_HAS_IP6", TRUE, {TRUE})
        BY <2>1, <4>1 DEF ApBits
      <4> QED
        BY <2>2, <2>5, <4>2
    <3> QED
      BY <2>10, <3>1, <3>2, <3>3, Zenon DEF ApBits
  <2>12. EthBits'
    <3>1. TellsBit(posted, Tail(queue), bits', {"ETH_START"}, {"ETH_STOP"}, "ETH_STARTED", "started", eth)
      <4>1. TellsBit(posted, queue, bits, {"ETH_START"}, {"ETH_STOP"}, "ETH_STARTED", "started", eth)
        BY <2>1 DEF EthBits
      <4> QED
        BY <2>2, <2>6, <4>1
    <3>2. TellsBit(posted, Tail(queue), bits', EthLinked, EthGone, "ETH_CONNECTED", "connected", eth)
      <4>1. TellsBit(posted, queue, bits, EthLinked, EthGone, "ETH_CONNECTED", "connected", eth)
        BY <2>1 DEF EthBits
      <4> QED
        BY <2>2, <2>7, <4>1
    <3>3. TellsBit(posted, Tail(queue), bits', {"ETH_GOT_IP"}, EthGone, "ETH_HAS_IP", "ip", eth)
      <4>1. TellsBit(posted, queue, bits, {"ETH_GOT_IP"}, EthGone, "ETH_HAS_IP", "ip", eth)
        BY <2>1 DEF EthBits
      <4> QED
        BY <2>2, <2>8, <4>1
    <3>4. TellsBit(posted, Tail(queue), bits', {"ETH_GOT_IP6"}, EthGone, "ETH_HAS_IP6", "ip6", eth)
      <4>1. TellsBit(posted, queue, bits, {"ETH_GOT_IP6"}, EthGone, "ETH_HAS_IP6", "ip6", eth)
        BY <2>1 DEF EthBits
      <4> QED
        BY <2>2, <2>9, <4>1
    <3> QED
      BY <2>10, <3>1, <3>2, <3>3, <3>4, Zenon DEF EthBits
  <2> QED
    BY <2>11, <2>12
<1> QED
  BY <1>3, <1>4, <1>5

LEMMA StartStep ==
  ASSUME ReportTypes, BitsInv, AckInv, Status!Start
  PROVE  ReportTypes' /\ BitsInv' /\ AckInv'
<1>1. /\ UNCHANGED <<ap, stations, apIp6, eth, scSession, smart, smartDone, overtaken, posted, queue, bits>>
      /\ \E n \in 0 .. 9 : Status!StartWith(n)
  BY DEF Status!Start, Status!world, Status!smartConfig
<1>2. PICK n \in 0 .. 9 : Status!StartWith(n)
  BY <1>1
<1>3. /\ registered \in [BaseNames -> Nat] /\ DOMAIN registered = BaseNames
      /\ made \subseteq {"group", "queue", "loop", "task"} /\ eventLost \in BOOLEAN
  BY DEF ReportTypes, StartTypes
<1>4. made' \subseteq {"group", "queue", "loop", "task"}
  <2>1. made' = made \cup {Status!Parts[k] : k \in {k \in 1 .. 4 : k <= n}}
    BY <1>2 DEF Status!StartWith
  <2>2. \A k \in 1 .. 4 : Status!Parts[k] \in {"group", "queue", "loop", "task"}
    BY DEF Status!Parts
  <2> QED
    BY <1>3, <2>1, <2>2
<1>5. /\ registered' \in [BaseNames -> Nat]
      /\ n = 9 => \A b \in BaseNames : registered'[b] # 0
  <2>1. registered' = [b \in BaseNames |->
          registered[b] + IF \E k \in 1 .. 5 : Status!Bases[k] = b /\ k + 4 <= n THEN 1 ELSE 0]
    BY <1>2, <1>3 DEF Status!StartWith
  <2>2. registered' \in [BaseNames -> Nat]
    BY <1>3, <2>1
  <2>3. ASSUME n = 9, NEW b \in BaseNames PROVE registered'[b] # 0
    <3>1. \E k \in 1 .. 5 : Status!Bases[k] = b /\ k + 4 <= n
      <4>1. \E k \in 1 .. 5 : Status!Bases[k] = b
        BY DEF Status!Bases, BaseNames
      <4> QED
        BY <2>3, <4>1
    <3>2. registered'[b] = registered[b] + 1 /\ registered[b] \in Nat
      BY <1>3, <2>1, <3>1
    <3> QED
      BY <3>2
  <2> QED
    BY <2>2, <2>3
<1>6. /\ initialized' \in BOOLEAN /\ eventLost' \in BOOLEAN
      /\ initialized' /\ ~eventLost' => n = 9
      /\ ~eventLost' => ~eventLost
  <2>1. initialized' = (n = 9 \/ Status!Parts[IF n < 4 THEN n + 1 ELSE 4] = "loop")
        /\ eventLost' = (eventLost \/ initialized' # (n = 9))
    BY <1>2 DEF Status!StartWith
  <2> QED
    BY <1>3, <2>1
<1>7. StartTypes'
  BY <1>4, <1>5, <1>6 DEF StartTypes
<1>8. WorldTypes' /\ QueueTypes' /\ AckInv'
  BY <1>1, <1>6 DEF ReportTypes, WorldTypes, QueueTypes, AckInv
<1>9. BitsInv'
  BY <1>1, <1>6, BitsFollow DEF BitsInv
<1> QED
  BY <1>7, <1>8, <1>9 DEF ReportTypes

(* Reports that are no acknowledgement do not disturb a waiting session.   *)
LEMMA ReportedSession ==
  ASSUME ReportTypes, NEW e \in ReportNames \ {"SC_SEND_ACK_DONE"}, Reported(e),
         smart' /\ ~overtaken' /\ scSession' = 1 =>
           /\ ~smartDone' /\ \A k \in 1 .. Len(posted) : posted[k].event # "SC_SEND_ACK_DONE"
           /\ \A k \in 1 .. Len(queue) : queue[k] # "SC_SEND_ACK_DONE"
  PROVE  AckInv'
<1>1. PICK kind \in BaseNames : Status!Post(kind, <<e>>)
  BY DEF Reported
<1> DEFINE r == [event |-> e, copies |-> registered[kind]]
<1>2. posted' = Append(posted, r) /\ queue' = queue /\ r \in Reports /\ posted \in Seq(Reports)
  BY <1>1, PostIs DEF ReportTypes, QueueTypes, Reports
<1>3. r.event = e
  OBVIOUS
<1> HIDE DEF r
<1>4. /\ Len(posted') = Len(posted) + 1 /\ Len(posted) \in Nat /\ posted'[Len(posted) + 1] = r
      /\ \A k \in 1 .. Len(posted) : posted'[k] = posted[k]
  BY <1>2
<1>5. ASSUME \A k \in 1 .. Len(posted) : posted[k].event # "SC_SEND_ACK_DONE"
      PROVE  \A k \in 1 .. Len(posted') : posted'[k].event # "SC_SEND_ACK_DONE"
  <2>1. ASSUME NEW k \in 1 .. Len(posted') PROVE posted'[k].event # "SC_SEND_ACK_DONE"
    <3>1. k \in 1 .. Len(posted) \/ k = Len(posted) + 1
      BY <1>4
    <3> QED
      BY <1>3, <1>4, <1>5, <3>1
  <2> QED
    BY <2>1
<1> QED
  BY <1>2, <1>5 DEF AckInv

LEMMA InterfacesStep ==
  ASSUME ReportTypes, BitsInv, AckInv, Status!Interfaces
  PROVE  ReportTypes' /\ BitsInv' /\ AckInv'
<1>1. UNCHANGED <<scSession, smart, smartDone, overtaken>>
  BY DEF Status!Interfaces, Status!smartConfig
<1>2. \E e \in ReportNames \ {"SC_SEND_ACK_DONE"} : Reported(e)
  BY ApReports, EthReports DEF Status!Interfaces
<1>3. /\ ap' \in BOOLEAN /\ apIp6' \in BOOLEAN /\ stations' \in 0 .. MaxClients
      /\ ~ap' => stations' = 0 /\ ~apIp6'
      /\ EthTypes(eth')
  <2>1. CASE (Status!SoftAP \/ Status!Station \/ Status!ApIp6) /\ eth' = eth
    BY <2>1, ApReports DEF ReportTypes, WorldTypes, EthTypes
  <2>2. CASE Status!Ethernet /\ UNCHANGED <<ap, stations, apIp6>>
    BY <2>2, EthReports DEF ReportTypes, WorldTypes
  <2> QED
    BY <2>1, <2>2 DEF Status!Interfaces
<1>4. WorldTypes'
  BY <1>1, <1>3 DEF ReportTypes, WorldTypes, EthTypes
<1> QED
  BY <1>1, <1>2, <1>4, ReportedQueues, ReportedBits, ReportedSession DEF ReportTypes, AckInv

LEMMA BeginStep ==
  ASSUME ReportTypes, BitsInv, AckInv, Status!BeginSmartConfig, eth' = eth
  PROVE  ReportTypes' /\ BitsInv' /\ AckInv'
<1>1. /\ smart' = TRUE /\ smartDone' = FALSE /\ scSession' = 1
      /\ overtaken' = (overtaken \/ Status!AckPending)
      /\ ap' = FALSE /\ stations' = 0 /\ apIp6' = FALSE
  BY DEF Status!BeginSmartConfig
<1>2. /\ posted \in Seq(Reports) /\ queue \in Seq(ReportNames)
      /\ DOMAIN posted = 1 .. Len(posted) /\ DOMAIN queue = 1 .. Len(queue)
  BY DEF ReportTypes, QueueTypes
<1>3. ~overtaken' =>
        /\ \A k \in 1 .. Len(posted) : posted[k].event # "SC_SEND_ACK_DONE"
        /\ \A k \in 1 .. Len(queue) : queue[k] # "SC_SEND_ACK_DONE"
  <2>1. ASSUME ~Status!AckPending, NEW k \in DOMAIN posted PROVE posted[k].event # "SC_SEND_ACK_DONE"
    BY <2>1 DEF Status!AckPending, Status!Acks
  <2>2. ASSUME ~Status!AckPending, NEW k \in DOMAIN queue PROVE queue[k] # "SC_SEND_ACK_DONE"
    BY <2>2 DEF Status!AckPending, Status!ToSet
  <2> QED
    BY <1>1, <1>2, <2>1, <2>2
<1>4. WorldTypes'
  <2>1. 0 \in 0 .. MaxClients /\ 1 \in -1 .. 1 /\ overtaken' \in BOOLEAN
    <3>1. 0 \in 0 .. MaxClients /\ 1 \in -1 .. 1
      BY LibraryAssumption DEF Status!ClientsOK
    <3>2. overtaken' \in BOOLEAN
      BY <1>1
    <3> QED
      BY <3>1, <3>2
  <2> QED
    BY <1>1, <2>1, Zenon DEF ReportTypes, WorldTypes
<1>5. CASE ap
  <2>1. Status!Post("WIFI", <<"AP_STOP">>)
    BY <1>5 DEF Status!BeginSmartConfig
  <2>2. Reported("AP_STOP")
    BY <1>1, <2>1 DEF Reported, Left, EthLinked, EthGone, BaseNames
  <2>3. "AP_STOP" \in ReportNames \ {"SC_SEND_ACK_DONE"}
    BY DEF ReportNames
  <2>4. AckInv'
    BY <1>3, <1>1, <2>2, <2>3, ReportedSession
  <2> QED
    BY <1>4, <2>2, <2>3, <2>4, ReportedQueues, ReportedBits DEF ReportTypes
<1>6. CASE ~ap
  <2>1. Status!Post("WIFI", <<>>)
    BY <1>6 DEF Status!BeginSmartConfig
  <2>2. posted' = posted
    BY <1>2, <2>1, PostedNone DEF Status!Post
  <2>3. UNCHANGED <<made, registered, initialized, queue, bits, eventLost>>
    BY <2>1 DEF Status!Post, Status!start
  <2>4. UNCHANGED <<ap, stations, apIp6>>
    BY <1>1, <1>6 DEF ReportTypes, WorldTypes
  <2>5. StartTypes' /\ QueueTypes'
    BY <2>2, <2>3 DEF ReportTypes, StartTypes, QueueTypes
  <2>6. BitsInv'
    BY <2>2, <2>3, <2>4, BitsFollow DEF BitsInv
  <2>7. AckInv'
    BY <1>1, <1>3, <2>2, <2>3 DEF AckInv
  <2> QED
    BY <1>4, <2>5, <2>6, <2>7 DEF ReportTypes
<1> QED
  BY <1>5, <1>6

LEMMA SmartConfigStep ==
  ASSUME ReportTypes, BitsInv, AckInv, Status!SmartConfig
  PROVE  ReportTypes' /\ BitsInv' /\ AckInv'
<1>1. CASE Status!BeginSmartConfig /\ eth' = eth
  BY <1>1, BeginStep
<1>2. CASE Status!StopSmartConfig /\ eth' = eth
  <2>1. /\ smart' = FALSE /\ scSession' = 0
        /\ UNCHANGED <<made, registered, initialized, ap, stations, apIp6, eth, smartDone, overtaken,
                       posted, queue, bits, eventLost>>
    BY <1>2 DEF Status!StopSmartConfig, Status!start
  <2>2. BitsInv'
    BY <2>1, BitsFollow DEF BitsInv
  <2>3. StartTypes' /\ QueueTypes' /\ AckInv'
    BY <2>1 DEF ReportTypes, StartTypes, QueueTypes, AckInv
  <2>4. 0 \in -1 .. 1
    OBVIOUS
  <2>5. WorldTypes'
    BY <2>1, <2>4, Zenon DEF ReportTypes, WorldTypes
  <2> QED
    BY <2>2, <2>3, <2>5 DEF ReportTypes
<1>3. CASE Status!Acked /\ eth' = eth
  <2>1. /\ scSession' = -1 /\ Status!Post("SC", <<"SC_SEND_ACK_DONE">>)
        /\ UNCHANGED <<ap, stations, apIp6, eth, smart, smartDone, overtaken>>
    BY <1>3 DEF Status!Acked, Status!smartConfig
  <2>2. Left' = Left /\ stations \in Nat
    BY <2>1, LibraryAssumption DEF Left, ReportTypes, WorldTypes, Status!ClientsOK
  <2>3. Reported("SC_SEND_ACK_DONE")
    BY <2>1, <2>2 DEF Reported, Left, EthLinked, EthGone, BaseNames
  <2>4. "SC_SEND_ACK_DONE" \in ReportNames
    BY DEF ReportNames
  <2>5. WorldTypes' /\ AckInv'
    BY <2>1 DEF ReportTypes, WorldTypes, AckInv
  <2> QED
    BY <2>3, <2>4, <2>5, ReportedQueues, ReportedBits DEF ReportTypes
<1> QED
  BY <1>1, <1>2, <1>3 DEF Status!SmartConfig

EventsInv == ReportTypes /\ BitsInv /\ AckInv

LEMMA InitEvents == Status!Init => EventsInv
<1> SUFFICES ASSUME Status!Init PROVE EventsInv
  OBVIOUS
<1>1. /\ made = {} /\ registered = [b \in BaseNames |-> 0] /\ initialized = FALSE /\ eventLost = FALSE
      /\ ap = FALSE /\ stations = 0 /\ apIp6 = FALSE /\ eth = {} /\ scSession = 0
      /\ smart = FALSE /\ smartDone = FALSE /\ overtaken = FALSE
      /\ posted = <<>> /\ queue = <<>> /\ bits = {}
  BY BasesAre DEF Status!Init
<1>2. Len(<<>>) = 0 /\ <<>> \in Seq(Reports) /\ <<>> \in Seq(ReportNames)
  OBVIOUS
<1>3. ReportTypes
  <2>1. StartTypes
    BY <1>1 DEF StartTypes
  <2>2. 0 \in 0 .. MaxClients /\ 0 \in -1 .. 1 /\ 0 <= QueueLen
    BY LibraryAssumption DEF Status!ClientsOK
  <2>3. WorldTypes
    BY <1>1, <2>2, Zenon DEF WorldTypes
  <2>4. QueueTypes
    BY <1>1, <1>2, <2>2 DEF QueueTypes
  <2> QED
    BY <2>1, <2>3, <2>4 DEF ReportTypes
<1>4. \A T, F, b, x, S : (b \in bits <=> x \in S) => TellsBit(posted, queue, bits, T, F, b, x, S)
  BY <1>1, NothingPosted
<1>5. ApBits
  <2>1. "AP_STARTED" \in bits <=> ap \in {TRUE}
    BY <1>1
  <2>2. "AP_HAS_CLIENT" \in bits <=> stations \in Nat \ {0}
    BY <1>1
  <2>3. TellsBit(posted, queue, bits, {"AP_START"}, {"AP_STOP"}, "AP_STARTED", ap, {TRUE})
    BY <1>4, <2>1
  <2>4. TellsBit(posted, queue, bits, {"AP_STACONNECTED"}, Left, "AP_HAS_CLIENT", stations, Nat \ {0})
    BY <1>4, <2>2
  <2> QED
    BY <1>1, <2>3, <2>4 DEF ApBits
<1>6. EthBits
  <2>1. TellsBit(posted, queue, bits, {"ETH_START"}, {"ETH_STOP"}, "ETH_STARTED", "started", eth)
    BY <1>1, <1>4
  <2>2. TellsBit(posted, queue, bits, EthLinked, EthGone, "ETH_CONNECTED", "connected", eth)
    BY <1>1, <1>4
  <2>3. TellsBit(posted, queue, bits, {"ETH_GOT_IP"}, EthGone, "ETH_HAS_IP", "ip", eth)
    BY <1>1, <1>4
  <2>4. TellsBit(posted, queue, bits, {"ETH_GOT_IP6"}, EthGone, "ETH_HAS_IP6", "ip6", eth)
    BY <1>1, <1>4
  <2> QED
    BY <2>1, <2>2, <2>3, <2>4 DEF EthBits
<1> QED
  BY <1>1, <1>3, <1>5, <1>6 DEF EventsInv, BitsInv, AckInv

LEMMA NextEvents == EventsInv /\ [Status!Next]_Status!vars => EventsInv'
<1> SUFFICES ASSUME ReportTypes, BitsInv, AckInv, [Status!Next]_Status!vars
             PROVE  ReportTypes' /\ BitsInv' /\ AckInv'
  BY DEF EventsInv
<1>1. CASE Status!Start
  BY <1>1, StartStep
<1>2. CASE Status!Interfaces
  BY <1>2, InterfacesStep
<1>3. CASE Status!SmartConfig
  BY <1>3, SmartConfigStep
<1>4. CASE Status!Forward
  <2>1. UNCHANGED <<made, registered, initialized, ap, stations, apIp6, eth, scSession, smart, smartDone,
                    overtaken>>
        /\ eventLost' \in {eventLost, TRUE}
    BY <1>4 DEF Status!Forward, Status!start, Status!world, Status!smartConfig
  <2>2. StartTypes' /\ WorldTypes'
    BY <2>1 DEF ReportTypes, StartTypes, WorldTypes
  <2> QED
    BY <1>4, <2>2, ForwardStep DEF ReportTypes
<1>5. CASE Status!EventCallback
  <2>1. /\ UNCHANGED <<made, registered, initialized, ap, stations, apIp6, eth, smart, overtaken, eventLost>>
        /\ scSession' \in {scSession, 0} /\ smartDone' \in {smartDone, TRUE}
    BY <1>5 DEF Status!EventCallback, Status!start
  <2>2. StartTypes'
    BY <2>1 DEF ReportTypes, StartTypes
  <2>3. smartDone' \in BOOLEAN
    BY <2>1, Zenon DEF ReportTypes, WorldTypes
  <2>4. scSession' \in -1 .. 1
    BY <2>1 DEF ReportTypes, WorldTypes
  <2>5. WorldTypes'
    BY <2>1, <2>3, <2>4, Zenon DEF ReportTypes, WorldTypes
  <2> QED
    BY <1>5, <2>2, <2>5, CallbackStep DEF ReportTypes
<1>6. CASE UNCHANGED Status!vars
  <2>1. UNCHANGED <<made, registered, initialized, ap, stations, apIp6, eth, scSession, smart, smartDone,
                    overtaken, posted, queue, bits, eventLost>>
    BY <1>6 DEF Status!vars, Status!start, Status!world, Status!smartConfig
  <2>2. BitsInv'
    BY <2>1, BitsFollow DEF BitsInv
  <2>3. ReportTypes' /\ AckInv'
    BY <2>1 DEF ReportTypes, StartTypes, WorldTypes, QueueTypes, AckInv
  <2> QED
    BY <2>2, <2>3
<1> QED
  BY <1>1, <1>2, <1>3, <1>4, <1>5, <1>6 DEF Status!Next

(* With both queues empty the invariant is what the bits say.              *)
LEMMA QuietBits == EventsInv => Status!BitsTellInterfaces
<1> SUFFICES ASSUME ReportTypes, posted = <<>>, queue = <<>>, ApBits, EthBits
             PROVE  /\ ("AP_STARTED" \in bits) = ap
                    /\ ("AP_HAS_CLIENT" \in bits) = (stations > 0)
                    /\ apIp6 => "AP_HAS_IP6" \in bits
                    /\ ("ETH_STARTED" \in bits) = (eth # {})
                    /\ \A b \in {<<"ETH_CONNECTED", "connected">>, <<"ETH_HAS_IP", "ip">>,
                                 <<"ETH_HAS_IP6", "ip6">>} : (b[1] \in bits) = (b[2] \in eth)
  BY DEF EventsInv, BitsInv, Status!BitsTellInterfaces, Status!Quiet
<1>1. \A T, F, b, x, S : TellsBit(posted, queue, bits, T, F, b, x, S) => (b \in bits <=> x \in S)
  BY BitTold
<1>2. "AP_STARTED" \in bits <=> ap \in {TRUE}
  BY <1>1 DEF ApBits
<1>3. "AP_HAS_CLIENT" \in bits <=> stations \in Nat \ {0}
  BY <1>1 DEF ApBits
<1>4. apIp6 => "AP_HAS_IP6" \in bits
  BY <1>1 DEF ApBits
<1>5. "ETH_STARTED" \in bits <=> "started" \in eth
  BY <1>1 DEF EthBits
<1>6. /\ "ETH_CONNECTED" \in bits <=> "connected" \in eth
      /\ "ETH_HAS_IP" \in bits <=> "ip" \in eth
      /\ "ETH_HAS_IP6" \in bits <=> "ip6" \in eth
  BY <1>1 DEF EthBits
<1>7. ap \in BOOLEAN /\ (eth # {} <=> "started" \in eth)
  <2>1. ap \in BOOLEAN /\ (eth # {} => "started" \in eth)
    BY Zenon DEF ReportTypes, WorldTypes
  <2>2. "started" \in eth => eth # {}
    OBVIOUS
  <2> QED
    BY <2>1, <2>2
<1>8. ("AP_STARTED" \in bits) = ap
  <2>1. CASE ap = TRUE
    <3>1. "AP_STARTED" \in bits
      BY <1>2, <2>1, Zenon
    <3>2. ("AP_STARTED" \in bits) = TRUE
      BY <3>1
    <3> QED
      BY <2>1, <3>2, Zenon
  <2>2. CASE ap = FALSE
    <3>1. "AP_STARTED" \notin bits
      <4>1. FALSE \notin {TRUE}
        OBVIOUS
      <4> QED
        BY <1>2, <2>2, <4>1, Zenon
    <3>2. ("AP_STARTED" \in bits) = FALSE
      BY <3>1
    <3> QED
      BY <2>2, <3>2, Zenon
  <2> QED
    BY <1>7, <2>1, <2>2
<1>9. ("AP_HAS_CLIENT" \in bits) = (stations > 0)
  <2>1. stations \in Nat
    BY LibraryAssumption DEF ReportTypes, WorldTypes, Status!ClientsOK
  <2> QED
    BY <1>3, <2>1
<1>10. ("ETH_STARTED" \in bits) = (eth # {})
  BY <1>5, <1>7
<1>11. ASSUME NEW b \in {<<"ETH_CONNECTED", "connected">>, <<"ETH_HAS_IP", "ip">>, <<"ETH_HAS_IP6", "ip6">>}
       PROVE  (b[1] \in bits) = (b[2] \in eth)
  BY <1>6, <1>11
<1> QED
  BY <1>4, <1>8, <1>9, <1>10, <1>11

(* However the events of the interfaces are delayed in the two queues, and *)
(* however often a retried start has registered their handler: once all    *)
(* are handled the status bits tell access point and Ethernet, unless an   *)
(* event was lost; and smartConfigDone() speaks of this session, unless it *)
(* was begun while an earlier acknowledgement was on its way.              *)
THEOREM EventsHold == Status!Spec => [](Status!TypeOK /\ EventsTellWorld)
<1>1. EventsInv => Status!TypeOK /\ EventsTellWorld
  <2> SUFFICES ASSUME EventsInv PROVE Status!TypeOK /\ EventsTellWorld
    OBVIOUS
  <2>1. Status!BitsTellInterfaces
    BY QuietBits
  <2>2. Status!DoneIsThisSession
    BY DEF EventsInv, AckInv, Status!DoneIsThisSession
  <2>3. Status!TypeOK
    BY BasesAre DEF EventsInv, ReportTypes, StartTypes, WorldTypes, QueueTypes, Status!TypeOK
  <2> QED
    BY <2>1, <2>2, <2>3 DEF EventsTellWorld, Status!EventsTellWorld
<1> QED
  BY <1>1, InitEvents, NextEvents, PTL DEF Status!Spec

-----------------------------------------------------------------------------
(* The properties of Library that speak of several parts.                  *)

(* A TLS client and the bundle it trusts: socket, session, certificates    *)
(* and bytes belong together, and a verification nobody disturbed accepts  *)
(* what a root has signed.                                                 *)
THEOREM TlsHolds == Tls!Spec /\ Bundle!Spec => []TlsIsSound
<1>1. Tls!TlsIsSound /\ Bundle!VerdictIsRight /\ Bundle!ReadsAreSafe => TlsIsSound
  BY DEF TlsIsSound
<1> QED
  BY <1>1, SessionsAreSound, SearchIsRight, PTL

(* Scans end and have the results they count, a station keeps the network  *)
(* and address it was given, and an access point leases from its subnet.   *)
THEOREM WifiHolds == Scan!Spec /\ Setup!Spec /\ Leases!Spec => []WifiIsSound
<1>1. /\ Scan!RunningScanEnds /\ Scan!ResultsFit
      /\ Setup!SetupIsSound
      /\ Leases!LeasesFit
      => WifiIsSound
  BY DEF WifiIsSound
<1> QED
  BY <1>1, ScansEndAndFit, SetupHolds, RunningServerFits, PTL
=============================================================================
