----------------------------- MODULE NetConnect -----------------------------
(***************************************************************************)
(* example_connect and example_disconnect of src/Extensions/Network.cpp:   *)
(* they start and stop the Wi-Fi and Ethernet interfaces, and wait on a    *)
(* counting semaphore that the event handlers give once per IP address.    *)
(*                                                                         *)
(* Three parties interleave: the tasks that call the API (one of which may *)
(* restart the chip, which runs the registered shutdown handler stop()),   *)
(* the task of the default event loop, which runs the handlers, and the    *)
(* network.  The drivers, the event loop and FreeRTOS are external: they   *)
(* are modelled by what Network.cpp uses of them.                          *)
(***************************************************************************)
EXTENDS Integers, Sequences, FiniteSets, SequencesExt, Functions

CONSTANTS
  Callers,     \* the tasks that use the API
  Order,       \* the configured interfaces in the order start() takes them
  IPv6,        \* CONFIG_EXAMPLE_CONNECT_IPV6
  OtherUser,   \* whether another user of the Wi-Fi driver may deinitialise it
  NoNetif,     \* the null esp_netif_t*
  MaxSems,     \* bound: calls of example_connect that get to the semaphore
  MaxEvents    \* bound: events in the queue of the event loop

ASSUME CallersAssumption == IsFiniteSet(Callers)
ASSUME OrderAssumption == Order \in {<<"sta">>, <<"eth">>, <<"sta", "eth">>}
ASSUME FlagAssumption  == IPv6 \in BOOLEAN /\ OtherUser \in BOOLEAN
ASSUME BoundAssumption == MaxSems \in Nat /\ MaxEvents \in Nat \ {0}

Ifaces == Range(Order)
Kinds  == IF IPv6 THEN {"ip4", "ip6"} ELSE {"ip4"}

VARIABLES
  pc,        \* where each caller is
  at,        \* the interface it starts or stops, as a place in Order
  taken,     \* how often it has taken the semaphore
  ret,       \* what its last call returned
  restarting,\* the callers in esp_restart
  sem,       \* s_semph_get_ip_addrs: a semaphore, or 0 for NULL
  active,    \* s_active_interfaces
  netifPtr,  \* s_example_esp_netif
  live,      \* the semaphores that have been created and not deleted
  nextSem,   \* the next semaphore to create
  permits,   \* the count of the latest semaphore
  most,      \* and its maximum
  shutdown,  \* stop() is registered as shutdown handler
  netifs,    \* the interfaces whose esp_netif exists
  driver,    \* each interface's driver: "off", "init" or "on"
  link,      \* its link: "down", "joining" or "up"
  local6,    \* the interfaces that have asked for an IPv6 address
  got,       \* the addresses each interface has got since its driver started
  handlers,  \* the event ids with a registered handler
  queue,     \* the events posted and not yet dispatched
  giving,    \* the semaphore the running handler is about to give, or Idle
  status     \* "running", "panic" (a failed assertion of the kernel or of
             \* ESP_ERROR_CHECK), "corrupt" (a freed object used), "reset"

Idle == MaxSems + 1

callVars == <<pc, at, taken, ret, restarting>>
statVars == <<sem, active, netifPtr>>
semVars  == <<live, nextSem, permits, most>>
netVars  == <<netifs, driver, link, local6, got>>
evVars   == <<handlers, queue, giving>>
vars == <<callVars, statVars, semVars, shutdown, netVars, evVars, status>>

(* NR_OF_IP_ADDRESSES_TO_WAIT_FOR                                          *)
Expected == active * Cardinality(Kinds)

(* The event ids wifi_start and eth_start register a handler for; both     *)
(* register the one of IPv6.                                               *)
GotId    == [sta |-> "got_sta", eth |-> "got_eth"]
JoinedId == [sta |-> "joined_sta", eth |-> "joined_eth"]

HandlersOf(i) ==
  {GotId[i]} \cup (IF i = "sta" THEN {"left"} ELSE {})
             \cup (IF IPv6 THEN {"got6", JoinedId[i]} ELSE {})

(* wanted: not an IPv6 address of another type than the preferred one.     *)
Event(what, iface) == [id |-> what, netif |-> iface, wanted |-> TRUE]

Init ==
  /\ pc = [c \in Callers |-> "idle"]
  /\ at = [c \in Callers |-> 1]
  /\ taken = [c \in Callers |-> 0]
  /\ ret = [c \in Callers |-> "none"]
  /\ restarting = {}
  /\ sem = 0 /\ active = 0 /\ netifPtr = NoNetif
  /\ live = {} /\ nextSem = 1 /\ permits = 0 /\ most = 0
  /\ shutdown = FALSE
  /\ netifs = {}
  /\ driver = [i \in Ifaces |-> "off"]
  /\ link = [i \in Ifaces |-> "down"]
  /\ local6 = {} /\ got = [i \in Ifaces |-> {}]
  /\ handlers = {} /\ queue = <<>> /\ giving = Idle
  /\ status = "running"

Running == status = "running"

At(c, l) == Running /\ pc[c] = l

Goto(c, l) == pc' = [pc EXCEPT ![c] = l]

Return(c, r) == Goto(c, "idle") /\ ret' = [ret EXCEPT ![c] = r]

Abort(s) ==
  /\ status' = s
  /\ UNCHANGED <<callVars, statVars, semVars, shutdown, netVars, evVars>>

Iface(c) == Order[at[c]]

(* What follows the interface caller c is at.                              *)
NextIface(c, again, done) ==
  IF at[c] < Len(Order)
  THEN Goto(c, again) /\ at' = [at EXCEPT ![c] = @ + 1]
  ELSE Goto(c, done) /\ at' = [at EXCEPT ![c] = 1]

-----------------------------------------------------------------------------
(* example_connect                                                         *)

Connect(c) ==
  /\ At(c, "idle")
  /\ nextSem <= MaxSems
  /\ IF sem # 0
     THEN Return(c, "invalid_state")
     ELSE Goto(c, "make") /\ UNCHANGED ret
  /\ UNCHANGED <<at, taken, restarting, statVars, semVars, shutdown, netVars, evVars, status>>

(* The first half of wifi_start or eth_start: the netif, the driver and    *)
(* the handlers.  A second netif of the same name cannot be made.          *)
MakeIface(c) ==
  LET i == Iface(c) IN
  /\ At(c, "make")
  /\ IF i \in netifs
     THEN Abort("panic")
     ELSE /\ netifs' = netifs \cup {i}
          /\ driver' = [driver EXCEPT ![i] = "init"]
          /\ handlers' = handlers \cup HandlersOf(i)
          /\ Goto(c, "begin")
          /\ UNCHANGED <<at, taken, ret, restarting, statVars, semVars, shutdown,
                         link, local6, got, queue, giving, status>>

(* The second half: the driver starts and the first attempt to join.       *)
BeginIface(c) ==
  LET i == Iface(c) IN
  /\ At(c, "begin")
  /\ IF driver[i] # "init"
     THEN Abort("panic")
     ELSE /\ driver' = [driver EXCEPT ![i] = "on"]
          /\ link' = [link EXCEPT ![i] = "joining"]
          /\ got' = [got EXCEPT ![i] = {}]
          /\ netifPtr' = i
          /\ active' = active + 1
          /\ NextIface(c, "make", "sem")
          /\ UNCHANGED <<taken, ret, restarting, sem, semVars, shutdown, netifs, local6, evVars, status>>

(* The end of start().                                                     *)
MakeSemaphore(c) ==
  /\ At(c, "sem")
  /\ nextSem <= MaxSems
  /\ sem' = nextSem
  /\ live' = live \cup {nextSem}
  /\ nextSem' = nextSem + 1
  /\ permits' = 0
  /\ most' = Expected
  /\ netifPtr' = IF Len(Order) > 1 THEN NoNetif ELSE netifPtr
  /\ Goto(c, "register")
  /\ UNCHANGED <<at, taken, ret, restarting, active, shutdown, netVars, evVars, status>>

RegisterShutdown(c) ==
  /\ At(c, "register")
  /\ IF shutdown
     THEN Abort("panic")
     ELSE /\ shutdown' = TRUE
          /\ taken' = [taken EXCEPT ![c] = 0]
          /\ Goto(c, "wait")
          /\ UNCHANGED <<at, ret, restarting, statVars, semVars, netVars, evVars, status>>

(* One turn of the wait for the addresses; blocks while there is no permit.*)
Take(c) ==
  /\ At(c, "wait") /\ taken[c] < Expected
  /\ IF sem = 0
     THEN Abort("panic")
     ELSE /\ permits > 0
          /\ permits' = permits - 1
          /\ taken' = [taken EXCEPT ![c] = @ + 1]
          /\ UNCHANGED <<pc, at, ret, restarting, statVars, live, nextSem, most, shutdown, netVars, evVars, status>>

ConnectedNoSemaphore(c) ==    \* fault variant: the semaphore goes once it has served
  /\ At(c, "wait") /\ taken[c] >= Expected
  /\ Return(c, "ok")
  /\ sem' = 0 /\ live' = live \ {sem}
  /\ taken' = [taken EXCEPT ![c] = 0]
  /\ UNCHANGED <<at, restarting, active, netifPtr, nextSem, permits, most, shutdown,
                 netVars, evVars, status>>

Connected(c) ==
  /\ At(c, "wait") /\ taken[c] >= Expected
  /\ Return(c, "ok")
  /\ taken' = [taken EXCEPT ![c] = 0]
  /\ UNCHANGED <<at, restarting, statVars, semVars, shutdown, netVars, evVars, status>>
-----------------------------------------------------------------------------
(* example_disconnect, and esp_restart, which runs stop() too.             *)

Disconnect(c) ==
  /\ At(c, "idle")
  /\ IF sem = 0
     THEN Return(c, "invalid_state")
     ELSE Goto(c, "delete") /\ UNCHANGED ret
  /\ UNCHANGED <<at, taken, restarting, statVars, semVars, shutdown, netVars, evVars, status>>

(* A task blocked on the semaphore is left in the freed object's list.     *)
Blocked(c) == pc[c] = "wait" /\ taken[c] < Expected /\ permits = 0

DeleteSemaphore(c) ==
  /\ At(c, "delete")
  /\ \/ /\ sem = 0
        /\ Abort("panic")
     \/ /\ sem # 0 /\ (sem \notin live \/ \E d \in Callers : Blocked(d))
        /\ Abort("corrupt")
     \/ /\ sem \in live /\ \A d \in Callers : ~ Blocked(d)
        /\ live' = live \ {sem}
        /\ Goto(c, "clear")
        /\ UNCHANGED <<at, taken, ret, restarting, statVars, nextSem, permits, most,
                       shutdown, netVars, evVars, status>>

ClearPointer(c) ==
  /\ At(c, "clear")
  /\ sem' = 0
  /\ Goto(c, "unhandle")
  /\ UNCHANGED <<at, taken, ret, restarting, active, netifPtr, semVars, shutdown, netVars, evVars, status>>

UnhandleNone(c) ==          \* fault variant: the handlers are left registered
  /\ At(c, "unhandle")
  /\ giving = Idle
  /\ Goto(c, "down")
  /\ UNCHANGED <<at, taken, ret, restarting, statVars, semVars, shutdown, netVars, evVars, status>>

(* stop(): the first half of wifi_stop or eth_stop.  The event loop does   *)
(* not unregister a handler while it runs one.                             *)
Unhandle(c) ==
  /\ At(c, "unhandle")
  /\ giving = Idle
  /\ handlers' = handlers \ HandlersOf(Iface(c))
  /\ Goto(c, "down")
  /\ UNCHANGED <<at, taken, ret, restarting, statVars, semVars, shutdown, netVars, queue, giving, status>>

(* Events still queued keep a pointer to a netif that is destroyed.        *)
Orphaned(q, i) == [k \in DOMAIN q |-> IF q[k].netif = i THEN [q[k] EXCEPT !.netif = "freed"] ELSE q[k]]

Release(i) ==
  /\ driver' = [driver EXCEPT ![i] = "off"]
  /\ link' = [link EXCEPT ![i] = "down"]
  /\ local6' = local6 \ {i}
  /\ netifs' = netifs \ {i}
  /\ queue' = Orphaned(queue, i)
  /\ netifPtr' = NoNetif

(* The second half: the driver and the netif go.  When the Wi-Fi driver is *)
(* not initialised wifi_stop returns here; the Ethernet driver has no such *)
(* case, its handle is used as it is.                                      *)
DownIface(c) ==
  LET i == Iface(c) IN
  /\ At(c, "down")
  /\ IF i = "eth" /\ driver[i] = "off"
     THEN Abort("corrupt")
     ELSE /\ IF driver[i] = "off"
             THEN UNCHANGED <<driver, link, local6, netifs, queue, netifPtr>>
             ELSE Release(i)
          /\ active' = active - 1
          /\ NextIface(c, "unhandle", "unregister")
          /\ UNCHANGED <<taken, ret, restarting, sem, semVars, shutdown, got, handlers, giving, status>>

UnregisterShutdown(c) ==
  /\ At(c, "unregister")
  /\ c \notin restarting
  /\ IF shutdown
     THEN /\ shutdown' = FALSE
          /\ Return(c, "ok")
          /\ UNCHANGED <<at, taken, restarting, statVars, semVars, netVars, evVars, status>>
     ELSE Abort("panic")

Restart(c) ==
  /\ At(c, "idle")
  /\ shutdown
  /\ restarting' = restarting \cup {c}
  /\ Goto(c, "unhandle")
  /\ UNCHANGED <<at, taken, ret, statVars, semVars, shutdown, netVars, evVars, status>>

Reset(c) ==
  /\ At(c, "unregister")
  /\ c \in restarting
  /\ Abort("reset")

Step(c) ==
  \/ MakeIface(c) \/ BeginIface(c) \/ MakeSemaphore(c) \/ RegisterShutdown(c)
  \/ Take(c) \/ Connected(c)
  \/ DeleteSemaphore(c) \/ ClearPointer(c) \/ Unhandle(c) \/ DownIface(c)
  \/ UnregisterShutdown(c) \/ Reset(c)

-----------------------------------------------------------------------------
(* The event loop task.                                                    *)

OursOrOther(e) == TRUE            \* fault variant: the interface is not looked at

(* is_our_netif                                                            *)
Ours(e) == e.netif \in Ifaces

OnLeftNoRejoin == UNCHANGED <<link, local6, giving, status>>    \* fault variant

(* on_wifi_disconnect: join again, unless the driver has not started yet.  *)
(* Any error but that one stops the chip.                                  *)
OnLeft ==
  /\ IF driver["sta"] = "off"
     THEN status' = "panic" /\ UNCHANGED link
     ELSE /\ link' = IF driver["sta"] = "on" /\ link["sta"] = "down"
                     THEN [link EXCEPT !["sta"] = "joining"] ELSE link
          /\ UNCHANGED status
  /\ UNCHANGED <<local6, giving>>

(* on_wifi_connect and on_eth_event.                                       *)
OnJoined(i) ==
  /\ local6' = local6 \cup {i}
  /\ UNCHANGED <<link, giving, status>>

(* on_got_ip, and on_got_ipv6 for an address of the preferred type: the    *)
(* pointer is read here and used in the next step.                         *)
OnGot(e) ==
  /\ status' = IF e.netif = "freed" THEN "corrupt" ELSE status
  /\ giving' = IF Ours(e) /\ e.wanted THEN sem ELSE giving
  /\ UNCHANGED <<link, local6>>

Dispatch ==
  /\ Running
  /\ giving = Idle
  /\ queue # <<>>
  /\ queue' = Tail(queue)
  /\ LET e == Head(queue) IN
     \/ e.id \notin handlers /\ UNCHANGED <<link, local6, giving, status>>
     \/ e.id \in handlers /\ e.id = "left" /\ OnLeft
     \/ \E i \in Ifaces : e.id \in handlers /\ e.id = JoinedId[i] /\ OnJoined(i)
     \/ e.id \in handlers \cap {"got_sta", "got_eth", "got6"} /\ OnGot(e)
  /\ UNCHANGED <<callVars, statVars, semVars, shutdown, netifs, driver, got, handlers>>

(* xSemaphoreGive                                                          *)
Give ==
  /\ Running
  /\ giving # Idle
  /\ giving' = Idle
  /\ status' = IF giving = 0 THEN "panic" ELSE IF giving \notin live THEN "corrupt" ELSE status
  /\ permits' = IF giving = sem /\ permits < most THEN permits + 1 ELSE permits
  /\ UNCHANGED <<callVars, statVars, live, nextSem, most, shutdown, netVars, handlers, queue>>

-----------------------------------------------------------------------------
(* The drivers and the network.                                            *)

Post(e) == Len(queue) < MaxEvents /\ queue' = Append(queue, e)

Join(i) ==
  /\ Running
  /\ driver[i] = "on" /\ link[i] = "joining"
  /\ link' = [link EXCEPT ![i] = "up"]
  /\ IF IPv6 THEN Post(Event(JoinedId[i], i)) ELSE UNCHANGED queue
  /\ UNCHANGED <<callVars, statVars, semVars, shutdown, netifs, driver, local6, got, handlers, giving, status>>

(* The access point refuses or is lost; or the cable is pulled.            *)
Leave(i) ==
  /\ Running
  /\ driver[i] = "on" /\ link[i] \in {"joining", "up"}
  /\ local6' = local6 \ {i}
  /\ IF i = "sta"
     THEN link' = [link EXCEPT ![i] = "down"] /\ Post(Event("left", i))
     ELSE link' = [link EXCEPT ![i] = "joining"] /\ UNCHANGED queue
  /\ UNCHANGED <<callVars, statVars, semVars, shutdown, netifs, driver, got, handlers, giving, status>>

(* An interface whose link is up gets an address, again perhaps.           *)
Address(i, k) ==
  /\ Running
  /\ link[i] = "up" /\ i \in netifs
  /\ k = "ip6" => i \in local6
  /\ got' = [got EXCEPT ![i] = @ \cup {k}]
  /\ Post(Event(IF k = "ip6" THEN "got6" ELSE GotId[i], i))
  /\ UNCHANGED <<callVars, statVars, semVars, shutdown, netifs, driver, link, local6, handlers, giving, status>>

(* Addresses that are not to count, with the same events: one of a netif of*)
(* another module, or one of IPv6 and not of the preferred type.           *)
Uncounted(i) ==
  {Event(GotId[i], "other")} \cup
  {[id |-> "got6", netif |-> j, wanted |-> FALSE] : j \in {n \in local6 \cap {i} : link[n] = "up"}}

UncountedAddress(i) ==
  /\ Running
  /\ \E e \in Uncounted(i) : Post(e)
  /\ UNCHANGED <<callVars, statVars, semVars, shutdown, netVars, handlers, giving, status>>

(* class_WiFi::stop and destroy, called by some other task.                *)
DeinitByOther ==
  /\ Running
  /\ OtherUser
  /\ "sta" \in Ifaces
  /\ driver["sta"] # "off"
  /\ driver' = [driver EXCEPT !["sta"] = "off"]
  /\ link' = [link EXCEPT !["sta"] = "down"]
  /\ local6' = local6 \ {"sta"}
  /\ UNCHANGED <<callVars, statVars, semVars, shutdown, netifs, got, evVars, status>>

Network ==
  \/ \E i \in Ifaces : Join(i) \/ Leave(i) \/ UncountedAddress(i)
  \/ \E i \in Ifaces, k \in Kinds : Address(i, k)
  \/ DeinitByOther

Next ==
  \/ \E c \in Callers : Connect(c) \/ Disconnect(c) \/ Restart(c) \/ Step(c)
  \/ Dispatch \/ Give
  \/ Network

Spec == Init /\ [][Next]_vars

(* The tasks are scheduled.  The network, when asked often enough, lets an *)
(* interface join and gives it an address.                                 *)
FairSpec ==
  /\ Spec
  /\ \A c \in Callers : WF_vars(Step(c))
  /\ WF_vars(Dispatch) /\ WF_vars(Give)
  /\ \A i \in Ifaces : SF_vars(Join(i))
  /\ \A i \in Ifaces, k \in Kinds : SF_vars(Address(i, k))

-----------------------------------------------------------------------------
Events == [id : {"got_sta", "got_eth", "got6", "joined_sta", "joined_eth", "left"},
           netif : Ifaces \cup {"other", "freed"}, wanted : BOOLEAN]

TypeOK ==
  /\ pc \in [Callers -> {"idle", "make", "begin", "sem", "register", "wait",
                         "delete", "clear", "unhandle", "down", "unregister"}]
  /\ at \in [Callers -> 1 .. Len(Order)]
  /\ taken \in [Callers -> 0 .. Len(Order) * Cardinality(Kinds)]
  /\ ret \in [Callers -> {"none", "ok", "invalid_state"}]
  /\ restarting \subseteq Callers
  /\ sem \in 0 .. MaxSems /\ live \subseteq 1 .. MaxSems /\ nextSem \in 1 .. MaxSems + 1
  /\ active \in Int /\ permits \in Nat /\ most \in Int
  /\ netifPtr \in Ifaces \cup {NoNetif}
  /\ shutdown \in BOOLEAN
  /\ netifs \subseteq Ifaces /\ local6 \subseteq Ifaces
  /\ driver \in [Ifaces -> {"off", "init", "on"}]
  /\ link \in [Ifaces -> {"down", "joining", "up"}]
  /\ got \in [Ifaces -> SUBSET Kinds]
  /\ handlers \subseteq UNION {HandlersOf(i) : i \in Ifaces}
  /\ giving \in 0 .. MaxSems + 1
  /\ queue \in Seq(Events)
  /\ status \in {"running", "panic", "corrupt", "reset"}

AtRest == Running /\ \A c \in Callers : pc[c] = "idle"

(* Whatever calls came before, and however they overlapped, when no call   *)
(* is in progress and the chip still runs, s_semph_get_ip_addrs tells the  *)
(* truth: it is set exactly when every interface is up with its handlers,  *)
(* the count of interfaces is right and the shutdown handler is            *)
(* registered, and unset when nothing runs or can be called back any more. *)
GuardTellsState ==
  AtRest =>
    IF sem # 0
    THEN /\ netifs = Ifaces /\ handlers = UNION {HandlersOf(i) : i \in Ifaces}
         /\ active = Len(Order) /\ shutdown /\ live = {sem}
    ELSE /\ handlers = {} /\ active = 0 /\ ~ shutdown /\ live = {}
         /\ \A i \in Ifaces : driver[i] = "off"

(* example_connect: "connect, wait for IP".  When it returns ESP_OK every  *)
(* interface has got an address since it was started for this call.        *)
OkMeansAddresses ==
  \A c \in Callers : pc[c] = "wait" /\ taken[c] >= Expected /\ Running =>
    \A i \in Ifaces : got[i] # {}

(* on_got_ip finds no semaphore, and the chip stops, only when it runs     *)
(* while some call is starting or stopping the interfaces: a connection at *)
(* rest, and one that waits, survives whatever the network does.           *)
NoSemaphoreOnlyInTransit ==
  [][giving # 0 /\ giving' = 0 => \E c \in Callers : pc[c] \notin {"idle", "wait"}]_vars

(* example_disconnect is the counterpart of example_connect: when it has   *)
(* returned ESP_OK no netif that example_connect made is left, nor the     *)
(* pointer get_example_netif returns.                                      *)
DisconnectReleases ==
  AtRest /\ sem = 0 => netifs = {} /\ netifPtr = NoNetif

(* What ESP_OK means: from example_connect an address of this connection,  *)
(* from example_disconnect that nothing of it is left.                     *)
OkIsTrue == OkMeansAddresses /\ DisconnectReleases

(* Through lost links and refused attempts, since on_wifi_disconnect joins *)
(* again, a call that waits for addresses comes to its end.                *)
ConnectReturns ==
  \A c \in Callers : pc[c] = "wait" ~> (pc[c] = "idle" \/ ~ Running)
=============================================================================
