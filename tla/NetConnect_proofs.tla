------------------------- MODULE NetConnect_proofs -------------------------
(***************************************************************************)
(* Proofs about NetConnect for any set of tasks, any of the configurations *)
(* of the interfaces, and any bounds.                                      *)
(***************************************************************************)
EXTENDS NetConnect, FiniteSetTheorems, SequenceTheorems, TLAPS

Places == 1 .. Len(Order)

(* The configured interfaces are different.                                *)
LEMMA OrderFacts ==
  /\ Len(Order) \in Nat /\ 1 \in Places /\ Len(Order) \in Places
  /\ Ifaces = {Order[k] : k \in Places} /\ Ifaces \subseteq {"sta", "eth"}
  /\ \A k \in Places : Order[k] \in Ifaces
  /\ \A j, k \in Places : Order[j] = Order[k] => j = k
<1>1. CASE Order = <<"sta">>
  BY <1>1 DEF Places, Ifaces, Range
<1>2. CASE Order = <<"eth">>
  BY <1>2 DEF Places, Ifaces, Range
<1>3. CASE Order = <<"sta", "eth">>
  BY <1>3 DEF Places, Ifaces, Range
<1>. QED
  BY <1>1, <1>2, <1>3, OrderAssumption

LEMMA IfaceCount == IsFiniteSet(Ifaces) /\ Cardinality(Ifaces) = Len(Order)
<1>1. CASE Order = <<"sta">>
  <2>1. Ifaces = {"sta"} /\ Len(Order) = 1
    BY <1>1 DEF Ifaces, Range
  <2>. QED
    BY <2>1, FS_Singleton
<1>2. CASE Order = <<"eth">>
  <2>1. Ifaces = {"eth"} /\ Len(Order) = 1
    BY <1>2 DEF Ifaces, Range
  <2>. QED
    BY <2>1, FS_Singleton
<1>3. CASE Order = <<"sta", "eth">>
  <2>1. Ifaces = {"sta"} \cup {"eth"} /\ Len(Order) = 2 /\ "eth" \notin {"sta"}
    BY <1>3 DEF Ifaces, Range
  <2>2. IsFiniteSet({"sta"}) /\ Cardinality({"sta"}) = 1
    BY FS_Singleton
  <2>. QED
    BY <2>1, <2>2, FS_AddElement
<1>. QED
  BY <1>1, <1>2, <1>3, OrderAssumption

LEMMA KindCount == Cardinality(Kinds) \in {1, 2}
<1>1. IsFiniteSet({"ip4"}) /\ Cardinality({"ip4"}) = 1
  BY FS_Singleton
<1>2. Cardinality({"ip4"} \cup {"ip6"}) = 2
  BY <1>1, FS_AddElement
<1>3. Kinds = {"ip4"} \/ Kinds = {"ip4"} \cup {"ip6"}
  BY DEF Kinds
<1>. QED
  BY <1>1, <1>2, <1>3

(* The callers at certain places of the code, when one of them moves.      *)
LEMMA OneMore ==
  ASSUME NEW S, NEW T, IsFiniteSet(S), NEW x, x \notin S, T = S \cup {x}
  PROVE  IsFiniteSet(T) /\ Cardinality(T) = Cardinality(S) + 1 /\ Cardinality(S) \in Nat
BY FS_AddElement, FS_CardinalityType

LEMMA OneLess ==
  ASSUME NEW S, NEW T, IsFiniteSet(S), NEW x \in S, T = S \ {x}
  PROVE  IsFiniteSet(T) /\ Cardinality(T) = Cardinality(S) - 1 /\ Cardinality(S) \in Nat
BY FS_RemoveElement, FS_CardinalityType

-----------------------------------------------------------------------------
(* Type correctness.  That nobody takes the semaphore too often needs a    *)
(* bound of s_active_interfaces: each count of an interface follows the    *)
(* making of its netif, and each netif that goes is followed by one.       *)

Beginning == {c \in Callers : pc[c] = "begin"}

ActiveBound == active + Cardinality(Beginning) <= Cardinality(netifs)

TypeInv == TypeOK /\ ActiveBound

LEMMA FiniteParts ==
  ASSUME TypeOK
  PROVE  /\ IsFiniteSet(Beginning) /\ Cardinality(Beginning) \in Nat
         /\ IsFiniteSet(netifs) /\ Cardinality(netifs) \in 0 .. Len(Order)
<1>1. Beginning \subseteq Callers /\ netifs \subseteq Ifaces
  BY DEF Beginning, TypeOK
<1>. QED
  BY <1>1, FS_Subset, FS_CardinalityType, CallersAssumption, IfaceCount

LEMMA InitType == Init => TypeInv
<1> SUFFICES ASSUME Init PROVE TypeInv
  OBVIOUS
<1>1. Beginning = {} /\ netifs = {} /\ active = 0
  BY DEF Init, Beginning
<1>2. ActiveBound
  BY <1>1, FS_EmptySet DEF ActiveBound
<1>3. 0 \in 0 .. Len(Order) * Cardinality(Kinds)
  BY OrderFacts, KindCount
<1>4. /\ at \in [Callers -> 1 .. Len(Order)] 
      /\ taken \in [Callers -> 0 .. Len(Order) * Cardinality(Kinds)]
  BY <1>3, OrderFacts DEF Init, Places
<1>5. queue \in Seq(Events)
  BY DEF Init
<1>6. sem \in 0 .. MaxSems /\ live \subseteq 1 .. MaxSems /\ nextSem \in 1 .. MaxSems + 1 /\ giving \in 0 .. MaxSems + 1
  BY BoundAssumption DEF Init, Idle
<1>7. /\ pc \in [Callers -> {"idle", "make", "begin", "sem", "register", "wait",
                            "delete", "clear", "unhandle", "down", "unregister"}]
      /\ ret \in [Callers -> {"none", "ok", "invalid_state"}]
      /\ driver \in [Ifaces -> {"off", "init", "on"}] /\ link \in [Ifaces -> {"down", "joining", "up"}]
      /\ got \in [Ifaces -> SUBSET Kinds]
  BY DEF Init
<1>8. active \in Int /\ permits \in Nat /\ most \in Int /\ netifPtr \in Ifaces \cup {NoNetif}
  BY DEF Init
<1>9. /\ netifs \subseteq Ifaces /\ local6 \subseteq Ifaces /\ restarting \subseteq Callers
      /\ handlers \subseteq UNION {HandlersOf(i) : i \in Ifaces}
  BY DEF Init
<1>10. shutdown \in BOOLEAN /\ status \in {"running", "panic", "corrupt", "reset"}
  BY DEF Init
<1>. QED
  BY <1>2, <1>4, <1>5, <1>6, <1>7, <1>8, <1>9, <1>10 DEF TypeInv, TypeOK

LEMMA AbortType ==
  ASSUME TypeInv, NEW s \in {"panic", "corrupt", "reset"}, Abort(s)
  PROVE  TypeInv'
BY DEF TypeInv, TypeOK, ActiveBound, Beginning, Abort, callVars, statVars, semVars, netVars, evVars

(* Steps of a call that only go on.                                        *)
LEMMA CallType ==
  ASSUME TypeInv, NEW c \in Callers,
         Connect(c) \/ Disconnect(c) \/ Restart(c) \/ Connected(c) \/ RegisterShutdown(c)
           \/ UnregisterShutdown(c) \/ ClearPointer(c) \/ Unhandle(c) \/ DeleteSemaphore(c) \/ Reset(c)
  PROVE  TypeInv'
<1>1. CASE \E s \in {"panic", "corrupt", "reset"} : Abort(s)
  BY <1>1, AbortType
<1>2. CASE ~ \E s \in {"panic", "corrupt", "reset"} : Abort(s)
  <2>0. 0 \in 0 .. Len(Order) * Cardinality(Kinds) /\ 0 \in 0 .. MaxSems
    BY OrderFacts, KindCount, BoundAssumption
  <2>1. /\ UNCHANGED <<at, active, netifPtr, nextSem, permits, most, netVars, queue, giving, status>>
        /\ Beginning' = Beginning
    BY <1>2 DEF TypeInv, TypeOK, Connect, Disconnect, Restart, Connected, RegisterShutdown, UnregisterShutdown,
          ClearPointer, Unhandle, DeleteSemaphore, Reset, At, Running, Goto, Return, Beginning,
          callVars, statVars, semVars, netVars, evVars
  <2>2. /\ pc' \in [Callers -> {"idle", "make", "begin", "sem", "register", "wait",
                                "delete", "clear", "unhandle", "down", "unregister"}]
        /\ ret' \in [Callers -> {"none", "ok", "invalid_state"}]
        /\ restarting' \subseteq Callers
    BY <1>2 DEF TypeInv, TypeOK, Connect, Disconnect, Restart, Connected, RegisterShutdown, UnregisterShutdown,
          ClearPointer, Unhandle, DeleteSemaphore, Reset, At, Running, Goto, Return,
          callVars, statVars, semVars, netVars, evVars
  <2>3. /\ taken' \in [Callers -> 0 .. Len(Order) * Cardinality(Kinds)]
        /\ sem' \in 0 .. MaxSems /\ live' \subseteq 1 .. MaxSems /\ shutdown' \in BOOLEAN
        /\ handlers' \subseteq UNION {HandlersOf(i) : i \in Ifaces}
    BY <1>2, <2>0 DEF TypeInv, TypeOK, Connect, Disconnect, Restart, Connected, RegisterShutdown, UnregisterShutdown,
          ClearPointer, Unhandle, DeleteSemaphore, Reset, At, Running, Goto, Return,
          callVars, statVars, semVars, netVars, evVars
  <2>. QED
    BY <2>1, <2>2, <2>3 DEF TypeInv, TypeOK, ActiveBound, netVars
<1>. QED
  BY <1>1, <1>2

LEMMA NextIfaceType ==
  ASSUME TypeOK, NEW c \in Callers,
         NEW again \in {"make", "unhandle"}, NEW done \in {"sem", "unregister"}, NextIface(c, again, done)
  PROVE  /\ pc' \in [Callers -> {"idle", "make", "begin", "sem", "register", "wait",
                                 "delete", "clear", "unhandle", "down", "unregister"}]
         /\ at' \in [Callers -> 1 .. Len(Order)]
         /\ pc'[c] # "begin" /\ \A d \in Callers \ {c} : pc'[d] = pc[d]
<1>1. at[c] \in 1 .. Len(Order) /\ Len(Order) \in Nat
  BY OrderFacts DEF TypeOK
<1>2. CASE at[c] < Len(Order)
  <2>1. at[c] + 1 \in 1 .. Len(Order)
    BY <1>1, <1>2
  <2>. QED
    BY <1>2, <2>1 DEF TypeOK, NextIface, Goto
<1>3. CASE ~ (at[c] < Len(Order))
  <2>1. 1 \in 1 .. Len(Order)
    BY <1>1
  <2>. QED
    BY <1>3, <2>1 DEF TypeOK, NextIface, Goto
<1>. QED
  BY <1>2, <1>3

LEMMA MakeType ==
  ASSUME TypeInv, NEW c \in Callers, MakeIface(c)
  PROVE  TypeInv'
<1>1. CASE Abort("panic")
  BY <1>1, AbortType
<1>2. CASE ~ Abort("panic")
  <2> DEFINE i == Iface(c)
  <2>1. i \in Ifaces /\ i \notin netifs
    BY <1>2, OrderFacts DEF TypeInv, TypeOK, MakeIface, Iface, Places
  <2>2. Beginning' = Beginning \cup {c} /\ c \notin Beginning /\ netifs' = netifs \cup {i} /\ UNCHANGED active
    <3>1. /\ pc' = [pc EXCEPT ![c] = "begin"] /\ pc[c] = "make"
          /\ netifs' = netifs \cup {i} /\ UNCHANGED active
      BY <1>2, <2>1 DEF MakeIface, At, Goto, statVars
    <3>. QED
      BY <3>1 DEF TypeInv, TypeOK, Beginning
  <2>3. ActiveBound'
    <3>1. Cardinality(Beginning') = Cardinality(Beginning) + 1 /\ Cardinality(netifs') = Cardinality(netifs) + 1
      BY <2>1, <2>2, OneMore, FiniteParts DEF TypeInv
    <3>. QED
      BY <2>2, <3>1, FiniteParts DEF TypeInv, ActiveBound, TypeOK
  <2>4. /\ pc' = [pc EXCEPT ![c] = "begin"] /\ netifs' = netifs \cup {i}
        /\ driver' = [driver EXCEPT ![i] = "init"] /\ handlers' = handlers \cup HandlersOf(i)
        /\ UNCHANGED <<at, taken, ret, restarting, sem, active, netifPtr, live, nextSem, permits, most,
                       shutdown, link, local6, got, queue, giving, status>>
    BY <1>2, <2>1 DEF MakeIface, Goto, semVars, statVars
  <2>. QED
    BY <2>1, <2>3, <2>4 DEF TypeInv, TypeOK
<1>. QED
  BY <1>1, <1>2

LEMMA BeginType ==
  ASSUME TypeInv, NEW c \in Callers, BeginIface(c)
  PROVE  TypeInv'
<1>1. CASE Abort("panic")
  BY <1>1, AbortType
<1>2. CASE ~ Abort("panic")
  <2>1. Iface(c) \in Ifaces
    BY OrderFacts DEF TypeInv, TypeOK, Iface, Places
  <2>2. NextIface(c, "make", "sem")
    BY <1>2 DEF BeginIface
  <2>3. Beginning' = Beginning \ {c} /\ c \in Beginning /\ netifs' = netifs /\ active' = active + 1
    BY <1>2, <2>2, NextIfaceType DEF TypeInv, BeginIface, At, Beginning
  <2>4. ActiveBound'
    <3>1. Cardinality(Beginning') = Cardinality(Beginning) - 1
      BY <2>3, OneLess, FiniteParts DEF TypeInv
    <3>. QED
      BY SMTT(60), <2>3, <3>1, FiniteParts DEF TypeInv, ActiveBound, TypeOK
  <2>5. /\ driver' = [driver EXCEPT ![Iface(c)] = "on"] /\ link' = [link EXCEPT ![Iface(c)] = "joining"]
        /\ got' = [got EXCEPT ![Iface(c)] = {}] /\ netifPtr' = Iface(c) /\ active' = active + 1
        /\ UNCHANGED <<taken, ret, restarting, sem, live, nextSem, permits, most,
                       shutdown, netifs, local6, handlers, queue, giving, status>>
    BY <1>2 DEF BeginIface, semVars, evVars
  <2>6. /\ pc' \in [Callers -> {"idle", "make", "begin", "sem", "register", "wait",
                                "delete", "clear", "unhandle", "down", "unregister"}]
        /\ at' \in [Callers -> 1 .. Len(Order)]
    BY <2>2, NextIfaceType DEF TypeInv
  <2>. QED
    BY <2>1, <2>4, <2>5, <2>6 DEF TypeInv, TypeOK
<1>. QED
  BY <1>1, <1>2

LEMMA MakeSemaphoreType ==
  ASSUME TypeInv, NEW c \in Callers, MakeSemaphore(c)
  PROVE  TypeInv'
<1>1. Beginning' = Beginning
  BY DEF TypeInv, TypeOK, MakeSemaphore, At, Goto, Beginning
<1>2. ActiveBound'
  BY <1>1 DEF TypeInv, ActiveBound, MakeSemaphore, netVars
<1>3. Expected \in Int
  BY KindCount DEF TypeInv, TypeOK, Expected
<1>. QED
  BY <1>2, <1>3, BoundAssumption DEF TypeInv, TypeOK, MakeSemaphore, At, Goto, netVars, evVars

LEMMA TakeType ==
  ASSUME TypeInv, NEW c \in Callers, Take(c)
  PROVE  TypeInv'
<1>1. CASE Abort("panic")
  BY <1>1, AbortType
<1>2. CASE ~ Abort("panic")
  <2>1. active <= Len(Order) /\ active \in Int /\ taken[c] \in Nat /\ taken[c] < Expected
    <3>1. Cardinality(Beginning) \in Nat /\ Cardinality(netifs) \in 0 .. Len(Order) /\ Len(Order) \in Nat
      BY FiniteParts, OrderFacts DEF TypeInv
    <3>2. active \in Int /\ active + Cardinality(Beginning) <= Cardinality(netifs)
      BY DEF TypeInv, ActiveBound, TypeOK
    <3>3. taken[c] \in Nat /\ taken[c] < Expected
      BY KindCount, OrderFacts DEF TypeInv, TypeOK, Take
    <3>. QED
      BY <3>1, <3>2, <3>3
  <2>2. taken[c] + 1 <= Len(Order) * Cardinality(Kinds)
    BY <2>1, KindCount, OrderFacts DEF Expected
  <2>3. Len(Order) * Cardinality(Kinds) \in Nat
    BY KindCount, OrderFacts
  <2>4. taken' \in [Callers -> 0 .. Len(Order) * Cardinality(Kinds)] /\ permits' \in Nat
    <3>1. permits \in Nat /\ permits > 0 /\ permits' = permits - 1 /\ taken' = [taken EXCEPT ![c] = @ + 1]
      BY <1>2 DEF TypeInv, TypeOK, Take
    <3>2. taken[c] + 1 \in 0 .. Len(Order) * Cardinality(Kinds)
      BY <2>1, <2>2, <2>3
    <3>. QED
      BY <3>1, <3>2 DEF TypeInv, TypeOK
  <2>. QED
    BY <1>2, <2>4 DEF TypeInv, TypeOK, ActiveBound, Beginning, Take, statVars, netVars, evVars
<1>. QED
  BY <1>1, <1>2

(* Events that lose their netif are still events.                          *)
LEMMA OrphanedType ==
  ASSUME NEW q \in Seq(Events), NEW i
  PROVE  /\ Orphaned(q, i) \in Seq(Events) /\ DOMAIN Orphaned(q, i) = DOMAIN q
         /\ \A k \in DOMAIN q : /\ Orphaned(q, i)[k].id = q[k].id
                                /\ Orphaned(q, i)[k].wanted = q[k].wanted
                                /\ Orphaned(q, i)[k].netif = IF q[k].netif = i THEN "freed" ELSE q[k].netif
<1>1. Len(q) \in Nat /\ DOMAIN q = 1 .. Len(q) /\ \A k \in 1 .. Len(q) : q[k] \in Events
  OBVIOUS
<1>2. ASSUME NEW e \in Events
      PROVE  /\ [e EXCEPT !.netif = "freed"] \in Events
             /\ [e EXCEPT !.netif = "freed"].netif = "freed"
             /\ [e EXCEPT !.netif = "freed"].id = e.id
             /\ [e EXCEPT !.netif = "freed"].wanted = e.wanted
  BY DEF Events
<1>3. Orphaned(q, i) \in [1 .. Len(q) -> Events]
  BY <1>1, <1>2 DEF Orphaned
<1>4. Orphaned(q, i) \in Seq(Events)
  BY <1>1, <1>3, SeqDef
<1>. QED
  BY <1>1, <1>2, <1>4 DEF Orphaned

LEMMA DownType ==
  ASSUME TypeInv, NEW c \in Callers, DownIface(c)
  PROVE  TypeInv'
<1>1. CASE Abort("corrupt")
  BY <1>1, AbortType
<1>2. CASE ~ Abort("corrupt")
  <2> DEFINE i == Iface(c)
  <2>1. i \in Ifaces
    BY OrderFacts DEF TypeInv, TypeOK, Iface, Places
  <2>2. NextIface(c, "unhandle", "unregister") /\ active' = active - 1
    BY <1>2 DEF DownIface
  <2>3. Beginning' = Beginning
    BY <1>2, <2>2, NextIfaceType DEF TypeInv, DownIface, At, Beginning
  <2>4. /\ driver' \in [Ifaces -> {"off", "init", "on"}] /\ link' \in [Ifaces -> {"down", "joining", "up"}]
        /\ local6' \subseteq Ifaces /\ netifPtr' \in Ifaces \cup {NoNetif} /\ queue' \in Seq(Events)
        /\ netifs' \in {netifs, netifs \ {i}}
    <3>1. CASE Release(i)
      BY <2>1, <3>1, OrphanedType DEF TypeInv, TypeOK, Release
    <3>2. CASE UNCHANGED <<driver, link, local6, netifs, queue, netifPtr>>
      BY <3>2 DEF TypeInv, TypeOK
    <3>. QED
      BY <1>2, <3>1, <3>2 DEF DownIface
  <2>5. Cardinality(netifs') >= Cardinality(netifs) - 1
    <3>1. CASE i \in netifs /\ netifs' = netifs \ {i}
      <4>1. Cardinality(netifs') = Cardinality(netifs) - 1
        BY <3>1, OneLess, FiniteParts DEF TypeInv
      <4>. QED
        BY <4>1, FiniteParts DEF TypeInv
    <3>2. CASE netifs' = netifs
      BY <3>2, FiniteParts DEF TypeInv
    <3>. QED
      BY <2>4, <3>1, <3>2
  <2>6. netifs' \subseteq Ifaces /\ IsFiniteSet(netifs') /\ Cardinality(netifs') \in Nat
    BY <2>4, FS_Subset, FS_CardinalityType, IfaceCount DEF TypeInv, TypeOK
  <2>7. ActiveBound'
    BY SMTT(60), <2>2, <2>3, <2>5, <2>6, FiniteParts DEF TypeInv, ActiveBound, TypeOK
  <2>. QED
    <3>1. UNCHANGED <<taken, ret, restarting, sem, live, nextSem, permits, most, shutdown, got, handlers,
                      giving, status>>
      BY <1>2 DEF DownIface, semVars
    <3>2. /\ pc' \in [Callers -> {"idle", "make", "begin", "sem", "register", "wait",
                                  "delete", "clear", "unhandle", "down", "unregister"}]
          /\ at' \in [Callers -> 1 .. Len(Order)]
      BY <2>2, NextIfaceType DEF TypeInv
    <3>. QED
      BY SMTT(60), <2>2, <2>4, <2>6, <2>7, <3>1, <3>2 DEF TypeInv, TypeOK
<1>. QED
  BY <1>1, <1>2

LEMMA DispatchType ==
  ASSUME TypeInv, Dispatch
  PROVE  TypeInv'
<1>1. queue' \in Seq(Events)
  BY HeadTailProperties DEF TypeInv, TypeOK, Dispatch
<1>2. link' \in [Ifaces -> {"down", "joining", "up"}] /\ local6' \subseteq Ifaces
  BY DEF TypeInv, TypeOK, Dispatch, OnLeft, OnJoined, OnGot
<1>3. giving' \in 0 .. MaxSems + 1 /\ status' \in {"running", "panic", "corrupt", "reset"}
  BY BoundAssumption DEF TypeInv, TypeOK, Dispatch, OnLeft, OnJoined, OnGot
<1>. QED
  BY <1>1, <1>2, <1>3 DEF TypeInv, TypeOK, ActiveBound, Beginning, Dispatch, callVars, statVars, semVars

LEMMA GiveType ==
  ASSUME TypeInv, Give
  PROVE  TypeInv'
<1>1. giving' \in 0 .. MaxSems + 1 /\ permits' \in Nat /\ status' \in {"running", "panic", "corrupt", "reset"}
  BY BoundAssumption DEF TypeInv, TypeOK, Give, Idle
<1>. QED
  BY <1>1 DEF TypeInv, TypeOK, ActiveBound, Beginning, Give, callVars, statVars, netVars

LEMMA EventType ==
  ASSUME NEW i \in Ifaces
  PROVE  /\ Event("left", i) \in Events /\ Event("got6", i) \in Events
         /\ Event(GotId[i], i) \in Events /\ Event(JoinedId[i], i) \in Events
         /\ Uncounted(i) \subseteq Events
<1>1. i = "sta" \/ i = "eth"
  BY OrderFacts
<1>2. GotId[i] \in {"got_sta", "got_eth"} /\ JoinedId[i] \in {"joined_sta", "joined_eth"}
  BY <1>1 DEF GotId, JoinedId
<1>3. /\ Event("left", i) \in Events /\ Event("got6", i) \in Events
      /\ Event(GotId[i], i) \in Events /\ Event(JoinedId[i], i) \in Events
      /\ Event(GotId[i], "other") \in Events
  BY <1>2 DEF Event, Events
<1>4. \A j \in local6 \cap {i} : [id |-> "got6", netif |-> j, wanted |-> FALSE] \in Events
  BY DEF Events
<1>. QED
  BY <1>3, <1>4 DEF Uncounted

LEMMA NetworkType ==
  ASSUME TypeInv, Network
  PROVE  TypeInv'
<1>0. /\ UNCHANGED <<callVars, statVars, semVars, shutdown, netifs, handlers, giving, status>>
  BY DEF Network, Join, Leave, Address, UncountedAddress, DeinitByOther, netVars, evVars
<1>1. ASSUME queue \in Seq(Events), NEW e \in Events, Post(e) PROVE queue' \in Seq(Events)
  BY <1>1, AppendProperties DEF Post
<1>2. ASSUME NEW i \in Ifaces, Join(i) \/ Leave(i) \/ UncountedAddress(i)
      PROVE  /\ driver' = driver /\ got' = got /\ link' \in [Ifaces -> {"down", "joining", "up"}]
             /\ local6' \subseteq Ifaces /\ queue' \in Seq(Events)
  BY <1>1, <1>2, EventType DEF TypeInv, TypeOK, Join, Leave, UncountedAddress, netVars
<1>3. ASSUME NEW i \in Ifaces, NEW k \in Kinds, Address(i, k)
      PROVE  /\ driver' = driver /\ got' \in [Ifaces -> SUBSET Kinds] /\ UNCHANGED <<link, local6>>
             /\ queue' \in Seq(Events)
  <2>1. Event(IF k = "ip6" THEN "got6" ELSE GotId[i], i) \in Events
    BY EventType
  <2>. QED
    BY <1>1, <1>3, <2>1 DEF TypeInv, TypeOK, Address
<1>4. ASSUME DeinitByOther
      PROVE  /\ driver' \in [Ifaces -> {"off", "init", "on"}] /\ link' \in [Ifaces -> {"down", "joining", "up"}]
             /\ local6' \subseteq Ifaces /\ got' = got /\ queue' = queue
  BY <1>4 DEF TypeInv, TypeOK, DeinitByOther, evVars
<1>5. /\ driver' \in [Ifaces -> {"off", "init", "on"}] /\ link' \in [Ifaces -> {"down", "joining", "up"}]
      /\ local6' \subseteq Ifaces /\ got' \in [Ifaces -> SUBSET Kinds] /\ queue' \in Seq(Events)
  BY <1>2, <1>3, <1>4 DEF TypeInv, TypeOK, Network
<1>. QED
  BY <1>0, <1>5 DEF TypeInv, TypeOK, ActiveBound, Beginning, callVars, statVars, semVars

LEMMA StepType == TypeInv /\ [Next]_vars => TypeInv'
<1> SUFFICES ASSUME TypeInv, [Next]_vars PROVE TypeInv'
  OBVIOUS
<1>1. CASE UNCHANGED vars
  BY <1>1 DEF TypeInv, TypeOK, ActiveBound, Beginning, vars, callVars, statVars, semVars, netVars, evVars
<1>2. ASSUME NEW c \in Callers, Connect(c) \/ Disconnect(c) \/ Restart(c) \/ Step(c) PROVE TypeInv'
  BY <1>2, CallType, MakeType, BeginType, MakeSemaphoreType, TakeType, DownType DEF Step
<1>. QED
  BY <1>1, <1>2, DispatchType, GiveType, NetworkType DEF Next

(* The types of every variable, and who takes the semaphore never does so  *)
(* more often than there can be addresses.                                 *)
THEOREM TypeCorrect == Spec => []TypeOK
<1>1. Spec => []TypeInv
  BY InitType, StepType, PTL DEF Spec
<1>. QED
  BY <1>1, PTL DEF TypeInv

-----------------------------------------------------------------------------
(* Who holds the interfaces.  From the making of a netif until it is taken *)
(* down each interface is in the hands of one call, or, in between, of the *)
(* semaphore.                                                              *)

(* A caller that starts has the interfaces it has made, one that stops     *)
(* those it has still to take down.                                        *)
Claims(c) ==
  {k \in Places :
     \/ pc[c] \in {"sem", "clear"}
     \/ pc[c] = "make" /\ k < at[c]
     \/ pc[c] = "begin" /\ k <= at[c]
     \/ pc[c] \in {"unhandle", "down"} /\ k >= at[c]}

(* Those of them that s_active_interfaces counts, and those with handlers. *)
Counts(c)  == {k \in Claims(c) : ~ (pc[c] = "begin" /\ k = at[c])}
Handles(c) == {k \in Claims(c) : ~ (pc[c] = "down" /\ k = at[c])}

Claimed == {k \in Places : live # {} \/ \E c \in Callers : k \in Claims(c)}
Counted == {k \in Places : live # {} \/ \E c \in Callers : k \in Counts(c)}
Handled == {k \in Places : live # {} \/ \E c \in Callers : k \in Handles(c)}

OneHolder ==
  /\ \A c, d \in Callers : c # d => Claims(c) \cap Claims(d) = {}
  /\ live # {} => \A c \in Callers : Claims(c) = {}

(* A caller that has registered the handlers of the last interface.        *)
AllSet(c) == pc[c] = "sem" \/ (pc[c] = "begin" /\ at[c] = Len(Order))

ClaimInv  == OneHolder /\ \A k \in Claimed : Order[k] \in netifs
DriverInv == \A k \in Places : driver[Order[k]] # "off" => k \in Claimed
ActiveInv == active = Cardinality(Counted)
HandlerInv ==
  /\ handlers \subseteq UNION {HandlersOf(Order[k]) : k \in Handled}
  /\ \A k \in Handled : HandlersOf(Order[k]) \ {"got6"} \subseteq handlers
  /\ IPv6 /\ (live # {} \/ \E c \in Callers : AllSet(c)) => "got6" \in handlers

OwnInv == ClaimInv /\ DriverInv /\ ActiveInv /\ HandlerInv

(* The pointer names the one semaphore there is, or one being deleted.     *)
SemInv ==
  /\ live \subseteq {sem}
  /\ sem # 0 /\ live = {} => \E c \in Callers : pc[c] = "clear"

(* Each semaphore leads to one registration of the shutdown handler, each  *)
(* deletion to one unregistration.                                         *)
Registering == {c \in Callers : pc[c] = "register"}
Ending == {c \in Callers : pc[c] \in {"clear", "unhandle", "down", "unregister"}}

ShutdownInv ==
  (IF live = {} THEN 0 ELSE 1) + Cardinality(Ending)
     = (IF shutdown THEN 1 ELSE 0) + Cardinality(Registering)

PlaceInv ==
  /\ \A c \in Callers : pc[c] \notin {"make", "begin", "unhandle", "down"} => at[c] = 1
  /\ \A c \in restarting : pc[c] \in {"unhandle", "down", "unregister"}

(* Once a task has begun to restart the chip, stop() runs without anybody  *)
(* having deleted the semaphore; but then that task never rests again.     *)
GuardInv == restarting = {} => OwnInv /\ SemInv /\ ShutdownInv

ConnInv == TypeInv /\ PlaceInv /\ GuardInv

LEMMA HandlersDiffer ==
  ASSUME NEW i \in Ifaces, NEW j \in Ifaces, i # j
  PROVE  HandlersOf(i) \cap HandlersOf(j) \subseteq {"got6"}
<1>1. (i = "sta" /\ j = "eth") \/ (i = "eth" /\ j = "sta")
  BY OrderFacts
<1>. QED
  BY <1>1 DEF HandlersOf, GotId, JoinedId

LEMMA PlaceStep ==
  ASSUME TypeInv, PlaceInv, [Next]_vars
  PROVE  PlaceInv'
<1>1. CASE UNCHANGED <<pc, at, restarting>>
  BY <1>1 DEF PlaceInv
<1>2. ASSUME NEW c \in Callers, ~ UNCHANGED <<pc, at, restarting>>,
             Connect(c) \/ Disconnect(c) \/ MakeIface(c) \/ MakeSemaphore(c) \/ RegisterShutdown(c)
               \/ Connected(c) \/ DeleteSemaphore(c) \/ ClearPointer(c) \/ Unhandle(c) \/ UnregisterShutdown(c)
      PROVE  PlaceInv'
  <2>1. /\ at' = at /\ restarting' = restarting
        /\ \A d \in Callers \ {c} : pc'[d] = pc[d]
    BY <1>2 DEF TypeInv, TypeOK, Connect, Disconnect, MakeIface, MakeSemaphore, RegisterShutdown, Connected,
                DeleteSemaphore, ClearPointer, Unhandle, UnregisterShutdown, Goto, Return, Abort, callVars
  <2>2. \/ pc'[c] \in {"make", "begin", "unhandle", "down"} /\ pc[c] \in {"idle", "make", "clear", "unhandle"}
        \/ /\ pc[c] \in {"idle", "sem", "register", "wait", "delete"}
           /\ pc'[c] \notin {"make", "begin", "unhandle", "down"}
        \/ pc[c] = "unregister" /\ c \notin restarting /\ pc'[c] = "idle"
    BY <1>2 DEF TypeInv, TypeOK, Connect, Disconnect, MakeIface, MakeSemaphore, RegisterShutdown, Connected,
                DeleteSemaphore, ClearPointer, Unhandle, UnregisterShutdown, At, Goto, Return, Abort, callVars
  <2>3. pc[c] = "unhandle" => pc'[c] = "down"
    BY <1>2 DEF TypeInv, TypeOK, Connect, Disconnect, MakeIface, MakeSemaphore, RegisterShutdown, Connected,
                DeleteSemaphore, ClearPointer, Unhandle, UnregisterShutdown, At, Goto
  <2>. QED
    BY <2>1, <2>2, <2>3 DEF PlaceInv, TypeInv, TypeOK
<1>3. ASSUME NEW c \in Callers, ~ UNCHANGED <<pc, at, restarting>>, BeginIface(c) \/ DownIface(c)
      PROVE  PlaceInv'
  <2>1. /\ restarting' = restarting
        /\ \/ pc[c] = "begin" /\ NextIface(c, "make", "sem")
           \/ pc[c] = "down" /\ NextIface(c, "unhandle", "unregister")
    BY <1>3 DEF BeginIface, DownIface, At, Abort, callVars
  <2>2. /\ \A d \in Callers \ {c} : pc'[d] = pc[d] /\ at'[d] = at[d]
        /\ \/ pc'[c] \in {"make", "unhandle"}
           \/ pc'[c] \in {"sem", "unregister"} /\ at'[c] = 1
        /\ pc[c] = "down" => pc'[c] \in {"unhandle", "unregister"}
    BY <2>1 DEF TypeInv, TypeOK, NextIface, Goto
  <2>. QED
    BY <2>1, <2>2 DEF PlaceInv, TypeInv, TypeOK
<1>4. ASSUME NEW c \in Callers, Restart(c) PROVE PlaceInv'
  BY <1>4 DEF TypeInv, TypeOK, PlaceInv, Restart, At, Goto
<1>5. ASSUME NEW c \in Callers, Take(c) \/ Reset(c) PROVE UNCHANGED <<pc, at, restarting>>
  BY <1>5 DEF Take, Reset, Abort, callVars
<1>6. Dispatch \/ Give \/ Network \/ UNCHANGED vars => UNCHANGED <<pc, at, restarting>>
  BY DEF Dispatch, Give, Network, Join, Leave, Address, UncountedAddress, DeinitByOther, vars, callVars
<1>. QED
  BY <1>1, <1>2, <1>3, <1>4, <1>5, <1>6 DEF Next, Step

LEMMA OthersKeep ==
  ASSUME NEW d \in Callers, pc'[d] = pc[d], at'[d] = at[d]
  PROVE  /\ Claims(d)' = Claims(d) /\ Counts(d)' = Counts(d) /\ Handles(d)' = Handles(d)
         /\ AllSet(d)' = AllSet(d)
BY DEF Claims, Counts, Handles, AllSet

(* What can be said of a caller's claims by where it is.                   *)
LEMMA ClaimsByPlace ==
  ASSUME TypeOK, NEW c \in Callers
  PROVE  /\ at[c] \in Places /\ Claims(c) \subseteq Places
         /\ pc[c] \in {"sem", "clear"} => Claims(c) = Places
         /\ pc[c] = "make" => Claims(c) = {k \in Places : k < at[c]}
         /\ pc[c] = "begin" => Claims(c) = {k \in Places : k <= at[c]}
         /\ pc[c] \in {"unhandle", "down"} => Claims(c) = {k \in Places : k >= at[c]}
         /\ pc[c] \in {"idle", "register", "wait", "delete", "unregister"} => Claims(c) = {}
         /\ pc[c] # "begin" => Counts(c) = Claims(c)
         /\ pc[c] # "down" => Handles(c) = Claims(c)
         /\ AllSet(c) => Len(Order) \in Claims(c)
BY OrderFacts DEF TypeOK, Claims, Counts, Handles, AllSet, Places

LEMMA CountedIsFinite == IsFiniteSet(Counted) /\ Cardinality(Counted) \in Nat
<1>1. Counted \subseteq Places /\ IsFiniteSet(Places)
  BY OrderFacts, FS_Interval DEF Counted, Places
<1>. QED
  BY <1>1, FS_Subset, FS_CardinalityType

(* A step that changes no claim, and starts no driver.                     *)
LEMMA SameClaims ==
  ASSUME OwnInv, live' = live \/ (live # {} /\ live' # {}),
         \A d \in Callers : /\ Claims(d)' = Claims(d) /\ Counts(d)' = Counts(d) /\ Handles(d)' = Handles(d)
                            /\ AllSet(d)' = AllSet(d),
         UNCHANGED <<netifs, active, handlers>>,
         \A k \in Places : driver'[Order[k]] # "off" => driver[Order[k]] # "off"
  PROVE  OwnInv' /\ Claimed' = Claimed
<1>1. Claimed' = Claimed /\ Counted' = Counted /\ Handled' = Handled
  BY DEF Claimed, Counted, Handled
<1>. QED
  BY <1>1 DEF OwnInv, ClaimInv, OneHolder, DriverInv, ActiveInv, HandlerInv

(* The semaphore and a caller hand everything to each other.               *)
LEMMA AllClaims ==
  ASSUME TypeInv, OwnInv, NEW c \in Callers, NEW d \in Callers, c # d, Claims(c) = Places
  PROVE  live = {} /\ Claims(d) = {}
BY OrderFacts DEF OwnInv, ClaimInv, OneHolder, Claims

LEMMA HandsOver ==
  ASSUME TypeInv, TypeInv', OwnInv, NEW c \in Callers,
         \A d \in Callers \ {c} : pc'[d] = pc[d] /\ at'[d] = at[d],
         UNCHANGED <<netifs, active, handlers, driver>>,
         \/ pc[c] = "sem" /\ pc'[c] = "register" /\ live = {} /\ live' # {}
         \/ pc[c] = "delete" /\ pc'[c] = "clear" /\ live # {} /\ live' = {}
         \/ pc[c] = "clear" /\ pc'[c] = "unhandle" /\ at'[c] = 1 /\ live' = live
  PROVE  OwnInv' /\ Claimed' = Claimed
<1>1. \A d \in Callers \ {c} : /\ Claims(d)' = Claims(d) /\ Counts(d)' = Counts(d) /\ Handles(d)' = Handles(d)
                               /\ AllSet(d)' = AllSet(d)
  BY OthersKeep
<1>2. \A d \in Callers : /\ AllSet(d) => Len(Order) \in Claims(d)
                         /\ Counts(d) \subseteq Claims(d) /\ Handles(d) \subseteq Claims(d)
  BY ClaimsByPlace DEF TypeInv, Counts, Handles
<1>3. Len(Order) \in Places /\ 1 \in Places /\ \A k \in Places : k >= 1
  BY OrderFacts DEF Places
<1>4. CASE pc[c] = "sem"
  <2>1. /\ Claims(c) = Places /\ Counts(c) = Places /\ Handles(c) = Places /\ AllSet(c)
        /\ Claims(c)' = {} /\ Counts(c)' = {} /\ Handles(c)' = {}
    BY <1>4, <1>3 DEF Claims, Counts, Handles, AllSet
  <2>2. \A d \in Callers \ {c} : Claims(d) = {}
    BY <2>1, AllClaims
  <2>3. live' # {} /\ live = {}
    BY <1>4
  <2>4. Claimed' = Claimed /\ Counted' = Counted /\ Handled' = Handled
    BY <2>1, <2>3 DEF Claimed, Counted, Handled
  <2>. QED
    BY <1>1, <2>1, <2>2, <2>3, <2>4 DEF OwnInv, ClaimInv, OneHolder, DriverInv, ActiveInv, HandlerInv
<1>5. CASE pc[c] = "delete"
  <2>1. /\ Claims(c)' = Places /\ Counts(c)' = Places /\ Handles(c)' = Places /\ ~ AllSet(c)'
    BY <1>5, <1>3 DEF Claims, Counts, Handles, AllSet
  <2>2. live # {} /\ live' = {} /\ \A d \in Callers : Claims(d) = {}
    BY <1>5 DEF OwnInv, ClaimInv, OneHolder
  <2>3. \A d \in Callers : ~ AllSet(d)'
    BY <1>1, <1>2, <2>1, <2>2
  <2>4. Claimed' = Claimed /\ Counted' = Counted /\ Handled' = Handled
    BY <2>1, <2>2 DEF Claimed, Counted, Handled
  <2>. QED
    BY <1>1, <2>1, <2>2, <2>3, <2>4 DEF OwnInv, ClaimInv, OneHolder, DriverInv, ActiveInv, HandlerInv
<1>6. CASE pc[c] = "clear"
  <2>1. /\ Claims(c) = Places /\ Counts(c) = Places /\ Handles(c) = Places
        /\ Claims(c)' = Places /\ Counts(c)' = Places /\ Handles(c)' = Places /\ AllSet(c)' = AllSet(c)
    BY <1>6, <1>3 DEF Claims, Counts, Handles, AllSet
  <2>2. live' = live /\ UNCHANGED <<netifs, active, handlers>> /\ driver' = driver
    BY <1>6
  <2>3. \A d \in Callers : /\ Claims(d)' = Claims(d) /\ Counts(d)' = Counts(d) /\ Handles(d)' = Handles(d)
                           /\ AllSet(d)' = AllSet(d)
    BY <1>1, <2>1
  <2>. QED
    BY <2>2, <2>3, SameClaims
<1>. QED
  BY <1>4, <1>5, <1>6

LEMMA MakeOwn ==
  ASSUME TypeInv, TypeInv', OwnInv, NEW c \in Callers, MakeIface(c), Iface(c) \notin netifs
  PROVE  OwnInv' /\ Claimed' = Claimed \cup {at[c]}
<1> DEFINE k0 == at[c]
<1>1. /\ pc[c] = "make" /\ pc' = [pc EXCEPT ![c] = "begin"] /\ netifs' = netifs \cup {Order[k0]}
      /\ driver' = [driver EXCEPT ![Order[k0]] = "init"] /\ handlers' = handlers \cup HandlersOf(Order[k0])
      /\ at' = at /\ active' = active /\ live' = live /\ Order[k0] \notin netifs
  BY DEF MakeIface, At, Goto, Iface, statVars, semVars
<1>2. k0 \in Places /\ k0 \notin Claimed
  BY <1>1, ClaimsByPlace DEF OwnInv, ClaimInv, TypeInv
<1>3. live = {} /\ \A d \in Callers : k0 \notin Claims(d)
  BY <1>2 DEF Claimed
<1>4. \A d \in Callers \ {c} : /\ Claims(d)' = Claims(d) /\ Counts(d)' = Counts(d) /\ Handles(d)' = Handles(d)
                               /\ AllSet(d)' = AllSet(d)
  BY <1>1, OthersKeep DEF TypeInv, TypeOK
<1>5. pc'[c] = "begin" /\ at'[c] = k0
  BY <1>1 DEF TypeInv, TypeOK
<1>6. /\ Claims(c)' = Claims(c) \cup {k0} /\ Counts(c)' = Counts(c) /\ Handles(c)' = Handles(c) \cup {k0}
  <2>1. k0 \in 1 .. Len(Order) /\ Len(Order) \in Nat
    BY <1>2, OrderFacts DEF Places
  <2>2. Claims(c) = {k \in Places : k < k0} /\ Claims(c)' = {k \in Places : k <= k0}
    BY <1>1, <1>5 DEF Claims
  <2>. QED
    BY <1>1, <1>2, <1>5, <2>1, <2>2 DEF Counts, Handles, Places
<1>7. ~ AllSet(c) /\ (AllSet(c)' => k0 = Len(Order))
  BY <1>1, <1>5 DEF AllSet
<1>8. Claimed' = Claimed \cup {k0} /\ Counted' = Counted /\ Handled' = Handled \cup {k0}
  BY <1>1, <1>2, <1>3, <1>4, <1>6 DEF Claimed, Counted, Handled
<1>9. ClaimInv'
  BY <1>1, <1>3, <1>4, <1>6, <1>8 DEF OwnInv, ClaimInv, OneHolder
<1>10. DriverInv'
  <2>1. \A k \in Places : k # k0 => driver'[Order[k]] = driver[Order[k]]
    BY <1>1, <1>2, OrderFacts DEF TypeInv, TypeOK
  <2>. QED
    BY <1>8, <2>1 DEF OwnInv, DriverInv
<1>11. HandlerInv'
  <2>1. \A k \in Handled' : HandlersOf(Order[k]) \ {"got6"} \subseteq handlers'
    BY <1>1, <1>8 DEF OwnInv, HandlerInv
  <2>2. handlers' \subseteq UNION {HandlersOf(Order[k]) : k \in Handled'}
    BY <1>1, <1>8 DEF OwnInv, HandlerInv
  <2>3. IPv6 /\ (live' # {} \/ \E d \in Callers : AllSet(d)') => "got6" \in handlers'
    <3>1. IPv6 => "got6" \in HandlersOf(Order[k0])
      BY DEF HandlersOf
    <3>. QED
      BY <1>1, <1>3, <1>4, <3>1 DEF OwnInv, HandlerInv
  <2>. QED
    BY <2>1, <2>2, <2>3 DEF HandlerInv
<1>. QED
  BY <1>1, <1>8, <1>9, <1>10, <1>11 DEF OwnInv, ActiveInv

LEMMA BeginOwn ==
  ASSUME TypeInv, TypeInv', OwnInv, NEW c \in Callers, BeginIface(c), driver[Iface(c)] = "init"
  PROVE  OwnInv' /\ Claimed' = Claimed /\ at[c] \in Claimed
<1> DEFINE k0 == at[c]
<1>1. /\ pc[c] = "begin" /\ NextIface(c, "make", "sem") /\ active' = active + 1
      /\ driver' = [driver EXCEPT ![Order[k0]] = "on"] /\ driver[Order[k0]] = "init"
      /\ UNCHANGED <<live, netifs, handlers>>
  BY DEF BeginIface, At, Iface, semVars, evVars
<1>2. /\ \A d \in Callers \ {c} : pc'[d] = pc[d] /\ at'[d] = at[d]
      /\ \/ k0 < Len(Order) /\ pc'[c] = "make" /\ at'[c] = k0 + 1
         \/ k0 = Len(Order) /\ pc'[c] = "sem"
  BY SMTT(60), <1>1, OrderFacts DEF NextIface, Goto, TypeInv, TypeOK
<1>3. k0 \in Places /\ Places = 1 .. Len(Order) /\ k0 \in Claims(c) /\ Len(Order) \in Nat
  BY <1>1, ClaimsByPlace, OrderFacts DEF TypeInv, Claims, Places
<1>4. Claims(c)' = Claims(c) /\ Counts(c)' = Claims(c) /\ Counts(c) = Claims(c) \ {k0} /\ Handles(c)' = Handles(c)
  <2>1. Claims(c) = {k \in Places : k <= k0}
    BY <1>1 DEF Claims
  <2>2. Claims(c)' = {k \in Places : k <= k0}
    BY <1>2, <1>3 DEF Claims
  <2>. QED
    BY <1>1, <1>2, <2>1, <2>2 DEF Counts, Handles
<1>5. \A d \in Callers \ {c} : /\ Claims(d)' = Claims(d) /\ Counts(d)' = Counts(d) /\ Handles(d)' = Handles(d)
                               /\ AllSet(d)' = AllSet(d) /\ k0 \notin Claims(d)
  BY <1>2, <1>3, OthersKeep DEF OwnInv, ClaimInv, OneHolder
<1>6. live = {} /\ (AllSet(c)' => AllSet(c))
  BY <1>1, <1>2, <1>3 DEF OwnInv, ClaimInv, OneHolder, AllSet
<1>7. Claimed' = Claimed /\ Counted' = Counted \cup {k0} /\ k0 \notin Counted /\ Handled' = Handled
  <2>1. \A d \in Callers \ {c} : k0 \notin Counts(d)
    BY <1>5 DEF Counts
  <2>. QED
    BY <1>1, <1>3, <1>4, <1>5, <1>6, <2>1 DEF Claimed, Counted, Handled
<1>8. Cardinality(Counted') = Cardinality(Counted) + 1
  BY <1>7, OneMore, CountedIsFinite
<1>9. k0 \in Claimed /\ \A k \in Places : k # k0 => driver'[Order[k]] = driver[Order[k]]
  BY <1>1, <1>3, OrderFacts DEF TypeInv, TypeOK, Claimed
<1>10. ClaimInv' /\ DriverInv'
  BY <1>1, <1>4, <1>5, <1>6, <1>7, <1>9 DEF OwnInv, ClaimInv, OneHolder, DriverInv
<1>11. HandlerInv'
  BY <1>1, <1>5, <1>6, <1>7 DEF OwnInv, HandlerInv
<1>. QED
  BY <1>1, <1>7, <1>8, <1>9, <1>10, <1>11 DEF OwnInv, ActiveInv

LEMMA UnhandleOwn ==
  ASSUME TypeInv, TypeInv', OwnInv, NEW c \in Callers, Unhandle(c)
  PROVE  OwnInv' /\ Claimed' = Claimed
<1> DEFINE k0 == at[c]
<1>1. /\ pc[c] = "unhandle" /\ pc' = [pc EXCEPT ![c] = "down"] /\ at' = at
      /\ handlers' = handlers \ HandlersOf(Order[k0]) /\ UNCHANGED <<live, netifs, driver, active>>
  BY DEF Unhandle, At, Goto, Iface, statVars, semVars, netVars
<1>2. k0 \in Places /\ Len(Order) \in Nat /\ Places = 1 .. Len(Order) /\ k0 \in Claims(c) /\ Len(Order) \in Claims(c)
  BY <1>1, ClaimsByPlace, OrderFacts DEF TypeInv, Claims, Places
<1>3. \A d \in Callers \ {c} : /\ Claims(d)' = Claims(d) /\ Counts(d)' = Counts(d) /\ Handles(d)' = Handles(d)
                               /\ AllSet(d)' = AllSet(d) /\ k0 \notin Claims(d) /\ Len(Order) \notin Claims(d)
  BY <1>1, <1>2, OthersKeep DEF OwnInv, ClaimInv, OneHolder, TypeInv, TypeOK
<1>4. pc'[c] = "down" /\ at'[c] = k0
  BY <1>1 DEF TypeInv, TypeOK
<1>5. Claims(c)' = Claims(c) /\ Counts(c)' = Counts(c) /\ Handles(c)' = Handles(c) \ {k0}
  BY <1>1, <1>4 DEF Claims, Counts, Handles
<1>6. live = {} /\ \A d \in Callers : ~ AllSet(d)'
  BY <1>2, <1>3, <1>4, ClaimsByPlace DEF OwnInv, ClaimInv, OneHolder, TypeInv, AllSet
<1>7. Claimed' = Claimed /\ Counted' = Counted /\ Handled' = Handled \ {k0}
  <2>1. \A d \in Callers \ {c} : k0 \notin Handles(d)
    BY <1>3 DEF Handles
  <2>. QED
    BY <1>1, <1>3, <1>5, <1>6, <2>1 DEF Claimed, Counted, Handled
<1>8. ClaimInv' /\ DriverInv' /\ ActiveInv'
  BY <1>1, <1>3, <1>5, <1>7 DEF OwnInv, ClaimInv, OneHolder, DriverInv, ActiveInv
<1>9. HandlerInv'
  <2>1. handlers' \subseteq UNION {HandlersOf(Order[k]) : k \in Handled'}
    BY <1>1, <1>7 DEF OwnInv, HandlerInv
  <2>2. ASSUME NEW k \in Handled' PROVE HandlersOf(Order[k]) \ {"got6"} \subseteq handlers'
    <3>1. k \in Handled /\ k # k0 /\ k \in Places
      BY <1>7 DEF Handled
    <3>2. HandlersOf(Order[k]) \cap HandlersOf(Order[k0]) \subseteq {"got6"}
      BY <1>2, <3>1, HandlersDiffer, OrderFacts
    <3>. QED
      BY <1>1, <3>1, <3>2 DEF OwnInv, HandlerInv
  <2>. QED
    BY <1>1, <1>6, <2>1, <2>2 DEF HandlerInv
<1>. QED
  BY <1>7, <1>8, <1>9 DEF OwnInv

LEMMA DownOwn ==
  ASSUME TypeInv, TypeInv', OwnInv, NEW c \in Callers, DownIface(c), ~ Abort("corrupt")
  PROVE  OwnInv' /\ Claimed' = Claimed \ {at[c]} /\ at[c] \in Claimed
<1> DEFINE k0 == at[c]
<1>1. /\ pc[c] = "down" /\ NextIface(c, "unhandle", "unregister") /\ active' = active - 1
      /\ UNCHANGED <<live, handlers>>
      /\ \/ driver[Order[k0]] = "off" /\ UNCHANGED <<driver, netifs>>
         \/ driver' = [driver EXCEPT ![Order[k0]] = "off"] /\ netifs' = netifs \ {Order[k0]}
  BY DEF DownIface, Release, At, Iface, semVars
<1>2. /\ \A d \in Callers \ {c} : pc'[d] = pc[d] /\ at'[d] = at[d]
      /\ \/ k0 < Len(Order) /\ pc'[c] = "unhandle" /\ at'[c] = k0 + 1
         \/ k0 = Len(Order) /\ pc'[c] = "unregister"
  BY SMTT(60), <1>1, OrderFacts DEF NextIface, Goto, TypeInv, TypeOK
<1>3. k0 \in Places /\ Places = 1 .. Len(Order) /\ k0 \in Claims(c) /\ Len(Order) \in Nat
  BY <1>1, ClaimsByPlace, OrderFacts DEF TypeInv, Claims, Places
<1>4. /\ Claims(c)' = Claims(c) \ {k0} /\ Counts(c) = Claims(c) /\ Counts(c)' = Claims(c)'
      /\ Handles(c) = Claims(c) \ {k0} /\ Handles(c)' = Claims(c)' /\ ~ AllSet(c)'
  <2>1. Claims(c) = {k \in Places : k >= k0}
    BY <1>1 DEF Claims
  <2>2. Claims(c)' = {k \in Places : k >= k0 + 1}
    BY <1>2, <1>3 DEF Claims
  <2>3. {k \in Places : k >= k0 + 1} = {k \in Places : k >= k0} \ {k0}
    BY <1>3
  <2>. QED
    BY <1>1, <1>2, <2>1, <2>2, <2>3 DEF Counts, Handles, AllSet
<1>5. \A d \in Callers \ {c} : /\ Claims(d)' = Claims(d) /\ Counts(d)' = Counts(d) /\ Handles(d)' = Handles(d)
                               /\ AllSet(d)' = AllSet(d) /\ k0 \notin Claims(d)
  BY <1>2, <1>3, OthersKeep DEF OwnInv, ClaimInv, OneHolder
<1>6. live = {}
  BY <1>3 DEF OwnInv, ClaimInv, OneHolder
<1>7. /\ Claimed' = Claimed \ {k0} /\ k0 \in Claimed
      /\ Counted' = Counted \ {k0} /\ k0 \in Counted /\ Handled' = Handled
  <2>1. \A d \in Callers \ {c} : k0 \notin Counts(d)
    BY <1>5 DEF Counts
  <2>2. Claimed' = Claimed \ {k0} /\ k0 \in Claimed
    BY <1>1, <1>3, <1>4, <1>5, <1>6 DEF Claimed
  <2>3. Counted' = Counted \ {k0} /\ k0 \in Counted
    BY <1>1, <1>3, <1>4, <1>5, <1>6, <2>1 DEF Counted
  <2>4. Handled' = Handled
    BY <1>1, <1>4, <1>5, <1>6 DEF Handled
  <2>. QED
    BY <2>2, <2>3, <2>4
<1>8. Cardinality(Counted') = Cardinality(Counted) - 1
  BY <1>7, OneLess, CountedIsFinite
<1>9. \A k \in Places : k # k0 => driver'[Order[k]] = driver[Order[k]] /\ Order[k] # Order[k0]
  BY <1>1, <1>3, OrderFacts DEF TypeInv, TypeOK
<1>10. driver'[Order[k0]] = "off"
  BY <1>1, <1>3, OrderFacts DEF TypeInv, TypeOK
<1>11. ClaimInv'
  <2>1. OneHolder'
    BY <1>1, <1>4, <1>5, <1>6 DEF OwnInv, ClaimInv, OneHolder
  <2>2. ASSUME NEW k \in Claimed' PROVE Order[k] \in netifs'
    BY <1>1, <1>7, <1>9 DEF OwnInv, ClaimInv, Claimed
  <2>. QED
    BY <2>1, <2>2 DEF ClaimInv
<1>12. DriverInv'
  BY <1>7, <1>9, <1>10 DEF OwnInv, DriverInv
<1>13. HandlerInv'
  BY <1>1, <1>4, <1>5, <1>6, <1>7 DEF OwnInv, HandlerInv
<1>. QED
  BY <1>1, <1>7, <1>8, <1>11, <1>12, <1>13 DEF OwnInv, ActiveInv

LEMMA ShutdownSteps ==
  ASSUME TypeInv, TypeInv', NEW c \in Callers,
         \A d \in Callers \ {c} : pc'[d] = pc[d],
         ShutdownInv,
         \/ /\ pc[c] \in {"clear", "unhandle", "down", "unregister"} <=> pc'[c] \in {"clear", "unhandle", "down", "unregister"}
            /\ pc[c] = "register" <=> pc'[c] = "register"
            /\ live' = live /\ shutdown' = shutdown
         \/ pc[c] = "sem" /\ pc'[c] = "register" /\ live = {} /\ live' # {} /\ shutdown' = shutdown
         \/ pc[c] = "delete" /\ pc'[c] = "clear" /\ live # {} /\ live' = {} /\ shutdown' = shutdown
         \/ pc[c] = "register" /\ pc'[c] = "wait" /\ live' = live /\ ~ shutdown /\ shutdown'
         \/ pc[c] = "unregister" /\ pc'[c] = "idle" /\ live' = live /\ shutdown /\ ~ shutdown'
  PROVE  ShutdownInv'
<1>1. /\ IsFiniteSet(Ending) /\ IsFiniteSet(Registering)
      /\ Cardinality(Ending) \in Nat /\ Cardinality(Registering) \in Nat
  <2>1. Ending \subseteq Callers /\ Registering \subseteq Callers
    BY DEF Ending, Registering
  <2>. QED
    BY <2>1, CallersAssumption, FS_Subset, FS_CardinalityType
<1>2. CASE /\ pc[c] \in {"clear", "unhandle", "down", "unregister"} <=> pc'[c] \in {"clear", "unhandle", "down", "unregister"}
           /\ pc[c] = "register" <=> pc'[c] = "register"
           /\ live' = live /\ shutdown' = shutdown
  <2>1. Ending' = Ending /\ Registering' = Registering
    BY <1>2 DEF Ending, Registering
  <2>. QED
    BY <1>2, <2>1 DEF ShutdownInv
<1>3. CASE pc[c] = "sem" /\ pc'[c] = "register" /\ live = {} /\ live' # {} /\ shutdown' = shutdown
  <2>1. Ending' = Ending /\ Registering' = Registering \cup {c} /\ c \notin Registering
    BY <1>3 DEF Ending, Registering
  <2>2. Cardinality(Registering') = Cardinality(Registering) + 1
    BY <1>1, <2>1, OneMore
  <2>. QED
    BY <1>1, <1>3, <2>1, <2>2 DEF ShutdownInv
<1>4. CASE pc[c] = "delete" /\ pc'[c] = "clear" /\ live # {} /\ live' = {} /\ shutdown' = shutdown
  <2>1. Ending' = Ending \cup {c} /\ c \notin Ending /\ Registering' = Registering
    BY <1>4 DEF Ending, Registering
  <2>2. Cardinality(Ending') = Cardinality(Ending) + 1
    BY <1>1, <2>1, OneMore
  <2>. QED
    BY <1>1, <1>4, <2>1, <2>2 DEF ShutdownInv
<1>5. CASE pc[c] = "register" /\ pc'[c] = "wait" /\ live' = live /\ ~ shutdown /\ shutdown'
  <2>1. Ending' = Ending /\ Registering' = Registering \ {c} /\ c \in Registering
    BY <1>5 DEF Ending, Registering
  <2>2. Cardinality(Registering') = Cardinality(Registering) - 1
    BY <1>1, <2>1, OneLess
  <2>. QED
    BY <1>1, <1>5, <2>1, <2>2 DEF ShutdownInv
<1>6. CASE pc[c] = "unregister" /\ pc'[c] = "idle" /\ live' = live /\ shutdown /\ ~ shutdown'
  <2>1. Ending' = Ending \ {c} /\ c \in Ending /\ Registering' = Registering
    BY <1>6 DEF Ending, Registering
  <2>2. Cardinality(Ending') = Cardinality(Ending) - 1
    BY <1>1, <2>1, OneLess
  <2>. QED
    BY <1>1, <1>6, <2>1, <2>2 DEF ShutdownInv
<1>. QED
  BY <1>2, <1>3, <1>4, <1>5, <1>6

(* Steps that leave the calls, the pointer and the handlers as they are.   *)
QuietStep ==
  /\ UNCHANGED <<pc, at, restarting, sem, active, netifPtr, live, shutdown, netifs, handlers>>
  /\ \A i \in Ifaces : driver'[i] # "off" => driver[i] # "off"
  /\ ~ OtherUser => driver' = driver

LEMMA QuietGuard ==
  ASSUME GuardInv, QuietStep
  PROVE  GuardInv'
<1> SUFFICES ASSUME restarting' = {} PROVE (OwnInv /\ SemInv /\ ShutdownInv)'
  BY DEF GuardInv
<1>1. OwnInv /\ SemInv /\ ShutdownInv
  BY DEF GuardInv, QuietStep
<1>2. OwnInv'
  <2>1. /\ live' = live /\ UNCHANGED <<netifs, active, handlers>>
        /\ \A k \in Places : driver'[Order[k]] # "off" => driver[Order[k]] # "off"
    BY OrderFacts DEF QuietStep
  <2>2. \A d \in Callers : /\ Claims(d)' = Claims(d) /\ Counts(d)' = Counts(d) /\ Handles(d)' = Handles(d)
                           /\ AllSet(d)' = AllSet(d)
    BY OthersKeep DEF QuietStep
  <2>. QED
    BY <1>1, <2>1, <2>2, SameClaims
<1>3. SemInv' /\ ShutdownInv'
  BY <1>1 DEF SemInv, ShutdownInv, Ending, Registering, QuietStep
<1>. QED
  BY <1>2, <1>3

LEMMA QuietSteps ==
  /\ TypeInv /\ (Dispatch \/ Give \/ Network \/ UNCHANGED vars) => QuietStep
  /\ \A s : Abort(s) => QuietStep
  /\ \A c \in Callers : Take(c) \/ Reset(c) => QuietStep
<1>1. ASSUME NEW s, Abort(s) PROVE QuietStep
  BY <1>1 DEF Abort, QuietStep, callVars, statVars, semVars, netVars, evVars
<1>2. ASSUME TypeInv, Dispatch \/ Give \/ UNCHANGED vars PROVE QuietStep
  BY <1>2 DEF Dispatch, Give, vars, QuietStep, callVars, statVars, semVars, netVars, evVars
<1>3. ASSUME TypeInv, Network PROVE QuietStep
  <2>1. UNCHANGED <<pc, at, restarting, sem, active, netifPtr, live, shutdown, netifs, handlers>>
    BY <1>3 DEF Network, Join, Leave, Address, UncountedAddress, DeinitByOther,
                callVars, statVars, semVars, netVars, evVars
  <2>2. driver' = driver \/ (OtherUser /\ driver' = [driver EXCEPT !["sta"] = "off"])
    BY <1>3 DEF Network, Join, Leave, Address, UncountedAddress, DeinitByOther, netVars
  <2>3. \A i \in Ifaces : driver'[i] # "off" => driver[i] # "off"
    BY <1>3, <2>2 DEF TypeInv, TypeOK
  <2>. QED
    BY <2>1, <2>2, <2>3 DEF QuietStep
<1>4. ASSUME NEW c \in Callers, Take(c) \/ Reset(c) PROVE QuietStep
  BY <1>1, <1>4 DEF Take, Reset, QuietStep, statVars, netVars, evVars
<1>. QED
  BY <1>1, <1>2, <1>3, <1>4

(* The pointer and the semaphore, when neither is written.                 *)
LEMMA SemKept ==
  ASSUME SemInv, UNCHANGED <<sem, live>>,
         \A d \in Callers : pc[d] = "clear" => pc'[d] = "clear"
  PROVE  SemInv'
BY DEF SemInv

(* A caller goes on without any claim.                                     *)
LEMMA PassGuard ==
  ASSUME TypeInv, TypeInv', PlaceInv, OwnInv, SemInv, ShutdownInv, NEW c \in Callers,
         Connect(c) \/ Disconnect(c) \/ RegisterShutdown(c) \/ Connected(c) \/ UnregisterShutdown(c),
         ~ QuietStep
  PROVE  /\ (OwnInv /\ SemInv /\ ShutdownInv)'
         /\ Claimed' = Claimed /\ UNCHANGED <<netifs, driver, netifPtr>>
<1>0. ~ Abort("panic")
  BY QuietSteps
<1>1. /\ at' = at /\ UNCHANGED <<sem, live, netifs, active, handlers, driver, netifPtr>>
      /\ \A d \in Callers \ {c} : pc'[d] = pc[d]
  <2>1. at' = at /\ UNCHANGED <<statVars, semVars, netVars, evVars>>
    BY <1>0 DEF Connect, Disconnect, RegisterShutdown, Connected, UnregisterShutdown, callVars
  <2>2. \A d \in Callers \ {c} : pc'[d] = pc[d]
    <3>1. \E l : pc' = [pc EXCEPT ![c] = l]
      BY <1>0 DEF Connect, Disconnect, RegisterShutdown, Connected, UnregisterShutdown, Goto, Return
    <3>. QED
      BY <3>1 DEF TypeInv, TypeOK
  <2>3. UNCHANGED <<sem, active, netifPtr>> /\ UNCHANGED live /\ UNCHANGED <<netifs, driver>> /\ UNCHANGED handlers
    BY <2>1 DEF statVars, semVars, netVars, evVars
  <2>. QED
    BY <2>1, <2>2, <2>3
<1>2. \/ pc[c] = "idle" /\ pc'[c] \in {"idle", "make", "delete"} /\ shutdown' = shutdown
      \/ pc[c] = "register" /\ pc'[c] = "wait" /\ ~ shutdown /\ shutdown'
      \/ pc[c] = "wait" /\ pc'[c] = "idle" /\ shutdown' = shutdown
      \/ pc[c] = "unregister" /\ pc'[c] = "idle" /\ shutdown /\ ~ shutdown'
  BY SMTT(60), <1>0 DEF TypeInv, TypeOK, Connect, Disconnect, RegisterShutdown, Connected,
        UnregisterShutdown, At, Goto, Return
<1>3. at[c] = 1 /\ at'[c] = 1
  BY <1>1, <1>2 DEF PlaceInv
<1>4. Claims(c) = {} /\ Claims(c)' = {} /\ AllSet(c)' = AllSet(c)
  BY <1>2, <1>3, OrderFacts DEF Claims, AllSet, Places
<1>5. Counts(c)' = Counts(c) /\ Handles(c)' = Handles(c)
  BY <1>4 DEF Counts, Handles
<1>6. OwnInv' /\ Claimed' = Claimed
  <2>1. \A d \in Callers : /\ Claims(d)' = Claims(d) /\ Counts(d)' = Counts(d) /\ Handles(d)' = Handles(d)
                           /\ AllSet(d)' = AllSet(d)
    BY <1>1, <1>4, <1>5, OthersKeep
  <2>2. /\ live' = live /\ UNCHANGED <<netifs, active, handlers>>
        /\ \A k \in Places : driver'[Order[k]] # "off" => driver[Order[k]] # "off"
    BY <1>1
  <2>. QED
    BY <2>1, <2>2, SameClaims
<1>7. SemInv'
  BY <1>1, <1>2, SemKept
<1>8. ShutdownInv'
  BY <1>1, <1>2, ShutdownSteps
<1>. QED
  BY <1>1, <1>6, <1>7, <1>8

(* A caller goes on with the interfaces it has.                            *)
LEMMA WorkGuard ==
  ASSUME TypeInv, TypeInv', PlaceInv, OwnInv, SemInv, ShutdownInv, NEW c \in Callers,
         MakeIface(c) \/ BeginIface(c) \/ Unhandle(c) \/ DownIface(c),
         ~ QuietStep
  PROVE  (OwnInv /\ SemInv /\ ShutdownInv)'
<1>0. ~ Abort("panic") /\ ~ Abort("corrupt")
  BY QuietSteps
<1>1. OwnInv'
  <2>1. MakeIface(c) => Iface(c) \notin netifs
    BY <1>0 DEF MakeIface
  <2>2. BeginIface(c) => driver[Iface(c)] = "init"
    BY <1>0 DEF BeginIface
  <2>. QED
    BY <1>0, <2>1, <2>2, MakeOwn, BeginOwn, UnhandleOwn, DownOwn
<1>2. /\ UNCHANGED <<sem, live, shutdown>>
      /\ \A d \in Callers \ {c} : pc'[d] = pc[d]
  <2>1. CASE MakeIface(c)
    BY <1>0, <2>1 DEF TypeInv, TypeOK, MakeIface, Goto, statVars, semVars
  <2>2. CASE BeginIface(c)
    BY SMTT(60), <1>0, <2>2 DEF TypeInv, TypeOK, BeginIface, NextIface, Goto, semVars
  <2>3. CASE Unhandle(c)
    BY <2>3 DEF TypeInv, TypeOK, Unhandle, Goto, statVars, semVars
  <2>4. CASE DownIface(c)
    BY SMTT(60), <1>0, <2>4 DEF TypeInv, TypeOK, DownIface, NextIface, Goto, semVars
  <2>. QED
    BY <1>0, <2>1, <2>2, <2>3, <2>4
<1>3. \/ pc[c] \in {"make", "begin"} /\ pc'[c] \in {"begin", "make", "sem"}
      \/ pc[c] \in {"unhandle", "down"} /\ pc'[c] \in {"down", "unhandle", "unregister"}
  BY SMTT(60), <1>0 DEF TypeInv, TypeOK, MakeIface, BeginIface, Unhandle, DownIface, NextIface, At, Goto
<1>4. SemInv'
  BY <1>2, <1>3, SemKept
<1>5. ShutdownInv'
  BY <1>2, <1>3, ShutdownSteps
<1>. QED
  BY <1>1, <1>4, <1>5

(* The semaphore is made, deleted, or forgotten.                           *)
LEMMA SemaphoreGuard ==
  ASSUME TypeInv, TypeInv', PlaceInv, OwnInv, SemInv, ShutdownInv, NEW c \in Callers,
         MakeSemaphore(c) \/ DeleteSemaphore(c) \/ ClearPointer(c),
         ~ QuietStep
  PROVE  /\ (OwnInv /\ SemInv /\ ShutdownInv)'
         /\ Claimed' = Claimed /\ UNCHANGED <<netifs, driver>> /\ netifPtr' \in {netifPtr, NoNetif}
<1>0. ~ Abort("panic") /\ ~ Abort("corrupt")
  BY QuietSteps
<1>1. /\ at' = at /\ UNCHANGED <<netifs, active, handlers, driver, shutdown>>
      /\ \A d \in Callers \ {c} : pc'[d] = pc[d]
  BY SMTT(60), <1>0 DEF TypeInv, TypeOK, MakeSemaphore, DeleteSemaphore, ClearPointer, Goto,
        statVars, semVars, netVars, evVars
<1>2. netifPtr' \in {netifPtr, NoNetif}
  BY <1>0 DEF MakeSemaphore, DeleteSemaphore, ClearPointer, statVars
<1>3. pc[c] \in {"sem", "clear"} => live = {}
  BY OrderFacts, ClaimsByPlace DEF OwnInv, ClaimInv, OneHolder, TypeInv
<1>4. CASE MakeSemaphore(c)
  <2>1. /\ pc[c] = "sem" /\ pc'[c] = "register" /\ live' = live \cup {nextSem} /\ sem' = nextSem
    BY <1>4 DEF TypeInv, TypeOK, MakeSemaphore, At, Goto
  <2>2. live = {} /\ live' # {}
    BY <1>3, <2>1
  <2>3. SemInv'
    BY <2>1, <2>2 DEF SemInv
  <2>4. OwnInv' /\ Claimed' = Claimed
    BY <1>1, <2>1, <2>2, HandsOver
  <2>5. ShutdownInv'
    BY <1>1, <2>1, <2>2, ShutdownSteps
  <2>. QED
    BY <1>1, <1>2, <2>3, <2>4, <2>5
<1>5. CASE DeleteSemaphore(c)
  <2>1. /\ pc[c] = "delete" /\ pc'[c] = "clear" /\ sem \in live /\ live' = live \ {sem} /\ sem' = sem
    BY <1>0, <1>5 DEF TypeInv, TypeOK, DeleteSemaphore, At, Goto, statVars
  <2>2. live # {} /\ live' = {}
    BY <2>1 DEF SemInv
  <2>3. SemInv'
    BY <2>1, <2>2 DEF SemInv
  <2>4. OwnInv' /\ Claimed' = Claimed
    BY <1>1, <2>1, <2>2, HandsOver
  <2>5. ShutdownInv'
    BY <1>1, <2>1, <2>2, ShutdownSteps
  <2>. QED
    BY <1>1, <1>2, <2>3, <2>4, <2>5
<1>6. CASE ClearPointer(c)
  <2>1. /\ pc[c] = "clear" /\ pc'[c] = "unhandle" /\ sem' = 0 /\ live' = live /\ at'[c] = 1
    <3>1. pc[c] = "clear" /\ pc'[c] = "unhandle" /\ sem' = 0 /\ live' = live
      BY <1>6 DEF TypeInv, TypeOK, ClearPointer, At, Goto, semVars
    <3>. QED
      BY <1>1, <3>1 DEF PlaceInv
  <2>2. SemInv'
    BY <1>3, <2>1 DEF SemInv
  <2>3. OwnInv' /\ Claimed' = Claimed
    BY <1>1, <2>1, HandsOver
  <2>4. ShutdownInv'
    BY <1>1, <2>1, ShutdownSteps
  <2>. QED
    BY <1>1, <1>2, <2>2, <2>3, <2>4
<1>. QED
  BY <1>1, <1>4, <1>5, <1>6, <1>2

LEMMA GuardStep ==
  ASSUME TypeInv, TypeInv', PlaceInv, GuardInv, [Next]_vars
  PROVE  GuardInv'
<1>1. CASE QuietStep
  BY <1>1, QuietGuard
<1>2. ASSUME NEW c \in Callers, Restart(c) PROVE GuardInv'
  BY <1>2 DEF Restart, GuardInv
<1>3. ASSUME NEW c \in Callers, ~ QuietStep,
             \/ Connect(c) \/ Disconnect(c) \/ RegisterShutdown(c) \/ Connected(c) \/ UnregisterShutdown(c)
             \/ MakeIface(c) \/ BeginIface(c) \/ Unhandle(c) \/ DownIface(c)
             \/ MakeSemaphore(c) \/ DeleteSemaphore(c) \/ ClearPointer(c)
      PROVE  GuardInv'
  <2>1. restarting' = restarting
    BY <1>3 DEF Connect, Disconnect, RegisterShutdown, Connected, UnregisterShutdown, MakeIface, BeginIface,
                Unhandle, DownIface, MakeSemaphore, DeleteSemaphore, ClearPointer, Abort, callVars
  <2> SUFFICES ASSUME restarting = {} PROVE (OwnInv /\ SemInv /\ ShutdownInv)'
    BY <2>1 DEF GuardInv
  <2>2. OwnInv /\ SemInv /\ ShutdownInv
    BY DEF GuardInv
  <2>. QED
    BY <1>3, <2>2, PassGuard, WorkGuard, SemaphoreGuard
<1>. QED
  BY <1>1, <1>2, <1>3, QuietSteps DEF Next, Step

LEMMA InitConn == Init => ConnInv
<1> SUFFICES ASSUME Init PROVE ConnInv
  OBVIOUS
<1>1. \A c \in Callers : Claims(c) = {} /\ Counts(c) = {} /\ Handles(c) = {} /\ ~ AllSet(c)
  BY DEF Init, Claims, Counts, Handles, AllSet
<1>2. Claimed = {} /\ Counted = {} /\ Handled = {} /\ live = {} /\ handlers = {}
  BY <1>1 DEF Init, Claimed, Counted, Handled
<1>3. ClaimInv /\ HandlerInv
  BY <1>1, <1>2 DEF ClaimInv, OneHolder, HandlerInv
<1>4. DriverInv
  BY OrderFacts DEF Init, DriverInv
<1>5. ActiveInv
  BY <1>2, FS_EmptySet DEF Init, ActiveInv
<1>6. SemInv
  BY DEF Init, SemInv
<1>7. ShutdownInv
  <2>1. Ending = {} /\ Registering = {}
    BY DEF Init, Ending, Registering
  <2>. QED
    BY <1>2, <2>1, FS_EmptySet DEF Init, ShutdownInv
<1>8. PlaceInv
  BY DEF Init, PlaceInv
<1>. QED
  BY <1>3, <1>4, <1>5, <1>6, <1>7, <1>8, InitType DEF ConnInv, GuardInv, OwnInv

LEMMA StepConn == ConnInv /\ [Next]_vars => ConnInv'
BY StepType, PlaceStep, GuardStep DEF ConnInv

LEMMA ConnHolds == Spec => []ConnInv
BY InitConn, StepConn, PTL DEF Spec

LEMMA GuardFollows == ConnInv => GuardTellsState
<1> SUFFICES ASSUME ConnInv, AtRest PROVE GuardTellsState
  BY DEF GuardTellsState
<1>1. \A c \in Callers : pc[c] = "idle"
  BY DEF AtRest
<1>2. restarting = {}
  BY <1>1 DEF ConnInv, PlaceInv, TypeInv, TypeOK
<1>3. OwnInv /\ SemInv /\ ShutdownInv
  BY <1>2 DEF ConnInv, GuardInv
<1>4. \A c \in Callers : Claims(c) = {} /\ Counts(c) = {} /\ Handles(c) = {}
  BY <1>1 DEF Claims, Counts, Handles
<1>5. (live # {} <=> shutdown) /\ shutdown \in BOOLEAN
  <2>1. Ending = {} /\ Registering = {}
    BY <1>1 DEF Ending, Registering
  <2>2. Cardinality(Ending) = 0 /\ Cardinality(Registering) = 0
    BY <2>1, FS_EmptySet
  <2>3. shutdown \in BOOLEAN
    BY DEF ConnInv, TypeInv, TypeOK
  <2>. QED
    BY <1>3, <2>2, <2>3 DEF ShutdownInv
<1>6. CASE sem # 0
  <2>1. live = {sem}
    BY <1>1, <1>3, <1>6 DEF SemInv
  <2>2. Claimed = Places /\ Counted = Places /\ Handled = Places
    BY <2>1 DEF Claimed, Counted, Handled
  <2>3. netifs = Ifaces
    <3>1. netifs \subseteq Ifaces
      BY DEF ConnInv, TypeInv, TypeOK
    <3>2. \A k \in Places : Order[k] \in netifs
      BY <1>3, <2>2 DEF OwnInv, ClaimInv
    <3>3. \A i \in Ifaces : \E k \in Places : i = Order[k]
      BY OrderFacts
    <3>4. Ifaces \subseteq netifs
      BY <3>2, <3>3
    <3>. QED
      BY <3>1, <3>4
  <2>4. active = Len(Order)
    <3>1. active = Cardinality(Places)
      BY <1>3, <2>2 DEF OwnInv, ActiveInv
    <3>2. Len(Order) \in Nat /\ 1 \in Int
      BY OrderFacts
    <3>3. Cardinality(1 .. Len(Order)) = Len(Order)
      BY SMTT(60), <3>2, FS_Interval
    <3>. QED
      BY <3>1, <3>3 DEF Places
  <2>5. handlers = UNION {HandlersOf(i) : i \in Ifaces}
    <3>1. \A i \in Ifaces : "got6" \in HandlersOf(i) => IPv6
      <4>1. \A i \in Ifaces : i = "sta" \/ i = "eth"
        BY OrderFacts
      <4>2. \A i \in Ifaces : GotId[i] # "got6"
        BY <4>1 DEF GotId
      <4>. QED
        BY <4>2 DEF HandlersOf
    <3>2. IPv6 => "got6" \in handlers
      BY <1>3, <2>1 DEF OwnInv, HandlerInv
    <3>3. \A i \in Ifaces : HandlersOf(i) \subseteq handlers
      BY <1>3, <2>2, <3>1, <3>2, OrderFacts DEF OwnInv, HandlerInv
    <3>. QED
      BY <3>3 DEF ConnInv, TypeInv, TypeOK
  <2>. QED
    BY <1>5, <1>6, <2>1, <2>3, <2>4, <2>5 DEF GuardTellsState
<1>7. CASE sem = 0
  <2>1. live = {}
    BY <1>3, <1>7 DEF SemInv, ConnInv, TypeInv, TypeOK
  <2>2. Claimed = {} /\ Counted = {} /\ Handled = {}
    BY <1>4, <2>1 DEF Claimed, Counted, Handled
  <2>3. handlers = {} /\ active = 0
    BY <1>3, <2>2, FS_EmptySet DEF OwnInv, HandlerInv, ActiveInv
  <2>4. \A i \in Ifaces : driver[i] = "off"
    BY <1>3, <2>2, OrderFacts DEF OwnInv, DriverInv
  <2>. QED
    BY <1>5, <1>7, <2>1, <2>3, <2>4 DEF GuardTellsState
<1>. QED
  BY <1>6, <1>7

(* When no call is in progress the semaphore's pointer tells the truth:    *)
(* however any number of tasks connected, disconnected and restarted       *)
(* before, it is set exactly while the interfaces, their handlers, the     *)
(* count and the shutdown handler are all there, and null when none is.    *)
THEOREM GuardIsTrue == Spec => []GuardTellsState
BY ConnHolds, GuardFollows, PTL

-----------------------------------------------------------------------------
(* A handler that finds no semaphore.                                      *)

LEMMA HandlersMeanWork ==
  ASSUME ConnInv, handlers # {}, sem = 0, Running
  PROVE  \E c \in Callers : pc[c] \notin {"idle", "wait"}
<1>1. CASE restarting # {}
  BY <1>1 DEF ConnInv, PlaceInv, TypeInv, TypeOK
<1>2. CASE restarting = {}
  <2>1. live = {} /\ Handled # {}
    BY <1>2 DEF ConnInv, GuardInv, OwnInv, HandlerInv, SemInv, TypeInv, TypeOK
  <2>2. PICK c \in Callers : Handles(c) # {}
    BY <2>1 DEF Handled
  <2>. QED
    BY <2>2 DEF Handles, Claims
<1>. QED
  BY <1>1, <1>2

(* The address handlers meet a null semaphore, and the chip stops, only    *)
(* while some call is starting or stopping the interfaces: whatever the    *)
(* network does, a connection at rest and one that waits survive it.       *)
THEOREM NullOnlyInTransit == Spec => NoSemaphoreOnlyInTransit
<1> DEFINE Good == giving # 0 /\ giving' = 0 => \E c \in Callers : pc[c] \notin {"idle", "wait"}
<1>1. ConnInv /\ [Next]_vars => [Good]_vars
  <2> SUFFICES ASSUME ConnInv, Next, giving # 0, giving' = 0
               PROVE  \E c \in Callers : pc[c] \notin {"idle", "wait"}
    OBVIOUS
  <2>1. CASE Dispatch
    <3>1. handlers # {} /\ sem = 0 /\ Running
      BY <2>1 DEF Dispatch, OnLeft, OnJoined, OnGot
    <3>. QED
      BY <3>1, HandlersMeanWork
  <2>2. CASE Give
    BY <2>2, BoundAssumption DEF Give, Idle
  <2>3. CASE Network
    BY <2>3 DEF Network, Join, Leave, Address, UncountedAddress, DeinitByOther, evVars
  <2>4. ASSUME NEW c \in Callers, Connect(c) \/ Disconnect(c) \/ Restart(c) \/ Step(c) PROVE giving' = giving
    BY <2>4 DEF Connect, Disconnect, Restart, Step, MakeIface, BeginIface, MakeSemaphore, RegisterShutdown,
                Take, Connected, DeleteSemaphore, ClearPointer, Unhandle, DownIface, UnregisterShutdown, Reset,
                Abort, evVars
  <2>. QED
    BY <2>1, <2>2, <2>3, <2>4 DEF Next
<1>. QED
  BY <1>1, ConnHolds, PTL DEF Spec, NoSemaphoreOnlyInTransit

-----------------------------------------------------------------------------
(* What ESP_OK means.  First example_disconnect.                           *)

ReleaseInv ==
  /\ \A k \in Places : Order[k] \in netifs => k \in Claimed
  /\ \A k \in Claimed : driver[Order[k]] # "off"
  /\ netifPtr # NoNetif => Claimed # {}

LEMMA ReleaseStep ==
  ASSUME ~ OtherUser, TypeInv, TypeInv', PlaceInv, GuardInv, restarting = {} => ReleaseInv, [Next]_vars,
         restarting' = {}
  PROVE  ReleaseInv'
<1>1. CASE QuietStep
  <2>1. Claimed' = Claimed
    BY <1>1 DEF QuietStep, Claimed, Claims
  <2>. QED
    BY <1>1, <2>1 DEF QuietStep, ReleaseInv
<1>2. ASSUME NEW c \in Callers, Restart(c) PROVE FALSE
  BY <1>2 DEF Restart
<1>3. ASSUME NEW c \in Callers, ~ QuietStep,
             \/ Connect(c) \/ Disconnect(c) \/ RegisterShutdown(c) \/ Connected(c) \/ UnregisterShutdown(c)
             \/ MakeIface(c) \/ BeginIface(c) \/ Unhandle(c) \/ DownIface(c)
             \/ MakeSemaphore(c) \/ DeleteSemaphore(c) \/ ClearPointer(c)
      PROVE  ReleaseInv'
  <2>0. ~ Abort("panic") /\ ~ Abort("corrupt")
    BY <1>3, QuietSteps
  <2>1. restarting = {}
    BY <1>3 DEF Connect, Disconnect, RegisterShutdown, Connected, UnregisterShutdown, MakeIface, BeginIface,
                Unhandle, DownIface, MakeSemaphore, DeleteSemaphore, ClearPointer, Abort, callVars
  <2>2. OwnInv /\ SemInv /\ ShutdownInv /\ ReleaseInv
    BY <2>1 DEF GuardInv
  <2>3. at[c] \in Places /\ Order[at[c]] \in Ifaces
    BY ClaimsByPlace, OrderFacts DEF TypeInv
  <2>4. \A k \in Places : k # at[c] => Order[k] # Order[at[c]] /\ Order[k] \in Ifaces
    BY <2>3, OrderFacts
  <2>5. CASE Connect(c) \/ Disconnect(c) \/ RegisterShutdown(c) \/ Connected(c) \/ UnregisterShutdown(c)
    BY <1>3, <2>2, <2>5, PassGuard DEF ReleaseInv
  <2>6. CASE MakeSemaphore(c) \/ DeleteSemaphore(c) \/ ClearPointer(c)
    BY <1>3, <2>2, <2>6, SemaphoreGuard DEF ReleaseInv
  <2>7. CASE MakeIface(c)
    <3>1. /\ netifs' = netifs \cup {Order[at[c]]} /\ driver' = [driver EXCEPT ![Order[at[c]]] = "init"]
          /\ netifPtr' = netifPtr /\ Iface(c) \notin netifs
      BY <2>0, <2>7 DEF MakeIface, Iface, statVars
    <3>2. Claimed' = Claimed \cup {at[c]}
      BY <2>2, <2>7, <3>1, MakeOwn
    <3>. QED
      BY ZenonT(60), <2>2, <2>3, <2>4, <3>1, <3>2 DEF ReleaseInv, TypeInv, TypeOK, Claimed
  <2>8. CASE BeginIface(c)
    <3>1. /\ netifs' = netifs /\ driver' = [driver EXCEPT ![Order[at[c]]] = "on"] /\ driver[Iface(c)] = "init"
      BY <2>0, <2>8 DEF BeginIface, Iface
    <3>2. Claimed' = Claimed /\ at[c] \in Claimed
      BY <2>2, <2>8, <3>1, BeginOwn
    <3>3. driver'[Order[at[c]]] = "on" /\ \A k \in Places : k # at[c] => driver'[Order[k]] = driver[Order[k]]
      BY SMTT(60), <2>3, <2>4, <3>1 DEF TypeInv, TypeOK
    <3>4. \A k \in Claimed : k \in Places
      BY DEF Claimed
    <3>. QED
      BY <2>2, <3>1, <3>2, <3>3, <3>4 DEF ReleaseInv
  <2>9. CASE Unhandle(c)
    <3>1. UNCHANGED <<netifs, driver, netifPtr>>
      BY <2>9 DEF Unhandle, statVars, netVars
    <3>. QED
      BY <2>2, <2>9, <3>1, UnhandleOwn DEF ReleaseInv
  <2>10. CASE DownIface(c)
    <3>1. Claimed' = Claimed \ {at[c]} /\ at[c] \in Claimed
      BY <2>0, <2>2, <2>10, DownOwn
    <3>2. driver[Order[at[c]]] # "off"
      BY <2>2, <3>1 DEF ReleaseInv
    <3>3. /\ netifs' = netifs \ {Order[at[c]]} /\ driver' = [driver EXCEPT ![Order[at[c]]] = "off"]
          /\ netifPtr' = NoNetif
      BY <2>0, <2>10, <3>2 DEF DownIface, Release, Iface
    <3>. QED
      BY ZenonT(60), <2>2, <2>3, <2>4, <3>1, <3>3 DEF ReleaseInv, TypeInv, TypeOK, Claimed
  <2>. QED
    BY <1>3, <2>5, <2>6, <2>7, <2>8, <2>9, <2>10
<1>. QED
  BY <1>1, <1>2, <1>3, QuietSteps DEF Next, Step

(* Unless somebody else has stopped the driver, after example_disconnect   *)
(* no netif is left and get_example_netif returns null, also when several  *)
(* tasks call.                                                             *)
THEOREM NothingIsLeft ==
  ASSUME ~ OtherUser
  PROVE  Spec => []DisconnectReleases
<1> DEFINE Inv == ConnInv /\ (restarting = {} => ReleaseInv)
<1>1. Init => Inv
  <2> SUFFICES ASSUME Init PROVE Inv
    OBVIOUS
  <2>1. Claimed = {}
    BY DEF Init, Claimed, Claims
  <2>. QED
    BY <2>1, InitConn DEF Init, ReleaseInv
<1>2. Inv /\ [Next]_vars => Inv'
  BY StepConn, ReleaseStep DEF ConnInv
<1>3. Inv => DisconnectReleases
  <2> SUFFICES ASSUME Inv, AtRest, sem = 0 PROVE netifs = {} /\ netifPtr = NoNetif
    BY DEF DisconnectReleases
  <2>1. restarting = {}
    BY DEF AtRest, ConnInv, PlaceInv, TypeInv, TypeOK
  <2>2. live = {}
    BY <2>1 DEF ConnInv, GuardInv, SemInv, TypeInv, TypeOK
  <2>3. Claimed = {}
    BY <2>2 DEF Claimed, Claims, AtRest
  <2>4. \A i \in Ifaces : i \notin netifs
    BY <2>1, <2>3, OrderFacts DEF ReleaseInv
  <2>. QED
    BY <2>1, <2>3, <2>4 DEF ReleaseInv, ConnInv, TypeInv, TypeOK
<1>. QED
  BY <1>1, <1>2, <1>3, PTL DEF Spec

-----------------------------------------------------------------------------
(* Then example_connect, when one task connects one interface.             *)

GotEvents == {"got_sta", "got_eth", "got6"}

(* An address in the queue has been got since the driver started: what is  *)
(* queued when a netif goes is orphaned, and a new one brings no event     *)
(* before it is on.                                                        *)
EventInv ==
  \A i \in Ifaces :
    /\ \A k \in DOMAIN queue : queue[k].netif = i /\ queue[k].wanted /\ queue[k].id \in GotEvents => got[i] # {}
    /\ driver[i] = "init" \/ i \notin netifs => \A k \in DOMAIN queue : queue[k].netif # i
    /\ driver[i] # "on" => link[i] = "down"
    /\ driver[i] # "off" => i \in netifs

LEMMA InitEvents == Init => EventInv
BY DEF Init, EventInv

LEMMA PostEvents ==
  ASSUME TypeInv, NEW e, Post(e), e \in Events
  PROVE  \A k \in DOMAIN queue' : queue'[k] = e \/ \E j \in DOMAIN queue : queue'[k] = queue[j]
<1>1. queue \in Seq(Events) /\ queue' = Append(queue, e)
  BY DEF TypeInv, TypeOK, Post
<1>. QED
  BY <1>1, AppendProperties

LEMMA EventStep ==
  ASSUME TypeInv, TypeInv', EventInv, [Next]_vars
  PROVE  EventInv'
<1>1. CASE UNCHANGED <<netVars, queue>>
  BY <1>1 DEF EventInv, netVars
<1>2. ASSUME NEW c \in Callers, Connect(c) \/ Disconnect(c) \/ Restart(c) \/ MakeSemaphore(c) \/ RegisterShutdown(c)
               \/ Take(c) \/ Connected(c) \/ DeleteSemaphore(c) \/ ClearPointer(c) \/ Unhandle(c)
               \/ UnregisterShutdown(c) \/ Reset(c) \/ Give \/ (\E s : Abort(s)) \/ UNCHANGED vars
      PROVE  UNCHANGED <<netVars, queue>>
  BY <1>2 DEF Connect, Disconnect, Restart, MakeSemaphore, RegisterShutdown, Take, Connected, DeleteSemaphore,
              ClearPointer, Unhandle, UnregisterShutdown, Reset, Give, Abort, vars, evVars
<1>3. Give \/ UNCHANGED vars => UNCHANGED <<netVars, queue>>
  BY DEF Give, vars, evVars
<1>4. ASSUME NEW c \in Callers, MakeIface(c), ~ Abort("panic") PROVE EventInv'
  <2>1. /\ Iface(c) \notin netifs /\ netifs' = netifs \cup {Iface(c)} /\ driver' = [driver EXCEPT ![Iface(c)] = "init"]
        /\ UNCHANGED <<link, got, queue>>
    BY <1>4 DEF MakeIface
  <2>. QED
    BY SMTT(60), <2>1 DEF EventInv, TypeInv, TypeOK
<1>5. ASSUME NEW c \in Callers, BeginIface(c), ~ Abort("panic") PROVE EventInv'
  <2>1. /\ driver[Iface(c)] = "init" /\ driver' = [driver EXCEPT ![Iface(c)] = "on"]
        /\ link' = [link EXCEPT ![Iface(c)] = "joining"] /\ got' = [got EXCEPT ![Iface(c)] = {}]
        /\ UNCHANGED <<netifs, queue>>
    BY <1>5 DEF BeginIface, evVars
  <2>. QED
    BY SMTT(60), <2>1 DEF EventInv, TypeInv, TypeOK
<1>6. ASSUME NEW c \in Callers, DownIface(c), ~ UNCHANGED <<netVars, queue>> PROVE EventInv'
  <2>1. Release(Iface(c)) /\ got' = got
    BY <1>6 DEF DownIface, Abort, netVars, evVars
  <2>2. /\ DOMAIN queue' = DOMAIN queue
        /\ \A k \in DOMAIN queue : /\ queue'[k].id = queue[k].id /\ queue'[k].wanted = queue[k].wanted
                                  /\ queue'[k].netif = IF queue[k].netif = Iface(c) THEN "freed" ELSE queue[k].netif
    BY SMTT(60), <2>1, OrphanedType DEF Release, TypeInv, TypeOK
  <2>3. "freed" \notin Ifaces
    BY OrderFacts
  <2>4. /\ driver' = [driver EXCEPT ![Iface(c)] = "off"] /\ link' = [link EXCEPT ![Iface(c)] = "down"]
        /\ netifs' = netifs \ {Iface(c)}
    BY <2>1 DEF Release
  <2>5. ASSUME NEW i \in Ifaces, i # Iface(c)
        PROVE  driver'[i] = driver[i] /\ link'[i] = link[i] /\ (i \in netifs' <=> i \in netifs)
    BY <2>4, <2>5 DEF TypeInv, TypeOK
  <2>6. Iface(c) \in Ifaces => driver'[Iface(c)] = "off" /\ link'[Iface(c)] = "down"
    BY <2>4 DEF TypeInv, TypeOK
  <2>. QED
    BY <2>1, <2>2, <2>3, <2>4, <2>5, <2>6 DEF EventInv
<1>7. ASSUME Dispatch PROVE EventInv'
  <2>1. queue' = Tail(queue) /\ UNCHANGED <<netifs, driver, got>>
    BY <1>7 DEF Dispatch
  <2>2. \A k \in DOMAIN queue' : \E j \in DOMAIN queue : queue'[k] = queue[j]
    <3>1. queue \in Seq(Events) /\ queue # <<>>
      BY <1>7 DEF Dispatch, TypeInv, TypeOK
    <3>2. /\ Len(queue') = Len(queue) - 1 /\ Len(queue) \in Nat /\ queue' \in Seq(Events)
          /\ \A k \in 1 .. Len(queue') : queue'[k] = queue[k + 1]
      BY <2>1, <3>1, HeadTailProperties
    <3>3. \A k \in DOMAIN queue' : k \in 1 .. Len(queue') /\ k + 1 \in DOMAIN queue
      BY <3>1, <3>2
    <3>. QED
      BY <3>2, <3>3
  <2>3. \A i \in Ifaces : link'[i] = link[i] \/ driver[i] = "on"
    BY SMTT(60), <1>7 DEF Dispatch, OnLeft, OnJoined, OnGot, TypeInv, TypeOK
  <2>. QED
    BY <2>1, <2>2, <2>3 DEF EventInv
<1>8. ASSUME NEW i \in Ifaces, Join(i) \/ Leave(i) \/ UncountedAddress(i) PROVE EventInv'
  <2>1. driver' = driver /\ got' = got /\ netifs' = netifs
    BY <1>8 DEF Join, Leave, UncountedAddress, netVars
  <2>2. \A j \in Ifaces : link'[j] = link[j] \/ driver[j] = "on"
    BY <1>8 DEF Join, Leave, UncountedAddress, netVars, TypeInv, TypeOK
  <2>3. \/ queue' = queue
        \/ \E e \in Events : /\ Post(e) /\ (e.netif \in Ifaces => driver[e.netif] = "on")
                            /\ ~ (e.wanted /\ e.id \in GotEvents /\ e.netif \in Ifaces)
    <3>1. CASE Join(i) \/ Leave(i)
      <4>1. i = "sta" \/ i = "eth"
        BY OrderFacts
      <4>2. JoinedId[i] \notin GotEvents /\ "left" \notin GotEvents
        BY <4>1 DEF JoinedId, GotEvents
      <4>3. driver[i] = "on" /\ (queue' = queue \/ Post(Event(JoinedId[i], i)) \/ Post(Event("left", i)))
        BY <3>1 DEF Join, Leave
      <4>4. /\ Event(JoinedId[i], i).id = JoinedId[i] /\ Event("left", i).id = "left"
            /\ Event(JoinedId[i], i).netif = i /\ Event("left", i).netif = i
        BY DEF Event
      <4>. QED
        BY <4>2, <4>3, <4>4, EventType
    <3>2. CASE UncountedAddress(i)
      <4>1. PICK e \in Uncounted(i) : Post(e)
        BY <3>2 DEF UncountedAddress
      <4>2. \/ e.netif = "other"
            \/ e.netif \in Ifaces /\ link[e.netif] = "up" /\ ~ e.wanted
        BY DEF Uncounted, Event, TypeInv, TypeOK
      <4>3. "other" \notin Ifaces
        BY OrderFacts
      <4>. QED
        BY <4>1, <4>2, <4>3, EventType DEF EventInv
    <3>. QED
      BY <1>8, <3>1, <3>2
  <2>4. CASE queue' = queue
    BY <2>1, <2>2, <2>4 DEF EventInv
  <2>5. ASSUME NEW e \in Events, Post(e), e.netif \in Ifaces => driver[e.netif] = "on",
               ~ (e.wanted /\ e.id \in GotEvents /\ e.netif \in Ifaces)
        PROVE  EventInv'
    <3>1. \A k \in DOMAIN queue' : queue'[k] = e \/ \E j \in DOMAIN queue : queue'[k] = queue[j]
      BY <2>5, PostEvents
    <3>. QED
      BY <2>1, <2>2, <2>5, <3>1 DEF EventInv
  <2>. QED
    BY <2>3, <2>4, <2>5
<1>9. ASSUME NEW i \in Ifaces, NEW k \in Kinds, Address(i, k) PROVE EventInv'
  <2> DEFINE e == Event(IF k = "ip6" THEN "got6" ELSE GotId[i], i)
  <2>1. /\ UNCHANGED <<driver, netifs, link>> /\ got' = [got EXCEPT ![i] = @ \cup {k}] /\ Post(e) /\ link[i] = "up"
    BY <1>9 DEF Address
  <2>2. e \in Events /\ e.netif = i
    BY EventType DEF Event
  <2>3. \A n \in DOMAIN queue' : queue'[n] = e \/ \E j \in DOMAIN queue : queue'[n] = queue[j]
    BY <2>1, <2>2, PostEvents
  <2>4. got'[i] # {} /\ \A j \in Ifaces : got[j] # {} => got'[j] # {}
    BY <2>1 DEF TypeInv, TypeOK
  <2>. QED
    BY <2>1, <2>2, <2>3, <2>4 DEF EventInv
<1>10. ASSUME DeinitByOther PROVE EventInv'
  <2>1. /\ driver' = [driver EXCEPT !["sta"] = "off"] /\ link' = [link EXCEPT !["sta"] = "down"]
        /\ UNCHANGED <<netifs, got, queue>>
    BY <1>10 DEF DeinitByOther, evVars
  <2>. QED
    BY <2>1 DEF EventInv, TypeInv, TypeOK
<1>. QED
  BY <1>1, <1>2, <1>3, <1>4, <1>5, <1>6, <1>7, <1>8, <1>9, <1>10 DEF Next, Step, Network

OneConnection == Len(Order) = 1 /\ \A c, d \in Callers : c = d

Nic == Order[1]

(* What has been given to the present semaphore, or taken from it, was an  *)
(* address of this connection.                                             *)
GiveInv ==
  /\ giving # Idle => giving < nextSem
  /\ sem < nextSem
  /\ giving = sem /\ sem # 0 => got[Nic] # {}

CallerInv ==
  \A c \in Callers :
    /\ pc[c] # "wait" => taken[c] = 0
    /\ pc[c] \in {"register", "wait"} /\ permits + taken[c] > 0 => got[Nic] # {}
    /\ pc[c] \in {"make", "begin", "sem"} => sem = 0
    /\ pc[c] \in {"register", "wait"} => live # {}

AddressInv == ConnInv /\ EventInv /\ GiveInv /\ CallerInv

(* Only the one caller moves, and a step of its own changes little here.   *)
LEMMA CallKeeps ==
  ASSUME OneConnection, AddressInv, TypeInv', NEW c \in Callers,
         UNCHANGED <<got, nextSem, permits, giving>>, sem' \in {sem, 0},
         \/ pc'[c] \in {"idle", "delete", "clear", "unhandle", "down", "unregister"}
         \/ pc'[c] \in {"make", "begin"} /\ sem' = 0
         \/ pc[c] = "register" /\ pc'[c] = "wait" /\ live' = live,
         pc'[c] # "wait" \/ taken' = taken \/ taken'[c] = 0,
         pc'[c] # "wait" => taken'[c] = 0
  PROVE  GiveInv' /\ CallerInv'
<1>1. \A d \in Callers : d = c
  BY DEF OneConnection
<1>2. /\ sem \in Nat /\ sem' \in Nat /\ nextSem \in Nat /\ giving \in Nat /\ permits \in Nat /\ taken[c] \in Nat
      /\ nextSem > 0
  BY KindCount, OrderFacts, BoundAssumption DEF AddressInv, ConnInv, TypeInv, TypeOK
<1>3. GiveInv'
  BY <1>2 DEF AddressInv, GiveInv, Idle
<1>4. CallerInv'
  BY <1>1, <1>2 DEF AddressInv, CallerInv
<1>. QED
  BY <1>3, <1>4

LEMMA AddressStep ==
  ASSUME OneConnection, AddressInv, [Next]_vars
  PROVE  AddressInv'
<1>0. ConnInv' /\ EventInv' /\ TypeInv /\ TypeInv'
  BY StepConn, EventStep DEF AddressInv, ConnInv
<1> SUFFICES GiveInv' /\ CallerInv'
  BY <1>0 DEF AddressInv
<1>1. /\ 1 \in Places /\ Nic \in Ifaces /\ Ifaces = {Nic} /\ \A c \in Callers : Iface(c) = Nic /\ at[c] = 1
  BY <1>0, OrderFacts DEF OneConnection, Nic, Places, Iface, TypeInv, TypeOK
<1>2. CASE UNCHANGED <<pc, taken, sem, live, nextSem, permits, got, giving>>
  BY <1>2 DEF AddressInv, GiveInv, CallerInv
<1>3. (\E s : Abort(s)) \/ UNCHANGED vars => UNCHANGED <<pc, taken, sem, live, nextSem, permits, got, giving>>
  BY DEF Abort, vars, callVars, statVars, semVars, netVars, evVars
<1>4. ASSUME NEW c \in Callers, Reset(c) PROVE Abort("reset")
  BY <1>4 DEF Reset
<1>5. \A c, d \in Callers : c = d
  BY DEF OneConnection
<1>6. /\ sem \in Nat /\ nextSem \in Nat /\ giving \in Nat /\ permits \in Nat /\ \A c \in Callers : taken[c] \in Nat
      /\ sem <= MaxSems /\ MaxSems \in Nat /\ nextSem > 0
  BY <1>0, KindCount, OrderFacts, BoundAssumption DEF TypeInv, TypeOK
<1>7. ASSUME NEW c \in Callers, ~ (\E s : Abort(s)),
             \/ Connect(c) \/ Disconnect(c) \/ Restart(c) \/ MakeIface(c) \/ RegisterShutdown(c) \/ Connected(c)
             \/ DeleteSemaphore(c) \/ ClearPointer(c) \/ Unhandle(c) \/ UnregisterShutdown(c)
      PROVE  GiveInv' /\ CallerInv'
  <2>1. UNCHANGED <<got, nextSem, permits, giving>> /\ sem' \in {sem, 0}
    BY <1>7 DEF Connect, Disconnect, Restart, MakeIface, RegisterShutdown, Connected, DeleteSemaphore, ClearPointer,
                Unhandle, UnregisterShutdown, statVars, semVars, netVars, evVars
  <2>2. (taken'[c] = taken[c] /\ pc[c] # "wait") \/ taken'[c] = 0
    BY <1>0, <1>7 DEF Connect, Disconnect, Restart, MakeIface, RegisterShutdown, Connected, DeleteSemaphore,
                ClearPointer, Unhandle, UnregisterShutdown, At, TypeInv, TypeOK
  <2>3. taken'[c] = 0
    BY <2>2 DEF AddressInv, CallerInv
  <2>4. \/ pc'[c] \in {"idle", "delete", "clear", "unhandle", "down", "unregister"}
        \/ pc'[c] \in {"make", "begin"} /\ sem' = 0
        \/ pc[c] = "register" /\ pc'[c] = "wait" /\ live' = live
    <3>1. CASE Connect(c)
      BY <1>0, <3>1 DEF Connect, Goto, Return, statVars, TypeInv, TypeOK
    <3>2. CASE MakeIface(c)
      BY <1>0, <1>7, <3>2 DEF MakeIface, At, Goto, statVars, TypeInv, TypeOK, AddressInv, CallerInv
    <3>3. CASE RegisterShutdown(c)
      BY <1>0, <1>7, <3>3 DEF RegisterShutdown, At, Goto, semVars, TypeInv, TypeOK
    <3>4. CASE Disconnect(c) \/ Restart(c) \/ Connected(c) \/ DeleteSemaphore(c) \/ ClearPointer(c)
               \/ Unhandle(c) \/ UnregisterShutdown(c)
      BY SMTT(60), <1>0, <1>7, <3>4 DEF Disconnect, Restart, Connected, DeleteSemaphore,
            ClearPointer, Unhandle,
                              UnregisterShutdown, Goto, Return, TypeInv, TypeOK
    <3>. QED
      BY <1>7, <3>1, <3>2, <3>3, <3>4
  <2>. QED
    BY <1>0, <2>1, <2>3, <2>4, CallKeeps
<1>8. ASSUME NEW c \in Callers, BeginIface(c), ~ (\E s : Abort(s)) PROVE GiveInv' /\ CallerInv'
  <2>1. /\ pc[c] = "begin" /\ UNCHANGED <<taken, sem, live, nextSem, permits, giving>>
        /\ NextIface(c, "make", "sem")
    BY <1>8 DEF BeginIface, At, semVars, evVars
  <2>2. sem = 0 /\ taken[c] = 0 /\ pc'[c] \in {"make", "sem"}
    BY <1>0, <2>1 DEF AddressInv, CallerInv, NextIface, Goto, TypeInv, TypeOK
  <2>. QED
    BY <1>5, <1>6, <2>1, <2>2 DEF AddressInv, GiveInv, CallerInv, Idle
<1>9. ASSUME NEW c \in Callers, DownIface(c), ~ (\E s : Abort(s)) PROVE GiveInv' /\ CallerInv'
  <2>1. /\ pc[c] = "down" /\ UNCHANGED <<taken, sem, live, nextSem, permits, giving, got>>
        /\ NextIface(c, "unhandle", "unregister")
    BY <1>9 DEF DownIface, At, semVars
  <2>2. taken[c] = 0 /\ pc'[c] \in {"unhandle", "unregister"}
    BY <1>0, <2>1 DEF AddressInv, CallerInv, NextIface, Goto, TypeInv, TypeOK
  <2>. QED
    BY <1>5, <1>6, <2>1, <2>2 DEF AddressInv, GiveInv, CallerInv, Idle
<1>10. ASSUME NEW c \in Callers, MakeSemaphore(c) PROVE GiveInv' /\ CallerInv'
  <2>1. /\ pc[c] = "sem" /\ pc'[c] = "register" /\ sem' = nextSem /\ nextSem <= MaxSems /\ nextSem' = nextSem + 1
        /\ live' = live \cup {nextSem} /\ permits' = 0 /\ UNCHANGED <<taken, giving, got>>
    BY <1>0, <1>10 DEF MakeSemaphore, At, Goto, netVars, evVars, TypeInv, TypeOK
  <2>2. taken[c] = 0
    BY <2>1 DEF AddressInv, CallerInv
  <2>. QED
    BY <1>5, <1>6, <2>1, <2>2 DEF AddressInv, GiveInv, CallerInv, Idle
<1>11. ASSUME NEW c \in Callers, Take(c), ~ (\E s : Abort(s)) PROVE GiveInv' /\ CallerInv'
  <2>1. /\ pc[c] = "wait" /\ permits' = permits - 1 /\ taken' = [taken EXCEPT ![c] = @ + 1] /\ permits > 0
        /\ UNCHANGED <<pc, sem, live, nextSem, giving, got>>
    BY <1>11 DEF Take, At, statVars, netVars, evVars
  <2>2. permits' + taken'[c] = permits + taken[c]
    BY <1>0, <1>6, <2>1 DEF TypeInv, TypeOK
  <2>. QED
    BY <1>5, <1>6, <2>1, <2>2 DEF AddressInv, GiveInv, CallerInv, Idle
<1>12. ASSUME Dispatch PROVE GiveInv' /\ CallerInv'
  <2>1. UNCHANGED <<pc, taken, sem, live, nextSem, permits, got>> /\ giving = Idle
    BY <1>12 DEF Dispatch, callVars, statVars, semVars
  <2>2. giving' = giving \/ (giving' = sem /\ got[Nic] # {})
    <3>1. Head(queue) = queue[1] /\ 1 \in DOMAIN queue
      BY <1>0, <1>12 DEF Dispatch, TypeInv, TypeOK
    <3>2. \/ giving' = giving
          \/ /\ giving' = sem /\ queue[1].netif \in Ifaces /\ queue[1].wanted
             /\ queue[1].id \in {"got_sta", "got_eth", "got6"}
      BY <1>12, <3>1 DEF Dispatch, OnLeft, OnJoined, OnGot, Ours
    <3>. QED
      BY <1>1, <3>1, <3>2 DEF AddressInv, EventInv, GotEvents
  <2>. QED
    BY <1>6, <2>1, <2>2 DEF AddressInv, GiveInv, CallerInv, Idle
<1>13. ASSUME Give PROVE GiveInv' /\ CallerInv'
  <2>1. /\ UNCHANGED <<pc, taken, sem, live, nextSem, got>> /\ giving' = Idle
        /\ permits' = permits \/ giving = sem
    BY <1>13 DEF Give, callVars, statVars, netVars
  <2>2. ASSUME NEW c \in Callers, pc[c] \in {"register", "wait"} PROVE sem # 0
    <3>1. restarting = {}
      <4>1. restarting \subseteq Callers
        BY <1>0 DEF TypeInv, TypeOK
      <4>2. \A d \in restarting : pc[d] \in {"unhandle", "down", "unregister"}
        BY DEF AddressInv, ConnInv, PlaceInv
      <4>3. \A d \in restarting : FALSE
        BY <1>5, <2>2, <4>1, <4>2
      <4>. QED
        BY <4>3
    <3>2. live # {} /\ live \subseteq {sem} /\ live \subseteq 1 .. MaxSems
      BY <1>0, <2>2, <3>1 DEF AddressInv, CallerInv, ConnInv, GuardInv, SemInv, TypeInv, TypeOK
    <3>3. PICK s \in live : TRUE
      BY <3>2
    <3>. QED
      BY <1>6, <3>2, <3>3
  <2>3. GiveInv'
    BY <1>6, <2>1 DEF AddressInv, GiveInv, Idle
  <2>4. CallerInv'
    BY <2>1, <2>2 DEF AddressInv, GiveInv, CallerInv
  <2>. QED
    BY <2>3, <2>4
<1>14. ASSUME Network PROVE GiveInv' /\ CallerInv'
  <2>1. UNCHANGED <<pc, taken, sem, live, nextSem, permits, giving>>
    BY <1>14 DEF Network, Join, Leave, Address, UncountedAddress, DeinitByOther, callVars, statVars, semVars, evVars
  <2>2. got[Nic] # {} => got'[Nic] # {}
    BY <1>0, <1>1, <1>14 DEF Network, Join, Leave, Address, UncountedAddress, DeinitByOther, netVars, TypeInv, TypeOK
  <2>. QED
    BY <2>1, <2>2 DEF AddressInv, GiveInv, CallerInv
<1>. QED
  BY <1>2, <1>3, <1>4, <1>7, <1>8, <1>9, <1>10, <1>11, <1>12, <1>13, <1>14 DEF Next, Step

(* When example_connect of a task that is alone returns ESP_OK, its one    *)
(* interface has got an address since it was started: events of an earlier *)
(* connection do not end the wait, though they may still be queued.        *)
THEOREM OkIsConnected ==
  ASSUME OneConnection
  PROVE  Spec => []OkMeansAddresses
<1>1. Init => AddressInv
  <2>1. Init => GiveInv /\ CallerInv
    BY BoundAssumption DEF Init, GiveInv, CallerInv, Idle
  <2>. QED
    BY <2>1, InitConn, InitEvents DEF AddressInv
<1>2. AddressInv /\ [Next]_vars => AddressInv'
  BY AddressStep
<1>3. AddressInv => OkMeansAddresses
  <2> SUFFICES ASSUME AddressInv, NEW c \in Callers, pc[c] = "wait", taken[c] >= Expected, Running,
                      NEW i \in Ifaces
               PROVE  got[i] # {}
    BY DEF OkMeansAddresses
  <2>1. i = Nic
    BY OrderFacts DEF OneConnection, Nic, Places
  <2>2. restarting = {} /\ live # {}
    BY DEF OneConnection, AddressInv, CallerInv, ConnInv, PlaceInv, TypeInv, TypeOK
  <2>3. active = 1
    <3>1. Counted = Places /\ active = Cardinality(Counted)
      BY <2>2 DEF AddressInv, ConnInv, GuardInv, OwnInv, ActiveInv, Counted
    <3>2. Cardinality(Places) = 1
      <4>1. Places = {1}
        BY DEF OneConnection, Places
      <4>. QED
        BY <4>1, FS_Singleton
    <3>. QED
      BY <3>1, <3>2
  <2>4. permits \in Nat /\ taken[c] \in Nat
    BY KindCount, OrderFacts DEF AddressInv, ConnInv, TypeInv, TypeOK
  <2>5. taken[c] >= 1
    BY <2>3, <2>4, KindCount DEF Expected
  <2>. QED
    BY <2>1, <2>4, <2>5 DEF AddressInv, CallerInv
<1>. QED
  BY <1>1, <1>2, <1>3, PTL DEF Spec

(* Both together, for one task that connects and disconnects one interface *)
(* nobody else uses.                                                       *)
THEOREM OkHolds ==
  ASSUME OneConnection, ~ OtherUser
  PROVE  Spec => []OkIsTrue
BY OkIsConnected, NothingIsLeft, PTL DEF OkIsTrue
=============================================================================
