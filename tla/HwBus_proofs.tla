---------------------------- MODULE HwBus_proofs ----------------------------
(***************************************************************************)
(* Proofs about HwBus for any sets of tasks, classes and buses, any bound  *)
(* of the table and any stale ids.                                         *)
(***************************************************************************)
EXTENDS HwBus, TLAPS

-----------------------------------------------------------------------------
(* Type correctness.                                                       *)

LEMMA InitType == Init => TypeOK
<1> SUFFICES ASSUME Init PROVE TypeOK
  OBVIOUS
<1>1. 0 .. 0 - 1 = {}
  OBVIOUS
<1>2. \A b \in Buses : table[b] \in [0 .. cap[b] - 1 -> Classes \cup {NoClass}]
  BY <1>1 DEF Init
<1>3. DOMAIN table = Buses /\ cap \in [Buses -> Nat] /\ count \in [Buses -> Nat]
  BY DEF Init
<1>4. id \in [Classes -> Nat]
  BY StaleAssumption DEF Init
<1>. QED
  BY <1>2, <1>3, <1>4 DEF Init, TypeOK, Locations

LEMMA CallType ==
  ASSUME TypeOK, NEW c \in Callers, NEW r \in Classes, Call(c, r)
  PROVE  TypeOK'
<1>1. /\ built' = built \cup {r} /\ alive' = alive \cup {r}
      /\ UNCHANGED <<Bus, made, freed, count, cap, table, loops, seen, tmp_id, tmp_min, id, result>>
  BY DEF Call, busVars, memVars
<1>2. CASE Bus = NoBus
  <2>1. status' = "panic" /\ UNCHANGED <<this, reg, pc>>
    BY <1>2 DEF Call
  <2>. QED  BY <1>1, <2>1 DEF TypeOK
<1>3. CASE Bus # NoBus
  <2>1. /\ this' = [this EXCEPT ![c] = Bus] /\ reg' = [reg EXCEPT ![c] = r]
        /\ pc' = [pc EXCEPT ![c] = "check"] /\ UNCHANGED status
    BY <1>3 DEF Call, Goto
  <2>. QED  BY <1>1, <1>3, <2>1 DEF TypeOK, Locations
<1>. QED  BY <1>2, <1>3

LEMMA GrowType ==
  ASSUME TypeOK, NEW c \in Callers, Grow(c)
  PROVE  TypeOK'
<1> DEFINE b == this[c]
<1>1. b \in Buses /\ b \in made
  BY DEF TypeOK, Grow, At
<1>2. CASE UNCHANGED <<cap, table, pc>>
  BY <1>1, <1>2 DEF TypeOK, Grow, At, busVars, objVars, callVars, Locations
<1>3. CASE /\ cap' = [cap EXCEPT ![b] = count[b] + 1]
           /\ table' = [table EXCEPT ![b] = Regrown(b)]
           /\ Goto(c, "store")
           /\ UNCHANGED status
  <2>1. DOMAIN table' = Buses /\ cap' \in [Buses -> Nat]
    BY <1>1, <1>3 DEF TypeOK
  <2>2. ASSUME NEW d \in Buses
        PROVE  table'[d] \in [0 .. cap'[d] - 1 -> Classes \cup {NoClass}]
    <3>1. CASE d # b
      BY <3>1, <1>1, <1>3 DEF TypeOK
    <3>2. CASE d = b
      <4>1. count[b] \in Nat /\ cap[b] \in Nat /\ cap'[d] - 1 = count[b]
        BY <3>2, <1>1, <1>3 DEF TypeOK
      <4>2. \A i \in 0 .. count[b] : i < cap[b] => i \in 0 .. cap[b] - 1
        BY <4>1
      <4>3. table[b] \in [0 .. cap[b] - 1 -> Classes \cup {NoClass}]
        BY <1>1 DEF TypeOK
      <4>4. table'[d] = [i \in 0 .. count[b] |-> IF i < cap[b] THEN table[b][i] ELSE NoClass]
        BY <3>2, <1>1, <1>3 DEF TypeOK, Regrown
      <4>. QED  BY <4>1, <4>2, <4>3, <4>4
    <3>. QED  BY <3>1, <3>2
  <2>. QED
    BY <1>1, <1>3, <2>1, <2>2
       DEF TypeOK, Grow, At, Goto, busVars, objVars, callVars, Locations
<1>. QED  BY <1>2, <1>3 DEF Grow

LEMMA StoreType ==
  ASSUME TypeOK, NEW c \in Callers, Store(c)
  PROVE  TypeOK'
<1> DEFINE b == this[c]
<1>1. b \in Buses /\ reg[c] \in Classes /\ count[b] \in Nat /\ cap[b] \in Nat
  BY DEF TypeOK, Store, At
<1>2. CASE Corrupt
  BY <1>2 DEF TypeOK, Store, At, Corrupt, busVars, memVars, objVars, callVars
<1>3. CASE count[b] < cap[b]
  <2>1. table' = [table EXCEPT ![b] = [@ EXCEPT ![count[b]] = reg[c]]]
    BY <1>3 DEF Store
  <2>2. cap' = cap
    BY <1>3 DEF Store
  <2>3. DOMAIN table' = Buses
    BY <2>1 DEF TypeOK
  <2>4. ASSUME NEW d \in Buses
        PROVE  table'[d] \in [0 .. cap'[d] - 1 -> Classes \cup {NoClass}]
    BY <1>1, <2>1, <2>2 DEF TypeOK
  <2>. QED
    BY <1>1, <1>3, <2>3, <2>4
       DEF TypeOK, Store, At, Goto, busVars, objVars, callVars, Locations
<1>. QED  BY <1>2, <1>3 DEF Store

LEMMA ScanType ==
  ASSUME TypeOK, NEW c \in Callers, Scan(c)
  PROVE  TypeOK'
<1>1. CASE Corrupt
  BY <1>1 DEF TypeOK, Scan, At, Corrupt, busVars, memVars, objVars, callVars
<1>2. CASE /\ tmp_min' = [tmp_min EXCEPT ![c] = @ + 1]
           /\ tmp_id'  = [tmp_id EXCEPT ![c] = 0]
           /\ UNCHANGED <<memVars, objVars, this, reg, seen, id, result, pc, status>>
  <2>1. tmp_min' \in [Callers -> Nat \ {0}] /\ tmp_id' \in [Callers -> Nat]
    BY <1>2 DEF TypeOK
  <2>. QED
    BY <1>2, <2>1 DEF TypeOK, Scan, At, busVars, memVars, objVars
<1>3. CASE /\ tmp_id' = [tmp_id EXCEPT ![c] = @ + 1]
           /\ UNCHANGED tmp_min
           /\ UNCHANGED <<memVars, objVars, this, reg, seen, id, result, pc, status>>
  BY SMTT(60), <1>3 DEF TypeOK, Scan, At, busVars, memVars, objVars
<1>. QED  BY <1>1, <1>2, <1>3 DEF Scan, Found

LEMMA StepType ==
  ASSUME TypeOK, [Next]_vars
  PROVE  TypeOK'
<1>1. ASSUME NEW c \in Callers, NEW b \in Buses, InitBus(c, b) PROVE TypeOK'
  BY <1>1 DEF TypeOK, InitBus, At, memVars, objVars, callVars
<1>2. ASSUME NEW c \in Callers, RemoveBus(c) PROVE TypeOK'
  BY <1>2 DEF TypeOK, RemoveBus, At, memVars, objVars, callVars
<1>3. ASSUME NEW c \in Callers, NEW r \in Classes, DestroyClass(c, r) PROVE TypeOK'
  BY <1>3 DEF TypeOK, DestroyClass, At, busVars, memVars, callVars
<1>4. ASSUME NEW c \in Callers, Refuse(c) \/ Admit(c) PROVE TypeOK'
  BY <1>4 DEF TypeOK, Refuse, Admit, At, Goto, busVars, memVars, objVars, callVars, Locations
<1>5. ASSUME NEW c \in Callers, CreateTask(c) PROVE TypeOK'
  BY <1>5 DEF TypeOK, CreateTask, At, Goto, busVars, memVars, callVars, Locations
<1>6. ASSUME NEW c \in Callers, LoadCount(c) PROVE TypeOK'
  <2>1. /\ pc[c] = "load"
        /\ seen' = [seen EXCEPT ![c] = count[this[c]]]
        /\ pc' = [pc EXCEPT ![c] = "inc"]
        /\ UNCHANGED <<busVars, memVars, objVars, this, reg, tmp_id, tmp_min, id, result, status>>
    BY <1>6 DEF LoadCount, At, Goto
  <2>2. this[c] \in Buses
    BY <2>1 DEF TypeOK
  <2>3. seen' \in [Callers -> Nat] /\ pc' \in [Callers -> Locations]
    BY <2>1, <2>2 DEF TypeOK, Locations
  <2>4. \A d \in Callers : pc'[d] # "idle" => pc[d] # "idle"
    BY <2>1 DEF TypeOK
  <2>. QED
    BY <2>1, <2>3, <2>4 DEF TypeOK, busVars, memVars, objVars
<1>7. ASSUME NEW c \in Callers, StoreCount(c) PROVE TypeOK'
  <2>1. /\ pc[c] = "inc"
        /\ count' = [count EXCEPT ![this[c]] = seen[c] + 1]
        /\ tmp_id'  = [tmp_id EXCEPT ![c] = 0]
        /\ tmp_min' = [tmp_min EXCEPT ![c] = 1]
        /\ pc' = [pc EXCEPT ![c] = "scan"]
        /\ UNCHANGED <<busVars, cap, table, objVars, this, reg, seen, id, result, status>>
    BY <1>7 DEF StoreCount, At, Goto
  <2>2. /\ count' \in [Buses -> Nat]
        /\ tmp_id' \in [Callers -> Nat] /\ tmp_min' \in [Callers -> Nat \ {0}]
    BY <2>1 DEF TypeOK
  <2>3. pc' \in [Callers -> Locations]
    BY <2>1 DEF TypeOK, Locations
  <2>4. \A d \in Callers : pc'[d] # "idle" => pc[d] # "idle"
    BY <2>1 DEF TypeOK
  <2>. QED
    BY <2>1, <2>2, <2>3, <2>4 DEF TypeOK, busVars, objVars
<1>8. ASSUME NEW c \in Callers, AssignId(c) PROVE TypeOK'
  BY <1>8 DEF TypeOK, AssignId, At, Goto, busVars, memVars, objVars, callVars, Locations
<1>9. ASSUME NEW c \in Callers, UseAfterFree(c) PROVE TypeOK'
  BY <1>9 DEF TypeOK, UseAfterFree, busVars, memVars, objVars, callVars
<1>10. CASE UNCHANGED vars
  BY <1>10 DEF TypeOK, vars, busVars, memVars, objVars, callVars
<1>. QED
  BY <1>1, <1>2, <1>3, <1>4, <1>5, <1>6, <1>7, <1>8, <1>9, <1>10,
     CallType, GrowType, StoreType, ScanType DEF Next, Step

(* Every variable of the bus keeps its type, with any number of tasks      *)
(* registering at once: in particular the locals of registerType and its   *)
(* table stay within what the code can hold.                               *)
THEOREM TypeCorrect == Spec => []TypeOK
BY InitType, StepType, PTL DEF Spec

-----------------------------------------------------------------------------
(* Return values, with any number of tasks registering at once.            *)

(* A class is registered by one call only; before its task is started the  *)
(* class is not among the loops, afterwards it is; and its result is       *)
(* written by the last step of the call alone.                             *)
CallInv ==
  /\ \A c, d \in Callers : c # d /\ pc[c] # "idle" /\ pc[d] # "idle" => reg[c] # reg[d]
  /\ \A c \in Callers : pc[c] \in {"check", "grow", "store", "create"} => reg[c] \notin loops
  /\ \A c \in Callers : pc[c] \in {"load", "inc", "scan"} => reg[c] \in loops
  /\ \A c \in Callers : pc[c] # "idle" => result[reg[c]] = 0
  /\ \A r \in Classes \ built : result[r] = 0
  /\ \A r \in built :
       (\A c \in Callers : pc[c] # "idle" => reg[c] # r) => (result[r] = 0 <=> r \notin loops)

LEMMA InitCall == Init => CallInv
BY DEF Init, CallInv

(* What a step of a call leaves alone, and the one pc it moves.            *)
LEMMA CallStep ==
  ASSUME TypeOK, CallInv, NEW c \in Callers, Step(c)
  PROVE  CallInv'
<1>1. reg[c] \in built /\ pc[c] \in Locations \ {"idle"}
  BY DEF Step, Refuse, Admit, Grow, Store, CreateTask, LoadCount, StoreCount,
         Scan, AssignId, UseAfterFree, At, TypeOK, Locations
<1>2. CASE UNCHANGED <<built, loops, reg, result, pc>>
  BY <1>2 DEF CallInv
<1>3. CASE /\ pc[c] = "check" /\ pc' = [pc EXCEPT ![c] = "idle"]
           /\ UNCHANGED <<built, loops, reg, result>>
  BY <1>1, <1>3 DEF CallInv, TypeOK
<1>4. CASE /\ pc[c] \in {"check", "grow", "store"}
           /\ \E l \in {"grow", "store", "create"} : pc' = [pc EXCEPT ![c] = l]
           /\ UNCHANGED <<built, loops, reg, result>>
  BY SMTT(60), <1>1, <1>4 DEF CallInv, TypeOK
<1>5. CASE /\ pc[c] = "create" /\ pc' = [pc EXCEPT ![c] = "load"]
           /\ loops' = loops \cup {reg[c]}
           /\ UNCHANGED <<built, reg, result>>
  BY SMTT(60), <1>1, <1>5 DEF CallInv, TypeOK
<1>6. CASE /\ pc[c] = "create" /\ pc' = [pc EXCEPT ![c] = "idle"]
           /\ UNCHANGED <<built, loops, reg, result>>
  BY <1>1, <1>6 DEF CallInv, TypeOK
<1>7. CASE /\ pc[c] \in {"load", "inc"}
           /\ \E l \in {"inc", "scan"} : pc' = [pc EXCEPT ![c] = l]
           /\ UNCHANGED <<built, loops, reg, result>>
  BY <1>1, <1>7 DEF CallInv, TypeOK
<1>8. CASE /\ pc[c] = "scan" /\ pc' = [pc EXCEPT ![c] = "idle"]
           /\ result' = [result EXCEPT ![reg[c]] = tmp_min[c]]
           /\ UNCHANGED <<built, loops, reg>>
  <2>1. tmp_min[c] # 0 /\ reg[c] \in loops /\ reg[c] \in Classes
    BY <1>1, <1>8 DEF CallInv, TypeOK
  <2>2. result'[reg[c]] # 0 /\ \A r \in Classes : r # reg[c] => result'[r] = result[r]
    BY <1>8, <2>1 DEF TypeOK
  <2>. QED  BY <1>1, <1>8, <2>1, <2>2 DEF CallInv, TypeOK
<1>9. CASE Refuse(c)
  BY <1>3, <1>9 DEF Refuse, At, Goto, objVars, callVars
<1>10. CASE Admit(c)
  BY <1>4, <1>10 DEF Admit, At, Goto, objVars, callVars
<1>11. CASE Grow(c)
  BY <1>2, <1>4, <1>11 DEF Grow, At, Goto, objVars, callVars
<1>12. CASE Store(c)
  BY <1>2, <1>4, <1>12 DEF Store, Corrupt, At, Goto, objVars, callVars
<1>13. CASE CreateTask(c)
  BY <1>2, <1>5, <1>6, <1>13 DEF CreateTask, At, Goto, callVars
<1>14. CASE LoadCount(c)
  BY <1>7, <1>14 DEF LoadCount, At, Goto, objVars, callVars
<1>15. CASE StoreCount(c)
  BY <1>7, <1>15 DEF StoreCount, At, Goto, objVars, callVars
<1>16. CASE Scan(c)
  BY <1>2, <1>16 DEF Scan, Corrupt, objVars, callVars
<1>17. CASE AssignId(c)
  BY <1>8, <1>17 DEF AssignId, At, Goto, objVars, callVars
<1>18. CASE UseAfterFree(c)
  BY <1>2, <1>18 DEF UseAfterFree, objVars, callVars
<1>. QED
  BY <1>9, <1>10, <1>11, <1>12, <1>13, <1>14, <1>15, <1>16, <1>17, <1>18 DEF Step

LEMMA NextCall ==
  ASSUME TypeOK, CallInv, [Next]_vars
  PROVE  CallInv'
<1>1. ASSUME NEW c \in Callers, NEW b \in Buses, InitBus(c, b) PROVE CallInv'
  BY <1>1 DEF CallInv, InitBus, objVars, callVars
<1>2. ASSUME NEW c \in Callers, RemoveBus(c) PROVE CallInv'
  BY <1>2 DEF CallInv, RemoveBus, objVars, callVars
<1>3. ASSUME NEW c \in Callers, NEW r \in Classes, DestroyClass(c, r) PROVE CallInv'
  BY <1>3 DEF CallInv, DestroyClass, callVars
<1>4. ASSUME NEW c \in Callers, NEW r \in Classes, Call(c, r) PROVE CallInv'
  <2>1. /\ pc[c] = "idle" /\ r \notin built /\ built' = built \cup {r}
        /\ UNCHANGED <<loops, result>>
    BY <1>4 DEF Call, At
  <2>2. r \notin loops /\ result[r] = 0 /\ \A d \in Callers : pc[d] # "idle" => reg[d] # r
    BY <2>1 DEF TypeOK, CallInv
  <2>3. CASE UNCHANGED <<reg, pc>>
    BY <2>1, <2>2, <2>3 DEF CallInv
  <2>4. CASE reg' = [reg EXCEPT ![c] = r] /\ Goto(c, "check")
    <3>1. reg'[c] = r /\ pc'[c] = "check"
      BY <2>4 DEF TypeOK, Goto
    <3>2. \A d \in Callers : d # c => reg'[d] = reg[d] /\ pc'[d] = pc[d]
      BY <2>4 DEF TypeOK, Goto
    <3>. QED  BY <2>1, <2>2, <3>1, <3>2 DEF CallInv
  <2>. QED  BY <1>4, <2>3, <2>4 DEF Call
<1>5. CASE UNCHANGED vars
  BY <1>5 DEF CallInv, vars, objVars, callVars
<1>. QED  BY <1>1, <1>2, <1>3, <1>4, <1>5, CallStep DEF Next

(* registerType keeps its documented return value, "id, or 0 if error",    *)
(* however many tasks register at once: 0 exactly when no task was started.*)
THEOREM ReturnValues == Spec => []ZeroMeansNotRunning
<1>1. TypeOK /\ CallInv => ZeroMeansNotRunning
  BY DEF CallInv, ZeroMeansNotRunning, InFlight
<1>. QED
  BY <1>1, InitCall, NextCall, TypeCorrect, PTL DEF Spec

-----------------------------------------------------------------------------
(* Registrations one at a time: the ids.                                   *)

OneCaller == \A c, d \in Callers : c = d

(* The table proper: the counted cells lie in the allocated memory and     *)
(* hold constructed classes, no class twice.                               *)
TableInv ==
  /\ \A b \in Buses : count[b] <= cap[b] /\ count[b] <= MaxClasses
  /\ \A b \in Buses : \A i \in 0 .. count[b] - 1 : table[b][i] \in built
  /\ \A a, b \in Buses : \A i \in 0 .. count[a] - 1, j \in 0 .. count[b] - 1 :
       table[a][i] = table[b][j] => a = b /\ i = j

(* The call in progress: where the cell beyond the counted ones stands,    *)
(* and what the search has established of the cells before tmp_id.         *)
ProgressInv ==
  \A c \in Callers : LET b == this[c] IN
    /\ pc[c] \notin {"idle", "check"} => b \notin freed
    /\ pc[c] \in {"grow", "store", "create", "load", "inc"} => count[b] < MaxClasses
    /\ pc[c] \in {"store", "create", "load", "inc"} => count[b] < cap[b]
    /\ pc[c] \in {"create", "load", "inc"} => table[b][count[b]] = reg[c]
    /\ pc[c] = "inc" => seen[c] = count[b]
    /\ pc[c] \notin {"idle", "scan"} =>
         \A a \in Buses : \A i \in 0 .. count[a] - 1 : table[a][i] # reg[c]
    /\ pc[c] = "scan" =>
         /\ count[b] > 0 /\ table[b][count[b] - 1] = reg[c]
         /\ tmp_id[c] <= count[b]
         /\ \A i \in 0 .. tmp_id[c] - 1 : id[table[b][i]] # tmp_min[c]

(* The ids of the counted classes that no call is still registering.       *)
IdInv ==
  \A b \in Buses : \A i, j \in 0 .. count[b] - 1 :
    (\A c \in Callers : pc[c] # "idle" => reg[c] # table[b][i] /\ reg[c] # table[b][j])
      => /\ id[table[b][i]] # 0
         /\ i # j => id[table[b][i]] # id[table[b][j]]

BusInv == TableInv /\ ProgressInv /\ IdInv /\ InsideTable

LEMMA InitBusInv == Init => BusInv
<1> SUFFICES ASSUME Init PROVE BusInv
  OBVIOUS
<1>1. \A b \in Buses : 0 .. count[b] - 1 = {}
  BY DEF Init
<1>. QED
  BY <1>1, MaxAssumption DEF Init, BusInv, TableInv, ProgressInv, IdInv, InsideTable

(* A step that keeps the counted cells, the ids and the class the call is  *)
(* about keeps the table proper and the ids of what is registered.         *)
LEMMA CellsKept ==
  ASSUME TypeOK, TypeOK', TableInv, IdInv, UNCHANGED <<count, id>>,
         built \subseteq built',
         \A b \in Buses : count[b] <= cap'[b],
         \A b \in Buses : \A i \in 0 .. count[b] - 1 : table'[b][i] = table[b][i],
         \A c \in Callers : pc[c] # "idle" =>
            \/ pc'[c] # "idle" /\ reg'[c] = reg[c]
            \/ \A b \in Buses : \A i \in 0 .. count[b] - 1 : table[b][i] # reg[c]
  PROVE  TableInv' /\ IdInv'
<1>1. TableInv'
  BY DEF TableInv
<1>2. ASSUME NEW b \in Buses, NEW i \in 0 .. count[b] - 1, NEW j \in 0 .. count[b] - 1,
             \A c \in Callers : pc'[c] # "idle" => reg'[c] # table'[b][i] /\ reg'[c] # table'[b][j]
      PROVE  /\ id'[table'[b][i]] # 0
             /\ i # j => id'[table'[b][i]] # id'[table'[b][j]]
  <2>1. \A c \in Callers : pc[c] # "idle" => reg[c] # table[b][i] /\ reg[c] # table[b][j]
    BY <1>2
  <2>. QED  BY <2>1 DEF IdInv
<1>3. IdInv'
  BY <1>2 DEF IdInv
<1>. QED  BY <1>1, <1>3

LEMMA BusCall ==
  ASSUME OneCaller, TypeOK, TypeOK', BusInv, NEW c \in Callers, NEW r \in Classes, Call(c, r)
  PROVE  BusInv'
<1>1. /\ pc[c] = "idle" /\ r \notin built /\ built' = built \cup {r} /\ status = "running"
      /\ UNCHANGED <<count, cap, table, id, freed>>
  BY DEF Call, At, busVars, memVars
<1>2. \A d \in Callers : d = c
  BY DEF OneCaller
<1>3. TableInv' /\ IdInv'
  BY <1>1, <1>2, CellsKept DEF BusInv, TableInv
<1>4. CASE status' = "panic" /\ UNCHANGED <<this, reg, pc>>
  <2>1. ProgressInv'
    BY <1>1, <1>2, <1>4 DEF ProgressInv
  <2>. QED  BY <1>3, <1>4, <2>1 DEF BusInv, InsideTable
<1>5. CASE reg' = [reg EXCEPT ![c] = r] /\ Goto(c, "check") /\ UNCHANGED status
  <2>1. pc'[c] = "check" /\ reg'[c] = r
    BY <1>5 DEF TypeOK, Goto
  <2>2. \A a \in Buses : \A i \in 0 .. count[a] - 1 : table[a][i] # r
    BY <1>1 DEF BusInv, TableInv
  <2>3. ProgressInv'
    BY <1>1, <1>2, <2>1, <2>2 DEF ProgressInv
  <2>. QED  BY <1>1, <1>3, <1>5, <2>3 DEF BusInv, InsideTable
<1>. QED  BY <1>4, <1>5 DEF Call

(* The steps that write neither the table nor an id.                       *)
LEMMA BusQuiet ==
  ASSUME OneCaller, TypeOK, TypeOK', BusInv, NEW c \in Callers,
         Refuse(c) \/ Admit(c) \/ CreateTask(c) \/ LoadCount(c)
  PROVE  BusInv'
<1>1. \A d \in Callers : d = c
  BY DEF OneCaller
<1>2. this[c] \notin freed
  BY DEF Refuse, Admit, CreateTask, LoadCount, At, BusInv, ProgressInv
<1>3. /\ UNCHANGED <<count, cap, table, id, built, freed, this, reg>> /\ status' # "corrupt"
      /\ \/ pc[c] = "check" /\ pc' = [pc EXCEPT ![c] = "idle"]
         \/ pc[c] = "check" /\ pc' = [pc EXCEPT ![c] = "grow"] /\ count[this[c]] < MaxClasses
         \/ pc[c] = "create" /\ pc' = [pc EXCEPT ![c] = "idle"]
         \/ pc[c] = "create" /\ pc' = [pc EXCEPT ![c] = "load"]
         \/ pc[c] = "create" /\ UNCHANGED <<pc, seen, tmp_id, tmp_min>>
         \/ /\ pc[c] = "load" /\ pc' = [pc EXCEPT ![c] = "inc"]
            /\ seen' = [seen EXCEPT ![c] = count[this[c]]]
  BY DEF Refuse, Admit, CreateTask, LoadCount, At, Goto,
         busVars, memVars, objVars, callVars
<1>4. \A a \in Buses : \A i \in 0 .. count[a] - 1 : table[a][i] # reg[c]
  BY <1>3 DEF BusInv, ProgressInv
<1>5. TableInv' /\ IdInv'
  BY <1>1, <1>3, <1>4, CellsKept DEF BusInv, TableInv
<1>6. ProgressInv'
  <2>1. CASE pc' = [pc EXCEPT ![c] = "idle"]
    <3>1. pc'[c] = "idle"
      BY <2>1 DEF TypeOK
    <3>. QED  BY <1>1, <3>1 DEF ProgressInv
  <2>2. CASE pc[c] = "check" /\ pc' = [pc EXCEPT ![c] = "grow"] /\ count[this[c]] < MaxClasses
    <3>1. pc'[c] = "grow"
      BY <2>2 DEF TypeOK
    <3>. QED  BY <1>1, <1>2, <1>3, <1>4, <2>2, <3>1 DEF ProgressInv
  <2>3. CASE pc[c] = "create" /\ pc' = [pc EXCEPT ![c] = "load"]
    <3>1. pc'[c] = "load"
      BY <2>3 DEF TypeOK
    <3>. QED  BY <1>1, <1>2, <1>3, <1>4, <2>3, <3>1 DEF BusInv, ProgressInv
  <2>4. CASE /\ pc[c] = "load" /\ pc' = [pc EXCEPT ![c] = "inc"]
             /\ seen' = [seen EXCEPT ![c] = count[this[c]]]
    <3>1. pc'[c] = "inc" /\ seen'[c] = count[this[c]]
      BY <2>4 DEF TypeOK
    <3>. QED  BY <1>1, <1>2, <1>3, <1>4, <2>4, <3>1 DEF BusInv, ProgressInv
  <2>5. CASE UNCHANGED <<pc, seen, tmp_id, tmp_min>>
    BY <1>3, <2>5 DEF BusInv, ProgressInv
  <2>. QED  BY <1>3, <2>1, <2>2, <2>3, <2>4, <2>5
<1>. QED  BY <1>3, <1>5, <1>6 DEF BusInv, InsideTable

(* A call that meets a freed bus ends the program, nothing else.           *)
LEMMA BusFreed ==
  ASSUME BusInv, NEW c \in Callers, UseAfterFree(c)
  PROVE  BusInv'
BY DEF UseAfterFree, BusInv, TableInv, ProgressInv, IdInv, InsideTable,
       busVars, memVars, objVars, callVars

LEMMA BusGrow ==
  ASSUME OneCaller, TypeOK, TypeOK', BusInv, NEW c \in Callers, Grow(c)
  PROVE  BusInv'
<1> DEFINE b == this[c]
<1>1. \A d \in Callers : d = c
  BY DEF OneCaller
<1>2. /\ pc[c] = "grow" /\ b \notin freed /\ b \in Buses
      /\ count[b] < MaxClasses /\ count[b] \in Nat /\ count[b] <= cap[b]
  BY DEF Grow, At, BusInv, ProgressInv, TableInv, TypeOK
<1>3. UNCHANGED <<count, id, built, freed, this, reg, seen, tmp_id, tmp_min>>
  BY DEF Grow, busVars, objVars, callVars
<1>4. \A a \in Buses : \A i \in 0 .. count[a] - 1 : table[a][i] # reg[c]
  BY <1>2 DEF BusInv, ProgressInv
<1>5. CASE UNCHANGED <<cap, table, pc>>
  <2>1. TableInv' /\ IdInv'
    BY <1>1, <1>3, <1>5, CellsKept DEF BusInv, TableInv
  <2>2. ProgressInv'
    BY <1>3, <1>5 DEF BusInv, ProgressInv
  <2>3. InsideTable'
    BY <1>2, <1>5 DEF Grow, Goto, TypeOK, Locations, BusInv, InsideTable
  <2>. QED  BY <2>1, <2>2, <2>3 DEF BusInv
<1>6. CASE /\ cap' = [cap EXCEPT ![b] = count[b] + 1]
           /\ table' = [table EXCEPT ![b] = Regrown(b)]
           /\ Goto(c, "store")
           /\ UNCHANGED status
  <2>1. cap'[b] = count[b] + 1 /\ \A a \in Buses : a # b => cap'[a] = cap[a]
    BY <1>2, <1>6 DEF TypeOK
  <2>2. \A a \in Buses : \A i \in 0 .. count[a] - 1 : table'[a][i] = table[a][i]
    <3>1. cap[b] \in Nat /\ DOMAIN table = Buses
      BY <1>2 DEF TypeOK
    <3>2. \A i \in 0 .. count[b] - 1 : i \in 0 .. count[b] /\ i < cap[b]
      BY <1>2, <3>1
    <3>. QED  BY <1>2, <1>6, <3>1, <3>2 DEF Regrown
  <2>3. \A a \in Buses : count[a] <= cap'[a]
    BY <1>2, <2>1 DEF BusInv, TableInv
  <2>4. TableInv' /\ IdInv'
    BY <1>1, <1>3, <1>4, <2>2, <2>3, CellsKept DEF BusInv
  <2>5. pc'[c] = "store"
    BY <1>6 DEF Goto, TypeOK
  <2>6. ProgressInv'
    BY <1>1, <1>2, <1>3, <1>4, <2>1, <2>2, <2>5 DEF ProgressInv
  <2>. QED  BY <1>6, <2>4, <2>6 DEF BusInv, InsideTable
<1>. QED  BY <1>2, <1>5, <1>6 DEF Grow

LEMMA BusStore ==
  ASSUME OneCaller, TypeOK, TypeOK', BusInv, NEW c \in Callers, Store(c)
  PROVE  BusInv'
<1> DEFINE b == this[c]
<1>1. \A d \in Callers : d = c
  BY DEF OneCaller
<1>2. /\ pc[c] = "store" /\ b \notin freed /\ b \in Buses
      /\ count[b] < MaxClasses /\ count[b] \in Nat /\ count[b] < cap[b]
  BY DEF Store, At, BusInv, ProgressInv, TypeOK
<1>3. /\ UNCHANGED <<count, cap, id, built, freed, this, reg, status>>
      /\ table' = [table EXCEPT ![b] = [@ EXCEPT ![count[b]] = reg[c]]]
      /\ pc' = [pc EXCEPT ![c] = "create"]
  BY <1>2 DEF Store, Goto, busVars, objVars, callVars
<1>4. \A a \in Buses : \A i \in 0 .. count[a] - 1 : table[a][i] # reg[c]
  BY <1>2 DEF BusInv, ProgressInv
<1>5. \A a \in Buses : \A i \in 0 .. count[a] - 1 : table'[a][i] = table[a][i]
  <2>1. /\ DOMAIN table = Buses /\ DOMAIN table[b] = 0 .. cap[b] - 1
        /\ cap[b] \in Nat
    BY <1>2 DEF TypeOK
  <2>2. \A a \in Buses : a # b => table'[a] = table[a]
    BY <1>3, <2>1
  <2>3. table'[b] = [table[b] EXCEPT ![count[b]] = reg[c]]
    BY <1>2, <1>3, <2>1
  <2>4. \A i \in 0 .. count[b] - 1 : i \in 0 .. cap[b] - 1 /\ i # count[b]
    BY <1>2, <2>1
  <2>. QED  BY <2>1, <2>2, <2>3, <2>4
<1>6. table'[b][count[b]] = reg[c]
  BY <1>2, <1>3 DEF TypeOK
<1>7. pc'[c] = "create"
  BY <1>3 DEF TypeOK
<1>8. TableInv' /\ IdInv'
  BY <1>1, <1>3, <1>4, <1>5, CellsKept DEF BusInv, TableInv
<1>9. ProgressInv'
  BY <1>1, <1>2, <1>3, <1>4, <1>5, <1>6, <1>7 DEF ProgressInv
<1>. QED  BY <1>3, <1>8, <1>9 DEF BusInv, InsideTable

LEMMA BusStoreCount ==
  ASSUME OneCaller, TypeOK, TypeOK', BusInv, NEW c \in Callers, StoreCount(c)
  PROVE  BusInv'
<1> DEFINE b == this[c]
<1>1. \A d \in Callers : d = c
  BY DEF OneCaller
<1>2. /\ pc[c] = "inc" /\ b \notin freed /\ b \in Buses
      /\ count[b] < MaxClasses /\ count[b] \in Nat /\ count[b] < cap[b] /\ cap[b] \in Nat
      /\ seen[c] = count[b] /\ table[b][count[b]] = reg[c] /\ reg[c] \in built
  BY DEF StoreCount, At, BusInv, ProgressInv, TypeOK
<1>3. /\ UNCHANGED <<cap, table, id, built, freed, this, reg, status>>
      /\ count' = [count EXCEPT ![b] = count[b] + 1]
      /\ tmp_id'  = [tmp_id EXCEPT ![c] = 0]
      /\ pc' = [pc EXCEPT ![c] = "scan"]
  BY <1>2 DEF StoreCount, Goto, busVars, objVars
<1>4. \A a \in Buses : \A i \in 0 .. count[a] - 1 : table[a][i] # reg[c]
  BY <1>2 DEF BusInv, ProgressInv
<1>5. count'[b] = count[b] + 1 /\ \A a \in Buses : a # b => count'[a] = count[a]
  BY <1>2, <1>3 DEF TypeOK
<1>6. pc'[c] = "scan" /\ tmp_id'[c] = 0
  BY <1>3 DEF TypeOK
<1>7. \A a \in Buses : \A i \in 0 .. count'[a] - 1 :
        i \in 0 .. count[a] - 1 \/ (a = b /\ i = count[b])
  <2>1. \A i \in 0 .. (count[b] + 1) - 1 : i \in 0 .. count[b] - 1 \/ i = count[b]
    BY <1>2
  <2>. QED  BY <1>5, <2>1
<1>8. TableInv'
  <2>1. \A a \in Buses : count'[a] <= cap[a] /\ count'[a] <= MaxClasses
    <3>1. count[b] + 1 <= cap[b] /\ count[b] + 1 <= MaxClasses
      BY <1>2, MaxAssumption
    <3>. QED  BY <1>5, <3>1 DEF BusInv, TableInv
  <2>2. \A a \in Buses : \A i \in 0 .. count'[a] - 1 : table[a][i] \in built
    BY <1>2, <1>7 DEF BusInv, TableInv
  <2>3. ASSUME NEW a1 \in Buses, NEW a2 \in Buses,
               NEW i \in 0 .. count'[a1] - 1, NEW j \in 0 .. count'[a2] - 1,
               table[a1][i] = table[a2][j]
        PROVE  a1 = a2 /\ i = j
    BY <1>2, <1>4, <1>7, <2>3 DEF BusInv, TableInv
  <2>. QED  BY <1>3, <2>1, <2>2, <2>3 DEF TableInv
<1>9. IdInv'
  <2> SUFFICES ASSUME NEW a \in Buses, NEW i \in 0 .. count'[a] - 1, NEW j \in 0 .. count'[a] - 1,
                      reg[c] # table[a][i] /\ reg[c] # table[a][j]
               PROVE  id[table[a][i]] # 0 /\ (i # j => id[table[a][i]] # id[table[a][j]])
    BY <1>3, <1>6 DEF IdInv
  <2>1. i \in 0 .. count[a] - 1 /\ j \in 0 .. count[a] - 1
    BY <1>2, <1>7
  <2>. QED  BY <1>1, <2>1 DEF BusInv, IdInv
<1>10. ProgressInv'
  <2>1. count'[b] > 0 /\ count'[b] - 1 = count[b]
    BY <1>2, <1>5
  <2>2. 0 .. tmp_id'[c] - 1 = {} /\ tmp_id'[c] <= count'[b]
    BY <1>2, <1>5, <1>6
  <2>. QED  BY <1>1, <1>2, <1>3, <1>6, <2>1, <2>2 DEF ProgressInv
<1>. QED  BY <1>3, <1>8, <1>9, <1>10 DEF BusInv, InsideTable

LEMMA BusScan ==
  ASSUME OneCaller, TypeOK, TypeOK', BusInv, NEW c \in Callers, Scan(c)
  PROVE  BusInv'
<1> DEFINE b == this[c]
<1>1. \A d \in Callers : d = c
  BY DEF OneCaller
<1>2. /\ pc[c] = "scan" /\ b \notin freed /\ b \in Buses /\ Searching(c)
      /\ tmp_id[c] \in Nat /\ count[b] \in Nat /\ tmp_id[c] < count[b]
      /\ count[b] <= cap[b] /\ cap[b] \in Nat
  BY DEF Scan, Searching, At, BusInv, TableInv, TypeOK
<1>3. tmp_id[c] < cap[b] /\ table[b][tmp_id[c]] # NoClass
  <2>1. tmp_id[c] \in 0 .. count[b] - 1 /\ tmp_id[c] < cap[b]
    BY <1>2
  <2>2. table[b][tmp_id[c]] \in built /\ built \subseteq Classes
    BY <1>2, <2>1 DEF BusInv, TableInv, TypeOK
  <2>. QED  BY <2>1, <2>2, ClassesAssumption
<1>4. UNCHANGED <<count, cap, table, id, built, freed, this, reg, status, pc>>
  BY <1>2, <1>3 DEF Scan, busVars, memVars, objVars
<1>5. TableInv' /\ IdInv'
  BY <1>4 DEF BusInv, TableInv, IdInv
<1>6. CASE /\ id[table[b][tmp_id[c]]] = tmp_min[c]
           /\ tmp_id'  = [tmp_id EXCEPT ![c] = 0]
  <2>1. tmp_id'[c] = 0 /\ 0 .. tmp_id'[c] - 1 = {}
    BY <1>6 DEF TypeOK
  <2>. QED  BY <1>1, <1>2, <1>4, <1>5, <2>1 DEF BusInv, ProgressInv, InsideTable
<1>7. CASE /\ id[table[b][tmp_id[c]]] # tmp_min[c]
           /\ tmp_id' = [tmp_id EXCEPT ![c] = @ + 1]
           /\ UNCHANGED tmp_min
  <2>1. tmp_id'[c] = tmp_id[c] + 1
    BY <1>7 DEF TypeOK
  <2>2. \A i \in 0 .. tmp_id'[c] - 1 : i \in 0 .. tmp_id[c] - 1 \/ i = tmp_id[c]
    BY <1>2, <2>1
  <2>3. \A i \in 0 .. tmp_id'[c] - 1 : id[table[b][i]] # tmp_min[c]
    BY <1>2, <1>7, <2>2 DEF BusInv, ProgressInv
  <2>. QED  BY <1>1, <1>2, <1>4, <1>5, <1>7, <2>1, <2>3 DEF BusInv, ProgressInv, InsideTable
<1>. QED  BY <1>2, <1>3, <1>6, <1>7 DEF Scan, Found

LEMMA BusAssignId ==
  ASSUME OneCaller, TypeOK, TypeOK', BusInv, NEW c \in Callers, AssignId(c)
  PROVE  BusInv'
<1> DEFINE b == this[c]
           last == count[b] - 1
<1>1. \A d \in Callers : d = c
  BY DEF OneCaller
<1>2. /\ pc[c] = "scan" /\ b \in Buses /\ reg[c] \in Classes
      /\ count[b] \in Nat /\ count[b] > 0 /\ table[b][last] = reg[c]
      /\ tmp_id[c] = count[b] /\ tmp_min[c] # 0
  <2>1. pc[c] = "scan" /\ b \in Buses /\ reg[c] \in Classes /\ ~ Searching(c)
    BY DEF AssignId, At, TypeOK
  <2>2. /\ count[b] \in Nat /\ tmp_id[c] \in Nat /\ tmp_min[c] # 0
        /\ count[b] <= MaxClasses
    BY <2>1 DEF BusInv, TableInv, TypeOK
  <2>3. count[b] > 0 /\ table[b][last] = reg[c] /\ tmp_id[c] <= count[b]
    BY <2>1 DEF BusInv, ProgressInv
  <2>. QED  BY <2>1, <2>2, <2>3, MaxAssumption DEF Searching
<1>3. /\ UNCHANGED <<count, cap, table, built, freed, this, reg, status>>
      /\ id' = [id EXCEPT ![reg[c]] = tmp_min[c]]
      /\ pc' = [pc EXCEPT ![c] = "idle"]
  BY DEF AssignId, Goto, busVars, memVars, objVars, callVars
<1>4. pc'[c] = "idle"
  BY <1>3 DEF TypeOK
<1>5. id'[reg[c]] = tmp_min[c] /\ \A r \in Classes : r # reg[c] => id'[r] = id[r]
  BY <1>2, <1>3 DEF TypeOK
<1>6. \A a \in Buses : \A i \in 0 .. count[a] - 1 :
        /\ table[a][i] \in Classes
        /\ table[a][i] = reg[c] => a = b /\ i = last
  <2>1. last \in 0 .. count[b] - 1
    BY <1>2
  <2>2. \A a \in Buses : \A i \in 0 .. count[a] - 1 :
          table[a][i] \in Classes /\ (table[a][i] = table[b][last] => a = b /\ i = last)
    <3>1. built \subseteq Classes /\ TableInv
      BY DEF BusInv, TypeOK
    <3>. QED  BY <1>2, <2>1, <3>1 DEF TableInv
  <2>. QED  BY <1>2, <2>2
<1>7. \A i \in 0 .. count[b] - 1 : id[table[b][i]] # tmp_min[c]
  BY <1>2 DEF BusInv, ProgressInv
<1>8. IdInv'
  <2> SUFFICES ASSUME NEW a \in Buses, NEW i \in 0 .. count[a] - 1, NEW j \in 0 .. count[a] - 1
               PROVE  /\ id'[table[a][i]] # 0
                      /\ i # j => id'[table[a][i]] # id'[table[a][j]]
    BY <1>3 DEF IdInv
  <2>1. CASE table[a][i] = reg[c]
    <3>1. a = b /\ i = last
      BY <1>6, <2>1
    <3>2. i # j => table[a][j] # reg[c]
      BY <1>6, <3>1
    <3>. QED  BY <1>2, <1>5, <1>6, <1>7, <2>1, <3>1, <3>2
  <2>2. CASE table[a][i] # reg[c] /\ table[a][j] = reg[c]
    <3>1. a = b /\ j = last
      BY <1>6, <2>2
    <3>2. id'[table[a][i]] = id[table[a][i]] /\ id[table[a][i]] # tmp_min[c]
      BY <1>5, <1>6, <1>7, <2>2, <3>1
    <3>3. id[table[a][i]] # 0
      <4>1. i \in 0 .. count[a] - 1 /\ \A d \in Callers : reg[d] # table[a][i]
        BY <1>1, <2>2
      <4>. QED  BY <4>1 DEF BusInv, IdInv
    <3>. QED  BY <1>5, <2>2, <3>2, <3>3
  <2>3. CASE table[a][i] # reg[c] /\ table[a][j] # reg[c]
    <3>1. id'[table[a][i]] = id[table[a][i]] /\ id'[table[a][j]] = id[table[a][j]]
      BY <1>5, <1>6, <2>3
    <3>2. \A d \in Callers : reg[d] # table[a][i] /\ reg[d] # table[a][j]
      BY <1>1, <2>3
    <3>. QED  BY <3>1, <3>2 DEF BusInv, IdInv
  <2>. QED  BY <2>1, <2>2, <2>3
<1>9. TableInv'
  BY <1>3 DEF BusInv, TableInv
<1>10. ProgressInv'
  BY <1>1, <1>4 DEF ProgressInv
<1>. QED  BY <1>3, <1>8, <1>9, <1>10 DEF BusInv, InsideTable

LEMMA NextBusInv ==
  ASSUME OneCaller, TypeOK, TypeOK', BusInv, [Next]_vars
  PROVE  BusInv'
<1>1. ASSUME NEW c \in Callers, NEW b \in Buses, InitBus(c, b) PROVE BusInv'
  BY <1>1 DEF InitBus, BusInv, TableInv, ProgressInv, IdInv, InsideTable,
              memVars, objVars, callVars
<1>2. ASSUME NEW c \in Callers, RemoveBus(c) PROVE BusInv'
  <2>1. \A d \in Callers : pc[d] = "idle"
    BY <1>2 DEF RemoveBus, At, OneCaller
  <2>2. UNCHANGED <<memVars, objVars, callVars, id, pc>> /\ status' # "corrupt"
    BY <1>2 DEF RemoveBus, BusInv, InsideTable
  <2>. QED
    BY <2>1, <2>2 DEF BusInv, TableInv, ProgressInv, IdInv, InsideTable, memVars, objVars, callVars
<1>3. ASSUME NEW c \in Callers, NEW r \in Classes, DestroyClass(c, r) PROVE BusInv'
  BY <1>3 DEF DestroyClass, BusInv, TableInv, ProgressInv, IdInv, InsideTable,
              busVars, memVars, callVars
<1>4. CASE UNCHANGED vars
  BY <1>4 DEF BusInv, TableInv, ProgressInv, IdInv, InsideTable,
              vars, busVars, memVars, objVars, callVars
<1>. QED
  BY <1>1, <1>2, <1>3, <1>4, BusCall, BusQuiet, BusGrow, BusStore,
     BusStoreCount, BusScan, BusAssignId, BusFreed DEF Next, Step

LEMMA InductiveBus == ASSUME OneCaller PROVE Spec => [](TypeOK /\ BusInv)
<1>1. Init => TypeOK /\ BusInv
  BY InitType, InitBusInv
<1>2. TypeOK /\ BusInv /\ [Next]_vars => (TypeOK /\ BusInv)'
  BY StepType, NextBusInv
<1>. QED  BY <1>1, <1>2, PTL DEF Spec

(* One task registering: the search of registerType always ends on an id   *)
(* no other registered class of the bus has, for any number of classes and *)
(* whatever stale ids and failed calls came before.                        *)
THEOREM IdsAreUnique == ASSUME OneCaller PROVE Spec => []UniqueIds
<1>1. ASSUME TypeOK, BusInv PROVE UniqueIds
  <2> SUFFICES ASSUME NEW b \in Buses, NEW r \in Registered(b), NEW s \in Registered(b)
               PROVE  id[r] # 0 /\ (r # s => id[r] # id[s])
    BY DEF UniqueIds
  <2>1. PICK i \in 0 .. cap[b] - 1 : i < count[b] /\ table[b][i] = r
    BY DEF Registered
  <2>2. PICK j \in 0 .. cap[b] - 1 : j < count[b] /\ table[b][j] = s
    BY DEF Registered
  <2>3. i \in 0 .. count[b] - 1 /\ j \in 0 .. count[b] - 1
    BY <1>1, <2>1, <2>2 DEF TypeOK
  <2>4. \A c \in Callers : pc[c] # "idle" => reg[c] # r /\ reg[c] # s
    BY DEF Registered, InFlight
  <2>5. /\ id[table[b][i]] # 0
        /\ i # j => id[table[b][i]] # id[table[b][j]]
    BY <1>1, <2>1, <2>2, <2>3, <2>4 DEF BusInv, IdInv
  <2>. QED  BY <2>1, <2>2, <2>5
<1>. QED  BY <1>1, InductiveBus, PTL

(* One task registering: a live bus's table is never indexed outside its   *)
(* memory nor at a cell nobody wrote.  (That the bus lives is not promised *)
(* by the code: see RemovedBusIsUnused.)                                   *)
THEOREM TableAccessIsSafe == ASSUME OneCaller PROVE Spec => []InsideTable
<1>1. TypeOK /\ BusInv => InsideTable
  BY DEF BusInv
<1>. QED  BY <1>1, InductiveBus, PTL

(* With one registering task, the ids stay unique and the table is never   *)
(* left: the search of registerType (lines 154-162) and its table.         *)
THEOREM SoundTable == ASSUME OneCaller PROVE Spec => []TableIsSound
BY IdsAreUnique, TableAccessIsSafe, PTL DEF TableIsSound

-----------------------------------------------------------------------------
(* Registrations one at a time: the table, the loop tasks, the registry.   *)

(* A counted cell of bus b holds class r.                                  *)
InCells(b, r) == \E i \in 0 .. count[b] - 1 : table[b][i] = r

LEMMA RegisteredCells ==
  ASSUME TypeOK, BusInv, NEW b \in Buses, NEW r
  PROVE  r \in Registered(b) <=> r \in Classes \ InFlight /\ InCells(b, r)
<1>1. count[b] \in Nat /\ cap[b] \in Nat /\ count[b] <= cap[b]
  BY DEF TypeOK, BusInv, TableInv
<1>2. \A i : i \in 0 .. cap[b] - 1 /\ i < count[b] <=> i \in 0 .. count[b] - 1
  BY <1>1
<1>. QED  BY <1>2 DEF Registered, InCells

LEMMA OneInFlight ==
  ASSUME OneCaller, NEW c \in Callers
  PROVE  InFlight = IF pc[c] = "idle" THEN {} ELSE {reg[c]}
BY DEF OneCaller, InFlight

(* What a step may change of all that the registry is made of, for the one *)
(* call there is: nothing; the class in flight; its loop task; the count;  *)
(* or its id.                                                              *)
KeepsCells == \A b \in Buses : \A r \in Classes : InCells(b, r)' <=> InCells(b, r)

Quiet == UNCHANGED <<id, loops, InFlight>> /\ KeepsCells

Departs(r) == UNCHANGED <<id, loops>> /\ InFlight = {} /\ InFlight' = {r} /\ KeepsCells /\ \A b \in Buses : ~ InCells(b, r)

GivesUp(r) ==
  /\ UNCHANGED <<id, loops>> /\ InFlight = {r} /\ InFlight' = {} /\ KeepsCells
  /\ r \notin loops /\ \A b \in Buses : ~ InCells(b, r)

StartsLoop(r) == UNCHANGED <<id, InFlight>> /\ InFlight = {r} /\ loops' = loops \cup {r} /\ KeepsCells

Counts(b, r) ==
  /\ UNCHANGED <<id, loops, InFlight>> /\ InFlight = {r}
  /\ \A a \in Buses, s \in Classes : InCells(a, s)' <=> InCells(a, s) \/ (a = b /\ s = r)

Arrives(b, r, n) ==
  /\ InFlight = {r} /\ InFlight' = {} /\ UNCHANGED loops /\ KeepsCells
  /\ r \in loops /\ \A a \in Buses : InCells(a, r) <=> a = b
  /\ n \in Nat \ {0} /\ \A s \in Classes : InCells(b, s) => id[s] # n
  /\ id' = [id EXCEPT ![r] = n]

Registering ==
  \/ Quiet
  \/ \E r \in Classes : Departs(r) \/ GivesUp(r) \/ StartsLoop(r)
  \/ \E b \in Buses, r \in Classes : Counts(b, r) \/ \E n \in Nat : Arrives(b, r, n)

(* Steps that write neither the table nor the count.                       *)
LEMMA SameCells ==
  ASSUME UNCHANGED <<count, table>>
  PROVE  KeepsCells
BY DEF KeepsCells, InCells

LEMMA RegisteringGrow ==
  ASSUME OneCaller, TypeOK, TypeOK', BusInv, NEW c \in Callers, Grow(c)
  PROVE  Quiet
<1> DEFINE b == this[c]
<1>1. /\ pc[c] = "grow" /\ b \in Buses /\ count[b] \in Nat /\ cap[b] \in Nat
      /\ count[b] <= cap[b] /\ DOMAIN table = Buses
  BY DEF Grow, At, BusInv, TableInv, TypeOK
<1>2. UNCHANGED <<id, loops, reg, count>> /\ pc'[c] # "idle"
  BY <1>1 DEF Grow, Goto, objVars, callVars, TypeOK
<1>3. InFlight' = InFlight
  BY <1>1, <1>2 DEF OneCaller, InFlight
<1>4. \A a \in Buses : \A i \in 0 .. count[a] - 1 : table'[a][i] = table[a][i]
  <2>1. CASE UNCHANGED table
    BY <2>1
  <2>2. CASE table' = [table EXCEPT ![b] = Regrown(b)]
    <3>1. \A i \in 0 .. count[b] - 1 : i \in 0 .. count[b] /\ i < cap[b]
      BY <1>1
    <3>. QED  BY <1>1, <2>2, <3>1 DEF Regrown
  <2>. QED  BY <2>1, <2>2 DEF Grow
<1>. QED  BY <1>2, <1>3, <1>4 DEF Quiet, KeepsCells, InCells

LEMMA RegisteringStore ==
  ASSUME OneCaller, TypeOK, TypeOK', BusInv, NEW c \in Callers, Store(c)
  PROVE  Quiet
<1> DEFINE b == this[c]
<1>1. /\ pc[c] = "store" /\ b \in Buses /\ count[b] \in Nat /\ cap[b] \in Nat
      /\ b \notin freed /\ count[b] < cap[b]
      /\ DOMAIN table = Buses /\ DOMAIN table[b] = 0 .. cap[b] - 1
  BY DEF Store, At, BusInv, ProgressInv, TypeOK
<1>2. UNCHANGED <<id, loops, reg, count>> /\ pc'[c] # "idle"
  BY <1>1 DEF Store, Goto, objVars, callVars, TypeOK
<1>3. InFlight' = InFlight
  BY <1>1, <1>2 DEF OneCaller, InFlight
<1>4. \A a \in Buses : \A i \in 0 .. count[a] - 1 : table'[a][i] = table[a][i]
  <2>1. table'[b] = [table[b] EXCEPT ![count[b]] = reg[c]] /\ \A a \in Buses : a # b => table'[a] = table[a]
    BY <1>1 DEF Store
  <2>2. \A i \in 0 .. count[b] - 1 : i \in 0 .. cap[b] - 1 /\ i # count[b]
    BY <1>1
  <2>. QED  BY <1>1, <2>1, <2>2
<1>. QED  BY <1>2, <1>3, <1>4 DEF Quiet, KeepsCells, InCells

LEMMA RegisteringCount ==
  ASSUME OneCaller, TypeOK, TypeOK', BusInv, NEW c \in Callers, StoreCount(c)
  PROVE  Counts(this[c], reg[c])
<1> DEFINE b == this[c]
<1>1. /\ pc[c] = "inc" /\ b \in Buses /\ b \notin freed /\ count[b] \in Nat
      /\ seen[c] = count[b] /\ table[b][count[b]] = reg[c] /\ reg[c] \in Classes
  BY DEF StoreCount, At, BusInv, ProgressInv, TypeOK
<1>2. /\ UNCHANGED <<table, id, reg, loops>>
      /\ count' = [count EXCEPT ![b] = count[b] + 1]
      /\ pc'[c] = "scan"
  BY <1>1 DEF StoreCount, Goto, objVars, TypeOK
<1>3. InFlight = {reg[c]} /\ InFlight' = InFlight
  BY <1>1, <1>2 DEF OneCaller, InFlight
<1>4. count'[b] = count[b] + 1 /\ \A a \in Buses : a # b => count'[a] = count[a]
  BY <1>1, <1>2 DEF TypeOK
<1>5. \A i : i \in 0 .. count'[b] - 1 <=> i \in 0 .. count[b] - 1 \/ i = count[b]
  BY <1>1, <1>4
<1>6. ASSUME NEW a \in Buses, NEW s \in Classes
      PROVE  InCells(a, s)' <=> InCells(a, s) \/ (a = b /\ s = reg[c])
  BY <1>1, <1>2, <1>4, <1>5 DEF InCells
<1>. QED  BY <1>2, <1>3, <1>6 DEF Counts

LEMMA RegisteringId ==
  ASSUME OneCaller, TypeOK, TypeOK', BusInv, CallInv, NEW c \in Callers, AssignId(c)
  PROVE  Arrives(this[c], reg[c], tmp_min[c])
<1> DEFINE b == this[c]
<1>1. /\ pc[c] = "scan" /\ b \in Buses /\ reg[c] \in Classes
      /\ count[b] \in Nat /\ count[b] > 0 /\ table[b][count[b] - 1] = reg[c]
      /\ tmp_id[c] = count[b] /\ tmp_min[c] \in Nat \ {0} /\ reg[c] \in loops
  <2>1. pc[c] = "scan" /\ b \in Buses /\ reg[c] \in Classes /\ ~ Searching(c)
    BY DEF AssignId, At, TypeOK
  <2>2. /\ count[b] \in Nat /\ tmp_id[c] \in Nat /\ tmp_min[c] \in Nat \ {0}
        /\ count[b] <= MaxClasses /\ reg[c] \in loops
    BY <2>1 DEF BusInv, TableInv, TypeOK, CallInv
  <2>3. count[b] > 0 /\ table[b][count[b] - 1] = reg[c] /\ tmp_id[c] <= count[b]
    BY <2>1 DEF BusInv, ProgressInv
  <2>. QED  BY <2>1, <2>2, <2>3, MaxAssumption DEF Searching
<1>2. /\ UNCHANGED <<count, table, loops, reg>>
      /\ id' = [id EXCEPT ![reg[c]] = tmp_min[c]] /\ pc'[c] = "idle"
  BY DEF AssignId, Goto, memVars, objVars, callVars, TypeOK
<1>3. InFlight = {reg[c]} /\ InFlight' = {}
  BY <1>1, <1>2 DEF OneCaller, InFlight
<1>4. count[b] - 1 \in 0 .. count[b] - 1
  BY <1>1
<1>5. \A a \in Buses : InCells(a, reg[c]) <=> a = b
  BY <1>1, <1>4 DEF BusInv, TableInv, InCells
<1>6. \A s \in Classes : InCells(b, s) => id[s] # tmp_min[c]
  BY <1>1 DEF BusInv, ProgressInv, InCells
<1>. QED  BY <1>1, <1>2, <1>3, <1>5, <1>6, SameCells DEF Arrives

LEMMA RegisteringStep ==
  ASSUME OneCaller, TypeOK, TypeOK', BusInv, CallInv, [Next]_vars
  PROVE  Registering
<1>1. ASSUME NEW c \in Callers, NEW b \in Buses, InitBus(c, b) PROVE Quiet
  BY <1>1, SameCells DEF InitBus, Quiet, InFlight, memVars, objVars, callVars
<1>2. ASSUME NEW c \in Callers, RemoveBus(c) PROVE Quiet
  BY <1>2, SameCells DEF RemoveBus, Quiet, InFlight, memVars, objVars, callVars
<1>3. ASSUME NEW c \in Callers, NEW r \in Classes, DestroyClass(c, r) PROVE Quiet
  BY <1>3, SameCells DEF DestroyClass, Quiet, InFlight, memVars, callVars
<1>4. ASSUME NEW c \in Callers, NEW r \in Classes, Call(c, r), ~ UNCHANGED pc PROVE Departs(r)
  <2>1. pc[c] = "idle" /\ pc'[c] = "check" /\ reg'[c] = r /\ r \notin built
    BY <1>4 DEF Call, At, Goto, TypeOK
  <2>2. InFlight = {} /\ InFlight' = {r}
    BY <2>1 DEF OneCaller, InFlight
  <2>3. \A b \in Buses : ~ InCells(b, r)
    BY <2>1 DEF BusInv, TableInv, InCells
  <2>. QED  BY <1>4, <2>2, <2>3, SameCells DEF Call, Departs, memVars
<1>13. ASSUME NEW c \in Callers, NEW r \in Classes, Call(c, r), UNCHANGED pc PROVE Quiet
  <2>1. UNCHANGED <<count, table, id, loops>> /\ (UNCHANGED <<reg, pc>> \/ Goto(c, "check"))
    BY <1>13 DEF Call, memVars
  <2>2. pc[c] = "idle"
    BY <1>13 DEF Call, At
  <2>3. UNCHANGED <<reg, pc>>
    BY <1>13, <2>1, <2>2 DEF Goto, TypeOK
  <2>4. InFlight' = InFlight
    BY <2>3 DEF InFlight
  <2>. QED  BY <2>1, <2>4, SameCells DEF Quiet
<1>5. ASSUME NEW c \in Callers, Refuse(c) PROVE GivesUp(reg[c])
  <2>1. pc[c] = "check" /\ pc'[c] = "idle" /\ UNCHANGED <<count, table, id, loops>>
    BY <1>5 DEF Refuse, At, Goto, TypeOK, memVars, objVars
  <2>2. InFlight = {reg[c]} /\ InFlight' = {}
    BY <2>1 DEF OneCaller, InFlight
  <2>3. reg[c] \notin loops /\ \A b \in Buses : ~ InCells(b, reg[c])
    BY <2>1 DEF CallInv, BusInv, ProgressInv, InCells
  <2>. QED  BY <2>1, <2>2, <2>3, SameCells DEF GivesUp
<1>6. ASSUME NEW c \in Callers, Admit(c) PROVE Quiet
  <2>1. pc[c] # "idle" /\ pc'[c] # "idle" /\ UNCHANGED <<count, table, id, loops, reg>>
    BY <1>6 DEF Admit, At, Goto, TypeOK, memVars, objVars, callVars
  <2>. QED  BY <2>1, SameCells DEF Quiet, OneCaller, InFlight
<1>7. ASSUME NEW c \in Callers, CreateTask(c) PROVE GivesUp(reg[c]) \/ StartsLoop(reg[c]) \/ Quiet
  <2>1. pc[c] = "create" /\ UNCHANGED <<count, table, id, reg>>
    BY <1>7 DEF CreateTask, At, memVars, callVars
  <2>2. reg[c] \notin loops /\ \A b \in Buses : ~ InCells(b, reg[c])
    BY <2>1 DEF CallInv, BusInv, ProgressInv, InCells
  <2>3. InFlight = {reg[c]}
    BY <2>1 DEF OneCaller, InFlight
  <2>4. CASE UNCHANGED loops /\ Goto(c, "idle")
    <3>1. InFlight' = {}
      BY <2>4 DEF OneCaller, InFlight, Goto, TypeOK
    <3>. QED  BY <2>1, <2>2, <2>3, <2>4, <3>1, SameCells DEF GivesUp
  <2>5. CASE loops' = loops \cup {reg[c]} /\ Goto(c, "load")
    <3>1. pc'[c] = "load"
      BY <2>5 DEF Goto, TypeOK
    <3>2. InFlight' = InFlight
      BY <2>1, <3>1 DEF OneCaller, InFlight
    <3>. QED  BY <2>1, <2>3, <2>5, <3>2, SameCells DEF StartsLoop
  <2>6. CASE UNCHANGED <<loops, pc>>
    <3>1. InFlight' = InFlight
      BY <2>1, <2>6 DEF InFlight
    <3>. QED  BY <2>1, <2>6, <3>1, SameCells DEF Quiet
  <2>. QED  BY <1>7, <2>4, <2>5, <2>6 DEF CreateTask
<1>8. ASSUME NEW c \in Callers, LoadCount(c) PROVE Quiet
  <2>1. pc[c] # "idle" /\ pc'[c] # "idle" /\ UNCHANGED <<count, table, id, loops, reg>>
    BY <1>8 DEF LoadCount, At, Goto, TypeOK, memVars, objVars, callVars
  <2>. QED  BY <2>1, SameCells DEF Quiet, OneCaller, InFlight
<1>9. ASSUME NEW c \in Callers, Scan(c) PROVE Quiet
  <2>1. UNCHANGED <<count, table, id, loops, reg, pc>>
    BY <1>9 DEF Scan, Corrupt, memVars, objVars, callVars
  <2>2. InFlight' = InFlight
    BY <2>1 DEF InFlight
  <2>. QED  BY <2>1, <2>2, SameCells DEF Quiet
<1>14. ASSUME NEW c \in Callers, UseAfterFree(c) PROVE Quiet
  <2>1. UNCHANGED <<count, table, id, loops, reg, pc>>
    BY <1>14 DEF UseAfterFree, memVars, objVars, callVars
  <2>2. InFlight' = InFlight
    BY <2>1 DEF InFlight
  <2>. QED  BY <2>1, <2>2, SameCells DEF Quiet
<1>10. CASE UNCHANGED vars
  <2>1. UNCHANGED <<count, table, id, loops, reg, pc>>
    BY <1>10 DEF vars, memVars, objVars, callVars
  <2>2. InFlight' = InFlight
    BY <2>1 DEF InFlight
  <2>. QED  BY <2>1, <2>2, SameCells DEF Quiet, Registering
<1>11. \A c \in Callers : pc[c] # "idle" => reg[c] \in Classes /\ this[c] \in Buses
  BY DEF TypeOK
<1>12. ASSUME NEW c \in Callers, Step(c) PROVE Registering
  <2>1. reg[c] \in Classes /\ this[c] \in Buses /\ tmp_min[c] \in Nat
    BY <1>11, <1>12 DEF TypeOK, Step, Refuse, Admit, Grow, Store, CreateTask, LoadCount, StoreCount,
                        Scan, AssignId, UseAfterFree, At
  <2>. QED
    BY <1>5, <1>6, <1>7, <1>8, <1>9, <1>12, <1>14, <2>1, RegisteringGrow, RegisteringStore,
       RegisteringCount, RegisteringId DEF Step, Registering
<1>. QED
  BY <1>1, <1>2, <1>3, <1>4, <1>10, <1>12, <1>13 DEF Next, Registering

(* A class no call is registering has a loop task exactly when it is in a  *)
(* counted cell.                                                           *)
LoopInv == \A r \in Classes \ InFlight : r \in loops <=> \E b \in Buses : InCells(b, r)

LEMMA InitLoops == Init => LoopInv
<1>1. Init => \A b \in Buses : 0 .. count[b] - 1 = {}
  BY DEF Init
<1>. QED  BY <1>1 DEF Init, LoopInv, InCells

LEMMA NextLoops ==
  ASSUME LoopInv, Registering, TypeOK, BusInv
  PROVE  LoopInv'
<1>1. CASE Quiet
  BY <1>1 DEF Quiet, KeepsCells, LoopInv
<1>2. ASSUME NEW r \in Classes, Departs(r) PROVE LoopInv'
  BY <1>2 DEF Departs, KeepsCells, LoopInv
<1>3. ASSUME NEW r \in Classes, GivesUp(r) PROVE LoopInv'
  BY <1>3 DEF GivesUp, KeepsCells, LoopInv
<1>4. ASSUME NEW r \in Classes, StartsLoop(r) PROVE LoopInv'
  BY <1>4 DEF StartsLoop, KeepsCells, LoopInv
<1>5. ASSUME NEW b \in Buses, NEW r \in Classes, Counts(b, r) PROVE LoopInv'
  BY <1>5 DEF Counts, LoopInv
<1>6. ASSUME NEW b \in Buses, NEW r \in Classes, NEW n \in Nat, Arrives(b, r, n) PROVE LoopInv'
  BY <1>6 DEF Arrives, KeepsCells, LoopInv
<1>. QED  BY <1>1, <1>2, <1>3, <1>4, <1>5, <1>6 DEF Registering

RegistryInv == TypeOK /\ BusInv /\ CallInv /\ LoopInv

LEMMA InductiveRegistry == ASSUME OneCaller PROVE Spec => []RegistryInv
<1>1. Init => RegistryInv
  BY InitType, InitBusInv, InitCall, InitLoops DEF RegistryInv
<1>2. RegistryInv /\ [Next]_vars => RegistryInv'
  BY StepType, NextBusInv, NextCall, RegisteringStep, NextLoops DEF RegistryInv
<1>. QED  BY <1>1, <1>2, PTL DEF Spec

(* One task registering: no loop task is lost to the table and no counted  *)
(* cell is without one, whichever xTaskCreate or allocation failed.        *)
THEOREM LoopsAreCounted == ASSUME OneCaller PROVE Spec => []TableMatchesLoops
<1>1. ASSUME RegistryInv PROVE TableMatchesLoops
  <2>1. loops \subseteq Classes
    BY <1>1 DEF RegistryInv, TypeOK
  <2>2. \A b \in Buses : \A r : r \in Registered(b) <=> r \in Classes \ InFlight /\ InCells(b, r)
    BY <1>1, RegisteredCells DEF RegistryInv
  <2>. QED  BY <1>1, <2>1, <2>2 DEF TableMatchesLoops, RegistryInv, LoopInv
<1>. QED  BY <1>1, InductiveRegistry, PTL

-----------------------------------------------------------------------------
(* The refinement of ClassRegistry.                                        *)

(* What the mapping is, state by state.                                    *)
IdOfCells ==
  \A b \in Buses : \A r \in Classes :
    idOf[b][r] = IF r \notin InFlight /\ InCells(b, r) THEN id[r] ELSE 0

LEMMA IdOf == TypeOK /\ BusInv => IdOfCells
<1> SUFFICES ASSUME TypeOK, BusInv PROVE IdOfCells
  OBVIOUS
<1>1. \A b \in Buses : \A r \in Classes : r \in Registered(b) <=> r \notin InFlight /\ InCells(b, r)
  BY RegisteredCells
<1>. QED  BY <1>1 DEF idOf, IdOfCells

LEMMA InitRegistry == Init => Abstract!Init
<1> SUFFICES ASSUME Init PROVE Abstract!Init
  OBVIOUS
<1>1. \A b \in Buses : Registered(b) = {}
  BY DEF Init, Registered
<1>. QED  BY <1>1 DEF idOf, Abstract!Init

(* Nothing but the last step of a call that arrives is visible.            *)
LEMMA StepRegistry ==
  ASSUME TypeOK, IdOfCells, IdOfCells', Registering
  PROVE  [Abstract!Next]_idOf
<1>1. ASSUME \A b \in Buses : \A r \in Classes : idOf'[b][r] = idOf[b][r]
      PROVE  UNCHANGED idOf
  <2>1. \A b \in Buses : idOf'[b] = idOf[b]
    BY <1>1 DEF idOf
  <2>. QED  BY <2>1 DEF idOf
<1>2. CASE Quiet
  BY <1>1, <1>2 DEF Quiet, KeepsCells, IdOfCells
<1>3. ASSUME NEW r \in Classes, Departs(r) PROVE UNCHANGED idOf
  BY <1>1, <1>3 DEF Departs, KeepsCells, IdOfCells
<1>4. ASSUME NEW r \in Classes, GivesUp(r) PROVE UNCHANGED idOf
  BY <1>1, <1>4 DEF GivesUp, KeepsCells, IdOfCells
<1>5. ASSUME NEW r \in Classes, StartsLoop(r) PROVE UNCHANGED idOf
  BY <1>1, <1>5 DEF StartsLoop, KeepsCells, IdOfCells
<1>6. ASSUME NEW b \in Buses, NEW r \in Classes, Counts(b, r) PROVE UNCHANGED idOf
  BY <1>1, <1>6 DEF Counts, IdOfCells
<1>7. ASSUME NEW b \in Buses, NEW r \in Classes, NEW n \in Nat, Arrives(b, r, n)
      PROVE  Abstract!Next
  <2>1. idOf[b][r] = 0 /\ idOf'[b][r] = n
    BY <1>7 DEF Arrives, KeepsCells, IdOfCells, TypeOK
  <2>2. \A s \in Classes : idOf[b][s] # n
    BY <1>7 DEF Arrives, IdOfCells
  <2>3. \A a \in Buses : \A s \in Classes : ~ (a = b /\ s = r) => idOf'[a][s] = idOf[a][s]
    BY SMTT(60), <1>7 DEF Arrives, KeepsCells, IdOfCells, TypeOK
  <2>4. idOf' = [idOf EXCEPT ![b] = [@ EXCEPT ![r] = n]]
    <3>1. \A a \in Buses : idOf'[a] = [idOf EXCEPT ![b] = [@ EXCEPT ![r] = n]][a]
      BY <2>1, <2>3 DEF idOf
    <3>. QED  BY <3>1 DEF idOf
  <2>. QED  BY <1>7, <2>1, <2>2, <2>4 DEF Arrives, Abstract!Next, Abstract!Enrol
<1>. QED  BY <1>2, <1>3, <1>4, <1>5, <1>6, <1>7 DEF Registering

(* One task registering: registerType implements the registry - an id that *)
(* a class has been given is fresh and non-zero, appears in one step, and  *)
(* no later call, failure, init() or remove() changes it.                  *)
THEOREM RegistryImplemented == ASSUME OneCaller PROVE Spec => ImplementsRegistry
<1>1. Init => Abstract!Init
  BY InitRegistry
<1>2. RegistryInv /\ RegistryInv' /\ [Next]_vars => [Abstract!Next]_idOf
  <2>1. RegistryInv => IdOfCells
    BY IdOf DEF RegistryInv
  <2>2. RegistryInv' => IdOfCells'
    BY <2>1, PTL
  <2>3. RegistryInv /\ RegistryInv' /\ [Next]_vars => Registering /\ TypeOK
    BY RegisteringStep DEF RegistryInv
  <2>. QED  BY <2>1, <2>2, <2>3, StepRegistry
<1>. QED  BY <1>1, <1>2, InductiveRegistry, PTL DEF Spec, ImplementsRegistry, Abstract!Spec
=============================================================================
