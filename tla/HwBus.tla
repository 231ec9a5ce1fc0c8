------------------------------- MODULE HwBus -------------------------------
(***************************************************************************)
(* The Hardware bus of src/ESP32_System.cpp: the global pointer Bus with   *)
(* init() and remove(), and Hardware::registerType, which a driver's       *)
(* constructor calls to enter its class in the table of handler classes    *)
(* and to start the class's loop task.                                     *)
(*                                                                         *)
(* registerType holds no lock, so a call is a sequence of steps and the    *)
(* calls of several tasks interleave.  A step is a stretch of the code     *)
(* that ends where another task's step may matter: after a call into the   *)
(* kernel or the allocator, or at an access to a member of the bus.        *)
(***************************************************************************)
EXTENDS Naturals

CONSTANTS
  Callers,     \* the tasks that construct drivers
  Classes,     \* the handler-class objects (each with the t_regHW it made)
  Buses,       \* the Hardware objects init() may create
  MaxClasses,  \* maxNumberOfHandlerClasses
  StaleIds,    \* what reg->id may hold before the registration
  NoBus,       \* the null pointer of type Hardware*
  NoClass      \* content of a table cell nobody has written

ASSUME ClassesAssumption == NoClass \notin Classes
ASSUME BusesAssumption   == NoBus \notin Buses
ASSUME MaxAssumption     == MaxClasses \in Nat
ASSUME StaleAssumption   == StaleIds \subseteq Nat

VARIABLES
  Bus,      \* the global pointer
  made,     \* the bus objects init() has created
  freed,    \* the bus objects remove() has deleted
  count,    \* numberOfHandlerClasses of each bus
  cap,      \* cells HandlerClasses of each bus has room for (0: null)
  table,    \* HandlerClasses of each bus, indexed by 0 .. cap - 1
  id,       \* reg->id of each class
  built,    \* classes whose constructor has run
  alive,    \* constructed classes that have not been destroyed
  loops,    \* classes whose loop task was started (no code ever stops one)
  result,   \* what registerType returned for each class
  pc,       \* where each caller is in registerType
  this,     \* the bus each caller's call works on
  reg,      \* the class each caller's call registers
  seen,     \* the value numberOfHandlerClasses++ has read
  tmp_id,   \* the locals of the search for an id
  tmp_min,
  status    \* "running", or how the program left defined behaviour:
            \* "panic" (access through null), "wild" (a handle nobody wrote
            \* is used), "corrupt" (access outside the table), "freed" (the
            \* bus is used after remove()), "doublefree"

busVars  == <<Bus, made, freed>>
memVars  == <<count, cap, table>>
objVars  == <<built, alive, loops>>
callVars == <<this, reg, seen, tmp_id, tmp_min>>
vars     == <<busVars, memVars, objVars, callVars, id, result, pc, status>>

Locations == {"idle", "check", "grow", "store", "create", "load", "inc", "scan"}

-----------------------------------------------------------------------------
Init ==
  /\ Bus = NoBus /\ made = {} /\ freed = {}
  /\ count = [b \in Buses |-> 0]
  /\ cap   = [b \in Buses |-> 0]
  /\ table = [b \in Buses |-> [i \in {} |-> NoClass]]
  /\ id \in [Classes -> StaleIds]
  /\ built = {} /\ alive = {} /\ loops = {}
  /\ result = [r \in Classes |-> 0]
  /\ pc = [c \in Callers |-> "idle"]
  /\ this = [c \in Callers |-> NoBus]
  /\ reg  = [c \in Callers |-> NoClass]
  /\ seen    = [c \in Callers |-> 0]
  /\ tmp_id  = [c \in Callers |-> 0]
  /\ tmp_min = [c \in Callers |-> 1]
  /\ status = "running"

At(c, l) == status = "running" /\ pc[c] = l

Goto(c, l) == pc' = [pc EXCEPT ![c] = l]

(* init(): a new bus, whatever Bus pointed at; the old object, its table   *)
(* and its loop tasks are left as they are.                                *)
InitBus(c, b) ==
  /\ At(c, "idle")
  /\ b \notin made
  /\ Bus' = b
  /\ made' = made \cup {b}
  /\ UNCHANGED <<freed, memVars, objVars, callVars, id, result, pc, status>>

(* remove() on a non-null pointer: deletes what Bus points at, leaves the  *)
(* pointer and returns true.  (On a null pointer it returns false and      *)
(* changes nothing.)                                                       *)
RemoveBus(c) ==
  /\ At(c, "idle")
  /\ Bus # NoBus
  /\ freed' = freed \cup {Bus}
  /\ status' = IF Bus \in freed THEN "doublefree" ELSE status
  /\ UNCHANGED <<Bus, made, memVars, objVars, callVars, id, result, pc>>

(* A driver object is destroyed: the destructors are empty, so neither the *)
(* table nor the loop task hears of it.                                    *)
DestroyClass(c, r) ==
  /\ At(c, "idle")
  /\ r \in alive
  /\ \A d \in Callers : pc[d] # "idle" => reg[d] # r
  /\ alive' = alive \ {r}
  /\ UNCHANGED <<busVars, memVars, built, loops, callVars, id, result, pc, status>>

-----------------------------------------------------------------------------
(* registerType, one action per step.                                      *)

Corrupt == status' = "corrupt" /\ UNCHANGED <<memVars, objVars, callVars, id, result, pc>>

(* The constructor of class r runs and calls Bus->registerType(reg), what- *)
(* ever Bus is: null when init() never ran, or a bus that remove() freed.  *)
Call(c, r) ==
  /\ At(c, "idle")
  /\ r \notin built
  /\ built' = built \cup {r}
  /\ alive' = alive \cup {r}
  /\ UNCHANGED <<busVars, memVars, loops, seen, tmp_id, tmp_min, id, result>>
  /\ IF Bus = NoBus
     THEN status' = "panic" /\ UNCHANGED <<this, reg, pc>>
     ELSE /\ this' = [this EXCEPT ![c] = Bus]
          /\ reg'  = [reg EXCEPT ![c] = r]
          /\ Goto(c, "check")
          /\ UNCHANGED status

(* The next line of a call reads or writes the bus, which remove() has     *)
(* freed in the meantime, or before the call began.  (The steps below take *)
(* a bus that is not freed; the creation of the task does not touch it.)   *)
UseAfterFree(c) ==
  /\ status = "running" /\ pc[c] \in Locations \ {"idle", "create"}
  /\ this[c] \in freed
  /\ status' = "freed"
  /\ UNCHANGED <<busVars, memVars, objVars, callVars, id, result, pc>>

(* The table is full, or the free heap is below the size of the new table: *)
(* return 0 with nothing done.                                             *)
Refuse(c) ==
  /\ At(c, "check") /\ this[c] \notin freed
  /\ Goto(c, "idle")
  /\ UNCHANGED <<busVars, memVars, objVars, callVars, id, result, status>>

Admit(c) ==
  /\ At(c, "check") /\ this[c] \notin freed
  /\ count[this[c]] < MaxClasses
  /\ Goto(c, "grow")
  /\ UNCHANGED <<busVars, memVars, objVars, callVars, id, result, status>>

RegrownBlank(b) == [i \in 0 .. count[b] |-> NoClass]  \* fault variant: malloc, not realloc

Regrown(b) == [i \in 0 .. count[b] |-> IF i < cap[b] THEN table[b][i] ELSE NoClass]

(* malloc or realloc to one cell more than are counted.  The result is not *)
(* tested: when it is null the store of the next line is the panic.        *)
Grow(c) ==
  LET b == this[c] IN
  /\ At(c, "grow") /\ b \notin freed
  /\ UNCHANGED <<busVars, count, objVars, callVars, id, result>>
  /\ \/ /\ cap' = [cap EXCEPT ![b] = count[b] + 1]
        /\ table' = [table EXCEPT ![b] = Regrown(b)]
        /\ Goto(c, "store")
        /\ UNCHANGED status
     \/ status' = "panic" /\ UNCHANGED <<cap, table, pc>>

(* HandlerClasses[numberOfHandlerClasses] = reg                            *)
Store(c) ==
  LET b == this[c] IN
  /\ At(c, "store") /\ b \notin freed
  /\ UNCHANGED busVars
  /\ IF count[b] < cap[b]
     THEN /\ table' = [table EXCEPT ![b] = [@ EXCEPT ![count[b]] = reg[c]]]
          /\ Goto(c, "create")
          /\ UNCHANGED <<count, cap, objVars, callVars, id, result, status>>
     ELSE Corrupt

(* Fault variant: the result of xTaskCreate is not looked at.               *)
CreateTaskUnchecked(c) ==
  /\ At(c, "create")
  /\ \E started \in SUBSET {reg[c]} : loops' = loops \cup started
  /\ Goto(c, "load")
  /\ UNCHANGED <<busVars, memVars, built, alive, callVars, id, result, status>>

(* esp_event_loop_create, whose result is ignored: when it fails, a handle *)
(* nobody wrote is used.  Then xTaskCreate: the loop task runs from here   *)
(* on, or there is no memory for it: return 0 and leave the cell just      *)
(* written, uncounted.                                                     *)
CreateTask(c) ==
  /\ At(c, "create")
  /\ UNCHANGED <<busVars, memVars, built, alive, callVars, id, result>>
  /\ \/ loops' = loops \cup {reg[c]} /\ Goto(c, "load") /\ UNCHANGED status
     \/ UNCHANGED <<loops, status>> /\ Goto(c, "idle")
     \/ UNCHANGED <<loops, pc>> /\ status' = "wild"

(* numberOfHandlerClasses++, a load and a store.                           *)
LoadCount(c) ==
  /\ At(c, "load") /\ this[c] \notin freed
  /\ seen' = [seen EXCEPT ![c] = count[this[c]]]
  /\ Goto(c, "inc")
  /\ UNCHANGED <<busVars, memVars, objVars, this, reg, tmp_id, tmp_min, id, result, status>>

StoreCount(c) ==
  /\ At(c, "inc") /\ this[c] \notin freed
  /\ count' = [count EXCEPT ![this[c]] = seen[c] + 1]
  /\ tmp_id'  = [tmp_id EXCEPT ![c] = 0]
  /\ tmp_min' = [tmp_min EXCEPT ![c] = 1]
  /\ Goto(c, "scan")
  /\ UNCHANGED <<busVars, cap, table, objVars, this, reg, seen, id, result, status>>

(* Whether the search goes on: the condition of its while.                 *)
Searching(c) == tmp_id[c] <= MaxClasses /\ tmp_id[c] < count[this[c]]

FoundNoRestart(c) ==                          \* fault variant: the restart is missing
  /\ tmp_min' = [tmp_min EXCEPT ![c] = @ + 1]
  /\ tmp_id'  = [tmp_id EXCEPT ![c] = @ + 1]

FoundNoNext(c) ==                  \* fault variant: the candidate is not moved on
  /\ UNCHANGED tmp_min
  /\ tmp_id'  = [tmp_id EXCEPT ![c] = 0]

(* The candidate is taken: try the next one, from the first cell on.        *)
Found(c) ==
  /\ tmp_min' = [tmp_min EXCEPT ![c] = @ + 1]
  /\ tmp_id'  = [tmp_id EXCEPT ![c] = 0]

(* One turn of the search: the cell at tmp_id either has the candidate id, *)
(* and the search restarts with the next candidate, or has not.            *)
Scan(c) ==
  LET b == this[c] IN
  /\ At(c, "scan") /\ b \notin freed
  /\ Searching(c)
  /\ UNCHANGED busVars
  /\ IF tmp_id[c] >= cap[b] \/ table[b][tmp_id[c]] = NoClass
     THEN Corrupt
     ELSE /\ IF id[table[b][tmp_id[c]]] = tmp_min[c]
             THEN Found(c)
             ELSE /\ tmp_id' = [tmp_id EXCEPT ![c] = @ + 1]
                  /\ UNCHANGED tmp_min
          /\ UNCHANGED <<memVars, objVars, this, reg, seen, id, result, pc, status>>

(* reg->id = tmp_min; return reg->id                                       *)
AssignId(c) ==
  /\ At(c, "scan")
  /\ this[c] \notin freed
  /\ ~ Searching(c)
  /\ id' = [id EXCEPT ![reg[c]] = tmp_min[c]]
  /\ result' = [result EXCEPT ![reg[c]] = tmp_min[c]]
  /\ Goto(c, "idle")
  /\ UNCHANGED <<busVars, memVars, objVars, callVars, status>>

Step(c) ==
  \/ Refuse(c) \/ Admit(c) \/ Grow(c) \/ Store(c) \/ CreateTask(c)
  \/ LoadCount(c) \/ StoreCount(c) \/ Scan(c) \/ AssignId(c) \/ UseAfterFree(c)

Next ==
  \/ \E c \in Callers, b \in Buses : InitBus(c, b)
  \/ \E c \in Callers : RemoveBus(c)
  \/ \E c \in Callers, r \in Classes : DestroyClass(c, r) \/ Call(c, r)
  \/ \E c \in Callers : Step(c)

Spec == Init /\ [][Next]_vars

(* The scheduler runs every ready task, so a call that has begun goes on;  *)
(* nobody is obliged to begin one.                                         *)
FairSpec == Spec /\ \A c \in Callers : WF_vars(Step(c))

-----------------------------------------------------------------------------
TypeOK ==
  /\ Bus \in made \cup {NoBus} /\ made \subseteq Buses /\ freed \subseteq made
  /\ count \in [Buses -> Nat]
  /\ cap \in [Buses -> Nat]
  /\ DOMAIN table = Buses
  /\ \A b \in Buses : table[b] \in [0 .. cap[b] - 1 -> Classes \cup {NoClass}]
  /\ id \in [Classes -> Nat]
  /\ built \subseteq Classes /\ alive \subseteq built /\ loops \subseteq built
  /\ result \in [Classes -> Nat]
  /\ pc \in [Callers -> Locations]
  /\ this \in [Callers -> Buses \cup {NoBus}]
  /\ reg \in [Callers -> Classes \cup {NoClass}]
  /\ seen \in [Callers -> Nat]
  /\ tmp_id \in [Callers -> Nat]
  /\ tmp_min \in [Callers -> Nat \ {0}]
  /\ \A c \in Callers : pc[c] # "idle" => this[c] \in made /\ reg[c] \in built
  /\ status \in {"running", "panic", "wild", "corrupt", "freed", "doublefree"}

(* The classes some call is still registering.                             *)
InFlight == {reg[c] : c \in {d \in Callers : pc[d] # "idle"}}

(* The classes counted in the table of bus b whose registration is over.   *)
Registered(b) ==
  {r \in Classes \ InFlight :
     \E i \in 0 .. cap[b] - 1 : i < count[b] /\ table[b][i] = r}

(* Every id a bus gave out is its own: two classes whose registration on   *)
(* one bus succeeded have different, non-zero ids (registerType, the       *)
(* search of lines 154-162), whatever failed or stale registrations        *)
(* happened in between.  Needs the registrations to come one at a time.    *)
UniqueIds ==
  \A b \in Buses : \A r, s \in Registered(b) :
    id[r] # 0 /\ (r # s => id[r] # id[s])

(* No loop task is lost to the table and no entry of the table is without  *)
(* one: the classes whose loops were started are, calls in progress apart, *)
(* those counted in the table of some bus (xTaskCreate, the count and the  *)
(* cell of a failed call that the next call overwrites).                   *)
TableMatchesLoops == UNION {Registered(b) : b \in Buses} = loops \ InFlight

(* registerType never leaves the table it has allocated, though the count  *)
(* it indexes with is read anew each time: no access to a bus that lives   *)
(* goes beyond its cells or to one that nobody wrote.                      *)
InsideTable == status # "corrupt"

(* What registrations that come one at a time keep of the table.           *)
TableIsSound == UniqueIds /\ InsideTable

(* The documented use of remove(), "removes Bus pointer": no driver that   *)
(* is constructed later registers on the bus that was deleted.             *)
RemovedBusIsUnused == status # "freed"

(* The documented return value, "id, or 0 if error": once the call is over *)
(* a class has 0 exactly when its loop task was not started.               *)
ZeroMeansNotRunning ==
  \A r \in built \ InFlight : result[r] = 0 <=> r \notin loops

(* The rule of ESP32_System.h that a registered class is available while   *)
(* its handler works: a loop task that runs has its object.                *)
LoopsHaveTheirClass == loops \subseteq alive

(* A call returns: the search, which starts over whenever it finds its     *)
(* candidate taken, ends.                                                  *)
CallReturns ==
  \A c \in Callers : pc[c] # "idle" ~> (pc[c] = "idle" \/ status # "running")

(* The bus as ClassRegistry sees it: the ids of the registered classes.    *)
idOf == [b \in Buses |-> [r \in Classes |-> IF r \in Registered(b) THEN id[r] ELSE 0]]

Abstract == INSTANCE ClassRegistry

(* registerType implements the registry: ids appear one at a time, fresh,  *)
(* when a call ends, and no later call, failed call, init() or remove()    *)
(* changes or withdraws one.                                               *)
ImplementsRegistry == Abstract!Spec
=============================================================================
