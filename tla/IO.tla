--------------------------------- MODULE IO ---------------------------------
(***************************************************************************)
(* The IO driver, class_IO of src/Extensions/IO.cpp: a table of devices    *)
(* that addDI and addAI fill and that the task IO_loop, started by the     *)
(* bus when the driver is constructed, polls for ever on core 0.  Nothing  *)
(* orders the two but the values they read, and nothing orders the three   *)
(* stores of an add: each field of a slot is read and written by a step of *)
(* its own, and the stores of one add happen in any order.                 *)
(***************************************************************************)
EXTENDS Naturals

CONSTANTS
  Adders,      \* the tasks that call addDI and addAI
  Pins,        \* the pins they ask for
  NotDefined,  \* GPIO_NOTDEFINED: the pin of a free slot
  Callbacks,   \* the callback functions they pass
  Null,        \* the null callback
  NumSlots     \* the length of the table, 40

ASSUME PinAssumption      == NotDefined \notin Pins
ASSUME CallbackAssumption == Null \notin Callbacks
ASSUME SlotAssumption     == NumSlots \in Nat \ {0}

Slots == 0 .. NumSlots - 1
Types == {"DI", "AI"}
Fields == {"pin", "type", "callback"}
NoData   == [pin |-> NotDefined, type |-> "NOP"]
NoDevice == [pin |-> NotDefined, type |-> "NOP", callback |-> Null]
Requests == [pin : Pins \cup {NotDefined}, type : Types, callback : Callbacks \cup {Null}]
AllDevices == [pin : Pins \cup {NotDefined}, type : Types \cup {"NOP"}, callback : Callbacks \cup {Null}]

VARIABLES
  pin,       \* Devices[id].pin
  type,      \* Devices[id].deviceType
  callback,  \* Devices[id].callbackHandler
  pc,        \* where each adder is in addDI or addAI
  want,      \* what it was asked to add
  id,        \* its local id
  todo,      \* the fields it has not stored yet
  ret,       \* what its last call returned
  loopPc,    \* where IO_loop is
  branch,    \* which of its two branches, on DI or on AI
  loopId,    \* its local id
  rvalue,    \* the pin and type it has copied for the callback
  calling,   \* the device whose callback is running, or NoDevice
  panic      \* the null callback was called

adderVars == <<pc, want, id, todo, ret>>
loopVars  == <<loopPc, branch, loopId, rvalue, calling, panic>>
Devices   == <<pin, type, callback>>
vars      == <<Devices, adderVars, loopVars>>

(* The table as the constructor leaves it, before it registers IO_loop.    *)
Init ==
  /\ pin = [s \in Slots |-> NotDefined]
  /\ type = [s \in Slots |-> "NOP"]
  /\ callback = [s \in Slots |-> Null]
  /\ pc = [a \in Adders |-> "idle"]
  /\ want = [a \in Adders |-> NoDevice]
  /\ id = [a \in Adders |-> 0]
  /\ todo = [a \in Adders |-> {}]
  /\ ret = [a \in Adders |-> 0]
  /\ loopPc = "pin" /\ branch = "DI" /\ loopId = 0
  /\ rvalue = NoData
  /\ calling = NoDevice
  /\ panic = FALSE

-----------------------------------------------------------------------------
(* addDI and addAI, which differ in the type they store.                   *)

At(a, l) == ~ panic /\ pc[a] = l

Goto(a, l) == pc' = [pc EXCEPT ![a] = l]

(* The call ends, its locals with it.                                      *)
Return(a, value) ==
  /\ Goto(a, "idle")
  /\ ret' = [ret EXCEPT ![a] = value]
  /\ want' = [want EXCEPT ![a] = NoDevice]
  /\ id' = [id EXCEPT ![a] = 0]

Fail(a) == Return(a, 0)

RejectedNever(d) == FALSE                      \* fault variant: no null check

(* if (!callbackHandler) return 0                                          *)
Rejected(d) == d.callback = Null

Add(a, d) ==
  /\ At(a, "idle")
  /\ UNCHANGED <<Devices, loopVars>>
  /\ IF Rejected(d)
     THEN Fail(a) /\ UNCHANGED todo
     ELSE /\ want' = [want EXCEPT ![a] = d]
          /\ id' = [id EXCEPT ![a] = 0]
          /\ Goto(a, "dup")
          /\ UNCHANGED <<todo, ret>>

(* Fault variant: the same pin counts only for the same kind of device.    *)
SamePinAndType(a) == pin[id[a]] = want[a].pin /\ type[id[a]] = want[a].type

SamePin(a) == pin[id[a]] = want[a].pin

LastSlot(a) == id[a] = NumSlots - 1

(* One turn of the first search: is the pin in the table already?          *)
CheckDup(a) ==
  /\ At(a, "dup")
  /\ UNCHANGED <<Devices, loopVars>>
  /\ IF SamePin(a)
     THEN Fail(a) /\ UNCHANGED todo
     ELSE /\ id' = [id EXCEPT ![a] = IF LastSlot(a) THEN 0 ELSE @ + 1]
          /\ IF LastSlot(a) THEN Goto(a, "free") ELSE UNCHANGED pc
          /\ UNCHANGED <<want, todo, ret>>

(* One turn of the second search, for a free slot.                         *)
FindFree(a) ==
  /\ At(a, "free")
  /\ UNCHANGED <<Devices, loopVars>>
  /\ \/ /\ pin[id[a]] = NotDefined
        /\ todo' = [todo EXCEPT ![a] = Fields]
        /\ Goto(a, "store")
        /\ UNCHANGED <<want, id, ret>>
     \/ /\ pin[id[a]] # NotDefined
        /\ ~ LastSlot(a)
        /\ id' = [id EXCEPT ![a] = @ + 1]
        /\ UNCHANGED <<pc, want, todo, ret>>
     \/ /\ pin[id[a]] # NotDefined
        /\ LastSlot(a)
        /\ Fail(a) /\ UNCHANGED todo

(* The store of one field; the compiler and the memory order them freely.  *)
StoreField(a, f) ==
  /\ At(a, "store")
  /\ f \in todo[a]
  /\ pin'  = IF f = "pin"  THEN [pin EXCEPT ![id[a]] = want[a].pin] ELSE pin
  /\ type' = IF f = "type" THEN [type EXCEPT ![id[a]] = want[a].type] ELSE type
  /\ callback' = IF f = "callback" THEN [callback EXCEPT ![id[a]] = want[a].callback] ELSE callback
  /\ todo' = [todo EXCEPT ![a] = @ \ {f}]
  /\ UNCHANGED <<pc, want, id, ret, loopVars>>

(* pinMode and return id.                                                  *)
Finish(a) ==
  /\ At(a, "store")
  /\ todo[a] = {}
  /\ Return(a, id[a])
  /\ UNCHANGED <<Devices, todo, loopVars>>

AdderStep(a) ==
  \/ CheckDup(a) \/ FindFree(a) \/ Finish(a)
  \/ \E f \in Fields : StoreField(a, f)

-----------------------------------------------------------------------------
(* IO_loop                                                                 *)

LoopAt(l) == ~ panic /\ loopPc = l

NextSlotShort ==                       \* fault variant: the last slot is left out
  /\ loopId' = (loopId + 1) % (NumSlots - 1)
  /\ loopPc' = "pin"
  /\ UNCHANGED branch

(* for (id = 0; id < 40; id++), and after the last slot vTaskDelay and the *)
(* next round.                                                             *)
NextSlot == /\ loopId' = (loopId + 1) % NumSlots
            /\ loopPc' = "pin"
            /\ UNCHANGED branch

LoopPin ==
  /\ LoopAt("pin")
  /\ IF pin[loopId] # NotDefined
     THEN loopPc' = "type" /\ branch' = "DI" /\ UNCHANGED loopId
     ELSE NextSlot
  /\ UNCHANGED <<Devices, adderVars, rvalue, calling, panic>>

(* What follows the branch on DI is the branch on AI.                      *)
NextBranch ==
  IF branch = "DI"
  THEN branch' = "AI" /\ loopPc' = "type" /\ UNCHANGED loopId
  ELSE NextSlot

LoopType ==
  /\ LoopAt("type")
  /\ IF type[loopId] = branch
     THEN loopPc' = "copy" /\ UNCHANGED <<branch, loopId>>
     ELSE NextBranch
  /\ UNCHANGED <<Devices, adderVars, rvalue, calling, panic>>

LoopCopyStale ==                       \* fault variant: the argument is not filled
  /\ LoopAt("copy")
  /\ loopPc' = "call"
  /\ UNCHANGED <<Devices, adderVars, branch, loopId, rvalue, calling, panic>>

(* The type and pin are read again for the callback's argument.            *)
LoopCopy ==
  /\ LoopAt("copy")
  /\ rvalue' = [pin |-> pin[loopId], type |-> type[loopId]]
  /\ loopPc' = "call"
  /\ UNCHANGED <<Devices, adderVars, branch, loopId, calling, panic>>

(* The call through Devices[id].callbackHandler, read only now.            *)
LoopCall ==
  /\ LoopAt("call")
  /\ IF callback[loopId] = Null
     THEN panic' = TRUE /\ UNCHANGED <<calling, loopPc>>
     ELSE /\ calling' = [pin |-> rvalue.pin, type |-> rvalue.type, callback |-> callback[loopId]]
          /\ loopPc' = "return"
          /\ UNCHANGED panic
  /\ UNCHANGED <<Devices, adderVars, branch, loopId, rvalue>>

(* The callback returns and the argument is freed.                         *)
LoopReturn ==
  /\ LoopAt("return")
  /\ calling' = NoDevice
  /\ rvalue' = NoData
  /\ NextBranch
  /\ UNCHANGED <<Devices, adderVars, panic>>

LoopStep == LoopPin \/ LoopType \/ LoopCopy \/ LoopCall \/ LoopReturn

Next ==
  \/ \E a \in Adders, d \in Requests : Add(a, d)
  \/ \E a \in Adders : AdderStep(a)
  \/ LoopStep

Spec == Init /\ [][Next]_vars

(* IO_loop is a task the scheduler runs; callbacks are assumed to return.  *)
FairSpec == Spec /\ WF_vars(LoopStep)

-----------------------------------------------------------------------------
TypeOK ==
  /\ pin \in [Slots -> Pins \cup {NotDefined}]
  /\ type \in [Slots -> Types \cup {"NOP"}]
  /\ callback \in [Slots -> Callbacks \cup {Null}]
  /\ pc \in [Adders -> {"idle", "dup", "free", "store"}]
  /\ want \in [Adders -> AllDevices]
  /\ id \in [Adders -> Slots]
  /\ todo \in [Adders -> SUBSET Fields]
  /\ ret \in [Adders -> Slots]
  /\ loopPc \in {"pin", "type", "copy", "call", "return"}
  /\ branch \in Types
  /\ loopId \in Slots
  /\ rvalue \in [pin : Pins \cup {NotDefined}, type : Types \cup {"NOP"}]
  /\ calling \in AllDevices
  /\ panic \in BOOLEAN

(* The device in slot s, once all its fields are stored.                   *)
Device(s) ==
  IF pin[s] # NotDefined /\ type[s] # "NOP" /\ callback[s] # Null
  THEN [pin |-> pin[s], type |-> type[s], callback |-> callback[s]]
  ELSE NoDevice

device == [s \in Slots |-> Device(s)]

(* "if pin initialized then exit" (addDI and addAI): with one task adding, *)
(* no pin is ever in two slots, failed and half-done adds included.        *)
PinsUnique ==
  \A s, t \in Slots : pin[s] # NotDefined /\ pin[s] = pin[t] => s = t

(* The null callback can be called only while some add is between its      *)
(* first and its last store: a table at rest never brings IO_loop down.    *)
PanicOnlyDuringAdd ==
  [][~ panic /\ panic' => \E a \in Adders : "callback" \in todo[a] /\ id[a] = loopId]_vars

(* addDI looks at the callback, "check for null-pointer", so that IO_loop  *)
(* does not call a null one.                                               *)
CallbackNeverNull == ~ panic

(* The id a call returned (0 may mean an error) names a slot that is wholly*)
(* in the table and stays so, whatever other adds, failed ones included,   *)
(* do afterwards or at the same time.                                      *)
IdNamesDevice ==
  \A a \in Adders : pc[a] = "idle" /\ ret[a] # 0 => Device(ret[a]) # NoDevice

(* What one adding task can rely on: its pins and its ids.                 *)
DevicesAreSound == PinsUnique /\ IdNamesDevice

(* A device that is wholly in the table is polled again and again.         *)
EveryDeviceIsPolled ==
  \A s \in Slots : Device(s) # NoDevice ~> (panic \/ (calling # NoDevice /\ calling = Device(s)))

Table == INSTANCE PinTable WITH Devices <- Requests

(* With one task adding, the driver keeps the promises of PinTable: a slot *)
(* is filled once, in order, with a pin not there before, and a callback   *)
(* runs only with the pin and type it was added with.                      *)
ImplementsPinTable == Table!Spec
=============================================================================
