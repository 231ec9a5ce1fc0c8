----------------------------- MODULE IO_proofs -----------------------------
(***************************************************************************)
(* Proofs about IO for any sets of tasks, pins and callbacks and any       *)
(* length of the table.                                                    *)
(***************************************************************************)
EXTENDS IO, TLAPS

-----------------------------------------------------------------------------
(* Type correctness.                                                       *)

LEMMA InitType == Init => TypeOK
<1> SUFFICES ASSUME Init PROVE TypeOK
  OBVIOUS
<1>1. 0 \in Slots
  BY SlotAssumption DEF Slots
<1>2. NoDevice \in AllDevices /\ NoData \in [pin : Pins \cup {NotDefined}, type : Types \cup {"NOP"}]
  BY DEF NoDevice, NoData, AllDevices
<1>3. /\ want \in [Adders -> AllDevices] /\ calling \in AllDevices
      /\ rvalue \in [pin : Pins \cup {NotDefined}, type : Types \cup {"NOP"}]
  BY <1>2 DEF Init
<1>4. id \in [Adders -> Slots] /\ ret \in [Adders -> Slots] /\ loopId \in Slots
  BY <1>1 DEF Init
<1>5. /\ pin \in [Slots -> Pins \cup {NotDefined}]
      /\ type \in [Slots -> Types \cup {"NOP"}]
      /\ callback \in [Slots -> Callbacks \cup {Null}]
  BY DEF Init
<1>6. /\ pc \in [Adders -> {"idle", "dup", "free", "store"}]
      /\ todo \in [Adders -> SUBSET Fields]
  BY DEF Init
<1>7. /\ loopPc \in {"pin", "type", "copy", "call", "return"}
      /\ branch \in Types /\ panic \in BOOLEAN
  BY DEF Init, Types
<1>. QED  BY <1>3, <1>4, <1>5, <1>6, <1>7 DEF TypeOK

(* The steps of an adder.                                                  *)
LEMMA ReturnType ==
  ASSUME TypeOK, NEW a \in Adders, NEW value \in Slots, Return(a, value)
  PROVE  /\ pc' \in [Adders -> {"idle", "dup", "free", "store"}]
         /\ want' \in [Adders -> AllDevices] /\ id' \in [Adders -> Slots]
         /\ ret' \in [Adders -> Slots]
<1>1. NoDevice \in AllDevices /\ 0 \in Slots
  BY SlotAssumption DEF NoDevice, AllDevices, Slots
<1>. QED  BY <1>1 DEF TypeOK, Return, Goto

LEMMA AdderType ==
  ASSUME TypeOK, NEW a \in Adders, AdderStep(a) \/ \E d \in Requests : Add(a, d)
  PROVE  TypeOK'
<1>1. 0 \in Slots /\ Requests \subseteq AllDevices
  BY SlotAssumption DEF Slots, Requests, AllDevices
<1>2. ~ LastSlot(a) => id[a] + 1 \in Slots
  <2>1. id[a] \in 0 .. NumSlots - 1
    BY DEF TypeOK, Slots
  <2>. QED  BY <2>1, SlotAssumption DEF LastSlot, Slots
<1>3. ASSUME NEW d \in Requests, Add(a, d) PROVE TypeOK'
  <2>1. CASE Fail(a) /\ UNCHANGED todo
    BY <1>1, <1>3, <2>1, ReturnType DEF Fail, TypeOK, Add, Devices, loopVars
  <2>2. CASE ~ Rejected(d)
    BY <1>1, <1>3, <2>2 DEF TypeOK, Add, Goto, Devices, loopVars
  <2>. QED  BY <1>3, <2>1, <2>2 DEF Add
<1>4. CASE CheckDup(a)
  <2>1. CASE Fail(a) /\ UNCHANGED todo
    BY <1>1, <1>4, <2>1, ReturnType DEF Fail, TypeOK, CheckDup, Devices, loopVars
  <2>2. CASE ~ SamePin(a)
    BY <1>1, <1>2, <1>4, <2>2 DEF TypeOK, CheckDup, Goto, Devices, loopVars
  <2>. QED  BY <1>4, <2>1, <2>2 DEF CheckDup
<1>5. CASE FindFree(a)
  <2>1. CASE Fail(a) /\ UNCHANGED todo
    BY <1>1, <1>5, <2>1, ReturnType DEF Fail, TypeOK, FindFree, Devices, loopVars
  <2>2. CASE UNCHANGED <<want, ret>>
    BY <1>2, <1>5, <2>2 DEF TypeOK, FindFree, Goto, Fail, Return, Fields, Devices, loopVars
  <2>. QED  BY <1>5, <2>1, <2>2 DEF FindFree
<1>6. ASSUME NEW f \in Fields, StoreField(a, f) PROVE TypeOK'
  <2>1. /\ want[a].pin \in Pins \cup {NotDefined} /\ want[a].type \in Types \cup {"NOP"}
        /\ want[a].callback \in Callbacks \cup {Null}
    BY DEF TypeOK, AllDevices
  <2>2. /\ pin' \in [Slots -> Pins \cup {NotDefined}]
        /\ type' \in [Slots -> Types \cup {"NOP"}]
        /\ callback' \in [Slots -> Callbacks \cup {Null}]
    BY <1>6, <2>1 DEF TypeOK, StoreField
  <2>3. todo' \in [Adders -> SUBSET Fields]
    BY <1>6 DEF TypeOK, StoreField
  <2>. QED  BY <1>6, <2>2, <2>3 DEF TypeOK, StoreField, loopVars
<1>7. CASE Finish(a)
  BY <1>7, ReturnType DEF Finish, TypeOK, Devices, loopVars
<1>. QED  BY <1>3, <1>4, <1>5, <1>6, <1>7 DEF AdderStep

LEMMA LoopKeepsType ==
  ASSUME TypeOK, LoopStep
  PROVE  TypeOK'
<1>1. (loopId + 1) % NumSlots \in Slots
  BY SlotAssumption DEF Slots, TypeOK
<1>2. NextBranch => /\ loopPc' \in {"pin", "type"} /\ branch' \in Types
                    /\ loopId' \in Slots
  BY <1>1 DEF NextBranch, NextSlot, TypeOK, Types
<1>3. CASE LoopPin
  BY <1>1, <1>3 DEF LoopPin, NextSlot, TypeOK, Types, Devices, adderVars
<1>4. CASE LoopType
  BY <1>2, <1>4 DEF LoopType, TypeOK, Devices, adderVars
<1>5. CASE LoopCopy
  BY <1>5 DEF LoopCopy, TypeOK, Devices, adderVars
<1>6. CASE LoopCall
  <2>1. callback[loopId] # Null => calling' \in AllDevices
    BY <1>6 DEF LoopCall, TypeOK, AllDevices
  <2>. QED  BY <1>6, <2>1 DEF LoopCall, TypeOK, Devices, adderVars
<1>7. CASE LoopReturn
  <2>1. NoDevice \in AllDevices
    BY DEF NoDevice, AllDevices
  <2>2. NoData \in [pin : Pins \cup {NotDefined}, type : Types \cup {"NOP"}]
    BY DEF NoData
  <2>. QED  BY <1>2, <1>7, <2>1, <2>2 DEF LoopReturn, TypeOK, Devices, adderVars
<1>. QED  BY <1>3, <1>4, <1>5, <1>6, <1>7 DEF LoopStep

LEMMA StepType == TypeOK /\ [Next]_vars => TypeOK'
<1>1. TypeOK /\ UNCHANGED vars => TypeOK'
  BY DEF TypeOK, vars, Devices, adderVars, loopVars
<1>. QED  BY <1>1, AdderType, LoopKeepsType DEF Next

(* With any number of tasks adding at once, every search index and every   *)
(* slot that is stored to or polled lies in the table, and the fields keep *)
(* their types.                                                            *)
THEOREM TypeCorrect == Spec => []TypeOK
BY InitType, StepType, PTL DEF Spec

-----------------------------------------------------------------------------
(* The null callback, with any number of tasks adding at once.             *)

(* A slot with a type but no callback is being stored to by some add, which *)
(* has a callback to store; and IO_loop calls only for slots with a type.  *)
NullInv ==
  /\ \A a \in Adders : todo[a] # {} => pc[a] = "store"
  /\ \A a \in Adders : pc[a] # "idle" => want[a].callback # Null /\ want[a].type # "NOP"
  /\ \A a \in Adders :
       pc[a] = "store" /\ "callback" \notin todo[a] => callback[id[a]] # Null
  /\ \A s \in Slots : type[s] # "NOP" /\ callback[s] = Null =>
       \E a \in Adders : "callback" \in todo[a] /\ id[a] = s
  /\ loopPc \in {"copy", "call"} => type[loopId] # "NOP"

LEMMA InitNull == Init => NullInv
BY SlotAssumption DEF Init, NullInv, Slots

LEMMA StoreNull ==
  ASSUME TypeOK, NullInv, NEW a \in Adders, NEW f \in Fields, StoreField(a, f)
  PROVE  NullInv'
<1>1. /\ pc[a] = "store" /\ f \in todo[a] /\ id[a] \in Slots
      /\ todo' = [todo EXCEPT ![a] = @ \ {f}]
      /\ UNCHANGED <<pc, want, id, loopPc, loopId>>
  BY DEF StoreField, At, TypeOK, loopVars
<1>2. todo'[a] = todo[a] \ {f} /\ \A b \in Adders : b # a => todo'[b] = todo[b]
  BY <1>1 DEF TypeOK
<1>3. want[a].callback # Null /\ want[a].type # "NOP"
  BY <1>1 DEF NullInv
<1>4. CASE f = "callback"
  <2>1. type' = type /\ callback'[id[a]] # Null
        /\ \A s \in Slots : s # id[a] => callback'[s] = callback[s]
    BY <1>1, <1>3, <1>4 DEF StoreField, TypeOK
  <2>2. ASSUME NEW b \in Adders, pc[b] = "store", "callback" \notin todo'[b]
        PROVE  callback'[id[b]] # Null
    BY <1>2, <2>1, <2>2 DEF NullInv, TypeOK
  <2>3. ASSUME NEW s \in Slots, type[s] # "NOP", callback'[s] = Null
        PROVE  \E b \in Adders : "callback" \in todo'[b] /\ id[b] = s
    <3>1. s # id[a] /\ callback[s] = Null
      BY <2>1, <2>3
    <3>2. PICK b \in Adders : "callback" \in todo[b] /\ id[b] = s
      BY <2>3, <3>1 DEF NullInv
    <3>. QED  BY <1>2, <3>1, <3>2
  <2>4. \A b \in Adders : todo'[b] # {} => pc[b] = "store"
    BY <1>1, <1>2 DEF NullInv
  <2>. QED  BY <1>1, <2>1, <2>2, <2>3, <2>4 DEF NullInv
<1>5. CASE f # "callback"
  <2>1. callback' = callback
    BY <1>5 DEF StoreField
  <2>2. \A s \in Slots : type'[s] # "NOP" => type[s] # "NOP" \/ s = id[a]
    BY <1>1, <1>5 DEF StoreField, TypeOK
  <2>3. \A s \in Slots : type[s] # "NOP" => type'[s] # "NOP"
    BY <1>1, <1>3, <1>5 DEF StoreField, TypeOK
  <2>4. \A b \in Adders : "callback" \in todo'[b] <=> "callback" \in todo[b]
    BY <1>2, <1>5
  <2>5. \A b \in Adders : todo'[b] # {} => pc[b] = "store"
    BY <1>1, <1>2 DEF NullInv
  <2>6. ASSUME NEW s \in Slots, type'[s] # "NOP", callback[s] = Null
        PROVE  \E b \in Adders : "callback" \in todo[b] /\ id[b] = s
    <3>1. CASE s = id[a]
      BY <1>1, <2>6, <3>1 DEF NullInv
    <3>2. CASE s # id[a]
      BY <2>2, <2>6, <3>2 DEF NullInv
    <3>. QED  BY <3>1, <3>2
  <2>7. loopId \in Slots
    BY DEF TypeOK
  <2>. QED  BY <1>1, <2>1, <2>3, <2>4, <2>5, <2>6, <2>7 DEF NullInv
<1>. QED  BY <1>4, <1>5

LEMMA AdderNull ==
  ASSUME TypeOK, NullInv, NEW a \in Adders, AdderStep(a) \/ \E d \in Requests : Add(a, d)
  PROVE  NullInv'
<1>1. CASE /\ Goto(a, "idle") /\ UNCHANGED <<Devices, todo, loopVars>> /\ todo[a] = {}
           /\ want' = [want EXCEPT ![a] = NoDevice] /\ id' = [id EXCEPT ![a] = 0]
  <2>1. pc'[a] = "idle" /\ \A b \in Adders : b # a =>
          pc'[b] = pc[b] /\ want'[b] = want[b] /\ id'[b] = id[b]
    BY <1>1 DEF Goto, TypeOK
  <2>. QED  BY <1>1, <2>1 DEF NullInv, Devices, loopVars
<1>2. ASSUME NEW d \in Requests, Add(a, d) PROVE NullInv'
  <2>1. pc[a] = "idle" /\ todo[a] = {}
    BY <1>2 DEF Add, At, NullInv
  <2>2. CASE Rejected(d)
    BY <1>1, <1>2, <2>1, <2>2 DEF Add, Fail, Return
  <2>3. CASE ~ Rejected(d)
    <3>1. /\ UNCHANGED <<Devices, todo, loopVars>>
          /\ pc' = [pc EXCEPT ![a] = "dup"]
          /\ want' = [want EXCEPT ![a] = d] /\ id' = [id EXCEPT ![a] = 0]
      BY <1>2, <2>3 DEF Add, Goto
    <3>2. d.callback # Null /\ d.type # "NOP"
      BY <2>3 DEF Rejected, Requests, Types
    <3>3. pc'[a] = "dup" /\ want'[a] = d /\ \A b \in Adders : b # a =>
            pc'[b] = pc[b] /\ want'[b] = want[b] /\ id'[b] = id[b]
      BY <3>1 DEF TypeOK
    <3>. QED  BY <2>1, <3>1, <3>2, <3>3 DEF NullInv, Devices, loopVars
  <2>. QED  BY <2>2, <2>3
<1>3. CASE CheckDup(a)
  <2>1. pc[a] = "dup" /\ todo[a] = {}
    BY <1>3 DEF CheckDup, At, NullInv
  <2>2. CASE SamePin(a)
    BY <1>1, <1>3, <2>1, <2>2 DEF CheckDup, Fail, Return
  <2>3. CASE ~ SamePin(a)
    <3>1. UNCHANGED <<Devices, todo, want, loopVars>>
      BY <1>3, <2>3 DEF CheckDup
    <3>2. pc'[a] # "idle" /\ pc'[a] # "store" /\ \A b \in Adders : b # a =>
            pc'[b] = pc[b] /\ id'[b] = id[b]
      BY <1>3, <2>1, <2>3 DEF CheckDup, Goto, TypeOK
    <3>. QED  BY <2>1, <3>1, <3>2 DEF NullInv, Devices, loopVars
  <2>. QED  BY <2>2, <2>3
<1>4. CASE FindFree(a)
  <2>1. pc[a] = "free" /\ todo[a] = {}
    BY <1>4 DEF FindFree, At, NullInv
  <2>2. CASE Fail(a) /\ UNCHANGED <<todo, Devices, loopVars>>
    BY <1>1, <2>1, <2>2 DEF Fail, Return
  <2>3. CASE /\ todo' = [todo EXCEPT ![a] = Fields]
             /\ Goto(a, "store")
             /\ UNCHANGED <<Devices, loopVars, want, id>>
    <3>1. pc'[a] = "store" /\ "callback" \in todo'[a] /\ \A b \in Adders : b # a =>
            pc'[b] = pc[b] /\ todo'[b] = todo[b]
      BY <2>3 DEF Goto, Fields, TypeOK
    <3>2. \A b \in Adders : "callback" \in todo[b] => "callback" \in todo'[b]
      BY <2>1, <3>1
    <3>. QED  BY <2>1, <2>3, <3>1, <3>2 DEF NullInv, Devices, loopVars
  <2>4. CASE /\ id' = [id EXCEPT ![a] = @ + 1]
             /\ UNCHANGED <<pc, want, todo, Devices, loopVars>>
    <3>1. \A b \in Adders : b # a => id'[b] = id[b]
      BY <2>4 DEF TypeOK
    <3>. QED  BY <2>1, <2>4, <3>1 DEF NullInv, Devices, loopVars
  <2>. QED  BY <1>4, <2>2, <2>3, <2>4 DEF FindFree
<1>5. CASE Finish(a)
  BY <1>1, <1>5 DEF Finish, Return
<1>. QED  BY <1>2, <1>3, <1>4, <1>5, StoreNull DEF AdderStep

LEMMA LoopNull ==
  ASSUME TypeOK, NullInv, LoopStep
  PROVE  NullInv'
<1>1. UNCHANGED <<Devices, adderVars>>
  BY DEF LoopStep, LoopPin, LoopType, LoopCopy, LoopCall, LoopReturn
<1>2. loopPc' \in {"copy", "call"} => type[loopId'] # "NOP"
  <2>1. NextBranch => loopPc' \notin {"copy", "call"}
    BY DEF NextBranch, NextSlot
  <2>2. CASE LoopPin
    BY <2>2 DEF LoopPin, NextSlot
  <2>3. CASE LoopType
    BY <2>1, <2>3 DEF LoopType, TypeOK, Types
  <2>4. CASE LoopCopy
    BY <2>4 DEF LoopCopy, LoopAt, NullInv
  <2>5. CASE LoopCall
    BY <2>5 DEF LoopCall, LoopAt, NullInv
  <2>6. CASE LoopReturn
    BY <2>1, <2>6 DEF LoopReturn
  <2>. QED  BY <2>2, <2>3, <2>4, <2>5, <2>6 DEF LoopStep
<1>. QED  BY <1>1, <1>2 DEF NullInv, Devices, adderVars

LEMMA StepNull == TypeOK /\ NullInv /\ [Next]_vars => NullInv'
<1>1. NullInv /\ UNCHANGED vars => NullInv'
  BY DEF NullInv, vars, Devices, adderVars, loopVars
<1>. QED  BY <1>1, AdderNull, LoopNull DEF Next

(* However many tasks add devices at once and in whatever order the stores *)
(* of an add take effect, IO_loop calls a null callback only in a slot     *)
(* some add has not finished.                                              *)
THEOREM NullCallsAreRaces == Spec => PanicOnlyDuringAdd
<1>1. ASSUME TypeOK, NullInv, [Next]_vars, ~ panic, panic'
      PROVE  \E a \in Adders : "callback" \in todo[a] /\ id[a] = loopId
  <2>1. LoopCall
    BY <1>1 DEF Next, Add, AdderStep, CheckDup, FindFree, StoreField, Finish, LoopStep,
               LoopPin, LoopType, LoopCopy, LoopReturn, vars, loopVars
  <2>2. callback[loopId] = Null /\ loopPc = "call" /\ loopId \in Slots
    BY <1>1, <2>1 DEF LoopCall, LoopAt, TypeOK
  <2>. QED  BY <1>1, <2>2 DEF NullInv
<1>2. TypeOK /\ NullInv /\ [Next]_vars
        => [~ panic /\ panic' => \E a \in Adders : "callback" \in todo[a] /\ id[a] = loopId]_vars
  BY <1>1
<1>. QED
  BY <1>2, InitType, StepType, InitNull, StepNull, PTL DEF Spec, PanicOnlyDuringAdd

-----------------------------------------------------------------------------
(* The ids that are returned, with any number of tasks adding at once.     *)

(* A pin that is "not defined" is found in the first free slot and refused; *)
(* what an add has stored is in its slot.                                  *)
StoredInv ==
  /\ IdNamesDevice
  /\ \A a \in Adders : pc[a] # "idle" => want[a].callback # Null /\ want[a].type # "NOP"
  /\ \A a \in Adders : want[a].pin = NotDefined =>
       /\ pc[a] = "dup" => \A s \in Slots : s < id[a] => pin[s] # NotDefined
       /\ pc[a] = "free" => \A s \in Slots : pin[s] # NotDefined
       /\ pc[a] # "store"
  /\ \A a \in Adders : pc[a] = "store" =>
       /\ "pin" \notin todo[a] => pin[id[a]] # NotDefined
       /\ "type" \notin todo[a] => type[id[a]] # "NOP"
       /\ "callback" \notin todo[a] => callback[id[a]] # Null

(* The fields a slot has, it keeps.                                        *)
Kept ==
  \A s \in Slots : /\ pin[s] # NotDefined => pin'[s] # NotDefined
                   /\ type[s] # "NOP" => type'[s] # "NOP"
                   /\ callback[s] # Null => callback'[s] # Null

LEMMA WholeDevice ==
  ASSUME NEW s
  PROVE  Device(s) # NoDevice <=> pin[s] # NotDefined /\ type[s] # "NOP" /\ callback[s] # Null
BY DEF Device, NoDevice

LEMMA InitStored == Init => StoredInv
BY DEF Init, StoredInv, IdNamesDevice

LEMMA StoreStored ==
  ASSUME TypeOK, StoredInv, NEW a \in Adders, NEW f \in Fields, StoreField(a, f)
  PROVE  StoredInv'
<1>1. /\ pc[a] = "store" /\ id[a] \in Slots /\ UNCHANGED <<pc, want, id, ret>>
      /\ todo'[a] = todo[a] \ {f} /\ \A b \in Adders : b # a => todo'[b] = todo[b]
  BY DEF StoreField, At, TypeOK
<1>2. want[a].callback # Null /\ want[a].type # "NOP" /\ want[a].pin # NotDefined
  BY <1>1 DEF StoredInv
<1>3. Kept
  BY <1>1, <1>2 DEF Kept, StoreField, TypeOK
<1>4. /\ f = "pin" => pin'[id[a]] # NotDefined
      /\ f = "type" => type'[id[a]] # "NOP"
      /\ f = "callback" => callback'[id[a]] # Null
  BY <1>1, <1>2 DEF StoreField, TypeOK
<1>5. IdNamesDevice'
  <2> SUFFICES ASSUME NEW b \in Adders, pc[b] = "idle", ret[b] # 0
               PROVE  (Device(ret[b]) # NoDevice)'
    BY <1>1 DEF IdNamesDevice
  <2>1. Device(ret[b]) # NoDevice /\ ret[b] \in Slots
    BY DEF StoredInv, IdNamesDevice, TypeOK
  <2>2. pin'[ret[b]] # NotDefined /\ type'[ret[b]] # "NOP" /\ callback'[ret[b]] # Null
    BY <1>3, <2>1, WholeDevice DEF Kept
  <2> QED
    BY <1>1, <2>2 DEF Device, NoDevice
<1>6. \A b \in Adders : id[b] \in Slots
  BY DEF TypeOK
<1>7. \A b \in Adders : pc[b] = "store" =>
        /\ "pin" \notin todo'[b] => pin'[id[b]] # NotDefined
        /\ "type" \notin todo'[b] => type'[id[b]] # "NOP"
        /\ "callback" \notin todo'[b] => callback'[id[b]] # Null
  BY <1>1, <1>3, <1>4, <1>6 DEF StoredInv, Kept
<1>8. \A b \in Adders : want[b].pin = NotDefined =>
        /\ pc[b] = "dup" => \A s \in Slots : s < id[b] => pin'[s] # NotDefined
        /\ pc[b] = "free" => \A s \in Slots : pin'[s] # NotDefined
        /\ pc[b] # "store"
  BY <1>3 DEF StoredInv, Kept
<1>. QED  BY <1>1, <1>5, <1>7, <1>8 DEF StoredInv

(* A step that leaves the fields of every slot and touches one adder.      *)
LEMMA AdderStored ==
  ASSUME TypeOK, StoredInv, NEW a \in Adders, UNCHANGED Devices,
         \A b \in Adders : b # a => /\ pc'[b] = pc[b] /\ want'[b] = want[b]
                                    /\ id'[b] = id[b] /\ ret'[b] = ret[b]
                                    /\ todo'[b] = todo[b],
         pc'[a] = "idle" /\ ret'[a] # 0 => Device(ret'[a]) # NoDevice,
         pc'[a] # "idle" => want'[a].callback # Null /\ want'[a].type # "NOP",
         want'[a].pin = NotDefined =>
           /\ pc'[a] = "dup" => \A s \in Slots : s < id'[a] => pin[s] # NotDefined
           /\ pc'[a] = "free" => \A s \in Slots : pin[s] # NotDefined
           /\ pc'[a] # "store",
         pc'[a] = "store" => todo'[a] = Fields
  PROVE  StoredInv'
<1>1. /\ pin' = pin /\ type' = type /\ callback' = callback
  BY DEF Devices
<1>2. \A s : Device(s)' = Device(s)
  BY <1>1 DEF Device, NoDevice
<1>3. IdNamesDevice'
  <2> SUFFICES ASSUME NEW b \in Adders, pc'[b] = "idle", ret'[b] # 0
               PROVE  (Device(ret[b]) # NoDevice)'
    BY DEF IdNamesDevice
  <2>1. Device(ret'[b]) # NoDevice
    BY DEF StoredInv, IdNamesDevice
  <2>. QED  BY <1>1, <2>1 DEF Device, NoDevice
<1>. QED  BY <1>1, <1>3 DEF StoredInv, Fields

LEMMA ReturnStored ==
  ASSUME TypeOK, StoredInv, NEW a \in Adders, NEW value \in Slots, Return(a, value),
         UNCHANGED <<Devices, todo>>, value # 0 => Device(value) # NoDevice
  PROVE  StoredInv'
<1>1. pc'[a] = "idle" /\ ret'[a] = value
  BY DEF Return, Goto, TypeOK
<1>2. \A b \in Adders : b # a => /\ pc'[b] = pc[b] /\ want'[b] = want[b]
                                 /\ id'[b] = id[b] /\ ret'[b] = ret[b] /\ todo'[b] = todo[b]
  BY DEF Return, Goto, TypeOK
<1>. QED  BY <1>1, <1>2, AdderStored

LEMMA StepStored == TypeOK /\ StoredInv /\ [Next]_vars => StoredInv'
<1> SUFFICES ASSUME TypeOK, StoredInv, [Next]_vars PROVE StoredInv'
  OBVIOUS
<1>1. 0 \in Slots
  BY SlotAssumption DEF Slots
<1>2. ASSUME NEW a \in Adders, NEW d \in Requests, Add(a, d) PROVE StoredInv'
  <2>1. CASE Rejected(d)
    BY <1>1, <1>2, <2>1, ReturnStored DEF Add, Fail
  <2>2. CASE ~ Rejected(d)
    <3>1. pc'[a] = "dup" /\ want'[a] = d /\ id'[a] = 0 /\ UNCHANGED Devices
      BY <1>2, <2>2 DEF Add, Goto, TypeOK
    <3>2. \A b \in Adders : b # a => /\ pc'[b] = pc[b] /\ want'[b] = want[b]
                                     /\ id'[b] = id[b] /\ ret'[b] = ret[b] /\ todo'[b] = todo[b]
      BY <1>2, <2>2 DEF Add, Goto, TypeOK
    <3>3. d.callback # Null /\ d.type # "NOP"
      BY <2>2 DEF Rejected, Requests, Types
    <3>4. \A s \in Slots : ~ (s < 0)
      BY SlotAssumption DEF Slots
    <3>. QED  BY <3>1, <3>2, <3>3, <3>4, AdderStored
  <2>. QED  BY <2>1, <2>2
<1>3. ASSUME NEW a \in Adders, CheckDup(a) PROVE StoredInv'
  <2>1. CASE SamePin(a)
    BY <1>1, <1>3, <2>1, ReturnStored DEF CheckDup, Fail
  <2>2. CASE ~ SamePin(a)
    <3>1. /\ pc[a] = "dup" /\ pin[id[a]] # want[a].pin /\ UNCHANGED <<Devices, want>>
          /\ id[a] \in 0 .. NumSlots - 1 /\ Slots = 0 .. NumSlots - 1
      BY <1>3, <2>2 DEF CheckDup, At, SamePin, TypeOK, Slots
    <3>2. \A b \in Adders : b # a => /\ pc'[b] = pc[b] /\ want'[b] = want[b]
                                     /\ id'[b] = id[b] /\ ret'[b] = ret[b] /\ todo'[b] = todo[b]
      BY <1>3, <2>2 DEF CheckDup, Goto, TypeOK
    <3>3. want[a].pin = NotDefined => \A s \in Slots : s <= id[a] => pin[s] # NotDefined
      BY <3>1, SlotAssumption DEF StoredInv
    <3>4. want'[a].callback # Null /\ want'[a].type # "NOP"
      BY <3>1 DEF StoredInv
    <3>5. CASE LastSlot(a)
      <4>1. pc'[a] = "free"
        BY <1>3, <2>2, <3>5 DEF CheckDup, Goto, TypeOK
      <4>2. \A s \in Slots : s <= id[a]
        BY <3>1, <3>5, SlotAssumption DEF LastSlot
      <4>. QED  BY <3>1, <3>2, <3>3, <3>4, <4>1, <4>2, AdderStored
    <3>6. CASE ~ LastSlot(a)
      <4>1. pc'[a] = "dup" /\ id'[a] = id[a] + 1
        BY <1>3, <2>2, <3>1, <3>6 DEF CheckDup, TypeOK
      <4>2. \A s \in Slots : s < id[a] + 1 => s <= id[a]
        BY <3>1, SlotAssumption
      <4>. QED  BY <3>1, <3>2, <3>3, <3>4, <4>1, <4>2, AdderStored
    <3>. QED  BY <3>5, <3>6
  <2>. QED  BY <2>1, <2>2
<1>4. ASSUME NEW a \in Adders, FindFree(a) PROVE StoredInv'
  <2>1. pc[a] = "free" /\ UNCHANGED Devices
    BY <1>4 DEF FindFree, At
  <2>2. CASE Fail(a) /\ UNCHANGED todo
    BY <1>1, <2>1, <2>2, ReturnStored DEF Fail
  <2>3. CASE /\ pin[id[a]] = NotDefined /\ todo' = [todo EXCEPT ![a] = Fields]
             /\ Goto(a, "store") /\ UNCHANGED <<want, id, ret>>
    <3>1. want[a].pin # NotDefined /\ want[a].callback # Null /\ want[a].type # "NOP"
      BY <2>1, <2>3 DEF StoredInv, TypeOK
    <3>2. pc'[a] = "store" /\ todo'[a] = Fields
      BY <2>3 DEF Goto, TypeOK
    <3>3. \A b \in Adders : b # a => pc'[b] = pc[b] /\ todo'[b] = todo[b]
      BY <2>3 DEF Goto, TypeOK
    <3>. QED  BY <2>1, <2>3, <3>1, <3>2, <3>3, AdderStored
  <2>4. CASE id' = [id EXCEPT ![a] = @ + 1] /\ UNCHANGED <<pc, want, todo, ret>>
    <3>1. \A b \in Adders : b # a => id'[b] = id[b]
      BY <2>4 DEF TypeOK
    <3>2. want[a].callback # Null /\ want[a].type # "NOP"
      BY <2>1 DEF StoredInv
    <3>3. want[a].pin = NotDefined => \A s \in Slots : pin[s] # NotDefined
      BY <2>1 DEF StoredInv
    <3>. QED  BY <2>1, <2>4, <3>1, <3>2, <3>3, AdderStored
  <2>. QED  BY <1>4, <2>2, <2>3, <2>4 DEF FindFree
<1>5. ASSUME NEW a \in Adders, Finish(a) PROVE StoredInv'
  <2>1. Device(id[a]) # NoDevice /\ id[a] \in Slots
    BY <1>5, WholeDevice DEF Finish, At, StoredInv, TypeOK
  <2>. QED  BY <1>5, <2>1, ReturnStored DEF Finish
<1>6. ASSUME UNCHANGED <<Devices, adderVars>> PROVE StoredInv'
  <2>1. UNCHANGED <<pin, type, callback, pc, want, id, todo, ret>>
    BY <1>6 DEF Devices, adderVars
  <2>. QED  BY <2>1 DEF StoredInv, IdNamesDevice, Device, NoDevice
<1>7. LoopStep \/ UNCHANGED vars => UNCHANGED <<Devices, adderVars>>
  BY DEF LoopStep, LoopPin, LoopType, LoopCopy, LoopCall, LoopReturn, vars
<1>. QED  BY <1>2, <1>3, <1>4, <1>5, <1>6, <1>7, StoreStored DEF Next, AdderStep

(* However many tasks add devices at once, an id that an add returned      *)
(* names a slot that is wholly in the table, from then on.                 *)
THEOREM ReturnedIdsAreDevices == Spec => []IdNamesDevice
<1>1. StoredInv => IdNamesDevice
  BY DEF StoredInv
<1>. QED  BY <1>1, InitStored, StepStored, TypeCorrect, PTL DEF Spec

-----------------------------------------------------------------------------
(* One task adding: the pins.                                              *)

OneAdder == \A a, b \in Adders : a = b

(* What the two searches of an add have established so far.                *)
UniqueInv ==
  /\ PinsUnique
  /\ \A a \in Adders :
       /\ pc[a] = "dup" => \A s \in Slots : s < id[a] => pin[s] # want[a].pin
       /\ pc[a] = "free" => \A s \in Slots : pin[s] # want[a].pin
       /\ pc[a] = "store" /\ "pin" \in todo[a] => \A s \in Slots : pin[s] # want[a].pin

LEMMA InitUnique == Init => UniqueInv
BY DEF Init, UniqueInv, PinsUnique

LEMMA StoreUnique ==
  ASSUME OneAdder, TypeOK, UniqueInv, NEW a \in Adders, NEW f \in Fields, StoreField(a, f)
  PROVE  UniqueInv'
<1>1. /\ pc[a] = "store" /\ pc' = pc /\ want' = want /\ id[a] \in Slots /\ f \in todo[a]
      /\ \A b \in Adders : b = a
      /\ todo'[a] = todo[a] \ {f}
  BY DEF StoreField, At, OneAdder, TypeOK
<1>2. CASE f # "pin"
  BY <1>1, <1>2 DEF StoreField, UniqueInv, PinsUnique
<1>3. CASE f = "pin"
  <2>1. \A s \in Slots : pin[s] # want[a].pin
    BY <1>1, <1>3 DEF UniqueInv
  <2>2. pin'[id[a]] = want[a].pin /\ \A s \in Slots : s # id[a] => pin'[s] = pin[s]
    BY <1>1, <1>3 DEF StoreField, TypeOK
  <2>3. PinsUnique'
    BY <2>1, <2>2 DEF UniqueInv, PinsUnique
  <2>. QED  BY <1>1, <1>3, <2>3 DEF UniqueInv
<1>. QED  BY <1>2, <1>3

LEMMA AdderUnique ==
  ASSUME OneAdder, TypeOK, UniqueInv, NEW a \in Adders,
         AdderStep(a) \/ \E d \in Requests : Add(a, d)
  PROVE  UniqueInv'
<1>1. \A b \in Adders : b = a
  BY DEF OneAdder
<1>2. CASE Goto(a, "idle") /\ UNCHANGED Devices
  <2>1. pc'[a] = "idle"
    BY <1>2 DEF Goto, TypeOK
  <2>. QED  BY <1>1, <1>2, <2>1 DEF UniqueInv, PinsUnique, Devices
<1>3. ASSUME NEW d \in Requests, Add(a, d) PROVE UniqueInv'
  <2>1. CASE Rejected(d)
    BY <1>2, <1>3, <2>1 DEF Add, Fail, Return
  <2>2. CASE ~ Rejected(d)
    <3>1. pc'[a] = "dup" /\ id'[a] = 0 /\ UNCHANGED Devices
      BY <1>3, <2>2 DEF Add, Goto, TypeOK
    <3>2. \A s \in Slots : ~ (s < 0)
      BY SlotAssumption DEF Slots
    <3>. QED  BY <1>1, <3>1, <3>2 DEF UniqueInv, PinsUnique, Devices
  <2>. QED  BY <2>1, <2>2
<1>4. CASE CheckDup(a)
  <2>1. CASE SamePin(a)
    BY <1>2, <1>4, <2>1 DEF CheckDup, Fail, Return
  <2>2. CASE ~ SamePin(a)
    <3>1. /\ pc[a] = "dup" /\ pin[id[a]] # want[a].pin
          /\ UNCHANGED <<Devices, want>>
          /\ id[a] \in 0 .. NumSlots - 1 /\ Slots = 0 .. NumSlots - 1
      BY <1>4, <2>2 DEF CheckDup, At, SamePin, TypeOK, Slots
    <3>2. \A s \in Slots : s <= id[a] => pin[s] # want[a].pin
      BY <3>1, SlotAssumption DEF UniqueInv
    <3>3. CASE LastSlot(a)
      <4>1. pc'[a] = "free"
        BY <1>4, <2>2, <3>3 DEF CheckDup, Goto, TypeOK
      <4>2. \A s \in Slots : s <= id[a]
        BY <3>1, <3>3, SlotAssumption DEF LastSlot
      <4>. QED  BY <1>1, <3>1, <3>2, <4>1, <4>2 DEF UniqueInv, PinsUnique, Devices
    <3>4. CASE ~ LastSlot(a)
      <4>1. pc'[a] = "dup" /\ id'[a] = id[a] + 1
        BY <1>4, <2>2, <3>1, <3>4 DEF CheckDup, TypeOK
      <4>2. \A s \in Slots : s < id[a] + 1 => s <= id[a]
        BY <3>1, SlotAssumption
      <4>. QED  BY <1>1, <3>1, <3>2, <4>1, <4>2 DEF UniqueInv, PinsUnique, Devices
    <3>. QED  BY <3>3, <3>4
  <2>. QED  BY <2>1, <2>2
<1>5. CASE FindFree(a)
  <2>1. pc[a] = "free" /\ UNCHANGED Devices
    BY <1>5 DEF FindFree, At
  <2>2. CASE Goto(a, "idle")
    BY <1>2, <2>1, <2>2
  <2>3. CASE UNCHANGED want /\ (Goto(a, "store") \/ UNCHANGED pc)
    <3>1. pc'[a] \in {"store", "free"}
      BY <2>1, <2>3 DEF Goto, TypeOK
    <3>. QED  BY <1>1, <2>1, <2>3, <3>1 DEF UniqueInv, PinsUnique, Devices
  <2>. QED  BY <1>5, <2>2, <2>3 DEF FindFree, Fail, Return
<1>6. CASE Finish(a)
  BY <1>2, <1>6 DEF Finish, Return
<1>. QED  BY <1>3, <1>4, <1>5, <1>6, StoreUnique DEF AdderStep

(* With one task adding, no pin is ever in two slots of the table, however *)
(* long the table, in whatever order the stores of an add take effect.     *)
THEOREM NoPinTwice == ASSUME OneAdder PROVE Spec => []PinsUnique
<1>1. ASSUME UniqueInv, UNCHANGED Devices, UNCHANGED adderVars PROVE UniqueInv'
  BY <1>1 DEF UniqueInv, PinsUnique, Devices, adderVars
<1>2. LoopStep => UNCHANGED Devices /\ UNCHANGED adderVars
  BY DEF LoopStep, LoopPin, LoopType, LoopCopy, LoopCall, LoopReturn
<1>3. TypeOK /\ UniqueInv /\ [Next]_vars => UniqueInv'
  BY <1>1, <1>2, AdderUnique DEF Next, vars
<1>4. UniqueInv => PinsUnique
  BY DEF UniqueInv
<1>. QED  BY <1>3, <1>4, InitUnique, TypeCorrect, PTL DEF Spec

(* With one adding task, pins are unique and returned ids name devices:    *)
(* what addDI and addAI promise together.                                  *)
THEOREM SoundDevices == ASSUME OneAdder PROVE Spec => []DevicesAreSound
BY NoPinTwice, ReturnedIdsAreDevices, PTL DEF DevicesAreSound

-----------------------------------------------------------------------------
(* The refinement of PinTable, with one task adding.                       *)

Blank(s) == pin[s] = NotDefined /\ type[s] = "NOP" /\ callback[s] = Null
Whole(s) == pin[s] # NotDefined /\ type[s] # "NOP" /\ callback[s] # Null

(* A slot is blank, whole, or the one that the add in progress fills; that *)
(* one has the fields stored so far, and the slots before it have a pin.   *)
FieldsInv ==
  /\ \A a \in Adders : pc[a] = "store" =>
       /\ pin[id[a]] = IF "pin" \in todo[a] THEN NotDefined ELSE want[a].pin
       /\ type[id[a]] = IF "type" \in todo[a] THEN "NOP" ELSE want[a].type
       /\ callback[id[a]] = IF "callback" \in todo[a] THEN Null ELSE want[a].callback
  /\ \A a \in Adders : pc[a] \in {"free", "store"} =>
       \A t \in Slots : t < id[a] => pin[t] # NotDefined
  /\ \A s \in Slots : Blank(s) \/ Whole(s) \/ \E a \in Adders : pc[a] = "store" /\ id[a] = s

(* What IO_loop has read of its slot: a pin, then a type, then both again. *)
PollInv ==
  /\ loopPc # "pin" => pin[loopId] # NotDefined
  /\ loopPc \in {"copy", "call"} => type[loopId] # "NOP"
  /\ loopPc = "call" => rvalue = [pin |-> pin[loopId], type |-> type[loopId]]
  /\ loopPc = "return" <=> calling # NoDevice

(* A field that is stored is not stored again.                             *)
Settled ==
  \A s \in Slots : /\ pin[s] # NotDefined => pin'[s] = pin[s]
                   /\ type[s] # "NOP" => type'[s] = type[s]
                   /\ callback[s] # Null => callback'[s] = callback[s]

TableInv == TypeOK /\ StoredInv /\ UniqueInv /\ FieldsInv /\ PollInv

LEMMA InitTable == Init => TableInv
<1>1. Init => FieldsInv
  BY DEF Init, FieldsInv, Blank
<1>2. Init => PollInv
  BY DEF Init, PollInv
<1>. QED  BY <1>1, <1>2, InitType, InitStored, InitUnique DEF TableInv

(* What the add in progress was asked for.                                 *)
LEMMA WantIsRequest ==
  ASSUME TypeOK, StoredInv, NEW a \in Adders, pc[a] = "store"
  PROVE  /\ want[a] \in Requests
         /\ want[a].pin # NotDefined /\ want[a].type # "NOP" /\ want[a].callback # Null
<1>1. want[a] \in AllDevices
  BY DEF TypeOK
<1>2. want[a].pin # NotDefined /\ want[a].type # "NOP" /\ want[a].callback # Null
  BY DEF StoredInv
<1>. QED  BY <1>1, <1>2 DEF AllDevices, Requests

LEMMA StoreSettles ==
  ASSUME TypeOK, FieldsInv, NEW a \in Adders, NEW f \in Fields, StoreField(a, f)
  PROVE  Settled
BY DEF StoreField, At, FieldsInv, Settled, TypeOK

LEMMA StoreFields ==
  ASSUME OneAdder, TypeOK, StoredInv, FieldsInv, NEW a \in Adders, NEW f \in Fields, StoreField(a, f)
  PROVE  FieldsInv'
<1>1. /\ pc[a] = "store" /\ f \in todo[a] /\ id[a] \in Slots /\ UNCHANGED <<pc, want, id>>
      /\ todo'[a] = todo[a] \ {f} /\ \A b \in Adders : b = a
  BY DEF StoreField, At, OneAdder, TypeOK
<1>2. /\ pin'[id[a]] = IF f = "pin" THEN want[a].pin ELSE pin[id[a]]
      /\ type'[id[a]] = IF f = "type" THEN want[a].type ELSE type[id[a]]
      /\ callback'[id[a]] = IF f = "callback" THEN want[a].callback ELSE callback[id[a]]
  BY <1>1 DEF StoreField, TypeOK
<1>3. \A s \in Slots : s # id[a] => pin'[s] = pin[s] /\ type'[s] = type[s] /\ callback'[s] = callback[s]
  BY <1>1 DEF StoreField, TypeOK
<1>4. f = "pin" \/ f = "type" \/ f = "callback"
  BY DEF Fields
<1>5. /\ pin'[id[a]] = IF "pin" \in todo'[a] THEN NotDefined ELSE want[a].pin
      /\ type'[id[a]] = IF "type" \in todo'[a] THEN "NOP" ELSE want[a].type
      /\ callback'[id[a]] = IF "callback" \in todo'[a] THEN Null ELSE want[a].callback
  BY <1>1, <1>2, <1>4 DEF FieldsInv
<1>6. \A t \in Slots : t < id[a] => pin'[t] # NotDefined
  BY <1>1, StoreSettles DEF FieldsInv, Settled
<1>7. \A s \in Slots : (Blank(s) \/ Whole(s) \/ s = id[a])'
  BY <1>1, <1>3 DEF FieldsInv, Blank, Whole
<1>. QED  BY <1>1, <1>5, <1>6, <1>7 DEF FieldsInv

LEMMA AdderFields ==
  ASSUME OneAdder, TypeOK, StoredInv, FieldsInv, NEW a \in Adders,
         AdderStep(a) \/ \E d \in Requests : Add(a, d)
  PROVE  FieldsInv'
<1>1. \A b \in Adders : b = a
  BY DEF OneAdder
<1>2. CASE UNCHANGED Devices /\ pc[a] # "store" /\ pc'[a] \in {"idle", "dup"}
  BY <1>1, <1>2 DEF FieldsInv, Blank, Whole, Devices
<1>3. ASSUME NEW d \in Requests, Add(a, d) PROVE FieldsInv'
  <2>1. UNCHANGED Devices /\ pc[a] = "idle" /\ pc'[a] \in {"idle", "dup"}
    BY <1>3 DEF Add, At, Fail, Return, Goto, TypeOK
  <2>. QED  BY <1>2, <2>1
<1>4. CASE CheckDup(a)
  <2>1. UNCHANGED Devices /\ pc[a] = "dup"
    BY <1>4 DEF CheckDup, At
  <2>2. CASE pc'[a] \in {"idle", "dup"}
    BY <1>2, <2>1, <2>2
  <2>3. CASE Goto(a, "free") /\ id' = [id EXCEPT ![a] = 0]
    <3>1. pc'[a] = "free" /\ id'[a] = 0
      BY <2>3 DEF Goto, TypeOK
    <3>2. \A t \in Slots : ~ (t < 0)
      BY SlotAssumption DEF Slots
    <3>. QED  BY <1>1, <2>1, <3>1, <3>2 DEF FieldsInv, Blank, Whole, Devices
  <2>. QED  BY <1>4, <2>1, <2>2, <2>3 DEF CheckDup, Fail, Return, Goto, TypeOK
<1>5. CASE FindFree(a)
  <2>1. UNCHANGED <<Devices, want>> \/ Fail(a)
    BY <1>5 DEF FindFree
  <2>2. UNCHANGED Devices /\ pc[a] = "free" /\ id[a] \in Slots
    BY <1>5 DEF FindFree, At, TypeOK
  <2>3. CASE Fail(a)
    <3>1. pc'[a] = "idle"
      BY <2>3 DEF Fail, Return, Goto, TypeOK
    <3>. QED  BY <1>2, <2>2, <3>1
  <2>4. CASE /\ pin[id[a]] = NotDefined /\ todo' = [todo EXCEPT ![a] = Fields]
             /\ Goto(a, "store") /\ UNCHANGED <<want, id>>
    <3>1. pc'[a] = "store" /\ todo'[a] = Fields
      BY <2>4 DEF Goto, TypeOK
    <3>2. Blank(id[a])
      BY <1>1, <2>2, <2>4 DEF FieldsInv, Whole
    <3>3. \A s \in Slots : Blank(s) \/ Whole(s)
      BY <1>1, <2>2 DEF FieldsInv
    <3>4. \A t \in Slots : t < id[a] => pin[t] # NotDefined
      BY <2>2 DEF FieldsInv
    <3>. QED  BY <1>1, <2>2, <2>4, <3>1, <3>2, <3>3, <3>4 DEF FieldsInv, Blank, Whole, Devices, Fields
  <2>5. CASE /\ pin[id[a]] # NotDefined /\ id' = [id EXCEPT ![a] = @ + 1]
             /\ UNCHANGED <<pc, want, todo>>
    <3>1. id'[a] = id[a] + 1 /\ pc'[a] = "free"
      BY <2>2, <2>5 DEF TypeOK
    <3>2. \A t \in Slots : t < id[a] + 1 => t < id[a] \/ t = id[a]
      BY <2>2, SlotAssumption DEF Slots
    <3>3. \A t \in Slots : t < id'[a] => pin[t] # NotDefined
      BY <2>2, <2>5, <3>1, <3>2 DEF FieldsInv
    <3>. QED  BY <1>1, <2>2, <3>1, <3>3 DEF FieldsInv, Blank, Whole, Devices
  <2>. QED  BY <1>5, <2>3, <2>4, <2>5 DEF FindFree
<1>6. CASE Finish(a)
  <2>1. /\ UNCHANGED Devices /\ pc[a] = "store" /\ todo[a] = {} /\ pc'[a] = "idle"
    BY <1>6 DEF Finish, At, Return, Goto, TypeOK
  <2>2. Whole(id[a])
    BY <2>1, WantIsRequest DEF FieldsInv, Whole
  <2>. QED  BY <1>1, <2>1, <2>2 DEF FieldsInv, Blank, Whole, Devices
<1>. QED  BY <1>3, <1>4, <1>5, <1>6, StoreFields DEF AdderStep

(* The adds leave IO_loop's locals alone and settled fields as they are.   *)
LEMMA AdderPoll ==
  ASSUME TypeOK, TypeOK', PollInv, Settled, UNCHANGED loopVars
  PROVE  PollInv'
BY DEF TypeOK, PollInv, Settled, loopVars

LEMMA AdderSettles ==
  ASSUME TypeOK, FieldsInv, NEW a \in Adders, AdderStep(a) \/ \E d \in Requests : Add(a, d)
  PROVE  Settled /\ UNCHANGED loopVars
<1>1. ASSUME UNCHANGED Devices PROVE Settled
  BY <1>1 DEF Settled, Devices
<1>2. ASSUME NEW d \in Requests, Add(a, d) PROVE UNCHANGED <<Devices, loopVars>>
  BY <1>2 DEF Add
<1>3. CheckDup(a) \/ FindFree(a) \/ Finish(a) => UNCHANGED <<Devices, loopVars>>
  BY DEF CheckDup, FindFree, Finish
<1>4. ASSUME NEW f \in Fields, StoreField(a, f) PROVE Settled /\ UNCHANGED loopVars
  BY <1>4, StoreSettles DEF StoreField
<1>. QED  BY <1>1, <1>2, <1>3, <1>4 DEF AdderStep

LEMMA LoopPoll ==
  ASSUME TypeOK, PollInv, LoopStep
  PROVE  PollInv' /\ UNCHANGED <<Devices, adderVars>>
<1>1. UNCHANGED <<Devices, adderVars>>
  BY DEF LoopStep, LoopPin, LoopType, LoopCopy, LoopCall, LoopReturn
<1>2. NextBranch => \/ loopPc' = "pin"
                    \/ loopPc' = "type" /\ UNCHANGED loopId
  BY DEF NextBranch, NextSlot
<1>3. CASE LoopPin
  BY <1>1, <1>3 DEF LoopPin, LoopAt, NextSlot, PollInv, Devices
<1>4. CASE LoopType
  BY <1>1, <1>2, <1>4 DEF LoopType, LoopAt, PollInv, Devices, TypeOK, Types
<1>5. CASE LoopCopy
  BY <1>1, <1>5 DEF LoopCopy, LoopAt, PollInv, Devices
<1>6. CASE LoopCall
  <2>1. callback[loopId] # Null => calling' # NoDevice
    BY <1>6 DEF LoopCall, NoDevice
  <2>. QED  BY <1>1, <1>6, <2>1 DEF LoopCall, LoopAt, PollInv, Devices
<1>7. CASE LoopReturn
  BY <1>1, <1>2, <1>7 DEF LoopReturn, LoopAt, PollInv, Devices
<1>. QED  BY <1>1, <1>3, <1>4, <1>5, <1>6, <1>7 DEF LoopStep

LEMMA StepTable == OneAdder /\ TableInv /\ [Next]_vars => TableInv'
<1> SUFFICES ASSUME OneAdder, TableInv, [Next]_vars PROVE TableInv'
  OBVIOUS
<1>1. TypeOK' /\ StoredInv'
  BY StepType, StepStored DEF TableInv
<1>2. ASSUME UniqueInv, FieldsInv, UNCHANGED <<Devices, adderVars>> PROVE UniqueInv' /\ FieldsInv'
  BY <1>2 DEF UniqueInv, PinsUnique, FieldsInv, Blank, Whole, Devices, adderVars
<1>3. ASSUME NEW a \in Adders, AdderStep(a) \/ \E d \in Requests : Add(a, d) PROVE TableInv'
  BY <1>1, <1>3, AdderUnique, AdderFields, AdderSettles, AdderPoll DEF TableInv
<1>4. CASE LoopStep
  BY <1>1, <1>2, <1>4, LoopPoll DEF TableInv
<1>5. CASE UNCHANGED vars
  BY <1>1, <1>2, <1>5 DEF TableInv, PollInv, vars, Devices, loopVars
<1>. QED  BY <1>3, <1>4, <1>5 DEF Next

(* The mapping: what a step does to the table as PinTable sees it.         *)
LEMMA SameDevices == ASSUME UNCHANGED Devices PROVE UNCHANGED device
BY DEF Devices, device, Device

LEMMA StoreAdds ==
  ASSUME OneAdder, TableInv, TableInv', NEW a \in Adders, NEW f \in Fields, StoreField(a, f)
  PROVE  [Table!Next]_<<device, calling>>
<1> DEFINE s == id[a]
<1>1. /\ pc[a] = "store" /\ f \in todo[a] /\ s \in Slots /\ UNCHANGED <<pc, want, id, calling>>
      /\ todo'[a] = todo[a] \ {f}
  BY DEF StoreField, At, TableInv, TypeOK, loopVars
<1>2. /\ want[a] \in Requests /\ want[a].pin # NotDefined
      /\ want[a].type # "NOP" /\ want[a].callback # Null
  BY <1>1, WantIsRequest DEF TableInv
<1>3. device[s] = NoDevice
  BY <1>1 DEF TableInv, FieldsInv, device, Device, Fields
<1>4. \A t \in Slots : t # s => device'[t] = device[t]
  BY <1>1 DEF StoreField, TableInv, TypeOK, device, Device
<1>5. CASE todo'[a] # {}
  <2>1. PICK g \in Fields : g \in todo'[a]
    BY <1>1, <1>5 DEF TableInv, TypeOK
  <2>2. device'[s] = NoDevice
    BY <1>1, <2>1 DEF TableInv, FieldsInv, device, Device, Fields
  <2>3. UNCHANGED device
    BY <1>3, <1>4, <2>2 DEF device
  <2>. QED  BY <1>1, <2>3
<1>6. CASE todo'[a] = {}
  <2>1. pin'[s] = want[a].pin /\ type'[s] = want[a].type /\ callback'[s] = want[a].callback
    BY <1>1, <1>6 DEF TableInv, FieldsInv
  <2>2. want[a] = [pin |-> want[a].pin, type |-> want[a].type, callback |-> want[a].callback]
    BY <1>2 DEF Requests
  <2>3. device'[s] = want[a]
    BY <1>1, <1>2, <2>1, <2>2 DEF device, Device
  <2>4. device' = [device EXCEPT ![s] = want[a]]
    <3>1. device' = [t \in Slots |-> device'[t]]
      BY DEF device
    <3>2. [device EXCEPT ![s] = want[a]] = [t \in Slots |-> IF t = s THEN want[a] ELSE device[t]]
      BY DEF device
    <3>. QED  BY <1>4, <2>3, <3>1, <3>2
  <2>5. \A t \in Slots : device[t] # NoDevice <=> Whole(t)
    BY DEF device, Device, NoDevice, Whole
  <2>6. \A t \in Slots : t < s => device[t] # NoDevice
    <3>1. \A t \in Slots : t < s => pin[t] # NotDefined /\ t # s
      BY <1>1, SlotAssumption DEF TableInv, FieldsInv, Slots
    <3>. QED  BY <1>1, <2>5, <3>1 DEF TableInv, FieldsInv, Blank, OneAdder
  <2>7. \A t \in Slots : device[t] # NoDevice => device[t].pin # want[a].pin
    <3>1. \A t \in Slots : device[t] # NoDevice => device[t].pin = pin[t] /\ t # s
      BY <1>3, <2>5 DEF device, Device, Whole
    <3>2. \A t \in Slots : t # s => pin[t] # want[a].pin
      <4>1. CASE "pin" \in todo[a]
        BY <1>1, <4>1 DEF TableInv, UniqueInv
      <4>2. CASE "pin" \notin todo[a]
        BY <1>1, <1>2, <4>2 DEF TableInv, FieldsInv, UniqueInv, PinsUnique
      <4>. QED  BY <4>1, <4>2
    <3>. QED  BY <3>1, <3>2
  <2>8. Table!Add(s, want[a])
    BY <1>1, <1>3, <2>4, <2>6, <2>7 DEF Table!Add, Table!Slots, Slots
  <2>. QED  BY <1>1, <1>2, <2>8 DEF Table!Next, Table!Slots, Slots
<1>. QED  BY <1>5, <1>6

LEMMA LoopCalls ==
  ASSUME TableInv, TableInv', LoopStep
  PROVE  [Table!Next]_<<device, calling>>
<1>1. UNCHANGED device
  BY SameDevices, LoopPoll DEF TableInv
<1>2. CASE LoopPin \/ LoopType \/ LoopCopy
  BY <1>1, <1>2 DEF LoopPin, LoopType, LoopCopy
<1>3. CASE LoopCall
  <2>1. loopPc = "call" /\ loopId \in Slots
    BY <1>3 DEF LoopCall, LoopAt, TableInv, TypeOK
  <2>2. CASE callback[loopId] = Null
    BY <1>1, <1>3, <2>2 DEF LoopCall
  <2>3. CASE callback[loopId] # Null
    <3>1. /\ rvalue = [pin |-> pin[loopId], type |-> type[loopId]]
          /\ pin[loopId] # NotDefined /\ type[loopId] # "NOP" /\ calling = NoDevice
      BY <2>1 DEF TableInv, PollInv
    <3>2. calling' = [pin |-> pin[loopId], type |-> type[loopId], callback |-> callback[loopId]]
      BY <1>3, <2>3, <3>1 DEF LoopCall
    <3>3. device[loopId] = calling' /\ device[loopId] # NoDevice
      BY <2>1, <2>3, <3>1, <3>2 DEF device, Device, NoDevice
    <3>. QED  BY <1>1, <2>1, <3>1, <3>3 DEF Table!Next, Table!Call, Table!Slots, Slots
  <2>. QED  BY <2>2, <2>3
<1>4. CASE LoopReturn
  BY <1>1, <1>4 DEF LoopReturn, LoopAt, TableInv, PollInv, Table!Next, Table!Return
<1>. QED  BY <1>2, <1>3, <1>4 DEF LoopStep

(* With one adding task the driver implements PinTable, for a table of any *)
(* length and stores in any order: a device is added whole, in the first   *)
(* free place and with a new pin, and a callback runs only for a device of *)
(* the table, with that device's pin and type.                             *)
THEOREM PinTableImplemented == ASSUME OneAdder PROVE Spec => ImplementsPinTable
<1>1. Init => Table!Init
  BY DEF Init, device, Device, Table!Init, Table!Slots, Slots
<1>2. TableInv /\ TableInv' /\ [Next]_vars => [Table!Next]_<<device, calling>>
  <2> SUFFICES ASSUME TableInv, TableInv', [Next]_vars PROVE [Table!Next]_<<device, calling>>
    OBVIOUS
  <2>1. ASSUME UNCHANGED <<Devices, loopVars>> PROVE UNCHANGED <<device, calling>>
    BY <2>1, SameDevices DEF loopVars
  <2>2. ASSUME NEW a \in Adders, NEW d \in Requests, Add(a, d) PROVE UNCHANGED <<Devices, loopVars>>
    BY <2>2 DEF Add
  <2>3. ASSUME NEW a \in Adders, CheckDup(a) \/ FindFree(a) \/ Finish(a)
        PROVE  UNCHANGED <<Devices, loopVars>>
    BY <2>3 DEF CheckDup, FindFree, Finish
  <2>4. UNCHANGED vars => UNCHANGED <<Devices, loopVars>>
    BY DEF vars
  <2>. QED  BY <2>1, <2>2, <2>3, <2>4, StoreAdds, LoopCalls DEF Next, AdderStep
<1>3. Spec => []TableInv
  BY InitTable, StepTable, PTL DEF Spec
<1>. QED  BY <1>1, <1>2, <1>3, PTL DEF Spec, ImplementsPinTable, Table!Spec
=============================================================================
