------------------------------ MODULE PinTable ------------------------------
(***************************************************************************)
(* What the IO driver promises to the application: a pin is added once, in *)
(* the first free place of a table of NumSlots, and stays; and the         *)
(* callback of a device is only ever called for a device wholly in the     *)
(* table, one call at a time, with that device's own pin and kind.         *)
(***************************************************************************)
EXTENDS Naturals

CONSTANTS NumSlots,   \* places in the table
          Devices,    \* what may be asked for: records with a field pin
          NoDevice

VARIABLES device,     \* device[s]: what place s of the table holds
          calling     \* the device whose callback runs, or NoDevice

Slots == 0 .. NumSlots - 1

Init == /\ device = [s \in Slots |-> NoDevice]
        /\ calling = NoDevice

Add(s, d) ==
  /\ device[s] = NoDevice
  /\ \A t \in Slots : t < s => device[t] # NoDevice
  /\ \A t \in Slots : device[t] # NoDevice => device[t].pin # d.pin
  /\ device' = [device EXCEPT ![s] = d]
  /\ UNCHANGED calling

Call(s) ==
  /\ calling = NoDevice /\ device[s] # NoDevice
  /\ calling' = device[s]
  /\ UNCHANGED device

Return == /\ calling # NoDevice
          /\ calling' = NoDevice
          /\ UNCHANGED device

Next == \/ \E s \in Slots : Call(s) \/ \E d \in Devices : Add(s, d)
        \/ Return

Spec == Init /\ [][Next]_<<device, calling>>
=============================================================================
