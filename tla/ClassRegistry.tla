--------------------------- MODULE ClassRegistry ---------------------------
(***************************************************************************)
(* What the Hardware bus promises to a driver: registering a handler class *)
(* on a bus gives the class a non-zero id that no other class of that bus  *)
(* has, in one step, and an id once given is never changed or withdrawn.   *)
(* 0 stands for "not registered", as in the return value of registerType.  *)
(***************************************************************************)
EXTENDS Naturals

CONSTANTS Buses,    \* the bus objects that init() may create
          Classes   \* the handler-class objects drivers construct

VARIABLE idOf       \* idOf[b][r]: id of class r on bus b, or 0

Init == idOf = [b \in Buses |-> [r \in Classes |-> 0]]

(* Class r gets a fresh id on bus b; every other entry stays.              *)
Enrol(b, r) ==
  /\ idOf[b][r] = 0
  /\ idOf'[b][r] \in Nat \ {0}
  /\ \A s \in Classes : idOf[b][s] # idOf'[b][r]
  /\ idOf' = [idOf EXCEPT ![b] = [@ EXCEPT ![r] = idOf'[b][r]]]

Next == \E b \in Buses, r \in Classes : Enrol(b, r)

Spec == Init /\ [][Next]_idOf
=============================================================================
