--------------------------- MODULE WifiCallbacks ---------------------------
(***************************************************************************)
(* The list of event callbacks in WiFiGeneric.cpp                          *)
(* (src/Extensions/Network/wifi/SRC/WiFi): onEvent() appends, the three    *)
(* removeEvent() erase, and _eventCallback walks over the list by index    *)
(* while the callbacks it calls, and other tasks, change it.               *)
(***************************************************************************)
EXTENDS Integers, Sequences, SequencesExt

CONSTANTS
  Functions,   \* what can be registered
  Events,      \* the kinds of events
  AnyEvent,         \* ARDUINO_EVENT_MAX, the filter that lets every event through
  None,        \* no event
  MaxIds       \* bound: registrations

BoundOK == MaxIds \in Nat

VARIABLES
  cbEventList, \* entries [id, cb, event]
  current_id,  \* the id given out next
  handled,     \* the event being dispatched
  i,           \* how many entries the loop has passed
  inside,      \* a callback of the dispatch runs
  called,      \* history: ids called for this event, in order
  due,         \* history: ids registered for it all the time since it began
  shifted      \* history: an entry the loop had passed was erased meanwhile

vars == <<cbEventList, current_id, handled, i, inside, called, due, shifted>>

Init ==
  /\ cbEventList = <<>> /\ current_id = 1 /\ handled = None /\ i = 0
  /\ inside = FALSE /\ called = <<>> /\ due = {} /\ shifted = FALSE

Ids(list) == {list[k].id : k \in DOMAIN list}
MatchesFilter(entry) == entry.event = handled   \* fault variant: ARDUINO_EVENT_MAX is forgotten

Matches(entry) == entry.event \in {handled, AnyEvent}

-----------------------------------------------------------------------------
(* WiFiEventCbList() numbers the entry; the id is what onEvent() returns.  *)
OnEvent(cb, event) ==
  /\ current_id <= MaxIds
  /\ cbEventList' = Append(cbEventList, [id |-> current_id, cb |-> cb, event |-> event])
  /\ current_id' = current_id + 1
  /\ UNCHANGED <<due, shifted>>

(* The loop of removeEvent() erases at k and goes on at k + 1, past the    *)
(* entry that has moved to k: in a row of entries that match, every second *)
(* one stays.                                                              *)
Row(ids, k, n) ==      \* the n entries up to k match, and the one before them does not
  /\ \A j \in k - n + 1 .. k : cbEventList[j].id \in ids
  /\ k = n \/ cbEventList[k - n].id \notin ids

Kept(ids) == {k \in DOMAIN cbEventList : \E n \in 0 .. k : n % 2 = 0 /\ Row(ids, k, n)}

(* The entries that are kept, in the order they have.                      *)
Erase(at) ==
  /\ \A j, k \in DOMAIN at : j < k => at[j] < at[k]
  /\ cbEventList' = [k \in DOMAIN at |-> cbEventList[at[k]]]

EraseAll(ids) ==
  /\ ids # {}
  /\ \E n \in 0 .. Len(cbEventList) : \E at \in Bijection(1 .. n, Kept(ids)) : Erase(at)
  /\ due' = due \cap Ids(cbEventList')
  /\ shifted' = (shifted \/ \E k \in 1 .. i : cbEventList[k].id \notin Ids(cbEventList'))
  /\ UNCHANGED current_id

RemoveEvent(cb, event) ==
  EraseAll({cbEventList[k].id : k \in {n \in DOMAIN cbEventList :
                                 cbEventList[n].cb = cb /\ cbEventList[n].event = event}})
RemoveEventId(id) == EraseAll(Ids(cbEventList) \cap {id})

Change ==
  \/ \E cb \in Functions, event \in Events \cup {AnyEvent} : OnEvent(cb, event) \/ RemoveEvent(cb, event)
  \/ \E id \in 1 .. MaxIds : RemoveEventId(id)

-----------------------------------------------------------------------------
(* _eventCallback.  A callback changes the list if it likes; any other     *)
(* task does so between two callbacks.                                     *)
Dispatch ==
  /\ handled = None /\ handled' \in Events
  /\ i' = 0 /\ called' = <<>> /\ shifted' = FALSE
  /\ due' = {e.id : e \in {cbEventList[k] : k \in {n \in DOMAIN cbEventList :
                                cbEventList[n].event \in {handled', AnyEvent}}}}
  /\ UNCHANGED <<cbEventList, current_id, inside>>

CallNext ==
  /\ handled # None /\ ~inside /\ i < Len(cbEventList)
  /\ i' = i + 1
  /\ IF Matches(cbEventList[i + 1])
     THEN called' = Append(called, cbEventList[i + 1].id) /\ inside' = TRUE
     ELSE UNCHANGED <<called, inside>>
  /\ UNCHANGED <<cbEventList, current_id, handled, due, shifted>>

Return == inside /\ inside' = FALSE /\ UNCHANGED <<cbEventList, current_id, handled, i, called, due, shifted>>

EndDispatch ==
  /\ handled # None /\ ~inside /\ i >= Len(cbEventList)
  /\ handled' = None /\ i' = 0 /\ called' = <<>> /\ due' = {} /\ shifted' = FALSE
  /\ UNCHANGED <<cbEventList, current_id, inside>>

Next == (Change /\ UNCHANGED <<handled, i, inside, called>>) \/ Dispatch \/ CallNext \/ Return \/ EndDispatch

Spec == Init /\ [][Next]_vars

-----------------------------------------------------------------------------
TypeOK ==
  /\ current_id \in 1 .. MaxIds + 1 /\ i \in Nat /\ handled \in Events \cup {None}
  /\ {inside, shifted} \subseteq BOOLEAN

(* Who stays registered while an event is dispatched is called for it, and *)
(* nobody twice, in the order of registration; as long as nothing the loop *)
(* has passed is erased.  (A callback that removes itself makes the loop   *)
(* skip its successor.)                                                    *)
DispatchIsFair ==
  /\ \A k, l \in DOMAIN called : k < l => called[k] < called[l]
  /\ handled # None /\ ~inside /\ i >= Len(cbEventList) /\ ~shifted
       => due \subseteq ToSet(called)
=============================================================================
