------------------------------- MODULE EspNow -------------------------------
(***************************************************************************)
(* The ESP-NOW example                                                     *)
(* (src/Extensions/Network/wifi/esp-idf examples/espnow/main/              *)
(* espnow_example_main.c) on several devices.  Each broadcasts until it    *)
(* knows who sends: the device with the larger magic number sends a number *)
(* of unicasts and ends.  A device has at most one send under way for each *)
(* callback it handles: the next send is made when the driver's callback   *)
(* has told that the last one is done.  Callbacks go through a queue of    *)
(* the device, and are dropped when it stays full.                         *)
(***************************************************************************)
EXTENDS Integers, Sequences, FiniteSets

CONSTANTS
  Devices,
  Magics,      \* random numbers
  Count,       \* CONFIG_ESPNOW_SEND_COUNT
  QueueSize    \* ESPNOW_QUEUE_SIZE

Everyone == "everyone"
DevicesOK ==
  Everyone \notin Devices /\ Magics \subseteq Nat /\ Count \in Nat \ {0} /\ QueueSize \in Nat

VARIABLES
  magic,       \* of each device, a random number
  task,        \* "alive", "dying": the queue is deleted, "dead": ESP-NOW is off
  broadcast, unicast, state, count,    \* send_param
  peers,       \* who is in the peer list
  queue,       \* events for the task
  air,         \* sends the driver has not finished, oldest first
  sent,        \* history: unicasts the driver has accepted
  full         \* history: an event was dropped

params == <<broadcast, unicast, state, count, peers>>
vars == <<magic, task, params, queue, air, sent, full>>

Frame(d, dest, st) == [from |-> d, to |-> dest, state |-> st, magic |-> magic[d]]

(* example_espnow_init, and the task's first broadcast.                    *)
Init ==
  /\ magic \in [Devices -> Magics] /\ task = [d \in Devices |-> "alive"]
  /\ broadcast = [d \in Devices |-> TRUE] /\ unicast = [d \in Devices |-> FALSE]
  /\ state = [d \in Devices |-> 0] /\ count = [d \in Devices |-> Count]
  /\ peers = [d \in Devices |-> {}]
  /\ queue = [d \in Devices |-> <<>>]
  /\ air = [d \in Devices |-> <<Frame(d, Everyone, 0)>>]
  /\ sent = [d \in Devices |-> 0] /\ full = [d \in Devices |-> FALSE]

-----------------------------------------------------------------------------
(* example_espnow_deinit: the queue goes first, and ESP-NOW after it.      *)
Deinit(d) == task' = [task EXCEPT ![d] = "dying"]

(* esp_now_send of freshly prepared data; an error ends the task.          *)
Send(d, dest) ==
  \/ /\ air' = [air EXCEPT ![d] = Append(@, Frame(d, dest, state'[d]))]
     /\ sent' = [sent EXCEPT ![d] = IF dest = Everyone THEN @ ELSE @ + 1]
     /\ UNCHANGED task
  \/ Deinit(d) /\ UNCHANGED <<air, sent>>

Idle == UNCHANGED <<task, air, sent>>

(* A callback tells that a send is done: send the next to the same         *)
(* address, unless it was a broadcast and those have ended, or the last    *)
(* unicast.                                                                *)
SendCb(d, e) ==
  LET many == e.to = Everyone
      last == ~many /\ count[d] = 1
  IN
  /\ count' = [count EXCEPT ![d] = IF many THEN @ ELSE @ - 1]
  /\ UNCHANGED <<broadcast, unicast, state, peers>>
  /\ \/ many /\ ~broadcast[d] /\ Idle
     \/ last /\ Deinit(d) /\ UNCHANGED <<air, sent>>
     \/ ~(many /\ ~broadcast[d]) /\ ~last /\ Send(d, e.to)

(* Fault variant: a device that sends unicasts begins them again.          *)
RecvBroadcastAgain(d, e) ==
  LET begins == e.state = 1 /\ magic[d] >= e.magic IN
  /\ state' = [state EXCEPT ![d] = 1] /\ peers' = [peers EXCEPT ![d] = @ \cup {e.from}] /\ UNCHANGED count
  /\ IF begins THEN Send(d, e.from) ELSE Idle
  /\ LET begun == begins /\ task'[d] = "alive" IN
     /\ broadcast' = [broadcast EXCEPT ![d] = @ /\ ~begun]
     /\ unicast' = [unicast EXCEPT ![d] = @ \/ begun]

(* A broadcast of another device: a device that has heard one says so in   *)
(* its state; who hears that state, has no larger magic number against it  *)
(* and does not send unicasts yet, begins to.                              *)
RecvBroadcast(d, e) ==
  LET begins == e.state = 1 /\ ~unicast[d] /\ magic[d] >= e.magic IN
  /\ state' = [state EXCEPT ![d] = 1] /\ peers' = [peers EXCEPT ![d] = @ \cup {e.from}] /\ UNCHANGED count
  /\ IF begins THEN Send(d, e.from) ELSE Idle
  /\ LET begun == begins /\ task'[d] = "alive" IN
     /\ broadcast' = [broadcast EXCEPT ![d] = @ /\ ~begun]
     /\ unicast' = [unicast EXCEPT ![d] = @ \/ begun]

RecvUnicast(d) ==
  /\ broadcast' = [broadcast EXCEPT ![d] = FALSE]
  /\ Idle /\ UNCHANGED <<unicast, state, count, peers>>

(* There may be no memory to add the sender of a broadcast to the peers.   *)
NoMemory(d, e) == e.to = Everyone /\ e.from \notin peers[d] /\ Deinit(d) /\ UNCHANGED <<params, air, sent>>

(* Data whose checksum is wrong are ignored.                               *)
RecvError == Idle /\ UNCHANGED params

Handle(d) ==
  /\ task[d] = "alive" /\ queue[d] # <<>>
  /\ LET e == Head(queue[d]) IN
       IF e.from = d THEN SendCb(d, e)
       ELSE \/ IF e.to = Everyone THEN RecvBroadcast(d, e) ELSE RecvUnicast(d)
            \/ NoMemory(d, e) \/ RecvError
  /\ queue' = [queue EXCEPT ![d] = Tail(@)]
  /\ UNCHANGED <<magic, full>>

Ends(d) ==
  /\ task[d] = "dying" /\ task' = [task EXCEPT ![d] = "dead"]
  /\ air' = [air EXCEPT ![d] = <<>>] /\ queue' = [queue EXCEPT ![d] = <<>>]
  /\ UNCHANGED <<magic, params, sent, full>>

(* The driver finishes a send: its own device is told, and the devices it  *)
(* reaches, some or none.  A callback waits while the queue is full and    *)
(* then drops the event.  (A callback that finds the queue deleted is      *)
(* undefined; here it does nothing.)                                       *)
Told(d, f, heard) == task[d] = "alive" /\ (d = f.from \/ d \in heard)
Complete(s) ==
  /\ air[s] # <<>>
  /\ LET f == Head(air[s]) IN
     \E heard \in SUBSET ((IF f.to = Everyone THEN Devices ELSE {f.to}) \ {s}) :
       /\ queue' = [d \in Devices |-> IF Told(d, f, heard) /\ Len(queue[d]) < QueueSize
                                        THEN Append(queue[d], f) ELSE queue[d]]
       /\ full' = [d \in Devices |-> full[d] \/ (Told(d, f, heard) /\ Len(queue[d]) = QueueSize)]
  /\ air' = [air EXCEPT ![s] = Tail(@)]
  /\ UNCHANGED <<magic, task, params, sent>>

Next == \E d \in Devices : Handle(d) \/ Ends(d) \/ Complete(d)

Spec == Init /\ [][Next]_vars

-----------------------------------------------------------------------------
(* The frames of a device to some destinations, and how many of them are  *)
(* under way or wait for the device's task.                                *)
FramesOf(d, dests) == [from : {d}, to : dests, state : 0 .. 1, magic : {magic[d]}]
Number(s, frames) == Cardinality({k \in DOMAIN s : s[k] \in frames})
Pending(d, dests) == Number(queue[d], FramesOf(d, dests)) + Number(air[d], FramesOf(d, dests))

Anyone == Devices \cup {Everyone}
Frames == UNION {FramesOf(d, Anyone) : d \in Devices}

TypeOK ==
  /\ task \in [Devices -> {"alive", "dying", "dead"}]
  /\ {broadcast, unicast} \subseteq [Devices -> BOOLEAN]
  /\ state \in [Devices -> 0 .. 1] /\ count \in [Devices -> 0 .. Count]
  /\ \A d \in Devices :
       /\ queue[d] \in Seq(Frames) /\ Len(queue[d]) <= QueueSize
       /\ air[d] \in Seq(FramesOf(d, Anyone)) /\ peers[d] \subseteq Devices \ {d}

(* Sends are a chain: a device has never more than one unicast and one     *)
(* broadcast under way or waiting to be told as done.  While its task      *)
(* lives and no event was dropped there is exactly one of the kind it      *)
(* sends, so that it goes on; it has sent as many unicasts as it has       *)
(* counted down and is still to be told of, never more than Count, and a   *)
(* device that has begun unicasts does not broadcast again.                *)
SendsAreChained ==
  \A d \in Devices :
    /\ Pending(d, Devices) <= 1 /\ Pending(d, {Everyone}) <= 1
    /\ sent[d] <= Count
    /\ task[d] = "alive" /\ ~full[d] =>
         /\ broadcast[d] => Pending(d, {Everyone}) = 1
         /\ unicast[d] => ~broadcast[d] /\ Pending(d, Devices) = 1
         /\ sent[d] = Count - count[d] + Pending(d, Devices)

(* The device with the smallest magic number of all never sends unicasts:  *)
(* there is another for it to receive from.  (Equal numbers make both send.)*)
LargerSends == \A d \in Devices : unicast[d] => \E e \in Devices \ {d} : magic[d] >= magic[e]
=============================================================================
