------------------------------ MODULE Sniffer -------------------------------
(***************************************************************************)
(* The packet sniffer (cmd_sniffer.c and cmd_pcap.c in                     *)
(* src/Extensions/Network/esp-idf examples/simple_sniffer/main, with the   *)
(* file in memory or on a card): the console's task starts and stops it,   *)
(* the sniffer's task takes packets from a queue and captures them, and    *)
(* the driver's callback copies packets into the queue.  sniffer_stop() is *)
(* called by the console, and by the sniffer's task when it has captured   *)
(* the number of packets it was started for.                               *)
(***************************************************************************)
EXTENDS Integers, FiniteSets

CONSTANTS
  Numbers,     \* arguments of -n; -1 when it is not given
  QueueLen,    \* CONFIG_SNIFFER_WORK_QUEUE_LEN
  MaxPackets,  \* bound: packets the driver hands over
  MaxStarts    \* bound: start commands

NumbersOK == Numbers \subseteq Int /\ QueueLen \in Nat /\ MaxPackets \in Nat

Tasks == {"console", "sniffer"}

VARIABLES
  interf,      \* "wlan" or "eth": the interface of the last command
  is_running, packets_to_sniff,
  work_queue,  \* the number of packets in it, None without a queue
  sem,         \* sem_task_over: 0, 1, or None
  promiscuous, \* the interfaces whose driver calls back
  is_opened, is_writing, link_type,   \* the pcap session; link_type "none" until it is set
  pc,          \* where each task is
  left,        \* left_items of the sniffer_stop in progress
  holds,       \* the sniffer's task holds a packet
  callback,    \* "idle", "copied": payload copied, "sending": work_queue was not NULL
  heap,        \* payloads allocated and not freed
  packets, starts,
  broken,      \* history: a start failed after it had begun the pcap session
  meddled,     \* history: console and sniffer's task were both to end the session, or a command
               \* named another interface than the one that is sniffed
  late,        \* history: an Ethernet callback outlived its session
  crashed      \* an object that was deleted has been used

session == <<is_opened, is_writing, link_type>>
driver == <<callback, packets>>
histories == <<starts, broken, meddled, late>>
vars == <<interf, is_running, packets_to_sniff, work_queue, sem, promiscuous, session, pc, left,
          holds, driver, heap, histories, crashed>>

None == -1
Interfaces == {"wlan", "eth"}

Init ==
  /\ interf = "wlan" /\ is_running = FALSE /\ packets_to_sniff = 0
  /\ work_queue = None /\ sem = None /\ promiscuous = {}
  /\ is_opened = FALSE /\ is_writing = FALSE /\ link_type = "none"
  /\ pc = [console |-> "prompt", sniffer |-> "gone"] /\ left = 0
  /\ holds = FALSE /\ callback = "idle" /\ heap = 0 /\ packets = 0
  /\ starts = 0 /\ broken = FALSE /\ meddled = FALSE /\ late = FALSE /\ crashed = FALSE

At(t, label) == pc[t] = label
Goto(t, label) == pc' = [pc EXCEPT ![t] = label]
TaskLives == pc.sniffer # "gone"

-----------------------------------------------------------------------------
(* pcap --open and pcap --close.                                           *)
Open ==
  /\ At("console", "prompt") /\ is_opened' = TRUE
  /\ UNCHANGED <<interf, is_running, packets_to_sniff, work_queue, sem, promiscuous,
                 is_writing, link_type, pc, left, holds, driver, heap, histories, crashed>>

Close ==
  /\ At("console", "prompt") /\ is_opened /\ ~is_writing
  /\ is_opened' = FALSE /\ link_type' = "none"
  /\ UNCHANGED <<interf, is_running, packets_to_sniff, work_queue, sem, promiscuous,
                 is_writing, pc, left, holds, driver, heap, histories, crashed>>

(* do_sniffer_cmd: interface and number are set before sniffer_start()     *)
(* looks whether the sniffer runs.  Then the pcap session, which must be   *)
(* open, and of the same type and not in use, begins.                      *)
Command(n, i) ==
  /\ At("console", "prompt") /\ starts < MaxStarts /\ starts' = starts + 1
  /\ packets_to_sniff' = n /\ interf' = i
  /\ meddled' = (meddled \/ n = 0 \/ (is_running /\ i # interf)
                        \/ ((is_running \/ TaskLives) /\ packets_to_sniff # None))
  /\ IF ~is_running /\ is_opened /\ (link_type = "none" \/ (link_type = i /\ ~is_writing))
     THEN Goto("console", "create") /\ is_writing' = TRUE /\ link_type' = i
     ELSE UNCHANGED <<pc, is_writing, link_type>>
  /\ UNCHANGED <<is_running, work_queue, sem, promiscuous, is_opened, left, holds, driver,
                 heap, broken, late, crashed>>

(* Queue, semaphore and task are created.  When one of them fails, what    *)
(* was created is deleted, but the pcap session stays in use.              *)
Create ==
  /\ At("console", "create")
  /\ \/ /\ is_running' = TRUE /\ work_queue' = 0 /\ sem' = 0
        /\ pc' = [console |-> "promiscuous", sniffer |-> "head"] /\ UNCHANGED broken
     \/ /\ is_running' = FALSE /\ broken' = TRUE
        /\ Goto("console", "prompt") /\ UNCHANGED <<work_queue, sem>>
  /\ UNCHANGED <<interf, packets_to_sniff, promiscuous, session, left, holds, driver, heap,
                 starts, meddled, late, crashed>>

Promiscuous ==
  /\ At("console", "promiscuous")
  /\ \/ /\ promiscuous' = promiscuous \cup {interf} /\ Goto("console", "prompt")
        /\ UNCHANGED <<is_running, work_queue, sem, broken, crashed>>
     \/ /\ TaskLives /\ sem # None
        /\ is_running' = FALSE /\ work_queue' = None /\ sem' = None /\ broken' = TRUE
        /\ pc' = [console |-> "prompt", sniffer |-> "gone"] /\ UNCHANGED <<promiscuous, crashed>>
     \/ /\ ~TaskLives \/ sem = None
        /\ crashed' = TRUE /\ UNCHANGED <<is_running, work_queue, sem, promiscuous, pc, broken>>
  /\ UNCHANGED <<interf, packets_to_sniff, session, left, holds, driver, heap, starts, meddled, late>>

-----------------------------------------------------------------------------
(* sniffer_stop(), by either task.  The Wi-Fi driver turns promiscuous     *)
(* mode off in the task of its callbacks; Ethernet does not.               *)
Stop(t) ==
  /\ IF t = "console" THEN At(t, "prompt") ELSE At(t, "finished")
  /\ \/ ~is_running /\ Goto(t, IF t = "console" THEN "prompt" ELSE "over")
        /\ UNCHANGED <<promiscuous, meddled>>
     \/ /\ is_running /\ (interf = "wlan" => callback = "idle")
        /\ promiscuous' = promiscuous \ {interf} /\ Goto(t, "end")
        /\ meddled' = (meddled \/ (t = "console" /\ TaskLives /\ packets_to_sniff # None))
     \/ is_running /\ Goto(t, IF t = "console" THEN "prompt" ELSE "over")
        /\ UNCHANGED <<promiscuous, meddled>>
  /\ UNCHANGED <<interf, is_running, packets_to_sniff, work_queue, sem, session, left, holds, driver,
                 heap, starts, broken, late, crashed>>

End(t) ==
  /\ At(t, "end") /\ is_running' = FALSE /\ Goto(t, "wait")
  /\ UNCHANGED <<interf, packets_to_sniff, work_queue, sem, promiscuous, session, left, holds, driver,
                 heap, histories, crashed>>

(* Fault variant: nobody waits for the task.                               *)
WaitNot(t) ==
  /\ At(t, "wait")
  /\ IF sem = None \/ work_queue = None
     THEN crashed' = TRUE /\ UNCHANGED <<sem, left, pc>>
     ELSE sem' = None /\ left' = work_queue /\ Goto(t, "drain") /\ UNCHANGED crashed
  /\ UNCHANGED <<interf, is_running, packets_to_sniff, work_queue, promiscuous, session, holds, driver,
                 heap, histories>>

(* Wait for the task, except when the number is used up; then delete the   *)
(* semaphore, empty the queue and delete it.                               *)
Wait(t) ==
  /\ At(t, "wait")
  /\ IF sem = None \/ work_queue = None
     THEN crashed' = TRUE /\ UNCHANGED <<sem, left, pc>>
     ELSE /\ packets_to_sniff = 0 \/ sem = 1
          /\ sem' = None /\ left' = work_queue /\ Goto(t, "drain") /\ UNCHANGED crashed
  /\ UNCHANGED <<interf, is_running, packets_to_sniff, work_queue, promiscuous, session, holds, driver,
                 heap, histories>>

Drain(t) ==
  /\ At(t, "drain") /\ left > 0
  /\ IF work_queue \in {None, 0}
     THEN crashed' = TRUE /\ UNCHANGED <<left, work_queue, heap>>
     ELSE left' = left - 1 /\ work_queue' = work_queue - 1 /\ heap' = heap - 1 /\ UNCHANGED crashed
  /\ UNCHANGED <<interf, is_running, packets_to_sniff, sem, promiscuous, session, pc, holds, driver,
                 histories>>

DeleteQueue(t) ==
  /\ At(t, "drain") /\ left = 0
  /\ IF work_queue = None
     THEN crashed' = TRUE /\ UNCHANGED <<work_queue, is_writing, late, pc>>
     ELSE /\ work_queue' = None /\ is_writing' = FALSE
          /\ late' = (late \/ callback # "idle" \/ work_queue > 0)
          /\ Goto(t, IF t = "console" THEN "prompt" ELSE "over") /\ UNCHANGED crashed
  /\ UNCHANGED <<interf, is_running, packets_to_sniff, sem, promiscuous, is_opened, link_type, left,
                 holds, driver, heap, starts, broken, meddled>>

StopSteps(t) == Wait(t) \/ Drain(t) \/ DeleteQueue(t)

-----------------------------------------------------------------------------
(* sniffer_task.                                                           *)
HeadOfLoop ==
  /\ At("sniffer", "head")
  /\ Goto("sniffer", IF ~is_running THEN "over" ELSE IF packets_to_sniff = 0 THEN "finished" ELSE "receive")
  /\ UNCHANGED <<interf, is_running, packets_to_sniff, work_queue, sem, promiscuous, session, left, holds,
                 driver, heap, histories, crashed>>

Receive ==
  /\ At("sniffer", "receive")
  /\ crashed' = (work_queue = None)
  /\ IF work_queue > 0 THEN work_queue' = work_queue - 1 /\ holds' = TRUE /\ Goto("sniffer", "capture")
                       ELSE Goto("sniffer", "head") /\ UNCHANGED <<work_queue, holds>>
  /\ UNCHANGED <<interf, is_running, packets_to_sniff, sem, promiscuous, session, left, driver, heap,
                 histories>>

Capture ==
  /\ At("sniffer", "capture")
  /\ holds' = FALSE /\ heap' = heap - 1
  /\ packets_to_sniff' = (IF packets_to_sniff > 0 THEN packets_to_sniff - 1 ELSE packets_to_sniff)
  /\ Goto("sniffer", "head")
  /\ UNCHANGED <<interf, is_running, work_queue, sem, promiscuous, session, left, driver, histories, crashed>>

Over ==
  /\ At("sniffer", "over")
  /\ IF packets_to_sniff = 0 THEN UNCHANGED <<sem, crashed>>
     ELSE IF sem = None THEN crashed' = TRUE /\ UNCHANGED sem ELSE sem' = 1 /\ UNCHANGED crashed
  /\ Goto("sniffer", "gone")
  /\ UNCHANGED <<interf, is_running, packets_to_sniff, work_queue, promiscuous, session, left, holds,
                 driver, heap, histories>>

-----------------------------------------------------------------------------
(* queue_packet: the payload is copied, sent if there is a queue, and      *)
(* freed when the queue stays full; without a queue it is not freed.       *)
Packet ==
  /\ promiscuous # {} /\ callback = "idle" /\ packets < MaxPackets
  /\ packets' = packets + 1 /\ callback' = "copied" /\ heap' = heap + 1
  /\ UNCHANGED <<interf, is_running, packets_to_sniff, work_queue, sem, promiscuous, session, pc, left,
                 holds, histories, crashed>>

LookAtQueue ==
  /\ callback = "copied"
  /\ callback' = (IF work_queue = None THEN "idle" ELSE "sending")
  /\ UNCHANGED <<interf, is_running, packets_to_sniff, work_queue, sem, promiscuous, session, pc, left,
                 holds, packets, heap, histories, crashed>>

SendToQueue ==
  /\ callback = "sending" /\ callback' = "idle"
  /\ crashed' = (work_queue = None)
  /\ IF work_queue \in 0 .. QueueLen - 1
     THEN work_queue' = work_queue + 1 /\ UNCHANGED heap
     ELSE heap' = heap - 1 /\ UNCHANGED work_queue
  /\ UNCHANGED <<interf, is_running, packets_to_sniff, sem, promiscuous, session, pc, left, holds,
                 packets, histories>>

-----------------------------------------------------------------------------
Console == Create \/ Promiscuous \/ End("console") \/ StopSteps("console")
Task == HeadOfLoop \/ Receive \/ Capture \/ Over \/ Stop("sniffer") \/ End("sniffer") \/ StopSteps("sniffer")
Callback == LookAtQueue \/ SendToQueue
Commands == Open \/ Close \/ Stop("console") \/ \E n \in Numbers, i \in Interfaces : Command(n, i)

Next == ~crashed /\ (Console \/ Task \/ Callback \/ Commands \/ Packet)

Spec == Init /\ [][Next]_vars
        /\ WF_vars(~crashed /\ Console) /\ WF_vars(~crashed /\ Task)

-----------------------------------------------------------------------------
TypeOK ==
  /\ work_queue \in {None} \cup 0 .. QueueLen /\ sem \in {None, 0, 1} /\ left \in {None} \cup 0 .. QueueLen
  /\ packets_to_sniff \in {0} \cup Nat \cup Numbers /\ heap \in 0 .. MaxPackets
  /\ callback \in {"idle", "copied", "sending"} /\ DOMAIN pc = Tasks
  /\ promiscuous \subseteq Interfaces /\ link_type \in Interfaces \cup {"none"}

(* Every payload the callback has copied is in the queue, in the hands of  *)
(* the callback or in those of the sniffer's task, until it is freed, once;*)
(* no session ends with a payload left.  Nothing that was deleted is used. *)
(* (Exceptions: an Ethernet callback that still runs when the queue is     *)
(* deleted; a command while the sniffer counts its packets down, and a     *)
(* number of 0, which let both tasks end the same session; a command that  *)
(* names another interface, whose promiscuous mode a stop then ends.)      *)
InQueue == IF work_queue = None THEN 0 ELSE work_queue
PayloadsFreed ==
  ~meddled /\ ~late =>
    ~crashed /\ heap = InQueue + (IF holds THEN 1 ELSE 0) + (IF callback = "idle" THEN 0 ELSE 1)

(* Packets are captured into an open session whose header is written, and  *)
(* a session is in use exactly while the sniffer starts, runs or ends:     *)
(* when it does not, the file can be closed.  (After a start that failed   *)
(* it cannot.)                                                             *)
SessionIsOpen ==
  ~meddled =>
    /\ At("sniffer", "capture") => is_opened /\ link_type # "none" /\ is_writing
    /\ ~broken /\ is_writing => is_running \/ pc.console # "prompt" \/ TaskLives

SnifferIsSound == PayloadsFreed /\ SessionIsOpen

(* A stop ends: the sniffer's task sees that it has to, and gives the      *)
(* semaphore that the console waits for.                                   *)
InStop == \E t \in Tasks : At(t, "wait")
StopEnds == InStop ~> ~InStop \/ meddled \/ crashed
=============================================================================
