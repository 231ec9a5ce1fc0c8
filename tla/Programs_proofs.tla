--------------------------- MODULE Programs_proofs ----------------------------
(***************************************************************************)
(* Theorems about the example programs that Programs puts side by side.    *)
(***************************************************************************)
EXTENDS Integers, Sequences, Programs, FiniteSetTheorems, SequenceTheorems, TLAPS

One(b) == IF b THEN 1 ELSE 0

-----------------------------------------------------------------------------
(* The packet sniffer: its console, its task and the driver's callback.    *)

ConsoleAt == at.console
TaskAt == at.sniffer
Working == {"head", "receive", "capture"}
Stopping == {"end", "wait", "drain"}

SniffFlags ==
  /\ is_running \in BOOLEAN /\ is_opened \in BOOLEAN /\ is_writing \in BOOLEAN
  /\ broken \in BOOLEAN /\ meddled \in BOOLEAN /\ late \in BOOLEAN /\ crashed \in BOOLEAN

SniffAmounts ==
  /\ packets_to_sniff \in Nat \cup Numbers /\ sem \in {Sniff!None, 0, 1}
  /\ work_queue \in {Sniff!None} \cup (0 .. WorkQueueLen)
  /\ items \in {Sniff!None} \cup (0 .. WorkQueueLen)

SniffChoices ==
  /\ interf \in Sniff!Interfaces /\ promiscuous \subseteq Sniff!Interfaces
  /\ link_type \in Sniff!Interfaces \cup {"none"} /\ sn_callback \in {"idle", "copied", "sending"}

SniffPlaces ==
  /\ at = [console |-> ConsoleAt, sniffer |-> TaskAt]
  /\ ConsoleAt \in {"prompt", "create", "promiscuous"} \cup Stopping
  /\ TaskAt \in {"gone", "finished", "over"} \cup Working \cup Stopping
  /\ holds \in BOOLEAN /\ (TaskAt = "capture" => holds)

SniffTypes == SniffFlags /\ SniffAmounts /\ SniffChoices /\ SniffPlaces

(* Payloads on the heap: in the queue, with the task, with the callback.   *)
Accounted == Sniff!InQueue + One(holds) + One(sn_callback # "idle")
HeapInv == /\ heap \in Nat /\ packets \in Nat /\ heap <= packets /\ packets <= MaxSniffed
           /\ heap >= Accounted

SniffIdle == /\ ConsoleAt \in {"prompt", "promiscuous"} =>
                          \/ /\ is_running /\ work_queue # Sniff!None /\ sem = 0
                             /\ TaskAt \in Working
                                  \/ (TaskAt \in {"finished", "end", "over", "gone"}
                                       /\ packets_to_sniff = 0)
                          \/ /\ ~is_running /\ packets_to_sniff = 0 /\ work_queue # Sniff!None
                             /\ (TaskAt = "wait" /\ sem # Sniff!None)
                                  \/ (TaskAt = "drain" /\ sem = Sniff!None)
                          \/ /\ ~is_running /\ work_queue = Sniff!None /\ sem = Sniff!None
                             /\ TaskAt = "gone" \/ (TaskAt = "over" /\ packets_to_sniff = 0)

(* Where the console is tells where the task is and what exists.           *)
Phases ==
  /\ SniffIdle
  /\ ConsoleAt = "create" => ~is_running /\ TaskAt = "gone" /\ work_queue = Sniff!None
       /\ sem = Sniff!None /\ is_opened /\ is_writing /\ link_type # "none"
  /\ ConsoleAt = "end" => /\ is_running /\ work_queue # Sniff!None /\ sem = 0
                          /\ (TaskAt \in Working /\ packets_to_sniff = Sniff!None)
                               \/ (TaskAt = "gone" /\ packets_to_sniff = 0)
  /\ ConsoleAt = "wait" => /\ ~is_running /\ work_queue # Sniff!None
                           /\ \/ TaskAt \in Working \cup {"over"}
                                 /\ packets_to_sniff = Sniff!None /\ sem = 0
                              \/ TaskAt = "gone" /\ packets_to_sniff = Sniff!None /\ sem = 1
                              \/ TaskAt = "gone" /\ packets_to_sniff = 0 /\ sem = 0
  /\ ConsoleAt = "drain"
       => ~is_running /\ work_queue # Sniff!None /\ TaskAt = "gone" /\ sem = Sniff!None
  /\ work_queue # Sniff!None => is_opened /\ is_writing /\ link_type # "none"
  /\ work_queue = Sniff!None /\ ConsoleAt # "create" => (is_writing => broken)

PhaseInv == ~meddled => Phases

Payloads ==
  /\ ~crashed /\ (holds => TaskAt = "capture")
  /\ heap = Accounted
  /\ work_queue = Sniff!None => sn_callback = "idle" /\ promiscuous = {}
  /\ ConsoleAt = "promiscuous" => /\ sn_callback = "idle" /\ promiscuous = {} /\ work_queue = 0
                                  /\ TaskAt \in {"head", "receive"} /\ packets_to_sniff # 0
  /\ ConsoleAt = "create" => packets_to_sniff # 0
  /\ promiscuous \subseteq {interf}
  /\ ConsoleAt \in Stopping \/ TaskAt \in Stopping => promiscuous = {}
  /\ ConsoleAt = "drain" \/ TaskAt = "drain" => items \in 0 .. work_queue

PayloadInv == ~meddled /\ ~late => Payloads

LEMMA SniffNumbers ==
  Numbers \subseteq Int /\ WorkQueueLen \in Nat /\ MaxSniffed \in Nat
  BY ProgramsAssumption DEF Sniff!NumbersOK

LEMMA SniffFlagsStep == SniffFlags /\ [Sniff!Next]_Sniff!vars => SniffFlags'
<1> SUFFICES ASSUME SniffFlags, [Sniff!Next]_Sniff!vars PROVE SniffFlags'
  OBVIOUS
<1> USE SniffNumbers DEF Sniff!At, Sniff!Goto, Sniff!TaskLives, Sniff!session, Sniff!driver,
      Sniff!histories, Sniff!None, Sniff!Interfaces, Sniff!Tasks, SniffFlags
<1>1. CASE Sniff!Console
  BY ZenonT(60), <1>1 DEF Sniff!Console, Sniff!Create, Sniff!Promiscuous, Sniff!End, Sniff!StopSteps,
        Sniff!Wait, Sniff!Drain, Sniff!DeleteQueue
<1>2. CASE Sniff!Task
  <2>1. CASE Sniff!HeadOfLoop \/ Sniff!Receive \/ Sniff!Capture \/ Sniff!Over
    BY ZenonT(60), <2>1 DEF Sniff!HeadOfLoop, Sniff!Receive, Sniff!Capture, Sniff!Over
  <2>2. CASE Sniff!Stop("sniffer") \/ Sniff!End("sniffer") \/ Sniff!StopSteps("sniffer")
    BY ZenonT(60), <2>2 DEF Sniff!Stop, Sniff!End, Sniff!StopSteps, Sniff!Wait, Sniff!Drain,
          Sniff!DeleteQueue
  <2> QED
    BY <1>2, <2>1, <2>2 DEF Sniff!Task
<1>3. CASE Sniff!Callback \/ Sniff!Packet
  BY ZenonT(60), <1>3 DEF Sniff!Callback, Sniff!LookAtQueue, Sniff!SendToQueue, Sniff!Packet
<1>4. CASE Sniff!Open \/ Sniff!Close \/ Sniff!Stop("console")
  BY ZenonT(60), <1>4 DEF Sniff!Open, Sniff!Close, Sniff!Stop
<1>5. ASSUME NEW n \in Numbers, NEW i \in Sniff!Interfaces, Sniff!Command(n, i)
      PROVE SniffFlags'
  BY <1>5 DEF Sniff!Command
<1>6. CASE UNCHANGED Sniff!vars
  BY <1>6 DEF Sniff!vars
<1> QED
  BY <1>1, <1>2, <1>3, <1>4, <1>5, <1>6 DEF Sniff!Next, Sniff!Commands

LEMMA SniffAmountsStep == SniffAmounts /\ [Sniff!Next]_Sniff!vars => SniffAmounts'
<1> SUFFICES ASSUME SniffAmounts, [Sniff!Next]_Sniff!vars PROVE SniffAmounts'
  OBVIOUS
<1> USE SniffNumbers DEF Sniff!At, Sniff!Goto, Sniff!TaskLives, Sniff!session, Sniff!driver,
      Sniff!histories, Sniff!None, Sniff!Interfaces, Sniff!Tasks, SniffAmounts
<1>1. CASE Sniff!Console
  BY <1>1 DEF Sniff!Console, Sniff!Create, Sniff!Promiscuous, Sniff!End, Sniff!StopSteps,
        Sniff!Wait, Sniff!Drain, Sniff!DeleteQueue
<1>2. CASE Sniff!Task
  <2>1. CASE Sniff!HeadOfLoop \/ Sniff!Receive \/ Sniff!Capture \/ Sniff!Over
    BY <2>1 DEF Sniff!HeadOfLoop, Sniff!Receive, Sniff!Capture, Sniff!Over
  <2>2. CASE Sniff!Stop("sniffer") \/ Sniff!End("sniffer") \/ Sniff!StopSteps("sniffer")
    BY <2>2 DEF Sniff!Stop, Sniff!End, Sniff!StopSteps, Sniff!Wait, Sniff!Drain,
          Sniff!DeleteQueue
  <2> QED
    BY <1>2, <2>1, <2>2 DEF Sniff!Task
<1>3. CASE Sniff!Callback \/ Sniff!Packet
  BY <1>3 DEF Sniff!Callback, Sniff!LookAtQueue, Sniff!SendToQueue, Sniff!Packet
<1>4. CASE Sniff!Open \/ Sniff!Close \/ Sniff!Stop("console")
  BY <1>4 DEF Sniff!Open, Sniff!Close, Sniff!Stop
<1>5. ASSUME NEW n \in Numbers, NEW i \in Sniff!Interfaces, Sniff!Command(n, i)
      PROVE SniffAmounts'
  BY <1>5 DEF Sniff!Command
<1>6. CASE UNCHANGED Sniff!vars
  BY <1>6 DEF Sniff!vars
<1> QED
  BY <1>1, <1>2, <1>3, <1>4, <1>5, <1>6 DEF Sniff!Next, Sniff!Commands

LEMMA SniffChoicesStep == SniffChoices /\ [Sniff!Next]_Sniff!vars => SniffChoices'
<1> SUFFICES ASSUME SniffChoices, [Sniff!Next]_Sniff!vars PROVE SniffChoices'
  OBVIOUS
<1> USE SniffNumbers DEF Sniff!At, Sniff!Goto, Sniff!TaskLives, Sniff!session, Sniff!driver,
      Sniff!histories, Sniff!None, Sniff!Interfaces, Sniff!Tasks, SniffChoices
<1>1. CASE Sniff!Console
  BY <1>1 DEF Sniff!Console, Sniff!Create, Sniff!Promiscuous, Sniff!End, Sniff!StopSteps,
        Sniff!Wait, Sniff!Drain, Sniff!DeleteQueue
<1>2. CASE Sniff!Task
  <2>1. CASE Sniff!HeadOfLoop \/ Sniff!Receive \/ Sniff!Capture \/ Sniff!Over
    BY <2>1 DEF Sniff!HeadOfLoop, Sniff!Receive, Sniff!Capture, Sniff!Over
  <2>2. CASE Sniff!Stop("sniffer") \/ Sniff!End("sniffer") \/ Sniff!StopSteps("sniffer")
    BY <2>2 DEF Sniff!Stop, Sniff!End, Sniff!StopSteps, Sniff!Wait, Sniff!Drain,
          Sniff!DeleteQueue
  <2> QED
    BY <1>2, <2>1, <2>2 DEF Sniff!Task
<1>3. CASE Sniff!Callback \/ Sniff!Packet
  BY <1>3 DEF Sniff!Callback, Sniff!LookAtQueue, Sniff!SendToQueue, Sniff!Packet
<1>4. CASE Sniff!Open \/ Sniff!Close \/ Sniff!Stop("console")
  BY <1>4 DEF Sniff!Open, Sniff!Close, Sniff!Stop
<1>5. ASSUME NEW n \in Numbers, NEW i \in Sniff!Interfaces, Sniff!Command(n, i)
      PROVE SniffChoices'
  BY <1>5 DEF Sniff!Command
<1>6. CASE UNCHANGED Sniff!vars
  BY <1>6 DEF Sniff!vars
<1> QED
  BY <1>1, <1>2, <1>3, <1>4, <1>5, <1>6 DEF Sniff!Next, Sniff!Commands

LEMMA SniffPlacesStep == SniffTypes /\ [Sniff!Next]_Sniff!vars => SniffPlaces'
<1> SUFFICES ASSUME SniffTypes, [Sniff!Next]_Sniff!vars PROVE SniffPlaces'
  OBVIOUS
<1> USE SniffNumbers DEF Sniff!At, Sniff!Goto, Sniff!TaskLives, Sniff!session, Sniff!driver,
      Sniff!histories, Sniff!None, Sniff!Interfaces, Sniff!Tasks, SniffTypes, SniffFlags,
      SniffAmounts, SniffChoices, SniffPlaces, ConsoleAt, TaskAt, Working, Stopping
<1>1. CASE Sniff!Console
  BY <1>1 DEF Sniff!Console, Sniff!Create, Sniff!Promiscuous, Sniff!End, Sniff!StopSteps,
        Sniff!Wait, Sniff!Drain, Sniff!DeleteQueue
<1>2. CASE Sniff!Task
  <2>1. CASE Sniff!HeadOfLoop \/ Sniff!Receive \/ Sniff!Capture \/ Sniff!Over
    BY <2>1 DEF Sniff!HeadOfLoop, Sniff!Receive, Sniff!Capture, Sniff!Over
  <2>2. CASE Sniff!Stop("sniffer") \/ Sniff!End("sniffer") \/ Sniff!StopSteps("sniffer")
    BY <2>2 DEF Sniff!Stop, Sniff!End, Sniff!StopSteps, Sniff!Wait, Sniff!Drain,
          Sniff!DeleteQueue
  <2> QED
    BY <1>2, <2>1, <2>2 DEF Sniff!Task
<1>3. CASE Sniff!Callback \/ Sniff!Packet
  BY <1>3 DEF Sniff!Callback, Sniff!LookAtQueue, Sniff!SendToQueue, Sniff!Packet
<1>4. CASE Sniff!Open \/ Sniff!Close \/ Sniff!Stop("console")
  BY <1>4 DEF Sniff!Open, Sniff!Close, Sniff!Stop
<1>5. ASSUME NEW n \in Numbers, NEW i \in Sniff!Interfaces, Sniff!Command(n, i)
      PROVE SniffPlaces'
  BY <1>5 DEF Sniff!Command
<1>6. CASE UNCHANGED Sniff!vars
  BY <1>6 DEF Sniff!vars
<1> QED
  BY <1>1, <1>2, <1>3, <1>4, <1>5, <1>6 DEF Sniff!Next, Sniff!Commands

LEMMA HeapInvStep == SniffTypes /\ HeapInv /\ [Sniff!Next]_Sniff!vars => HeapInv'
<1> SUFFICES ASSUME SniffTypes, HeapInv, [Sniff!Next]_Sniff!vars PROVE HeapInv'
  OBVIOUS
<1> USE SniffNumbers DEF Sniff!At, Sniff!Goto, Sniff!TaskLives, Sniff!session, Sniff!driver,
      Sniff!histories, Sniff!None, Sniff!Interfaces, Sniff!Tasks, SniffTypes, SniffFlags,
      SniffAmounts, SniffChoices, SniffPlaces, ConsoleAt, TaskAt, Working, Stopping, HeapInv,
      Accounted, One, Sniff!InQueue
<1>1. CASE Sniff!Console
  BY <1>1 DEF Sniff!Console, Sniff!Create, Sniff!Promiscuous, Sniff!End, Sniff!StopSteps,
        Sniff!Wait, Sniff!Drain, Sniff!DeleteQueue
<1>2. CASE Sniff!Task
  <2>1. CASE Sniff!HeadOfLoop \/ Sniff!Receive \/ Sniff!Capture \/ Sniff!Over
    BY <2>1 DEF Sniff!HeadOfLoop, Sniff!Receive, Sniff!Capture, Sniff!Over
  <2>2. CASE Sniff!Stop("sniffer") \/ Sniff!End("sniffer") \/ Sniff!StopSteps("sniffer")
    BY <2>2 DEF Sniff!Stop, Sniff!End, Sniff!StopSteps, Sniff!Wait, Sniff!Drain,
          Sniff!DeleteQueue
  <2> QED
    BY <1>2, <2>1, <2>2 DEF Sniff!Task
<1>3. CASE Sniff!Callback \/ Sniff!Packet
  BY <1>3 DEF Sniff!Callback, Sniff!LookAtQueue, Sniff!SendToQueue, Sniff!Packet
<1>4. CASE Sniff!Open \/ Sniff!Close \/ Sniff!Stop("console")
  BY <1>4 DEF Sniff!Open, Sniff!Close, Sniff!Stop
<1>5. ASSUME NEW n \in Numbers, NEW i \in Sniff!Interfaces, Sniff!Command(n, i) PROVE HeapInv'
  BY <1>5 DEF Sniff!Command
<1>6. CASE UNCHANGED Sniff!vars
  BY <1>6 DEF Sniff!vars
<1> QED
  BY <1>1, <1>2, <1>3, <1>4, <1>5, <1>6 DEF Sniff!Next, Sniff!Commands

LEMMA PhaseInvStep == SniffTypes /\ PhaseInv /\ [Sniff!Next]_Sniff!vars => PhaseInv'
<1> SUFFICES ASSUME SniffTypes, PhaseInv, [Sniff!Next]_Sniff!vars PROVE PhaseInv'
  OBVIOUS
<1> USE SniffNumbers DEF Sniff!At, Sniff!Goto, Sniff!TaskLives, Sniff!session, Sniff!driver,
      Sniff!histories, Sniff!None, Sniff!Interfaces, Sniff!Tasks, SniffTypes, SniffFlags,
      SniffAmounts, SniffChoices, SniffPlaces, ConsoleAt, TaskAt, Working, Stopping, PhaseInv,
      Phases, SniffIdle
<1>1. CASE Sniff!Console
  BY <1>1 DEF Sniff!Console, Sniff!Create, Sniff!Promiscuous, Sniff!End, Sniff!StopSteps,
        Sniff!Wait, Sniff!Drain, Sniff!DeleteQueue
<1>2. CASE Sniff!Task
  <2>1. CASE Sniff!HeadOfLoop \/ Sniff!Receive \/ Sniff!Capture \/ Sniff!Over
    BY <2>1 DEF Sniff!HeadOfLoop, Sniff!Receive, Sniff!Capture, Sniff!Over
  <2>2. CASE Sniff!Stop("sniffer") \/ Sniff!End("sniffer") \/ Sniff!StopSteps("sniffer")
    BY <2>2 DEF Sniff!Stop, Sniff!End, Sniff!StopSteps, Sniff!Wait, Sniff!Drain,
          Sniff!DeleteQueue
  <2> QED
    BY <1>2, <2>1, <2>2 DEF Sniff!Task
<1>3. CASE Sniff!Callback \/ Sniff!Packet
  BY <1>3 DEF Sniff!Callback, Sniff!LookAtQueue, Sniff!SendToQueue, Sniff!Packet
<1>4. CASE Sniff!Open \/ Sniff!Close \/ Sniff!Stop("console")
  BY <1>4 DEF Sniff!Open, Sniff!Close, Sniff!Stop
<1>5. ASSUME NEW n \in Numbers, NEW i \in Sniff!Interfaces, Sniff!Command(n, i) PROVE PhaseInv'
  <2> SUFFICES ASSUME ~meddled' PROVE Phases'
    BY DEF PhaseInv
  <2>1. /\ ~meddled /\ ConsoleAt = "prompt" /\ packets_to_sniff' = n
        /\ is_running \/ TaskAt # "gone" => packets_to_sniff = Sniff!None
        /\ UNCHANGED <<is_running, work_queue, sem, is_opened, broken, TaskAt>>
    BY <1>5 DEF Sniff!Command
  <2>2. Phases
    BY <2>1 DEF PhaseInv
  <2>3. CASE ConsoleAt' = "create" /\ is_writing' /\ link_type' = i /\ ~is_running /\ is_opened
    BY <2>1, <2>2, <2>3
  <2>4. CASE UNCHANGED <<at, is_writing, link_type>>
    BY <2>1, <2>2, <2>4
  <2> QED
    BY <1>5, <2>3, <2>4 DEF Sniff!Command
<1>6. CASE UNCHANGED Sniff!vars
  BY <1>6 DEF Sniff!vars
<1> QED
  BY <1>1, <1>2, <1>3, <1>4, <1>5, <1>6 DEF Sniff!Next, Sniff!Commands

LEMMA PayloadInvStep ==
  SniffTypes /\ HeapInv /\ PhaseInv /\ PayloadInv /\ [Sniff!Next]_Sniff!vars => PayloadInv'
<1> SUFFICES ASSUME SniffTypes, HeapInv, PhaseInv, PayloadInv, [Sniff!Next]_Sniff!vars
    PROVE PayloadInv'
  OBVIOUS
<1> USE SniffNumbers DEF Sniff!At, Sniff!Goto, Sniff!TaskLives, Sniff!session, Sniff!driver,
      Sniff!histories, Sniff!None, Sniff!Interfaces, Sniff!Tasks, SniffTypes, SniffFlags,
      SniffAmounts, SniffChoices, SniffPlaces, ConsoleAt, TaskAt, Working, Stopping, HeapInv,
      Accounted, One, Sniff!InQueue, PhaseInv, Phases, SniffIdle, PayloadInv, Payloads
<1>1. CASE Sniff!Console
  BY <1>1 DEF Sniff!Console, Sniff!Create, Sniff!Promiscuous, Sniff!End, Sniff!StopSteps,
        Sniff!Wait, Sniff!Drain, Sniff!DeleteQueue
<1>2. CASE Sniff!Task
  <2>1. CASE Sniff!HeadOfLoop \/ Sniff!Receive \/ Sniff!Capture \/ Sniff!Over
    BY <2>1 DEF Sniff!HeadOfLoop, Sniff!Receive, Sniff!Capture, Sniff!Over
  <2>2. CASE Sniff!Stop("sniffer") \/ Sniff!End("sniffer") \/ Sniff!StopSteps("sniffer")
    BY <2>2 DEF Sniff!Stop, Sniff!End, Sniff!StopSteps, Sniff!Wait, Sniff!Drain,
          Sniff!DeleteQueue
  <2> QED
    BY <1>2, <2>1, <2>2 DEF Sniff!Task
<1>3. CASE Sniff!Callback \/ Sniff!Packet
  BY <1>3 DEF Sniff!Callback, Sniff!LookAtQueue, Sniff!SendToQueue, Sniff!Packet
<1>4. CASE Sniff!Open \/ Sniff!Close \/ Sniff!Stop("console")
  BY <1>4 DEF Sniff!Open, Sniff!Close, Sniff!Stop
<1>5. ASSUME NEW n \in Numbers, NEW i \in Sniff!Interfaces, Sniff!Command(n, i)
      PROVE PayloadInv'
  BY <1>5 DEF Sniff!Command
<1>6. CASE UNCHANGED Sniff!vars
  BY <1>6 DEF Sniff!vars
<1> QED
  BY <1>1, <1>2, <1>3, <1>4, <1>5, <1>6 DEF Sniff!Next, Sniff!Commands

LEMMA SniffSuffices ==
  SniffTypes /\ HeapInv /\ PhaseInv /\ PayloadInv => Sniff!TypeOK /\ Sniff!SnifferIsSound
<1> SUFFICES ASSUME SniffTypes, HeapInv, PhaseInv, PayloadInv
    PROVE Sniff!TypeOK /\ Sniff!SnifferIsSound
  OBVIOUS
<1>1. Sniff!TypeOK
  BY SniffNumbers DEF Sniff!TypeOK, SniffTypes, SniffFlags, SniffAmounts, SniffChoices,
        SniffPlaces, HeapInv, Sniff!Tasks, Sniff!None
<1>2. Sniff!PayloadsFreed
  BY DEF Sniff!PayloadsFreed, PayloadInv, Payloads, Accounted, One
<1>3. Sniff!SessionIsOpen
  BY DEF Sniff!SessionIsOpen, PhaseInv, Phases, SniffIdle, SniffTypes, SniffPlaces,
        SniffAmounts, SniffFlags, Sniff!At, Sniff!TaskLives, ConsoleAt, TaskAt, Working,
        Stopping, Sniff!None
<1> QED
  BY <1>1, <1>2, <1>3 DEF Sniff!SnifferIsSound

LEMMA SniffInit == Sniff!Init => SniffTypes /\ HeapInv /\ PhaseInv /\ PayloadInv
<1> SUFFICES ASSUME Sniff!Init PROVE SniffTypes /\ HeapInv /\ PhaseInv /\ PayloadInv
  OBVIOUS
<1> USE SniffNumbers DEF Sniff!Init, Sniff!None, ConsoleAt, TaskAt
<1>1. SniffFlags
  BY DEF SniffFlags
<1>1a. SniffAmounts
  BY DEF SniffAmounts
<1>2. SniffChoices /\ SniffPlaces
  BY DEF SniffChoices, SniffPlaces, Sniff!Interfaces, Working, Stopping
<1>3. HeapInv
  BY DEF HeapInv, Accounted, One, Sniff!InQueue
<1>4. PhaseInv
  BY DEF PhaseInv, Phases, SniffIdle
<1>5. PayloadInv
  BY DEF PayloadInv, Payloads, Accounted, One, Sniff!InQueue, Stopping
<1> QED
  BY <1>1, <1>1a, <1>2, <1>3, <1>4, <1>5 DEF SniffTypes

(* Whatever numbers of packets are asked for and however long the queue is:*)
(* unless a command meddles, every payload is freed once and captured into *)
(* an open session, and the session ends with the sniffer.                 *)
THEOREM SnifferHolds == Sniff!Spec => [](Sniff!TypeOK /\ SnifferIsSound)
<1>1. SniffTypes /\ [Sniff!Next]_Sniff!vars => SniffTypes'
  BY SniffFlagsStep, SniffAmountsStep, SniffChoicesStep, SniffPlacesStep DEF SniffTypes
<1>2. Sniff!SnifferIsSound => SnifferIsSound
  BY DEF SnifferIsSound
<1> QED
  BY <1>1, <1>2, SniffInit, HeapInvStep, PhaseInvStep, PayloadInvStep, SniffSuffices, PTL
    DEF Sniff!Spec

-----------------------------------------------------------------------------
(* ESP-NOW: a set of devices, of which each has one send under way.        *)

Hits(s, frames) == {k \in DOMAIN s : s[k] \in frames}

LEMMA PeerNumbers ==
  /\ SendCount \in Nat \ {0} /\ QueueSize \in Nat /\ Peers!Everyone \notin Senders
  /\ Magics \subseteq Nat
  BY ProgramsAssumption DEF Peers!DevicesOK

LEMMA HitsFinite ==
  ASSUME NEW T, NEW s \in Seq(T), NEW W
  PROVE  /\ Hits(s, W) \in SUBSET (1 .. Len(s)) /\ IsFiniteSet(Hits(s, W))
         /\ Peers!Number(s, W) = Cardinality(Hits(s, W)) /\ Peers!Number(s, W) \in Nat
<1>1. Hits(s, W) \in SUBSET (1 .. Len(s)) /\ Len(s) \in Nat
  BY DEF Hits
<1>2. IsFiniteSet(Hits(s, W))
  <2>1. IsFiniteSet(1 .. Len(s))
    BY <1>1, FS_Interval
  <2> QED
    BY <1>1, <2>1, FS_Subset
<1>3. Peers!Number(s, W) = Cardinality(Hits(s, W))
  BY DEF Peers!Number, Hits, Peers!Cardinality, Cardinality
<1> QED
  BY <1>1, <1>2, <1>3, FS_CardinalityType

LEMMA NumberOfNone == ASSUME NEW W PROVE Peers!Number(<<>>, W) = 0
<1>1. {k \in DOMAIN <<>> : <<>>[k] \in W} = {}
  OBVIOUS
<1> QED
  BY <1>1, FS_EmptySet DEF Peers!Number, Peers!Cardinality, Cardinality

LEMMA NumberAppend ==
  ASSUME NEW T, NEW s \in Seq(T), NEW e \in T, NEW W
  PROVE  Peers!Number(Append(s, e), W) = Peers!Number(s, W) + (IF e \in W THEN 1 ELSE 0)
<1> DEFINE t == Append(s, e)
           n == Len(s) + 1
<1>1. t \in Seq(T) /\ DOMAIN t = 1 .. n /\ t[n] = e /\ (\A k \in 1 .. Len(s) : t[k] = s[k])
      /\ DOMAIN s = 1 .. Len(s) /\ Len(s) \in Nat
  OBVIOUS
<1>2. Hits(t, W) = IF e \in W THEN Hits(s, W) \cup {n} ELSE Hits(s, W)
  <2> HIDE DEF t
  <2>1. \A k : k \in 1 .. n <=> k \in 1 .. Len(s) \/ k = n
    BY <1>1
  <2> QED
    BY <1>1, <2>1 DEF Hits
<1>3. n \notin Hits(s, W)
  BY <1>1 DEF Hits
<1>4. Peers!Number(t, W) = Cardinality(Hits(t, W))
  BY <1>1, HitsFinite
<1>5. IsFiniteSet(Hits(s, W)) /\ Peers!Number(s, W) = Cardinality(Hits(s, W))
  BY HitsFinite
<1>6. Cardinality(Hits(s, W) \cup {n}) = Cardinality(Hits(s, W)) + 1
  BY <1>3, <1>5, FS_AddElement
<1> HIDE DEF n
<1>7. Peers!Number(t, W) = Peers!Number(s, W) + (IF e \in W THEN 1 ELSE 0)
  <2> HIDE DEF t
  <2>1. CASE e \in W
    BY <2>1, <1>2, <1>4, <1>5, <1>6
  <2>2. CASE e \notin W
    <3>1. Peers!Number(s, W) \in Nat
      BY HitsFinite
    <3> QED
      BY <3>1, <2>2, <1>2, <1>4, <1>5
  <2> QED
    BY <2>1, <2>2
<1> QED
  BY <1>7

LEMMA NumberTail ==
  ASSUME NEW T, NEW s \in Seq(T), s # <<>>, NEW W
  PROVE  Peers!Number(Tail(s), W) = Peers!Number(s, W) - (IF Head(s) \in W THEN 1 ELSE 0)
<1> DEFINE t == Tail(s)
<1>1. /\ t \in Seq(T) /\ Len(s) \in Nat \ {0} /\ Len(t) = Len(s) - 1 /\ DOMAIN s = 1 .. Len(s)
      /\ DOMAIN t = 1 .. Len(t) /\ (\A k \in 1 .. Len(t) : t[k] = s[k + 1]) /\ Head(s) = s[1]
  OBVIOUS
<1> HIDE DEF t
<1> DEFINE A == Hits(t, W)
           B == Hits(s, W) \ {1}
           f == [k \in A |-> k + 1]
<1>2. f \in Bijection(A, B)
  <2>1. A = {k \in 1 .. Len(t) : s[k + 1] \in W} /\ B = {k \in 2 .. Len(s) : s[k] \in W}
    BY <1>1 DEF Hits
  <2> HIDE DEF A, B
  <2>2. f \in [A -> B] /\ \A a, b \in A : f[a] = f[b] => a = b
    BY <1>1, <2>1
  <2>3. ASSUME NEW b \in B PROVE \E a \in A : f[a] = b
    <3>1. b - 1 \in A /\ f[b - 1] = b
      BY <1>1, <2>1
    <3> QED
      BY <3>1
  <2> HIDE DEF f
  <2> QED
    BY <2>2, <2>3 DEF Bijection, Injection, Surjection, IsInjective
<1>3. ExistsBijection(A, B) /\ IsFiniteSet(A)
  BY <1>1, <1>2, HitsFinite DEF ExistsBijection
<1>4. Cardinality(B) = Cardinality(A)
  BY <1>3, FS_Bijection
<1>5. 1 \in Hits(s, W) <=> Head(s) \in W
  BY <1>1 DEF Hits
<1>6. Cardinality(B) = IF 1 \in Hits(s, W) THEN Cardinality(Hits(s, W)) - 1
        ELSE Cardinality(Hits(s, W))
  BY HitsFinite, FS_RemoveElement
<1>7. Peers!Number(t, W) = Cardinality(A) /\ Peers!Number(s, W) = Cardinality(Hits(s, W))
        /\ Peers!Number(s, W) \in Nat
  BY <1>1, HitsFinite
<1> QED
  BY <1>4, <1>5, <1>6, <1>7 DEF t

PeerPlaces ==
  /\ magic \in [Senders -> Magics] /\ task \in [Senders -> {"alive", "dying", "dead"}]
  /\ broadcast \in [Senders -> BOOLEAN] /\ unicast \in [Senders -> BOOLEAN]
  /\ full \in [Senders -> BOOLEAN]
  /\ state \in [Senders -> 0 .. 1] /\ unicasts \in [Senders -> Int]
  /\ unicastsSent \in [Senders -> Int]

PeerTraffic ==
  /\ espQueue \in [Senders -> Seq(Peers!Frames)] /\ air \in [Senders -> Seq(Peers!Frames)]
  /\ \A d \in Senders : Len(espQueue[d]) <= QueueSize
       /\ air[d] \in Seq(Peers!FramesOf(d, Peers!Anyone))
  /\ peers \in [Senders -> SUBSET Senders] /\ \A d \in Senders : d \notin peers[d]

Bs(d) == Peers!Pending(d, {Peers!Everyone})
Us(d) == Peers!Pending(d, Senders)

(* A device that sends has one frame of the kind that it sends under way.  *)
Chained(d) ==
  /\ Bs(d) <= 1 /\ Us(d) <= 1 /\ unicastsSent[d] <= SendCount
  /\ ~unicast[d] => Us(d) = 0 /\ unicastsSent[d] = 0 /\ unicasts[d] = SendCount
  /\ unicast[d] => ~broadcast[d]
  /\ unicast[d] => \E e \in Senders \ {d} : magic[d] >= magic[e]
  /\ task[d] = "alive" /\ unicast[d]
       => unicasts[d] >= 1 /\ unicastsSent[d] = SendCount - unicasts[d] + 1
  /\ task[d] = "alive" /\ ~full[d] => (broadcast[d] => Bs(d) = 1) /\ (unicast[d] => Us(d) = 1)
  /\ unicasts[d] \in 0 .. SendCount

PeerTypes == PeerPlaces /\ PeerTraffic

LEMMA FrameKinds ==
  ASSUME NEW d \in Senders
  PROVE  /\ \A f \in Peers!Frames : /\ f \in Peers!FramesOf(d, {Peers!Everyone}) <=> f.from = d
                                         /\ f.to = Peers!Everyone
                                    /\ f \in Peers!FramesOf(d, Senders) <=> f.from = d
                                         /\ f.to # Peers!Everyone
                                    /\ f \in Peers!FramesOf(d, Peers!Anyone) <=> f.from = d
                                    /\ f.from \in Senders /\ f.to \in Peers!Anyone
                                    /\ f.magic = magic[f.from]
         /\ Peers!FramesOf(d, Peers!Anyone) \subseteq Peers!Frames
  BY PeerNumbers DEF Peers!Frames, Peers!FramesOf, Peers!Anyone

LEMMA FrameIs ==
  ASSUME NEW d \in Senders, NEW dest \in Peers!Anyone, NEW st \in 0 .. 1
  PROVE  /\ Peers!Frame(d, dest, st) \in Peers!FramesOf(d, Peers!Anyone)
         /\ Peers!Frame(d, dest, st) \in Peers!Frames
         /\ Peers!Frame(d, dest, st).from = d /\ Peers!Frame(d, dest, st).to = dest
  BY DEF Peers!Frame, Peers!FramesOf, Peers!Frames, Peers!Anyone

LEMMA PeerPlacesStep == PeerPlaces /\ PeerTraffic /\ [Peers!Next]_Peers!vars => PeerPlaces'
<1> SUFFICES ASSUME PeerPlaces, PeerTraffic, [Peers!Next]_Peers!vars PROVE PeerPlaces'
  OBVIOUS
<1> USE DEF PeerPlaces
<1>1. ASSUME NEW d \in Senders, Peers!Handle(d) PROVE PeerPlaces'
  <2> DEFINE e == Head(espQueue[d])
  <2>0. e \in Peers!Frames /\ magic' = magic /\ full' = full
    BY <1>1 DEF Peers!Handle, PeerTraffic
  <2>1. CASE Peers!SendCb(d, e)
    <3>1. task' \in [Senders -> {"alive", "dying", "dead"}]
      BY <2>1 DEF Peers!SendCb, Peers!Send, Peers!Idle, Peers!Deinit
    <3>2. unicastsSent' \in [Senders -> Int]
      BY <2>1 DEF Peers!SendCb, Peers!Send, Peers!Idle, Peers!Deinit
    <3>3. unicasts' \in [Senders -> Int]
      BY <2>1 DEF Peers!SendCb
    <3> QED
      BY <2>0, <2>1, <3>1, <3>2, <3>3 DEF Peers!SendCb
  <2>2. CASE Peers!RecvBroadcast(d, e)
    <3>1. task' \in [Senders -> {"alive", "dying", "dead"}]
      BY <2>2 DEF Peers!RecvBroadcast, Peers!Send, Peers!Idle, Peers!Deinit
    <3>2. unicastsSent' \in [Senders -> Int]
      BY <2>2 DEF Peers!RecvBroadcast, Peers!Send, Peers!Idle, Peers!Deinit
    <3>3. state' \in [Senders -> 0 .. 1] /\ unicasts' = unicasts
      BY <2>2 DEF Peers!RecvBroadcast
    <3>4. broadcast' \in [Senders -> BOOLEAN]
      BY <2>2 DEF Peers!RecvBroadcast
    <3>5. unicast' \in [Senders -> BOOLEAN]
      BY <2>2 DEF Peers!RecvBroadcast
    <3> QED
      BY <2>0, <3>1, <3>2, <3>3, <3>4, <3>5
  <2>3. CASE Peers!RecvUnicast(d)
    BY <2>0, <2>3 DEF Peers!RecvUnicast, Peers!Idle
  <2>4. CASE Peers!NoMemory(d, e) \/ Peers!RecvError
    BY <2>0, <2>4 DEF Peers!NoMemory, Peers!RecvError, Peers!Idle, Peers!Deinit, Peers!params
  <2> QED
    BY <1>1, <2>1, <2>2, <2>3, <2>4 DEF Peers!Handle
<1>2. ASSUME NEW d \in Senders, Peers!Ends(d) PROVE PeerPlaces'
  BY <1>2 DEF Peers!Ends, Peers!params
<1>3. ASSUME NEW s \in Senders, Peers!Complete(s) PROVE PeerPlaces'
  BY <1>3 DEF Peers!Complete, Peers!params
<1>4. CASE UNCHANGED Peers!vars
  BY <1>4 DEF Peers!vars, Peers!params
<1> QED
  BY <1>1, <1>2, <1>3, <1>4 DEF Peers!Next

(* What a Handle does to queue and air.                                    *)
LEMMA HandleMoves ==
  ASSUME PeerTypes, NEW d \in Senders, Peers!Handle(d)
  PROVE  /\ espQueue' = [espQueue EXCEPT ![d] = Tail(@)] /\ espQueue[d] # <<>>
         /\ Head(espQueue[d]) \in Peers!Frames
         /\ magic' = magic /\ full' = full /\ task[d] = "alive"
         /\ \A x \in Senders \ {d} :
              /\ task'[x] = task[x] /\ broadcast'[x] = broadcast[x] /\ unicast'[x] = unicast[x]
              /\ unicasts'[x] = unicasts[x] /\ unicastsSent'[x] = unicastsSent[x]
              /\ air'[x] = air[x] /\ espQueue'[x] = espQueue[x]
         /\ \/ air' = air
            \/ \E dest \in Peers!Anyone : air'
                 = [air EXCEPT ![d] = Append(@, Peers!Frame(d, dest, state'[d]))]
         /\ \/ peers' = peers
            \/ Head(espQueue[d]).from # d
               /\ peers' = [peers EXCEPT ![d] = @ \cup {Head(espQueue[d]).from}]
<1> DEFINE e == Head(espQueue[d])
<1>0. /\ espQueue' = [espQueue EXCEPT ![d] = Tail(@)] /\ espQueue[d] # <<>>
      /\ e \in Peers!Frames
      /\ magic' = magic /\ full' = full /\ task[d] = "alive" /\ e.to \in Peers!Anyone
      /\ e.from \in Peers!Anyone
  <2>1. espQueue[d] \in Seq(Peers!Frames) /\ espQueue[d] # <<>>
    BY DEF Peers!Handle, PeerTypes, PeerTraffic
  <2>2. e \in Peers!Frames
    BY <2>1
  <2> QED
    BY <2>1, <2>2, FrameKinds DEF Peers!Handle, Peers!Anyone
<1> HIDE DEF e
<1> USE DEF PeerTypes, PeerPlaces, PeerTraffic
<1>5. (e.from = d /\ Peers!SendCb(d, e)) \/ (e.from # d /\ Peers!RecvBroadcast(d, e))
        \/ Peers!RecvUnicast(d) \/ Peers!NoMemory(d, e) \/ Peers!RecvError
  BY DEF Peers!Handle, e
<1>6. /\ \A x \in Senders \ {d} :
              /\ task'[x] = task[x] /\ broadcast'[x] = broadcast[x] /\ unicast'[x] = unicast[x]
              /\ unicasts'[x] = unicasts[x] /\ unicastsSent'[x] = unicastsSent[x]
              /\ air'[x] = air[x] /\ espQueue'[x] = espQueue[x]
  <2>1. CASE e.from = d /\ Peers!SendCb(d, e)
    BY <1>0, <2>1 DEF Peers!SendCb, Peers!Send, Peers!Idle, Peers!Deinit
  <2>2. CASE e.from # d /\ Peers!RecvBroadcast(d, e)
    BY <1>0, <2>2 DEF Peers!RecvBroadcast, Peers!Send, Peers!Idle, Peers!Deinit
  <2>3. CASE Peers!RecvUnicast(d)
    BY <1>0, <2>3 DEF Peers!RecvUnicast, Peers!Idle
  <2>4. CASE Peers!NoMemory(d, e) \/ Peers!RecvError
    BY <1>0, <2>4 DEF Peers!NoMemory, Peers!RecvError, Peers!Idle, Peers!Deinit, Peers!params
  <2> QED
    BY <1>5, <2>1, <2>2, <2>3, <2>4
<1>7. \/ air' = air
      \/ \E dest \in Peers!Anyone : air'
           = [air EXCEPT ![d] = Append(@, Peers!Frame(d, dest, state'[d]))]
  <2>1. CASE e.from = d /\ Peers!SendCb(d, e)
    BY <1>0, <2>1 DEF Peers!SendCb, Peers!Send, Peers!Idle, Peers!Deinit
  <2>2. CASE e.from # d /\ Peers!RecvBroadcast(d, e)
    BY <1>0, <2>2 DEF Peers!RecvBroadcast, Peers!Send, Peers!Idle, Peers!Deinit
  <2> QED
    BY <1>5, <2>1, <2>2 DEF Peers!RecvUnicast, Peers!Idle, Peers!NoMemory, Peers!RecvError
<1>8. \/ peers' = peers
      \/ e.from # d /\ peers' = [peers EXCEPT ![d] = @ \cup {e.from}]
  BY <1>5 DEF Peers!SendCb, Peers!RecvBroadcast, Peers!RecvUnicast, Peers!NoMemory,
        Peers!RecvError, Peers!params
<1> QED
  BY <1>0, <1>6, <1>7, <1>8 DEF e

LEMMA SameFrames ==
  magic' = magic => Peers!Frames' = Peers!Frames
    /\ \A d \in Senders : Peers!FramesOf(d, Peers!Anyone)' = Peers!FramesOf(d, Peers!Anyone)
  BY DEF Peers!Frames, Peers!FramesOf, Peers!Anyone

LEMMA PeerTrafficStep == PeerTypes /\ PeerPlaces' /\ [Peers!Next]_Peers!vars => PeerTraffic'
<1> SUFFICES ASSUME PeerTypes, PeerPlaces', [Peers!Next]_Peers!vars PROVE PeerTraffic'
  OBVIOUS
<1>1. ASSUME NEW d \in Senders, Peers!Handle(d) PROVE PeerTraffic'
  <2>0. /\ espQueue' = [espQueue EXCEPT ![d] = Tail(@)] /\ espQueue[d] # <<>>
        /\ Head(espQueue[d]) \in Peers!Frames
        /\ magic' = magic
    BY <1>1, HandleMoves
  <2>1. espQueue' \in [Senders -> Seq(Peers!Frames)]
          /\ \A x \in Senders : Len(espQueue'[x]) <= QueueSize
    <3>1. espQueue[d] \in Seq(Peers!Frames) /\ Len(espQueue[d]) \in Nat
            /\ Len(espQueue[d]) <= QueueSize
      BY DEF PeerTypes, PeerTraffic
    <3>2. Tail(espQueue[d]) \in Seq(Peers!Frames) /\ Len(Tail(espQueue[d])) <= QueueSize
      BY <2>0, <3>1, PeerNumbers
    <3> QED
      BY <2>0, <3>2 DEF PeerTypes, PeerTraffic
  <2>2. air' \in [Senders -> Seq(Peers!Frames)]
          /\ \A x \in Senders : air'[x] \in Seq(Peers!FramesOf(x, Peers!Anyone))
    <3>1. CASE air' = air
      BY <3>1 DEF PeerTypes, PeerTraffic
    <3>2. ASSUME NEW dest \in Peers!Anyone, air'
            = [air EXCEPT ![d] = Append(@, Peers!Frame(d, dest, state'[d]))]
          PROVE  air' \in [Senders -> Seq(Peers!Frames)]
            /\ \A x \in Senders : air'[x] \in Seq(Peers!FramesOf(x, Peers!Anyone))
      <4>1. state'[d] \in 0 .. 1
        BY DEF PeerPlaces
      <4>2. Peers!Frame(d, dest, state'[d]) \in Peers!Frames
              /\ Peers!Frame(d, dest, state'[d]) \in Peers!FramesOf(d, Peers!Anyone)
        BY <4>1, FrameIs
      <4>3. Append(air[d], Peers!Frame(d, dest, state'[d])) \in Seq(Peers!Frames)
        BY <4>2 DEF PeerTypes, PeerTraffic
      <4>4. Append(air[d],
              Peers!Frame(d, dest, state'[d])) \in Seq(Peers!FramesOf(d, Peers!Anyone))
        BY <4>2 DEF PeerTypes, PeerTraffic
      <4> QED
        BY <3>2, <4>3, <4>4 DEF PeerTypes, PeerTraffic
    <3> QED
      BY <1>1, <3>1, <3>2, HandleMoves
  <2>3. peers' \in [Senders -> SUBSET Senders] /\ \A x \in Senders : x \notin peers'[x]
    <3>1. Head(espQueue[d]).from \in Senders
      BY <2>0, FrameKinds
    <3>2. \/ peers' = peers
          \/ Head(espQueue[d]).from # d
             /\ peers' = [peers EXCEPT ![d] = @ \cup {Head(espQueue[d]).from}]
      BY <1>1, HandleMoves
    <3>3. CASE peers' = peers
      BY <3>3 DEF PeerTypes, PeerTraffic
    <3>4. CASE Head(espQueue[d]).from # d
            /\ peers' = [peers EXCEPT ![d] = @ \cup {Head(espQueue[d]).from}]
      <4>1. /\ peers[d] \cup {Head(espQueue[d]).from} \in SUBSET Senders
            /\ d \notin peers[d] \cup {Head(espQueue[d]).from}
        BY <3>1, <3>4 DEF PeerTypes, PeerTraffic
      <4> QED
        BY <3>4, <4>1 DEF PeerTypes, PeerTraffic
    <3> QED
      BY <3>2, <3>3, <3>4
  <2> QED
    BY <2>0, <2>1, <2>2, <2>3, SameFrames DEF PeerTraffic
<1>2. ASSUME NEW d \in Senders, Peers!Ends(d) PROVE PeerTraffic'
  <2>1. /\ espQueue' = [espQueue EXCEPT ![d] = <<>>] /\ air' = [air EXCEPT ![d] = <<>>]
        /\ peers' = peers /\ magic' = magic
    BY <1>2 DEF Peers!Ends, Peers!params
  <2>2. espQueue' \in [Senders -> Seq(Peers!Frames)]
          /\ \A x \in Senders : Len(espQueue'[x]) <= QueueSize
    BY <2>1, PeerNumbers DEF PeerTypes, PeerTraffic
  <2>3. air' \in [Senders -> Seq(Peers!Frames)]
          /\ \A x \in Senders : air'[x] \in Seq(Peers!FramesOf(x, Peers!Anyone))
    BY <2>1 DEF PeerTypes, PeerTraffic
  <2> QED
    BY <2>1, <2>2, <2>3, SameFrames DEF PeerTypes, PeerTraffic
<1>3. ASSUME NEW d \in Senders, Peers!Complete(d) PROVE PeerTraffic'
  <2>0. air[d] # <<>> /\ air[d] \in Seq(Peers!Frames)
          /\ air[d] \in Seq(Peers!FramesOf(d, Peers!Anyone))
    BY <1>3 DEF Peers!Complete, PeerTypes, PeerTraffic
  <2>1. /\ air' = [air EXCEPT ![d] = Tail(@)] /\ magic' = magic /\ peers' = peers
        /\ espQueue' \in [Senders -> {Append(espQueue[x], Head(air[d])) :
             x \in {y \in Senders : Len(espQueue[y]) < QueueSize}}
                                      \cup {espQueue[x] : x \in Senders}]
        /\ \A x \in Senders : \/ Len(espQueue[x]) < QueueSize
                                 /\ espQueue'[x] = Append(espQueue[x], Head(air[d]))
                              \/ espQueue'[x] = espQueue[x]
    BY <1>3 DEF Peers!Complete, Peers!params
  <2>2. air' \in [Senders -> Seq(Peers!Frames)]
          /\ \A x \in Senders : air'[x] \in Seq(Peers!FramesOf(x, Peers!Anyone))
    <3>1. Tail(air[d]) \in Seq(Peers!Frames)
            /\ Tail(air[d]) \in Seq(Peers!FramesOf(d, Peers!Anyone))
      BY <2>0
    <3> QED
      BY <2>1, <3>1 DEF PeerTypes, PeerTraffic
  <2>3. ASSUME NEW x \in Senders
        PROVE espQueue'[x] \in Seq(Peers!Frames) /\ Len(espQueue'[x]) <= QueueSize
    <3>1. Head(air[d]) \in Peers!Frames
      BY <2>0
    <3>2. espQueue[x] \in Seq(Peers!Frames) /\ Len(espQueue[x]) <= QueueSize
      BY DEF PeerTypes, PeerTraffic
    <3>3. Append(espQueue[x], Head(air[d])) \in Seq(Peers!Frames)
            /\ Len(Append(espQueue[x], Head(air[d]))) = Len(espQueue[x]) + 1
      BY <3>1, <3>2
    <3>4. Len(espQueue[x]) \in Nat
      BY <3>2
    <3>5. CASE Len(espQueue[x]) < QueueSize /\ espQueue'[x] = Append(espQueue[x], Head(air[d]))
      <4>1. Len(espQueue[x]) + 1 <= QueueSize
        BY <3>4, <3>5, PeerNumbers
      <4> QED
        BY <3>3, <3>5, <4>1
    <3> QED
      BY <2>1, <3>2, <3>5
  <2>4. espQueue' \in [Senders -> Seq(Peers!Frames)]
    BY <2>1, <2>3
  <2> QED
    BY <2>1, <2>2, <2>3, <2>4, SameFrames DEF PeerTypes, PeerTraffic
<1>4. CASE UNCHANGED Peers!vars
  BY <1>4, SameFrames DEF Peers!vars, Peers!params, PeerTypes, PeerTraffic
<1> QED
  BY <1>1, <1>2, <1>3, <1>4 DEF Peers!Next

(* How many of a device's own frames are pending after a step.             *)
LEMMA PendingType ==
  ASSUME PeerTypes, NEW d \in Senders
  PROVE  /\ Bs(d) \in Nat /\ Us(d) \in Nat
         /\ \A W : Peers!Number(espQueue[d], W) \in Nat /\ Peers!Number(air[d], W) \in Nat
<1>1. espQueue[d] \in Seq(Peers!Frames) /\ air[d] \in Seq(Peers!Frames)
  BY DEF PeerTypes, PeerTraffic
<1>2. \A W : Peers!Number(espQueue[d], W) \in Nat /\ Peers!Number(air[d], W) \in Nat
  BY <1>1, HitsFinite
<1> QED
  BY <1>2 DEF Bs, Us, Peers!Pending

SameAir(d) == air'[d] = air[d]
Sends(d, dest) ==
  dest \in Peers!Anyone /\ air'[d] = Append(air[d], Peers!Frame(d, dest, state'[d]))

LEMMA HandlePending ==
  ASSUME PeerTypes, PeerPlaces', NEW d \in Senders, Peers!Handle(d)
  PROVE  LET e == Head(espQueue[d]) IN
         /\ SameAir(d) => /\ Bs(d)' = Bs(d) - One(e.from = d /\ e.to = Peers!Everyone)
                          /\ Us(d)' = Us(d) - One(e.from = d /\ e.to # Peers!Everyone)
         /\ \A dest : Sends(d, dest) =>
              /\ Bs(d)' = Bs(d) - One(e.from = d /\ e.to = Peers!Everyone)
                   + One(dest = Peers!Everyone)
              /\ Us(d)' = Us(d) - One(e.from = d /\ e.to # Peers!Everyone)
                   + One(dest # Peers!Everyone)
<1> DEFINE e == Head(espQueue[d])
<1>1. /\ espQueue[d] \in Seq(Peers!Frames) /\ air[d] \in Seq(Peers!Frames)
      /\ espQueue[d] # <<>> /\ magic' = magic
      /\ espQueue'[d] = Tail(espQueue[d]) /\ e \in Peers!Frames
  BY HandleMoves DEF PeerTypes, PeerTraffic
<1>2. \A W : Peers!Number(espQueue'[d], W)
        = Peers!Number(espQueue[d], W) - (IF e \in W THEN 1 ELSE 0)
  BY <1>1, NumberTail
<1>3. ASSUME NEW dest, Sends(d, dest), NEW W
      PROVE Peers!Number(air'[d], W)
        = Peers!Number(air[d], W) + (IF Peers!Frame(d, dest, state'[d]) \in W THEN 1 ELSE 0)
  <2>1. state'[d] \in 0 .. 1
    BY DEF PeerPlaces
  <2>2. Peers!Frame(d, dest, state'[d]) \in Peers!Frames
    BY <1>3, <2>1, FrameIs DEF Sends
  <2> QED
    BY <1>1, <1>3, <2>2, NumberAppend DEF Sends
<1>4. ASSUME NEW dest, Sends(d, dest)
      PROVE /\ Peers!Frame(d, dest, state'[d]) \in Peers!FramesOf(d, {Peers!Everyone}) <=> dest
                 = Peers!Everyone
            /\ Peers!Frame(d, dest, state'[d]) \in Peers!FramesOf(d, Senders)
                 <=> dest # Peers!Everyone
  <2>1. state'[d] \in 0 .. 1
    BY DEF PeerPlaces
  <2>2. /\ Peers!Frame(d, dest, state'[d]) \in Peers!Frames
        /\ Peers!Frame(d, dest, state'[d]).from = d
        /\ Peers!Frame(d, dest, state'[d]).to = dest
    BY <1>4, <2>1, FrameIs DEF Sends
  <2> QED
    BY <2>2, FrameKinds
<1>5. /\ e \in Peers!FramesOf(d, {Peers!Everyone}) <=> e.from = d /\ e.to = Peers!Everyone
      /\ e \in Peers!FramesOf(d, Senders) <=> e.from = d /\ e.to # Peers!Everyone
  BY <1>1, FrameKinds
<1> HIDE DEF e
<1>6. /\ Bs(d)' = Peers!Number(espQueue'[d], Peers!FramesOf(d, {Peers!Everyone}))
           + Peers!Number(air'[d], Peers!FramesOf(d, {Peers!Everyone}))
      /\ Us(d)' = Peers!Number(espQueue'[d], Peers!FramesOf(d, Senders))
           + Peers!Number(air'[d], Peers!FramesOf(d, Senders))
  BY <1>1 DEF Bs, Us, Peers!Pending, Peers!FramesOf
<1>7. /\ Bs(d) = Peers!Number(espQueue[d], Peers!FramesOf(d, {Peers!Everyone}))
           + Peers!Number(air[d], Peers!FramesOf(d, {Peers!Everyone}))
      /\ Us(d) = Peers!Number(espQueue[d], Peers!FramesOf(d, Senders))
           + Peers!Number(air[d], Peers!FramesOf(d, Senders))
      /\ \A W : Peers!Number(espQueue[d], W) \in Nat /\ Peers!Number(air[d], W) \in Nat
  BY PendingType DEF Bs, Us, Peers!Pending
<1>8. ASSUME SameAir(d)
      PROVE /\ Bs(d)' = Bs(d) - One(e.from = d /\ e.to = Peers!Everyone)
            /\ Us(d)' = Us(d) - One(e.from = d /\ e.to # Peers!Everyone)
  BY <1>2, <1>5, <1>6, <1>7, <1>8 DEF SameAir, One
<1>9. ASSUME NEW dest, Sends(d, dest)
      PROVE /\ Bs(d)'
                 = Bs(d) - One(e.from = d /\ e.to = Peers!Everyone) + One(dest = Peers!Everyone)
            /\ Us(d)' = Us(d) - One(e.from = d /\ e.to # Peers!Everyone)
                 + One(dest # Peers!Everyone)
  <2> DEFINE B == Peers!FramesOf(d, {Peers!Everyone})
             U == Peers!FramesOf(d, Senders)
  <2>1. Peers!Number(espQueue'[d], B)
          = Peers!Number(espQueue[d], B) - One(e.from = d /\ e.to = Peers!Everyone)
    BY <1>2, <1>5 DEF One
  <2>2. Peers!Number(espQueue'[d], U)
          = Peers!Number(espQueue[d], U) - One(e.from = d /\ e.to # Peers!Everyone)
    BY <1>2, <1>5 DEF One
  <2>3. Peers!Number(air'[d], B) = Peers!Number(air[d], B) + One(dest = Peers!Everyone)
    BY <1>3, <1>4, <1>9 DEF One
  <2>4. Peers!Number(air'[d], U) = Peers!Number(air[d], U) + One(dest # Peers!Everyone)
    BY <1>3, <1>4, <1>9 DEF One
  <2>5. \A b : One(b) \in Nat
    BY DEF One
  <2> HIDE DEF B, U
  <2> QED
    BY <1>6, <1>7, <2>1, <2>2, <2>3, <2>4, <2>5 DEF B, U
<1> QED
  BY <1>8, <1>9 DEF e

LEMMA HeadIsPending ==
  ASSUME PeerTypes, NEW d \in Senders, espQueue[d] # <<>>, Head(espQueue[d]).from = d
  PROVE  /\ Head(espQueue[d]).to = Peers!Everyone => Bs(d) >= 1
         /\ Head(espQueue[d]).to # Peers!Everyone => Us(d) >= 1
<1> DEFINE e == Head(espQueue[d])
<1>1. espQueue[d] \in Seq(Peers!Frames) /\ e \in Peers!Frames
        /\ Tail(espQueue[d]) \in Seq(Peers!Frames)
  BY DEF PeerTypes, PeerTraffic
<1>2. \A W : /\ Peers!Number(Tail(espQueue[d]), W)
                  = Peers!Number(espQueue[d], W) - (IF e \in W THEN 1 ELSE 0)
             /\ Peers!Number(Tail(espQueue[d]), W) \in Nat
             /\ Peers!Number(espQueue[d], W) \in Nat /\ Peers!Number(air[d], W) \in Nat
  BY <1>1, NumberTail, HitsFinite, PendingType
<1>3. \A W : e \in W => Peers!Number(espQueue[d], W) + Peers!Number(air[d], W) >= 1
  BY <1>2
<1>4. /\ e.to = Peers!Everyone => e \in Peers!FramesOf(d, {Peers!Everyone})
      /\ e.to # Peers!Everyone => e \in Peers!FramesOf(d, Senders)
  BY <1>1, FrameKinds
<1> QED
  BY <1>3, <1>4 DEF Bs, Us, Peers!Pending

LEMMA HandleKeeps ==
  ASSUME PeerTypes, PeerPlaces', NEW d \in Senders, Chained(d), Peers!Handle(d)
  PROVE  Chained(d)'
<1> DEFINE e == Head(espQueue[d])
<1>0. /\ espQueue[d] # <<>> /\ e \in Peers!Frames /\ magic' = magic /\ full' = full
      /\ task[d] = "alive"
      /\ e.from \in Senders /\ e.to \in Peers!Anyone /\ e.magic = magic[e.from]
  BY HandleMoves, FrameKinds
<1>1. /\ e.from = d /\ e.to = Peers!Everyone => Bs(d) >= 1
      /\ e.from = d /\ e.to # Peers!Everyone => Us(d) >= 1 /\ unicast[d]
  BY <1>0, HeadIsPending DEF Chained
<1>2. Bs(d) \in Nat /\ Us(d) \in Nat
  BY PendingType
<1>3. /\ unicast[d] \in BOOLEAN /\ broadcast[d] \in BOOLEAN /\ unicasts[d] \in Int
      /\ unicastsSent[d] \in Int
      /\ magic' = magic /\ full'[d] = full[d] /\ SendCount \in Nat \ {0}
  BY <1>0, PeerNumbers DEF PeerTypes, PeerPlaces
<1>4. SameAir(d) => /\ Bs(d)' = Bs(d) - One(e.from = d /\ e.to = Peers!Everyone)
                    /\ Us(d)' = Us(d) - One(e.from = d /\ e.to # Peers!Everyone)
  BY HandlePending
<1>5. \A dest : Sends(d, dest) =>
              /\ Bs(d)' = Bs(d) - One(e.from = d /\ e.to = Peers!Everyone)
                   + One(dest = Peers!Everyone)
              /\ Us(d)' = Us(d) - One(e.from = d /\ e.to # Peers!Everyone)
                   + One(dest # Peers!Everyone)
  BY HandlePending
<1>6. (unicast[d] => \E x \in Senders \ {d} : magic[d] >= magic[x]) /\ unicast'[d] = unicast[d]
      => (unicast'[d] => \E x \in Senders \ {d} : magic'[d] >= magic'[x])
  BY <1>0
<1>7. CASE e.from = d /\ Peers!SendCb(d, e)
  <2>1. /\ UNCHANGED <<broadcast, unicast>>
        /\ unicasts'[d] = IF e.to = Peers!Everyone THEN unicasts[d] ELSE unicasts[d] - 1
    BY <1>7 DEF Peers!SendCb, PeerTypes, PeerPlaces
  <2>2. \/ e.to = Peers!Everyone /\ ~broadcast[d] /\ task' = task /\ SameAir(d)
           /\ unicastsSent'[d] = unicastsSent[d]
        \/ e.to # Peers!Everyone /\ unicasts[d] = 1 /\ task'[d] = "dying" /\ SameAir(d)
           /\ unicastsSent'[d] = unicastsSent[d]
        \/ /\ e.to = Peers!Everyone => broadcast[d]
           /\ e.to # Peers!Everyone => unicasts[d] # 1
           /\ \/ Sends(d, e.to) /\ task' = task
                 /\ unicastsSent'[d] = unicastsSent[d] + One(e.to # Peers!Everyone)
              \/ task'[d] = "dying" /\ SameAir(d) /\ unicastsSent'[d] = unicastsSent[d]
    BY <1>0, <1>7 DEF Peers!SendCb, Peers!Send, Peers!Idle, Peers!Deinit, SameAir, Sends, One,
          PeerTypes, PeerPlaces, PeerTraffic
  <2> HIDE DEF e
  <2>3. CASE e.to = Peers!Everyone /\ SameAir(d) /\ unicastsSent'[d] = unicastsSent[d]
          /\ (~broadcast[d] \/ task'[d] = "dying")
    BY <1>0, <1>1, <1>2, <1>3, <1>4, <1>6, <1>7, <2>1, <2>2, <2>3 DEF Chained, One
  <2>4. CASE e.to # Peers!Everyone /\ task'[d] = "dying" /\ SameAir(d)
          /\ unicastsSent'[d] = unicastsSent[d]
    BY <1>0, <1>1, <1>2, <1>3, <1>4, <1>6, <1>7, <2>1, <2>2, <2>4 DEF Chained, One
  <2>5. CASE e.to = Peers!Everyone /\ broadcast[d] /\ Sends(d, e.to) /\ task' = task
          /\ unicastsSent'[d] = unicastsSent[d] + One(e.to # Peers!Everyone)
    BY <1>0, <1>1, <1>2, <1>3, <1>5, <1>6, <1>7, <2>1, <2>5 DEF Chained, One
  <2>6. CASE e.to # Peers!Everyone /\ unicasts[d] # 1 /\ Sends(d, e.to) /\ task' = task
          /\ unicastsSent'[d] = unicastsSent[d] + One(e.to # Peers!Everyone)
    BY <1>0, <1>1, <1>2, <1>3, <1>5, <1>6, <1>7, <2>1, <2>6 DEF Chained, One
  <2> QED
    BY <2>2, <2>3, <2>4, <2>5, <2>6
<1>8. CASE e.from # d /\ Peers!RecvBroadcast(d, e)
  <2> DEFINE begins == e.state = 1 /\ ~unicast[d] /\ magic[d] >= e.magic
  <2>1. unicasts' = unicasts
    BY <1>8 DEF Peers!RecvBroadcast
  <2>2. CASE ~begins
    <3>1. /\ SameAir(d) /\ task' = task /\ unicastsSent' = unicastsSent
          /\ broadcast'[d] = broadcast[d] /\ unicast'[d] = unicast[d]
      BY <1>8, <2>2 DEF Peers!RecvBroadcast, Peers!Idle, SameAir, PeerTypes, PeerPlaces
    <3> HIDE DEF e
    <3> QED
      BY <1>0, <1>2, <1>3, <1>4, <1>6, <1>8, <2>1, <3>1 DEF Chained, One
  <2>3. CASE begins /\ Sends(d, e.from) /\ task' = task
          /\ unicastsSent'[d] = unicastsSent[d] + 1
    <3>1. ~broadcast'[d] /\ unicast'[d]
      BY <1>0, <1>8, <2>3 DEF Peers!RecvBroadcast, PeerTypes, PeerPlaces
    <3>2. e.from # Peers!Everyone /\ magic[d] >= magic[e.from]
      BY <1>0, <2>3, PeerNumbers
    <3> HIDE DEF e
    <3> QED
      BY <1>0, <1>2, <1>3, <1>5, <1>8, <2>1, <2>3, <3>1, <3>2 DEF Chained, One
  <2>4. CASE begins /\ SameAir(d) /\ task'[d] = "dying" /\ unicastsSent'[d] = unicastsSent[d]
    <3>1. broadcast'[d] = broadcast[d] /\ unicast'[d] = unicast[d]
      BY <1>0, <1>8, <2>4 DEF Peers!RecvBroadcast, PeerTypes, PeerPlaces
    <3> HIDE DEF e
    <3> QED
      BY <1>0, <1>2, <1>3, <1>4, <1>6, <1>8, <2>1, <2>4, <3>1 DEF Chained, One
  <2>5. begins => \/ Sends(d, e.from) /\ task' = task /\ unicastsSent'[d] = unicastsSent[d] + 1
                  \/ SameAir(d) /\ task'[d] = "dying" /\ unicastsSent'[d] = unicastsSent[d]
    <3> SUFFICES ASSUME begins
        PROVE  \/ Sends(d, e.from) /\ task' = task /\ unicastsSent'[d] = unicastsSent[d] + 1
               \/ SameAir(d) /\ task'[d] = "dying" /\ unicastsSent'[d] = unicastsSent[d]
      OBVIOUS
    <3>1. Peers!Send(d, e.from)
      BY <1>8 DEF Peers!RecvBroadcast
    <3>2. e.from \in Peers!Anyone /\ e.from # Peers!Everyone
      BY <1>0, PeerNumbers DEF Peers!Anyone
    <3> HIDE DEF begins, e
    <3> QED
      BY <3>1, <3>2 DEF Peers!Send, Peers!Deinit, SameAir, Sends, PeerTypes, PeerPlaces, PeerTraffic
  <2> QED
    BY <2>2, <2>3, <2>4, <2>5
<1>9. CASE e.from # d /\ Peers!RecvUnicast(d)
  <2>1. /\ SameAir(d) /\ task' = task /\ unicastsSent' = unicastsSent /\ unicasts' = unicasts
        /\ ~broadcast'[d] /\ unicast'[d] = unicast[d]
    BY <1>9 DEF Peers!RecvUnicast, Peers!Idle, SameAir, PeerTypes, PeerPlaces
  <2> HIDE DEF e
  <2> QED
    BY <1>0, <1>2, <1>3, <1>4, <1>6, <1>9, <2>1 DEF Chained, One
<1>10. CASE e.from # d /\ (Peers!NoMemory(d, e) \/ Peers!RecvError)
  <2>1. /\ SameAir(d) /\ task'[d] \in {"dying", task[d]} /\ unicastsSent' = unicastsSent
        /\ unicasts' = unicasts
        /\ broadcast' = broadcast /\ unicast' = unicast
    BY <1>10 DEF Peers!NoMemory, Peers!RecvError, Peers!Deinit, Peers!Idle, SameAir, PeerTypes,
          PeerPlaces, Peers!params
  <2> HIDE DEF e
  <2> QED
    BY <1>0, <1>2, <1>3, <1>4, <1>6, <1>10, <2>1 DEF Chained, One
<1> QED
  BY <1>7, <1>8, <1>9, <1>10 DEF Peers!Handle

LEMMA EndsKeeps ==
  ASSUME PeerTypes, NEW d \in Senders, Chained(d), Peers!Ends(d)
  PROVE  Chained(d)'
<1>1. /\ espQueue'[d] = <<>> /\ air'[d] = <<>> /\ task'[d] = "dead" /\ magic' = magic
      /\ UNCHANGED <<broadcast, unicast, unicasts, unicastsSent, full>>
  BY DEF Peers!Ends, Peers!params, PeerTypes, PeerPlaces, PeerTraffic
<1>2. Bs(d)' = 0 /\ Us(d)' = 0
  BY <1>1, NumberOfNone DEF Bs, Us, Peers!Pending, Peers!FramesOf
<1> QED
  BY <1>1, <1>2 DEF Chained

LEMMA CompletePending ==
  ASSUME PeerTypes, NEW d \in Senders, Peers!Complete(d)
  PROVE  IF task[d] = "alive" /\ ~full'[d]
              THEN Bs(d)' = Bs(d) /\ Us(d)' = Us(d)
              ELSE Bs(d)' \in {Bs(d), Bs(d) - 1} /\ Us(d)' \in {Us(d), Us(d) - 1}
                /\ Us(d)' \in Nat
<1> DEFINE f == Head(air[d])
<1>1. /\ air[d] \in Seq(Peers!Frames) /\ air[d] # <<>> /\ f \in Peers!Frames /\ f.from = d
      /\ air'[d] = Tail(air[d]) /\ magic' = magic /\ espQueue[d] \in Seq(Peers!Frames)
  <2>1. air[d] \in Seq(Peers!FramesOf(d, Peers!Anyone)) /\ air[d] # <<>>
          /\ air[d] \in Seq(Peers!Frames)
    BY DEF Peers!Complete, PeerTypes, PeerTraffic
  <2>2. f \in Peers!FramesOf(d, Peers!Anyone) /\ f \in Peers!Frames
    BY <2>1
  <2> QED
    BY <2>1, <2>2, FrameKinds DEF Peers!Complete, PeerTypes, PeerTraffic
<1>2. /\ \/ Len(espQueue[d]) < QueueSize /\ task[d] = "alive"
            /\ espQueue'[d] = Append(espQueue[d], f) /\ full'[d] = full[d]
         \/ espQueue'[d] = espQueue[d] /\ full'[d] = full[d] /\ task[d] # "alive"
         \/ espQueue'[d] = espQueue[d] /\ full'[d] = TRUE /\ task[d] = "alive"
            /\ Len(espQueue[d]) = QueueSize
  <2>1. Len(espQueue[d]) <= QueueSize /\ Len(espQueue[d]) \in Nat /\ full[d] \in BOOLEAN
    BY <1>1 DEF PeerTypes, PeerPlaces, PeerTraffic
  <2>2. Len(espQueue[d]) < QueueSize \/ Len(espQueue[d]) = QueueSize
    BY <2>1, PeerNumbers
  <2>3. \A heard : Peers!Told(d, f, heard) <=> task[d] = "alive"
    BY <1>1 DEF Peers!Told
  <2>4. \E heard : /\ espQueue'[d] = IF Peers!Told(d, f, heard) /\ Len(espQueue[d]) < QueueSize
                                     THEN Append(espQueue[d], f) ELSE espQueue[d]
                   /\ full'[d] = (full[d]
                        \/ (Peers!Told(d, f, heard) /\ Len(espQueue[d]) = QueueSize))
    BY DEF Peers!Complete
  <2>5. (Len(espQueue[d]) < QueueSize) => Len(espQueue[d]) # QueueSize
    BY <2>1, PeerNumbers
  <2> HIDE DEF f
  <2> QED
    BY <2>1, <2>2, <2>3, <2>4, <2>5
<1>3. \A W : /\ Peers!Number(air'[d], W) = Peers!Number(air[d], W) - (IF f \in W THEN 1 ELSE 0)
             /\ Peers!Number(air'[d], W) \in Nat /\ Peers!Number(air[d], W) \in Nat
             /\ Peers!Number(espQueue[d], W) \in Nat
  <2>1. Tail(air[d]) \in Seq(Peers!Frames)
    BY <1>1
  <2> QED
    BY <1>1, <2>1, NumberTail, HitsFinite
<1>4. \A W : Peers!Number(Append(espQueue[d], f), W)
        = Peers!Number(espQueue[d], W) + (IF f \in W THEN 1 ELSE 0)
  BY <1>1, NumberAppend
<1>5. /\ Bs(d)' = Peers!Number(espQueue'[d], Peers!FramesOf(d, {Peers!Everyone}))
           + Peers!Number(air'[d], Peers!FramesOf(d, {Peers!Everyone}))
      /\ Us(d)' = Peers!Number(espQueue'[d], Peers!FramesOf(d, Senders))
           + Peers!Number(air'[d], Peers!FramesOf(d, Senders))
  BY <1>1 DEF Bs, Us, Peers!Pending, Peers!FramesOf
<1>6. /\ Bs(d) = Peers!Number(espQueue[d], Peers!FramesOf(d, {Peers!Everyone}))
           + Peers!Number(air[d], Peers!FramesOf(d, {Peers!Everyone}))
      /\ Us(d) = Peers!Number(espQueue[d], Peers!FramesOf(d, Senders))
           + Peers!Number(air[d], Peers!FramesOf(d, Senders))
  BY DEF Bs, Us, Peers!Pending
<1> HIDE DEF f
<1>7. ASSUME espQueue'[d] = Append(espQueue[d], f) PROVE Bs(d)' = Bs(d) /\ Us(d)' = Us(d)
  BY SMTT(60), <1>3, <1>4, <1>5, <1>6, <1>7
<1>8. ASSUME espQueue'[d] = espQueue[d]
      PROVE Bs(d)' \in {Bs(d), Bs(d) - 1} /\ Us(d)' \in {Us(d), Us(d) - 1} /\ Us(d)' \in Nat
  BY <1>3, <1>5, <1>6, <1>8
<1>9. Bs(d) \in Nat /\ Us(d) \in Nat
  BY PendingType
<1>10. IF task[d] = "alive" /\ ~full'[d]
              THEN Bs(d)' = Bs(d) /\ Us(d)' = Us(d)
              ELSE Bs(d)' \in {Bs(d), Bs(d) - 1} /\ Us(d)' \in {Us(d), Us(d) - 1}
                /\ Us(d)' \in Nat
  BY <1>2, <1>7, <1>8, <1>9
<1> QED
  BY <1>10

LEMMA CompleteKeeps ==
  ASSUME PeerTypes, NEW d \in Senders, Chained(d), Peers!Complete(d)
  PROVE  Chained(d)'
<1>1. /\ magic' = magic /\ UNCHANGED <<task, broadcast, unicast, unicasts, unicastsSent>>
      /\ ~full'[d] => ~full[d]
  BY DEF Peers!Complete, Peers!params, PeerTypes, PeerPlaces
<1>2. Bs(d) \in Nat /\ Us(d) \in Nat
  BY PendingType
<1> QED
  BY <1>1, <1>2, CompletePending DEF Chained

(* A device's frames are not touched by the steps of the others.           *)
LEMMA OthersKeep ==
  ASSUME PeerTypes, NEW d \in Senders, Chained(d), NEW x \in Senders \ {d}, Peers!Handle(x)
    \/ Peers!Ends(x) \/ Peers!Complete(x)
  PROVE  Chained(d)'
<1>1. CASE Peers!Handle(x) \/ Peers!Ends(x)
  <2>1. /\ magic' = magic /\ task'[d] = task[d] /\ broadcast'[d] = broadcast[d]
        /\ unicast'[d] = unicast[d] /\ unicasts'[d] = unicasts[d]
        /\ unicastsSent'[d] = unicastsSent[d]
        /\ air'[d] = air[d] /\ espQueue'[d] = espQueue[d] /\ full'[d] = full[d]
    <3>1. CASE Peers!Handle(x)
      BY <3>1, HandleMoves
    <3>2. CASE Peers!Ends(x)
      BY <3>2 DEF Peers!Ends, Peers!params, PeerTypes, PeerPlaces, PeerTraffic
    <3> QED
      BY <1>1, <3>1, <3>2
  <2>2. Bs(d)' = Bs(d) /\ Us(d)' = Us(d)
    BY <2>1 DEF Bs, Us, Peers!Pending, Peers!FramesOf
  <2> QED
    BY <2>1, <2>2 DEF Chained
<1>2. CASE Peers!Complete(x)
  <2> DEFINE f == Head(air[x])
  <2>1. /\ magic' = magic /\ UNCHANGED <<task, broadcast, unicast, unicasts, unicastsSent>>
        /\ air'[d] = air[d] /\ espQueue'[d] \in {espQueue[d], Append(espQueue[d], f)}
             /\ (~full'[d] => ~full[d])
    BY <1>2 DEF Peers!Complete, Peers!params, PeerTypes, PeerPlaces, PeerTraffic
  <2>2. f \in Peers!Frames /\ f.from = x
    <3>1. air[x] \in Seq(Peers!FramesOf(x, Peers!Anyone)) /\ air[x] # <<>>
      BY <1>2 DEF Peers!Complete, PeerTypes, PeerTraffic
    <3>2. f \in Peers!FramesOf(x, Peers!Anyone)
      BY <3>1
    <3> QED
      BY <3>2, FrameKinds
  <2> HIDE DEF f
  <2>3. f \notin Peers!FramesOf(d, {Peers!Everyone}) /\ f \notin Peers!FramesOf(d, Senders)
    BY <2>2, FrameKinds
  <2>4. \A W : f \notin W => Peers!Number(espQueue'[d], W) = Peers!Number(espQueue[d], W)
    <3>1. espQueue[d] \in Seq(Peers!Frames)
      BY DEF PeerTypes, PeerTraffic
    <3>2. \A W : Peers!Number(Append(espQueue[d], f), W)
            = Peers!Number(espQueue[d], W) + (IF f \in W THEN 1 ELSE 0)
      BY <2>2, <3>1, NumberAppend
    <3>3. \A W : Peers!Number(espQueue[d], W) \in Nat
      BY PendingType
    <3>4. ASSUME NEW W, f \notin W
          PROVE Peers!Number(espQueue'[d], W) = Peers!Number(espQueue[d], W)
      <4>1. CASE espQueue'[d] = Append(espQueue[d], f)
        BY <3>2, <3>3, <3>4, <4>1
      <4>2. CASE espQueue'[d] = espQueue[d]
        BY <4>2
      <4> QED
        BY <2>1, <4>1, <4>2
    <3> QED
      BY <3>4
  <2>5. Bs(d)' = Bs(d) /\ Us(d)' = Us(d)
    BY <2>1, <2>3, <2>4 DEF Bs, Us, Peers!Pending, Peers!FramesOf
  <2> QED
    BY <2>1, <2>5 DEF Chained
<1> QED
  BY <1>1, <1>2

AllChained == \A d \in Senders : Chained(d)

LEMMA ChainedStep ==
  PeerTypes /\ PeerPlaces' /\ AllChained /\ [Peers!Next]_Peers!vars => AllChained'
<1> SUFFICES ASSUME PeerTypes, PeerPlaces', AllChained, [Peers!Next]_Peers!vars,
      NEW d \in Senders PROVE Chained(d)'
  BY DEF AllChained
<1>1. Chained(d)
  BY DEF AllChained
<1>2. CASE UNCHANGED Peers!vars
  BY <1>1, <1>2 DEF Peers!vars, Peers!params, Chained, Bs, Us, Peers!Pending, Peers!FramesOf
<1>3. ASSUME NEW x \in Senders, Peers!Handle(x) \/ Peers!Ends(x) \/ Peers!Complete(x)
      PROVE Chained(d)'
  BY <1>1, <1>3, HandleKeeps, EndsKeeps, CompleteKeeps, OthersKeep
<1> QED
  BY <1>2, <1>3 DEF Peers!Next

LEMMA PeersInit == Peers!Init => PeerTypes /\ AllChained
<1> SUFFICES ASSUME Peers!Init PROVE PeerTypes /\ AllChained
  OBVIOUS
<1>1. PeerPlaces
  BY PeerNumbers DEF Peers!Init, PeerPlaces
<1>2. ASSUME NEW d \in Senders
      PROVE /\ Peers!Frame(d, Peers!Everyone, 0) \in Peers!FramesOf(d, Peers!Anyone)
            /\ Peers!Frame(d, Peers!Everyone, 0) \in Peers!Frames
            /\ Peers!Frame(d, Peers!Everyone, 0) \in Peers!FramesOf(d, {Peers!Everyone})
            /\ Peers!Frame(d, Peers!Everyone, 0) \notin Peers!FramesOf(d, Senders)
  <2>1. /\ Peers!Frame(d, Peers!Everyone, 0) \in Peers!FramesOf(d, Peers!Anyone)
        /\ Peers!Frame(d, Peers!Everyone, 0) \in Peers!Frames
        /\ Peers!Frame(d, Peers!Everyone, 0).from = d
        /\ Peers!Frame(d, Peers!Everyone, 0).to = Peers!Everyone
    <3>1. Peers!Everyone \in Peers!Anyone /\ 0 \in 0 .. 1
      BY DEF Peers!Anyone
    <3> QED
      BY <3>1, FrameIs
  <2> QED
    BY <2>1, FrameKinds
<1>3. PeerTraffic
  <2>1. espQueue \in [Senders -> Seq(Peers!Frames)]
          /\ \A d \in Senders : Len(espQueue[d]) <= QueueSize
    BY PeerNumbers DEF Peers!Init
  <2>2. air \in [Senders -> Seq(Peers!Frames)]
          /\ \A d \in Senders : air[d] \in Seq(Peers!FramesOf(d, Peers!Anyone))
    BY <1>2 DEF Peers!Init
  <2> QED
    BY <2>1, <2>2 DEF Peers!Init, PeerTraffic
<1>4. ASSUME NEW d \in Senders PROVE Chained(d)
  <2>1. espQueue[d] = <<>> /\ air[d] = Append(<<>>, Peers!Frame(d, Peers!Everyone, 0))
          /\ <<>> \in Seq(Peers!Frames)
    BY DEF Peers!Init
  <2>2. \A W : /\ Peers!Number(espQueue[d], W) = 0
               /\ Peers!Number(air[d], W) = IF Peers!Frame(d, Peers!Everyone, 0) \in W THEN 1
                    ELSE 0
    <3>1. ASSUME NEW W PROVE Peers!Number(<<>>, W) = 0
      BY NumberOfNone
    <3>2. ASSUME NEW W PROVE Peers!Number(Append(<<>>, Peers!Frame(d, Peers!Everyone, 0)), W)
                             = Peers!Number(<<>>, W)
                               + (IF Peers!Frame(d, Peers!Everyone, 0) \in W THEN 1 ELSE 0)
      <4>1. Peers!Frame(d, Peers!Everyone, 0) \in Peers!Frames /\ <<>> \in Seq(Peers!Frames)
        BY <1>2
      <4> HIDE DEF Peers!Init
      <4> QED
        BY ZenonT(60), <4>1, NumberAppend
    <3>3. ASSUME NEW W PROVE Peers!Number(espQueue[d], W) = 0
      BY <2>1, <3>1
    <3>4. ASSUME NEW W
          PROVE  Peers!Number(air[d], W)
                   = IF Peers!Frame(d, Peers!Everyone, 0) \in W THEN 1 ELSE 0
      <4>1. Peers!Number(air[d], W)
              = 0 + (IF Peers!Frame(d, Peers!Everyone, 0) \in W THEN 1 ELSE 0)
        BY <2>1, <3>1, <3>2
      <4> QED
        BY <4>1
    <3> QED
      BY <3>3, <3>4
  <2>3. Bs(d) = 1 /\ Us(d) = 0
    BY <1>2, <2>2 DEF Bs, Us, Peers!Pending
  <2>4. unicastsSent[d] = 0 /\ ~unicast[d] /\ unicasts[d] = SendCount /\ broadcast[d]
    BY DEF Peers!Init
  <2> QED
    BY <2>3, <2>4, PeerNumbers DEF Chained
<1> QED
  BY <1>1, <1>3, <1>4 DEF PeerTypes, AllChained

LEMMA ChainsSuffice ==
  PeerTypes /\ AllChained => Peers!TypeOK /\ Peers!SendsAreChained /\ Peers!LargerSends
<1> SUFFICES ASSUME PeerTypes, AllChained
    PROVE Peers!TypeOK /\ Peers!SendsAreChained /\ Peers!LargerSends
  OBVIOUS
<1>1. Peers!TypeOK
  BY DEF Peers!TypeOK, PeerTypes, PeerPlaces, PeerTraffic, AllChained, Chained
<1>2. Peers!SendsAreChained
  <2>1. \A d \in Senders : Bs(d) \in Nat /\ Us(d) \in Nat /\ unicasts[d] \in Int
          /\ unicastsSent[d] \in Int
                           /\ unicast[d] \in BOOLEAN
    BY PendingType DEF PeerTypes, PeerPlaces
  <2>2. ASSUME NEW d \in Senders
        PROVE  /\ Bs(d) <= 1 /\ Us(d) <= 1 /\ unicastsSent[d] <= SendCount
               /\ task[d] = "alive" /\ ~full[d] =>
                    /\ broadcast[d] => Bs(d) = 1
                    /\ unicast[d] => ~broadcast[d] /\ Us(d) = 1
                    /\ unicastsSent[d] = SendCount - unicasts[d] + Us(d)
    BY <2>1, PeerNumbers DEF AllChained, Chained
  <2> QED
    BY <2>2 DEF Peers!SendsAreChained, Bs, Us
<1>3. Peers!LargerSends
  BY DEF Peers!LargerSends, AllChained, Chained
<1> QED
  BY <1>1, <1>2, <1>3

(* However many devices there are: each has at most one broadcast and one  *)
(* unicast under way, counts what it has sent, and sends data to devices   *)
(* with a magic number no larger than its own.                             *)
THEOREM EspNowHolds ==
  Peers!Spec => [](Peers!TypeOK /\ Peers!SendsAreChained /\ Peers!LargerSends)
<1>1. PeerTypes /\ [Peers!Next]_Peers!vars => PeerTypes'
  BY PeerPlacesStep, PeerTrafficStep DEF PeerTypes
<1>2. PeerTypes /\ AllChained /\ [Peers!Next]_Peers!vars => AllChained'
  BY PeerPlacesStep, ChainedStep DEF PeerTypes
<1> QED
  BY <1>1, <1>2, PeersInit, ChainsSuffice, PTL DEF Peers!Spec

-----------------------------------------------------------------------------
(* Fine timing measurement: console, event task and driver.                *)

LinkKinds == {"CONNECTED", "DISCONNECTED"}
ApKinds == {"AP_START", "AP_STOP"}
EndKinds == {"REPORT", "FAILURE"}

Bssids == {a.bssid : a \in Aps}
EventSet ==
  [kind : {"CONNECTED"}, of : Bssids] \cup [kind : {"REPORT"}, of : Nat]
    \cup [kind : {"DISCONNECTED", "FAILURE"} \cup ApKinds, of : {Absent}]

(* No event of some kinds waits; the last of them that waits, or the only. *)
Quiet(s, K) == \A k \in 1 .. Len(s) : s[k].kind \notin K
Tells(s, K, e) ==
  \E k \in 1 .. Len(s) : s[k] = e /\ e.kind \in K
    /\ \A j \in k + 1 .. Len(s) : s[j].kind \notin K
Only(s, K, e) ==
  \E k \in 1 .. Len(s) : s[k] = e /\ e.kind \in K
    /\ \A j \in 1 .. Len(s) : j # k => s[j].kind \notin K

FtmLinkTypes ==
  /\ group_bits \subseteq LinkKinds \cup Measure!FtmBits
  /\ wifi_link \in {"down", "connecting"} \cup Bssids
  /\ g_ap_bssid \in Bssids \cup {Absent}
FtmNameTypes == wanted \in Measure!Names \cup {Absent} /\ name \in Measure!Names \cup {Absent}
FtmFlagTypes == /\ s_reconnect \in BOOLEAN /\ g_ap_started \in BOOLEAN /\ wasOpen \in BOOLEAN
                /\ retry_scan \in BOOLEAN /\ wifi_mode \in {"NULL", "STA", "AP"}
FtmNumberTypes == /\ s_retry_num \in Nat /\ ftm_session \in Nat /\ measuring \in Nat
                  /\ retries \in Nat /\ retries <= s_retry_num /\ retries < Attempts
FtmQueueTypes == posted_events \in Seq(EventSet)
FtmTypes == FtmLinkTypes /\ FtmNameTypes /\ FtmFlagTypes /\ FtmNumberTypes /\ FtmQueueTypes

(* The last event that waits tells the link, the access point, the end of  *)
(* the measurement; without one, the bits and the globals do.              *)
FtmLinkInv ==
  /\ \A e \in EventSet : Tells(posted_events, LinkKinds, e) =>
       IF Measure!Up THEN e.kind = "CONNECTED" /\ e.of = wifi_link ELSE e.kind = "DISCONNECTED"
  /\ Quiet(posted_events, LinkKinds) =>
       /\ "CONNECTED" \in group_bits => Measure!Up
       /\ Measure!Up => g_ap_bssid = wifi_link
            /\ ("CONNECTED" \in group_bits \/ console = "drop")

FtmApInv ==
  /\ \A e \in EventSet : Tells(posted_events, ApKinds, e)
       => (e.kind = "AP_START" <=> wifi_mode = "AP")
  /\ Quiet(posted_events, ApKinds) => (g_ap_started <=> wifi_mode = "AP")

FtmSessionInv ==
  /\ Leveled => leaks = 0
  /\ \/ /\ console \notin {"wait", "process"} /\ measuring = 0 /\ Quiet(posted_events, EndKinds)
        /\ group_bits \cap Measure!FtmBits = {} /\ g_ftm_report = Absent
     \/ /\ console = "wait"
        /\ \/ /\ measuring = ftm_session /\ measuring # 0 /\ Quiet(posted_events, EndKinds)
              /\ group_bits \cap Measure!FtmBits = {} /\ g_ftm_report = Absent
           \/ /\ measuring = 0 /\ group_bits \cap Measure!FtmBits = {} /\ g_ftm_report = Absent
              /\ \E e \in EventSet : Only(posted_events, EndKinds, e)
                   /\ (e.kind = "REPORT" => e.of = ftm_session)
           \/ /\ measuring = 0 /\ Quiet(posted_events, EndKinds)
              /\ group_bits \cap Measure!FtmBits = {"FTM_REPORT"} /\ g_ftm_report = ftm_session
           \/ /\ measuring = 0 /\ Quiet(posted_events, EndKinds)
              /\ group_bits \cap Measure!FtmBits = {"FTM_FAILURE"} /\ g_ftm_report = Absent
     \/ /\ console = "process" /\ measuring = 0 /\ Quiet(posted_events, EndKinds)
        /\ group_bits \cap Measure!FtmBits = {} /\ g_ftm_report = ftm_session

FtmListInv ==
  /\ g_scan_ap_num \in Nat
  /\ g_ap_list_buffer # Absent
       => Len(g_ap_list_buffer) \in Nat /\ g_scan_ap_num <= Len(g_ap_list_buffer)
  /\ console = "match" => g_ap_list_buffer # Absent

FtmPassInv ==
  /\ DOMAIN g_ap_config = {"ssid", "password", "authmode", "responder"}
  /\ g_ap_config.authmode = "WPA2" \/ wasOpen
  /\ airConfig.authmode = "WPA2" \/ wasOpen

LEMMA FtmNumbers ==
  /\ IsFiniteSet(Aps) /\ Attempts \in Nat \ {0}
  /\ \A a \in Aps : a.bssid \notin {"down", "connecting"}
  BY ProgramsAssumption DEF Measure!ApsOK, Measure!IsFiniteSet, IsFiniteSet

LEMMA QueueAppend ==
  ASSUME NEW s \in Seq(EventSet), NEW x \in EventSet, NEW K
  PROVE  /\ Append(s, x) \in Seq(EventSet)
         /\ Quiet(Append(s, x), K) <=> Quiet(s, K) /\ x.kind \notin K
         /\ \A e : Tells(Append(s, x), K, e) <=> IF x.kind \in K THEN e = x ELSE Tells(s, K, e)
         /\ x.kind \in K /\ Quiet(s, K) => Only(Append(s, x), K, x)
         /\ x.kind \notin K => \A e : Only(s, K, e) => Only(Append(s, x), K, e)
<1> DEFINE t == Append(s, x)
<1>1. /\ t \in Seq(EventSet) /\ Len(s) \in Nat /\ Len(t) = Len(s) + 1 /\ t[Len(t)] = x
      /\ \A k \in 1 .. Len(s) : t[k] = s[k]
  OBVIOUS
<1> HIDE DEF t
<1>2. \A k : k \in 1 .. Len(t) <=> k \in 1 .. Len(s) \/ k = Len(t)
  BY <1>1
<1>3. Quiet(t, K) <=> Quiet(s, K) /\ x.kind \notin K
  BY <1>1, <1>2 DEF Quiet
<1>4. ASSUME NEW e PROVE Tells(t, K, e) <=> IF x.kind \in K THEN e = x ELSE Tells(s, K, e)
  <2>1. CASE x.kind \in K
    <3>1. e = x => Tells(t, K, e)
      BY <1>1, <1>2, <2>1 DEF Tells
    <3>2. Tells(t, K, e) => e = x
      <4>1. ASSUME NEW k \in 1 .. Len(t), t[k]
              = e, \A j \in k + 1 .. Len(t) : t[j].kind \notin K
            PROVE e = x
        BY <1>1, <2>1, <4>1
      <4> QED
        BY <4>1 DEF Tells
    <3> QED
      BY <2>1, <3>1, <3>2
  <2>2. CASE x.kind \notin K
    <3>1. ASSUME Tells(t, K, e) PROVE Tells(s, K, e)
      <4>1. PICK k \in 1 .. Len(t) : t[k] = e /\ e.kind \in K
              /\ \A j \in k + 1 .. Len(t) : t[j].kind \notin K
        BY <3>1 DEF Tells
      <4>2. k \in 1 .. Len(s) /\ s[k] = e
        BY <1>1, <1>2, <2>2, <4>1
      <4>3. \A j \in k + 1 .. Len(s) : s[j].kind \notin K
        BY <1>1, <4>1, <4>2
      <4> QED
        BY <4>1, <4>2, <4>3 DEF Tells
    <3>2. ASSUME Tells(s, K, e) PROVE Tells(t, K, e)
      <4>1. PICK k \in 1 .. Len(s) : s[k] = e /\ e.kind \in K
              /\ \A j \in k + 1 .. Len(s) : s[j].kind \notin K
        BY <3>2 DEF Tells
      <4>2. k \in 1 .. Len(t) /\ t[k] = e
        BY <1>1, <1>2, <4>1
      <4>3. \A j \in k + 1 .. Len(t) : t[j].kind \notin K
        BY <1>1, <1>2, <2>2, <4>1
      <4> QED
        BY <4>1, <4>2, <4>3 DEF Tells
    <3> QED
      BY <2>2, <3>1, <3>2
  <2> QED
    BY <2>1, <2>2
<1>5. x.kind \in K /\ Quiet(s, K) => Only(t, K, x)
  BY <1>1, <1>2 DEF Quiet, Only
<1>6. ASSUME x.kind \notin K, NEW e, Only(s, K, e) PROVE Only(t, K, e)
  <2>1. PICK k \in 1 .. Len(s) : s[k] = e /\ e.kind \in K /\ \A j \in 1 .. Len(s) : j # k
          => s[j].kind \notin K
    BY <1>6 DEF Only
  <2> QED
    BY <1>1, <1>2, <1>6, <2>1 DEF Only
<1> QED
  BY <1>1, <1>3, <1>4, <1>5, <1>6 DEF t

LEMMA QueueTail ==
  ASSUME NEW s \in Seq(EventSet), s # <<>>, NEW K
  PROVE  /\ Tail(s) \in Seq(EventSet) /\ Head(s) \in EventSet
         /\ \A e : Tells(Tail(s), K, e) => Tells(s, K, e)
         /\ Quiet(Tail(s), K)
              => IF Head(s).kind \in K THEN Tells(s, K, Head(s)) ELSE Quiet(s, K)
         /\ Quiet(s, K) => Quiet(Tail(s), K) /\ Head(s).kind \notin K
         /\ \A e : Only(s, K, e) => IF Head(s).kind \in K THEN e = Head(s) /\ Quiet(Tail(s), K)
                                                         ELSE Only(Tail(s), K, e)
<1> DEFINE t == Tail(s)
<1>1. /\ t \in Seq(EventSet) /\ Len(s) \in Nat \ {0} /\ Len(t) = Len(s) - 1 /\ Head(s) = s[1]
      /\ Head(s) \in EventSet /\ \A k \in 1 .. Len(t) : t[k] = s[k + 1]
  OBVIOUS
<1> HIDE DEF t
<1>2. \A k : k \in 1 .. Len(s) <=> k = 1 \/ (k - 1 \in 1 .. Len(t) /\ k \in Int)
  BY <1>1
<1>2a. \A k \in 1 .. Len(s) : k # 1 => s[k] = t[k - 1] /\ k - 1 \in 1 .. Len(t)
  BY <1>1
<1>3. ASSUME NEW e, Tells(t, K, e) PROVE Tells(s, K, e)
  <2>1. PICK k \in 1 .. Len(t) : t[k] = e /\ e.kind \in K
          /\ \A j \in k + 1 .. Len(t) : t[j].kind \notin K
    BY <1>3 DEF Tells
  <2>2. k + 1 \in 1 .. Len(s) /\ s[k + 1] = e
    BY <1>1, <2>1
  <2>3. \A j \in (k + 1) + 1 .. Len(s) : s[j].kind \notin K
    <3> SUFFICES ASSUME NEW j \in (k + 1) + 1 .. Len(s) PROVE s[j].kind \notin K
      OBVIOUS
    <3>1. j - 1 \in k + 1 .. Len(t) /\ s[j] = t[j - 1]
      BY <1>1, <1>2a, <2>1
    <3> QED
      BY <2>1, <3>1
  <2> QED
    BY <2>1, <2>2, <2>3 DEF Tells
<1>4. ASSUME Quiet(t, K) PROVE IF Head(s).kind \in K THEN Tells(s, K, Head(s)) ELSE Quiet(s, K)
  <2>1. \A k \in 1 .. Len(s) : k # 1 => s[k].kind \notin K
    BY <1>2a, <1>4 DEF Quiet
  <2> QED
    BY <1>1, <2>1 DEF Tells, Quiet
<1>5. Quiet(s, K) => Quiet(t, K) /\ Head(s).kind \notin K
  BY <1>1 DEF Quiet
<1>6. ASSUME NEW e, Only(s, K, e)
      PROVE IF Head(s).kind \in K THEN e = Head(s) /\ Quiet(t, K) ELSE Only(t, K, e)
  <2>1. PICK k \in 1 .. Len(s) : s[k] = e /\ e.kind \in K /\ \A j \in 1 .. Len(s) : j # k
          => s[j].kind \notin K
    BY <1>6 DEF Only
  <2>2. CASE k = 1
    <3>1. \A j \in 1 .. Len(t) : t[j].kind \notin K
      BY <1>1, <2>1, <2>2
    <3> QED
      BY <1>1, <2>1, <2>2, <3>1 DEF Quiet
  <2>3. CASE k # 1
    <3>1. Head(s).kind \notin K
      BY <1>1, <2>1, <2>3
    <3>2. k - 1 \in 1 .. Len(t) /\ t[k - 1] = e
      BY <1>2a, <2>1, <2>3
    <3>3. \A j \in 1 .. Len(t) : j # k - 1 => t[j].kind \notin K
      BY <1>1, <2>1
    <3> QED
      BY <2>1, <3>1, <3>2, <3>3 DEF Only
  <2> QED
    BY <2>2, <2>3
<1> QED
  BY <1>1, <1>3, <1>4, <1>5, <1>6 DEF t

LEMMA SetModeSta ==
  ASSUME FtmTypes, Measure!SetMode("STA")
  PROVE  /\ wifi_mode' = "STA" /\ Measure!On("AP_STOP") \in EventSet
         /\ posted_events' = IF wifi_mode = "AP"
              THEN Append(posted_events, Measure!On("AP_STOP")) ELSE posted_events
<1>1. posted_events \in Seq(EventSet) /\ Measure!On("AP_STOP") \in EventSet
  BY DEF FtmTypes, FtmQueueTypes, EventSet, ApKinds, Measure!On
<1>2. posted_events \o <<>> = posted_events /\ posted_events \o <<>> \o <<>> = posted_events
  BY <1>1, ConcatEmptySeq
<1>3. posted_events \o <<Measure!On("AP_STOP")>> = Append(posted_events, Measure!On("AP_STOP"))
  BY <1>1, AppendIsConcat
<1>4. posted_events' = posted_events \o <<>> \o <<>>
        \o (IF wifi_mode = "AP" THEN <<Measure!On("AP_STOP")>> ELSE <<>>)
  BY DEF Measure!SetMode
<1> QED
  BY <1>1, <1>2, <1>3, <1>4 DEF Measure!SetMode

LEMMA SetModeAp ==
  ASSUME FtmTypes, Measure!SetMode("AP")
  PROVE  LET cut == IF wifi_link # "down"
    THEN Append(posted_events, Measure!On("DISCONNECTED")) ELSE posted_events IN
         /\ wifi_mode' = "AP" /\ Measure!On("AP_START") \in EventSet
         /\ Measure!On("DISCONNECTED") \in EventSet
         /\ posted_events' = IF wifi_mode # "AP" THEN Append(cut, Measure!On("AP_START"))
              ELSE cut
<1> DEFINE cut == IF wifi_link # "down" THEN Append(posted_events, Measure!On("DISCONNECTED"))
      ELSE posted_events
<1>1. /\ posted_events \in Seq(EventSet) /\ Measure!On("AP_START") \in EventSet
      /\ Measure!On("DISCONNECTED") \in EventSet
  BY DEF FtmTypes, FtmQueueTypes, EventSet, ApKinds, Measure!On
<1>2. posted_events \o (IF wifi_link # "down" THEN <<Measure!On("DISCONNECTED")>> ELSE <<>>)
        = cut
  BY <1>1, ConcatEmptySeq, AppendIsConcat
<1>3. cut \in Seq(EventSet)
  BY <1>1
<1> HIDE DEF cut
<1>4. posted_events'
        = cut \o (IF wifi_mode # "AP" THEN <<Measure!On("AP_START")>> ELSE <<>>) \o <<>>
  BY <1>2 DEF Measure!SetMode
<1>5. cut \o (IF wifi_mode # "AP" THEN <<Measure!On("AP_START")>> ELSE <<>>)
        = IF wifi_mode # "AP" THEN Append(cut, Measure!On("AP_START")) ELSE cut
  BY <1>1, <1>3, ConcatEmptySeq, AppendIsConcat
<1>6. (IF wifi_mode # "AP" THEN Append(cut, Measure!On("AP_START")) ELSE cut) \in Seq(EventSet)
  BY <1>1, <1>3
<1>7. posted_events' = IF wifi_mode # "AP" THEN Append(cut, Measure!On("AP_START")) ELSE cut
  BY <1>4, <1>5, <1>6, ConcatEmptySeq
<1> QED
  BY <1>1, <1>7 DEF Measure!SetMode, cut

LEMMA FtmLinkTypesStep == FtmTypes /\ [Measure!Next]_Measure!vars => FtmLinkTypes'
<1> SUFFICES ASSUME FtmTypes, [Measure!Next]_Measure!vars PROVE FtmLinkTypes'
  OBVIOUS
<1> USE FtmNumbers DEF FtmTypes, FtmLinkTypes, Measure!flags, Measure!soft, Measure!list,
      Measure!driver, Measure!ftm, Measure!locals, Measure!Typed, Measure!Connect, Bssids,
      LinkKinds, Measure!FtmBits
<1>1. ASSUME NEW ssid \in Measure!Names, Measure!Sta(ssid) \/ Measure!FtmOf(ssid)
        \/ Measure!ApRefused(ssid)
      PROVE  FtmLinkTypes'
  BY <1>1 DEF Measure!Sta, Measure!FtmOf, Measure!ApRefused
<1>2. ASSUME NEW ssid \in Measure!Names, NEW pass \in Measure!Passwords,
        Measure!ApSet(ssid, pass)
      PROVE  FtmLinkTypes'
  BY <1>2 DEF Measure!ApSet, Measure!Passwords
<1>3. CASE Measure!Scan
  BY <1>3 DEF Measure!Scan, Measure!StartScan
<1>4. CASE Measure!JoinConnect
  BY <1>4 DEF Measure!JoinConnect
<1>5. CASE Measure!Find
  BY <1>5 DEF Measure!Find, Measure!StartScan
<1>6. ASSUME NEW enable \in BOOLEAN, Measure!FtmOfLink \/ Measure!Responder(enable)
      PROVE  FtmLinkTypes'
  BY <1>6 DEF Measure!FtmOfLink, Measure!Responder
<1>7. CASE Measure!Drop
  BY <1>7 DEF Measure!Drop
<1>8. CASE Measure!Join \/ Measure!ScanDone \/ Measure!Match
  BY <1>8 DEF Measure!Join, Measure!ScanDone, Measure!Store, Measure!Match
<1>9. CASE Measure!Ask \/ Measure!Reported \/ Measure!Process
  BY <1>9 DEF Measure!Ask, Measure!Reported, Measure!Taken, Measure!Process
<1>10. CASE Measure!Restart
  BY <1>10 DEF Measure!Restart
<1>11. CASE Measure!event_handler
  <2>1. Head(posted_events) \in EventSet
    BY <1>11 DEF Measure!event_handler, FtmQueueTypes
  <2> QED
    BY <1>11, <2>1 DEF Measure!event_handler, Measure!OnConnected, Measure!OnDisconnected,
          Measure!OnReport, Measure!OnAp, Measure!Disconnected, EventSet
<1>12. CASE Measure!Associate
  BY <1>12 DEF Measure!Associate
<1>13. CASE Measure!Lose
  BY <1>13 DEF Measure!Lose
<1>14. CASE Measure!Measured
  BY <1>14 DEF Measure!Measured
<1>15. CASE UNCHANGED Measure!vars
  BY <1>15 DEF Measure!vars
<1> QED
  BY <1>1, <1>2, <1>3, <1>4, <1>5, <1>6, <1>7, <1>8, <1>9, <1>10, <1>11, <1>12, <1>13, <1>14,
     <1>15 DEF Measure!Next, Measure!Command, Measure!Console

LEMMA FtmNameTypesStep == FtmTypes /\ [Measure!Next]_Measure!vars => FtmNameTypes'
<1> SUFFICES ASSUME FtmTypes, [Measure!Next]_Measure!vars PROVE FtmNameTypes'
  OBVIOUS
<1> USE FtmNumbers DEF FtmTypes, FtmNameTypes, Measure!flags, Measure!soft, Measure!list,
      Measure!driver, Measure!ftm, Measure!locals, Measure!Typed
<1>1. ASSUME NEW ssid \in Measure!Names, Measure!Sta(ssid) \/ Measure!FtmOf(ssid)
        \/ Measure!ApRefused(ssid)
      PROVE  FtmNameTypes'
  BY <1>1 DEF Measure!Sta, Measure!FtmOf, Measure!ApRefused
<1>2. ASSUME NEW ssid \in Measure!Names, NEW pass \in Measure!Passwords,
        Measure!ApSet(ssid, pass)
      PROVE  FtmNameTypes'
  BY <1>2 DEF Measure!ApSet, Measure!Passwords
<1>3. CASE Measure!Scan
  BY <1>3 DEF Measure!Scan, Measure!StartScan
<1>4. CASE Measure!JoinConnect
  BY <1>4 DEF Measure!JoinConnect
<1>5. CASE Measure!Find
  BY <1>5 DEF Measure!Find, Measure!StartScan
<1>6. ASSUME NEW enable \in BOOLEAN, Measure!FtmOfLink \/ Measure!Responder(enable)
      PROVE  FtmNameTypes'
  BY <1>6 DEF Measure!FtmOfLink, Measure!Responder
<1>7. CASE Measure!Drop
  BY <1>7 DEF Measure!Drop
<1>8. CASE Measure!Join \/ Measure!ScanDone \/ Measure!Match
  BY <1>8 DEF Measure!Join, Measure!ScanDone, Measure!Store, Measure!Match
<1>9. CASE Measure!Ask \/ Measure!Reported \/ Measure!Process
  BY <1>9 DEF Measure!Ask, Measure!Reported, Measure!Taken, Measure!Process
<1>10. CASE Measure!Restart
  BY <1>10 DEF Measure!Restart
<1>11. CASE Measure!event_handler
  BY <1>11 DEF Measure!event_handler, Measure!OnConnected, Measure!OnDisconnected,
        Measure!OnReport, Measure!OnAp, Measure!Disconnected
<1>12. CASE Measure!Associate
  BY <1>12 DEF Measure!Associate
<1>13. CASE Measure!Lose
  BY <1>13 DEF Measure!Lose
<1>14. CASE Measure!Measured
  BY <1>14 DEF Measure!Measured
<1>15. CASE UNCHANGED Measure!vars
  BY <1>15 DEF Measure!vars
<1> QED
  BY <1>1, <1>2, <1>3, <1>4, <1>5, <1>6, <1>7, <1>8, <1>9, <1>10, <1>11, <1>12, <1>13, <1>14,
     <1>15 DEF Measure!Next, Measure!Command, Measure!Console

LEMMA FtmFlagTypesStep == FtmTypes /\ [Measure!Next]_Measure!vars => FtmFlagTypes'
<1> SUFFICES ASSUME FtmTypes, [Measure!Next]_Measure!vars PROVE FtmFlagTypes'
  OBVIOUS
<1> USE FtmNumbers DEF FtmTypes, FtmFlagTypes, Measure!SetMode, Measure!flags, Measure!soft,
      Measure!list, Measure!driver, Measure!ftm, Measure!locals, Measure!Typed
<1>1. ASSUME NEW ssid \in Measure!Names, Measure!Sta(ssid) \/ Measure!FtmOf(ssid)
        \/ Measure!ApRefused(ssid)
      PROVE  FtmFlagTypes'
  BY <1>1 DEF Measure!Sta, Measure!FtmOf, Measure!ApRefused
<1>2. ASSUME NEW ssid \in Measure!Names, NEW pass \in Measure!Passwords,
        Measure!ApSet(ssid, pass)
      PROVE  FtmFlagTypes'
  BY <1>2 DEF Measure!ApSet, Measure!Passwords
<1>3. CASE Measure!Scan
  BY <1>3 DEF Measure!Scan, Measure!StartScan
<1>4. CASE Measure!JoinConnect
  BY <1>4 DEF Measure!JoinConnect
<1>5. CASE Measure!Find
  BY <1>5 DEF Measure!Find, Measure!StartScan
<1>6. ASSUME NEW enable \in BOOLEAN, Measure!FtmOfLink \/ Measure!Responder(enable)
      PROVE  FtmFlagTypes'
  BY <1>6 DEF Measure!FtmOfLink, Measure!Responder
<1>7. CASE Measure!Drop
  BY <1>7 DEF Measure!Drop
<1>8. CASE Measure!Join \/ Measure!ScanDone \/ Measure!Match
  BY <1>8 DEF Measure!Join, Measure!ScanDone, Measure!Store, Measure!Match
<1>9. CASE Measure!Ask \/ Measure!Reported \/ Measure!Process
  BY <1>9 DEF Measure!Ask, Measure!Reported, Measure!Taken, Measure!Process
<1>10. CASE Measure!Restart
  BY <1>10 DEF Measure!Restart
<1>11. CASE Measure!event_handler
  BY <1>11 DEF Measure!event_handler, Measure!OnConnected, Measure!OnDisconnected,
        Measure!OnReport, Measure!OnAp, Measure!Disconnected
<1>12. CASE Measure!Associate
  BY <1>12 DEF Measure!Associate
<1>13. CASE Measure!Lose
  BY <1>13 DEF Measure!Lose
<1>14. CASE Measure!Measured
  BY <1>14 DEF Measure!Measured
<1>15. CASE UNCHANGED Measure!vars
  BY <1>15 DEF Measure!vars
<1> QED
  BY <1>1, <1>2, <1>3, <1>4, <1>5, <1>6, <1>7, <1>8, <1>9, <1>10, <1>11, <1>12, <1>13, <1>14,
     <1>15 DEF Measure!Next, Measure!Command, Measure!Console

LEMMA FtmNumberTypesStep == FtmTypes /\ [Measure!Next]_Measure!vars => FtmNumberTypes'
<1> SUFFICES ASSUME FtmTypes, [Measure!Next]_Measure!vars PROVE FtmNumberTypes'
  OBVIOUS
<1> USE FtmNumbers DEF FtmTypes, FtmNumberTypes, FtmFlagTypes, Measure!flags, Measure!soft,
      Measure!list, Measure!driver, Measure!ftm, Measure!locals, Measure!Typed
<1>1. ASSUME NEW ssid \in Measure!Names, Measure!Sta(ssid) \/ Measure!FtmOf(ssid)
        \/ Measure!ApRefused(ssid)
      PROVE  FtmNumberTypes'
  BY <1>1 DEF Measure!Sta, Measure!FtmOf, Measure!ApRefused
<1>2. ASSUME NEW ssid \in Measure!Names, NEW pass \in Measure!Passwords,
        Measure!ApSet(ssid, pass)
      PROVE  FtmNumberTypes'
  BY <1>2 DEF Measure!ApSet, Measure!Passwords
<1>3. CASE Measure!Scan
  BY <1>3 DEF Measure!Scan, Measure!StartScan
<1>4. CASE Measure!JoinConnect
  BY <1>4 DEF Measure!JoinConnect
<1>5. CASE Measure!Find
  BY <1>5 DEF Measure!Find, Measure!StartScan
<1>6. ASSUME NEW enable \in BOOLEAN, Measure!FtmOfLink \/ Measure!Responder(enable)
      PROVE  FtmNumberTypes'
  BY <1>6 DEF Measure!FtmOfLink, Measure!Responder
<1>7. CASE Measure!Drop
  BY <1>7 DEF Measure!Drop
<1>8. CASE Measure!Join \/ Measure!ScanDone \/ Measure!Match
  BY <1>8 DEF Measure!Join, Measure!ScanDone, Measure!Store, Measure!Match
<1>9. CASE Measure!Ask \/ Measure!Reported \/ Measure!Process
  BY <1>9 DEF Measure!Ask, Measure!Reported, Measure!Taken, Measure!Process
<1>10. CASE Measure!Restart
  BY <1>10 DEF Measure!Restart
<1>11. CASE Measure!event_handler
  BY <1>11 DEF Measure!event_handler, Measure!OnConnected, Measure!OnDisconnected,
        Measure!OnReport, Measure!OnAp, Measure!Disconnected
<1>12. CASE Measure!Associate
  BY <1>12 DEF Measure!Associate
<1>13. CASE Measure!Lose
  BY <1>13 DEF Measure!Lose
<1>14. CASE Measure!Measured
  BY <1>14 DEF Measure!Measured
<1>15. CASE UNCHANGED Measure!vars
  BY <1>15 DEF Measure!vars
<1> QED
  BY <1>1, <1>2, <1>3, <1>4, <1>5, <1>6, <1>7, <1>8, <1>9, <1>10, <1>11, <1>12, <1>13, <1>14,
     <1>15 DEF Measure!Next, Measure!Command, Measure!Console

LEMMA FtmQueueTypesStep == FtmTypes /\ [Measure!Next]_Measure!vars => FtmQueueTypes'
<1> SUFFICES ASSUME FtmTypes, [Measure!Next]_Measure!vars PROVE FtmQueueTypes'
  OBVIOUS
<1> USE FtmNumbers DEF FtmTypes, FtmQueueTypes, Measure!flags, Measure!soft, Measure!list,
      Measure!driver, Measure!ftm, Measure!locals, Measure!Typed, Measure!Post
<1>1. ASSUME NEW ssid \in Measure!Names, Measure!Sta(ssid) \/ Measure!FtmOf(ssid)
        \/ Measure!ApRefused(ssid)
      PROVE  FtmQueueTypes'
  BY <1>1 DEF Measure!Sta, Measure!FtmOf, Measure!ApRefused
<1>2. ASSUME NEW ssid \in Measure!Names, NEW pass \in Measure!Passwords,
        Measure!ApSet(ssid, pass)
      PROVE  FtmQueueTypes'
  <2>1. posted_events' = posted_events
          \/ \E s \in {Append(posted_events, Measure!On("DISCONNECTED"))} \cup {posted_events} :
               posted_events' = s \/ posted_events' = Append(s, Measure!On("AP_START"))
    BY <1>2, SetModeAp DEF Measure!ApSet
  <2> QED
    BY <1>2, <2>1, SetModeAp DEF Measure!ApSet
<1>3. CASE Measure!Scan
  BY SetModeSta, <1>3 DEF Measure!Scan, Measure!StartScan
<1>4. CASE Measure!JoinConnect
  BY SetModeSta, <1>4 DEF Measure!JoinConnect
<1>5. CASE Measure!Find
  BY SetModeSta, <1>5 DEF Measure!Find, Measure!StartScan
<1>6. ASSUME NEW enable \in BOOLEAN, Measure!FtmOfLink \/ Measure!Responder(enable)
      PROVE  FtmQueueTypes'
  BY <1>6 DEF Measure!FtmOfLink, Measure!Responder
<1>7. CASE Measure!Drop
  BY <1>7 DEF Measure!Drop, Measure!On, EventSet
<1>8. CASE Measure!Join \/ Measure!ScanDone \/ Measure!Match
  BY <1>8 DEF Measure!Join, Measure!ScanDone, Measure!Store, Measure!Match
<1>9. CASE Measure!Ask \/ Measure!Reported \/ Measure!Process
  BY <1>9 DEF Measure!Ask, Measure!Reported, Measure!Taken, Measure!Process
<1>10. CASE Measure!Restart
  BY <1>10 DEF Measure!Restart
<1>11. CASE Measure!event_handler
  BY <1>11, QueueTail DEF Measure!event_handler
<1>12. CASE Measure!Associate
  BY <1>12 DEF Measure!Associate, EventSet, Bssids
<1>13. CASE Measure!Lose
  BY <1>13 DEF Measure!Lose, Measure!On, EventSet
<1>14. CASE Measure!Measured
  <2>1. measuring \in Nat
    BY DEF FtmNumberTypes
  <2>2. [kind |-> "REPORT", of |-> measuring] \in EventSet /\ Measure!On("FAILURE") \in EventSet
    BY <2>1 DEF EventSet, Measure!On
  <2>3. \/ posted_events' = Append(posted_events, [kind |-> "REPORT", of |-> measuring])
        \/ posted_events' = Append(posted_events, Measure!On("FAILURE"))
    BY <1>14 DEF Measure!Measured
  <2> QED
    BY <2>2, <2>3
<1>15. CASE UNCHANGED Measure!vars
  BY <1>15 DEF Measure!vars
<1> QED
  BY <1>1, <1>2, <1>3, <1>4, <1>5, <1>6, <1>7, <1>8, <1>9, <1>10, <1>11, <1>12, <1>13, <1>14,
     <1>15 DEF Measure!Next, Measure!Command, Measure!Console

LEMMA EmptyQueue ==
  ASSUME NEW K PROVE Quiet(<<>>, K) /\ \A e : ~Tells(<<>>, K, e) /\ ~Only(<<>>, K, e)
  BY DEF Quiet, Tells, Only

LEMMA FtmLinkStep == FtmTypes /\ FtmLinkInv /\ [Measure!Next]_Measure!vars => FtmLinkInv'
<1> SUFFICES ASSUME FtmTypes, FtmLinkInv, [Measure!Next]_Measure!vars PROVE FtmLinkInv'
  OBVIOUS
<1> USE FtmNumbers DEF FtmLinkInv, Measure!Up, Measure!flags, Measure!soft, Measure!list,
      Measure!driver, Measure!ftm, Measure!locals, Measure!Typed, Measure!Post
<1>1. ASSUME NEW ssid \in Measure!Names, Measure!Sta(ssid) \/ Measure!FtmOf(ssid)
        \/ Measure!ApRefused(ssid)
      PROVE  FtmLinkInv'
  BY <1>1 DEF Measure!Sta, Measure!FtmOf, Measure!ApRefused
<1>2. ASSUME NEW ssid \in Measure!Names, NEW pass \in Measure!Passwords,
        Measure!ApSet(ssid, pass)
      PROVE  FtmLinkInv'
  <2> DEFINE cut == IF wifi_link # "down"
        THEN Append(posted_events, Measure!On("DISCONNECTED")) ELSE posted_events
  <2>1. /\ wifi_link' = "down" /\ UNCHANGED <<group_bits, g_ap_bssid, console>>
        /\ cut \in Seq(EventSet)
        /\ Measure!On("AP_START") \in EventSet /\ Measure!On("DISCONNECTED") \in EventSet
        /\ posted_events' = IF wifi_mode # "AP" THEN Append(cut, Measure!On("AP_START"))
             ELSE cut
    BY <1>2, SetModeAp DEF Measure!ApSet, FtmTypes, FtmQueueTypes
  <2>2. /\ Quiet(cut, LinkKinds) => wifi_link = "down" /\ Quiet(posted_events, LinkKinds)
        /\ \A e : Tells(cut, LinkKinds, e) => e = Measure!On("DISCONNECTED")
             \/ (wifi_link = "down" /\ Tells(posted_events, LinkKinds, e))
    <3>1. CASE wifi_link = "down"
      BY <3>1
    <3>2. CASE wifi_link # "down"
      BY <2>1, <3>2, QueueAppend DEF FtmTypes, FtmQueueTypes, LinkKinds, Measure!On
    <3> QED
      BY <3>1, <3>2
  <2>3. /\ Quiet(posted_events', LinkKinds) <=> Quiet(cut, LinkKinds)
        /\ \A e : Tells(posted_events', LinkKinds, e) <=> Tells(cut, LinkKinds, e)
    <3> HIDE DEF cut
    <3>1. CASE wifi_mode = "AP"
      BY <2>1, <3>1
    <3>2. CASE wifi_mode # "AP"
      BY <2>1, <3>2, QueueAppend DEF LinkKinds, Measure!On
    <3> QED
      BY <3>1, <3>2
  <2>4. Measure!On("DISCONNECTED").kind = "DISCONNECTED"
    BY DEF Measure!On
  <2> HIDE DEF cut
  <2> QED
    BY <2>1, <2>2, <2>3, <2>4
<1>3. CASE Measure!Scan
  <2>1. Measure!SetMode("STA") /\ UNCHANGED <<group_bits, g_ap_bssid>>
          /\ wifi_link' \in {wifi_link, IF wifi_link = "down" THEN "connecting" ELSE wifi_link}
        /\ (console = "drop" <=> console' = "drop")
    BY <1>3 DEF Measure!Scan, Measure!StartScan
  <2>2. CASE posted_events' = posted_events
    BY <2>1, <2>2
  <2>3. CASE posted_events' = Append(posted_events, Measure!On("AP_STOP"))
    <3>1. /\ Quiet(posted_events', LinkKinds) <=> Quiet(posted_events, LinkKinds)
          /\ \A e : Tells(posted_events', LinkKinds, e) <=> Tells(posted_events, LinkKinds, e)
      BY <2>1, <2>3, SetModeSta, QueueAppend DEF FtmTypes, FtmQueueTypes, LinkKinds, Measure!On
    <3> QED
      BY <2>1, <3>1
  <2> QED
    BY <2>1, <2>2, <2>3, SetModeSta
<1>4. CASE Measure!JoinConnect
  <2>1. Measure!SetMode("STA") /\ UNCHANGED <<group_bits, g_ap_bssid>>
          /\ wifi_link' \in {wifi_link, IF wifi_link = "down" THEN "connecting" ELSE wifi_link}
        /\ (console = "drop" <=> console' = "drop")
    BY <1>4 DEF Measure!JoinConnect, Measure!Connect
  <2>2. CASE posted_events' = posted_events
    BY <2>1, <2>2
  <2>3. CASE posted_events' = Append(posted_events, Measure!On("AP_STOP"))
    <3>1. /\ Quiet(posted_events', LinkKinds) <=> Quiet(posted_events, LinkKinds)
          /\ \A e : Tells(posted_events', LinkKinds, e) <=> Tells(posted_events, LinkKinds, e)
      BY <2>1, <2>3, SetModeSta, QueueAppend DEF FtmTypes, FtmQueueTypes, LinkKinds, Measure!On
    <3> QED
      BY <2>1, <3>1
  <2> QED
    BY <2>1, <2>2, <2>3, SetModeSta
<1>5. CASE Measure!Find
  <2>0. CASE UNCHANGED Measure!driver
    BY <1>5, <2>0 DEF Measure!Find
  <2> SUFFICES ASSUME Measure!StartScan("search"), UNCHANGED <<group_bits, g_ap_bssid>>,
        console = "find" PROVE FtmLinkInv'
    BY <1>5, <2>0 DEF Measure!Find
  <2>1. Measure!SetMode("STA") /\ UNCHANGED <<group_bits, g_ap_bssid>>
          /\ wifi_link' \in {wifi_link, IF wifi_link = "down" THEN "connecting" ELSE wifi_link}
        /\ (console = "drop" <=> console' = "drop")
    BY DEF Measure!StartScan
  <2>2. CASE posted_events' = posted_events
    BY <2>1, <2>2
  <2>3. CASE posted_events' = Append(posted_events, Measure!On("AP_STOP"))
    <3>1. /\ Quiet(posted_events', LinkKinds) <=> Quiet(posted_events, LinkKinds)
          /\ \A e : Tells(posted_events', LinkKinds, e) <=> Tells(posted_events, LinkKinds, e)
      BY <2>1, <2>3, SetModeSta, QueueAppend DEF FtmTypes, FtmQueueTypes, LinkKinds, Measure!On
    <3> QED
      BY <2>1, <3>1
  <2> QED
    BY <2>1, <2>2, <2>3, SetModeSta
<1>6. ASSUME NEW enable \in BOOLEAN, Measure!FtmOfLink \/ Measure!Responder(enable)
      PROVE  FtmLinkInv'
  BY <1>6 DEF Measure!FtmOfLink, Measure!Responder
<1>7. CASE Measure!Drop
  <2>1. CASE posted_events' = posted_events
    BY <1>7, <2>1 DEF Measure!Drop
  <2>2. CASE posted_events' = Append(posted_events, Measure!On("DISCONNECTED"))
    <3>1. Measure!On("DISCONNECTED") \in EventSet
            /\ Measure!On("DISCONNECTED").kind = "DISCONNECTED"
      BY DEF Measure!On, EventSet
    <3>2. /\ ~Quiet(posted_events', LinkKinds)
          /\ \A e : Tells(posted_events', LinkKinds, e) <=> e = Measure!On("DISCONNECTED")
      BY <2>2, <3>1, QueueAppend DEF FtmTypes, FtmQueueTypes, LinkKinds
    <3>3. wifi_link' = "down"
      BY <1>7 DEF Measure!Drop
    <3> QED
      BY <3>1, <3>2, <3>3
  <2> QED
    BY <1>7, <2>1, <2>2 DEF Measure!Drop
<1>8. CASE Measure!Join \/ Measure!ScanDone \/ Measure!Match
  BY <1>8 DEF Measure!Join, Measure!ScanDone, Measure!Store, Measure!Match
<1>9. CASE Measure!Ask \/ Measure!Reported \/ Measure!Process
  BY <1>9 DEF Measure!Ask, Measure!Reported, Measure!Taken, Measure!FtmBits, Measure!Process
<1>10. CASE Measure!Restart
  <2>1. /\ Quiet(posted_events', LinkKinds) /\ \A e : ~Tells(posted_events', LinkKinds, e)
    BY <1>10, EmptyQueue DEF Measure!Restart
  <2> HIDE DEF Quiet, Tells
  <2> QED
    BY <1>10, <2>1 DEF Measure!Restart
<1>11. CASE Measure!event_handler
  <2> DEFINE x == Head(posted_events)
  <2>1. /\ posted_events' = Tail(posted_events) /\ posted_events # <<>> /\ console' = console
        /\ x \in EventSet
        /\ Measure!OnConnected(x) \/ Measure!OnDisconnected(x) \/ Measure!OnReport(x)
             \/ Measure!OnAp(x)
    BY <1>11, QueueTail DEF Measure!event_handler, FtmTypes, FtmQueueTypes
  <2> HIDE DEF x
  <2>2. /\ \A e : Tells(posted_events', LinkKinds, e) => Tells(posted_events, LinkKinds, e)
        /\ Quiet(posted_events', LinkKinds) => IF x.kind \in LinkKinds
             THEN Tells(posted_events, LinkKinds, x) ELSE Quiet(posted_events, LinkKinds)
    BY <2>1, QueueTail DEF FtmTypes, FtmQueueTypes, x
  <2>3. CASE Measure!OnConnected(x)
    BY <2>1, <2>2, <2>3 DEF Measure!OnConnected, LinkKinds
  <2>4. CASE Measure!OnDisconnected(x)
    <3>1. wifi_link' = wifi_link \/ (wifi_link = "down" /\ wifi_link' = "connecting")
      BY <2>4 DEF Measure!OnDisconnected, Measure!Connect
    <3>2. "CONNECTED" \notin group_bits' /\ x.kind = "DISCONNECTED" /\ x.kind \in LinkKinds
      BY <2>4 DEF Measure!OnDisconnected, Measure!Disconnected, LinkKinds
    <3>3. Quiet(posted_events', LinkKinds) => ~Measure!Up
      BY <2>1, <2>2, <3>2
    <3> QED
      BY <2>1, <2>2, <3>1, <3>2, <3>3
  <2>5. CASE Measure!OnReport(x)
    BY <2>1, <2>2, <2>5 DEF Measure!OnReport, LinkKinds
  <2>6. CASE Measure!OnAp(x)
    BY <2>1, <2>2, <2>6 DEF Measure!OnAp, LinkKinds
  <2> QED
    BY <2>1, <2>3, <2>4, <2>5, <2>6
<1>12. CASE Measure!Associate
  <2>1. PICK a \in Aps : wifi_link' = a.bssid
          /\ posted_events' = Append(posted_events, [kind |-> "CONNECTED", of |-> a.bssid])
    BY <1>12 DEF Measure!Associate
  <2> DEFINE x == [kind |-> "CONNECTED", of |-> a.bssid]
  <2>2. x \in EventSet /\ x.kind = "CONNECTED" /\ x.of = wifi_link'
    BY <2>1 DEF EventSet, Bssids
  <2> HIDE DEF x
  <2>3. /\ ~Quiet(posted_events', LinkKinds)
        /\ \A e : Tells(posted_events', LinkKinds, e) <=> e = x
    BY <2>1, <2>2, QueueAppend DEF FtmTypes, FtmQueueTypes, LinkKinds, x
  <2>4. wifi_link' \notin {"down", "connecting"}
    BY <2>1
  <2> QED
    BY <2>2, <2>3, <2>4
<1>13. CASE Measure!Lose
  <2>1. CASE posted_events' = posted_events
    BY <1>13, <2>1 DEF Measure!Lose
  <2>2. CASE posted_events' = Append(posted_events, Measure!On("DISCONNECTED"))
    <3>1. Measure!On("DISCONNECTED") \in EventSet
            /\ Measure!On("DISCONNECTED").kind = "DISCONNECTED"
      BY DEF Measure!On, EventSet
    <3>2. /\ ~Quiet(posted_events', LinkKinds)
          /\ \A e : Tells(posted_events', LinkKinds, e) <=> e = Measure!On("DISCONNECTED")
      BY <2>2, <3>1, QueueAppend DEF FtmTypes, FtmQueueTypes, LinkKinds
    <3>3. wifi_link' = "down"
      BY <1>13 DEF Measure!Lose
    <3> QED
      BY <3>1, <3>2, <3>3
  <2> QED
    BY <1>13, <2>1, <2>2 DEF Measure!Lose
<1>14. CASE Measure!Measured
  <2>1. UNCHANGED <<group_bits, g_ap_bssid, console, wifi_link>>
    BY <1>14 DEF Measure!Measured
  <2>2. PICK x : posted_events' = Append(posted_events, x) /\ x \in EventSet
          /\ x.kind \in EndKinds
    BY <1>14 DEF Measure!Measured, Measure!On, EventSet, FtmTypes, FtmNumberTypes, EndKinds
  <2>3. /\ Quiet(posted_events', LinkKinds) <=> Quiet(posted_events, LinkKinds)
        /\ \A e : Tells(posted_events', LinkKinds, e) <=> Tells(posted_events, LinkKinds, e)
    BY <2>2, QueueAppend DEF FtmTypes, FtmQueueTypes, LinkKinds, EndKinds
  <2> QED
    BY <2>1, <2>3
<1>15. CASE UNCHANGED Measure!vars
  BY <1>15 DEF Measure!vars
<1> QED
  BY <1>1, <1>2, <1>3, <1>4, <1>5, <1>6, <1>7, <1>8, <1>9, <1>10, <1>11, <1>12, <1>13, <1>14,
     <1>15 DEF Measure!Next, Measure!Command, Measure!Console

(* What SetToSeq makes of the access points that were heard is a sequence. *)
LEMMA SetToSeqIs == ASSUME NEW S \in SUBSET Aps PROVE Measure!SetToSeq(S) \in Seq(S)
<1>1. IsFiniteSet(S)
  BY FtmNumbers, FS_Subset
<1>2. PICK n \in Nat : ExistsBijection(1 .. n, S)
  BY <1>1, FS_NatBijection
<1>3. Cardinality(S) = n
  BY <1>2, FS_CountingElements
<1>4. Measure!Cardinality(S) = Cardinality(S)
        /\ \A f : Measure!IsInjective(f) <=> IsInjective(f)
  BY DEF Measure!Cardinality, Cardinality, Measure!IsInjective, IsInjective
<1>5. \E f \in [1 .. Measure!Cardinality(S) -> S] : Measure!IsInjective(f)
  BY <1>2, <1>3, <1>4 DEF ExistsBijection, Bijection, Injection
<1>6. Measure!SetToSeq(S) \in [1 .. Measure!Cardinality(S) -> S]
  BY <1>5 DEF Measure!SetToSeq
<1> QED
  BY <1>3, <1>4, <1>6

LEMMA FtmApStep == FtmTypes /\ FtmApInv /\ [Measure!Next]_Measure!vars => FtmApInv'
<1> SUFFICES ASSUME FtmTypes, FtmApInv, [Measure!Next]_Measure!vars PROVE FtmApInv'
  OBVIOUS
<1> USE FtmNumbers DEF FtmApInv, Measure!flags, Measure!soft, Measure!list, Measure!driver,
      Measure!ftm, Measure!locals, Measure!Typed, Measure!Post
<1>1. ASSUME NEW ssid \in Measure!Names, Measure!Sta(ssid) \/ Measure!FtmOf(ssid)
        \/ Measure!ApRefused(ssid)
      PROVE  FtmApInv'
  BY <1>1 DEF Measure!Sta, Measure!FtmOf, Measure!ApRefused
<1>2. ASSUME NEW ssid \in Measure!Names, NEW pass \in Measure!Passwords,
        Measure!ApSet(ssid, pass)
      PROVE  FtmApInv'
  <2> DEFINE cut == IF wifi_link # "down"
        THEN Append(posted_events, Measure!On("DISCONNECTED")) ELSE posted_events
  <2>1. /\ wifi_mode' = "AP" /\ UNCHANGED g_ap_started /\ cut \in Seq(EventSet)
        /\ Measure!On("AP_START") \in EventSet /\ Measure!On("DISCONNECTED") \in EventSet
        /\ posted_events' = IF wifi_mode # "AP" THEN Append(cut, Measure!On("AP_START"))
             ELSE cut
    BY <1>2, SetModeAp DEF Measure!ApSet, FtmTypes, FtmQueueTypes
  <2>2. /\ Quiet(cut, ApKinds) <=> Quiet(posted_events, ApKinds)
        /\ \A e : Tells(cut, ApKinds, e) <=> Tells(posted_events, ApKinds, e)
    <3>1. CASE wifi_link = "down"
      BY <3>1
    <3>2. CASE wifi_link # "down"
      BY <2>1, <3>2, QueueAppend DEF FtmTypes, FtmQueueTypes, ApKinds, Measure!On
    <3> QED
      BY <3>1, <3>2
  <2> HIDE DEF cut
  <2>3. CASE wifi_mode = "AP"
    BY <2>1, <2>2, <2>3
  <2>4. CASE wifi_mode # "AP"
    <3>1. Measure!On("AP_START").kind = "AP_START"
      BY DEF Measure!On
    <3>2. ~Quiet(posted_events', ApKinds)
            /\ \A e : Tells(posted_events', ApKinds, e) <=> e = Measure!On("AP_START")
      BY <2>1, <2>4, <3>1, QueueAppend DEF ApKinds
    <3> QED
      BY <2>1, <3>1, <3>2
  <2> QED
    BY <2>3, <2>4
<1>3. CASE Measure!Scan
  <2>1. Measure!SetMode("STA") /\ UNCHANGED g_ap_started
    BY <1>3 DEF Measure!Scan, Measure!StartScan
  <2>2. wifi_mode' = "STA" /\ Measure!On("AP_STOP") \in EventSet
          /\ Measure!On("AP_STOP").kind = "AP_STOP"
    BY <2>1, SetModeSta DEF Measure!On
  <2>3. CASE wifi_mode = "AP"
    <3>0. /\ posted_events \in Seq(EventSet)
          /\ posted_events' = Append(posted_events, Measure!On("AP_STOP"))
          /\ Measure!On("AP_STOP").kind \in ApKinds
      BY <2>1, <2>2, <2>3, SetModeSta DEF FtmTypes, FtmQueueTypes, ApKinds
    <3>1. ~Quiet(posted_events', ApKinds)
            /\ \A e : Tells(posted_events', ApKinds, e) <=> e = Measure!On("AP_STOP")
      BY <2>2, <3>0, QueueAppend
    <3> QED
      BY <2>2, <3>1
  <2>4. CASE wifi_mode # "AP"
    BY <2>1, <2>2, <2>4, SetModeSta
  <2> QED
    BY <2>3, <2>4
<1>4. CASE Measure!JoinConnect
  <2>1. Measure!SetMode("STA") /\ UNCHANGED g_ap_started
    BY <1>4 DEF Measure!JoinConnect
  <2>2. wifi_mode' = "STA" /\ Measure!On("AP_STOP") \in EventSet
          /\ Measure!On("AP_STOP").kind = "AP_STOP"
    BY <2>1, SetModeSta DEF Measure!On
  <2>3. CASE wifi_mode = "AP"
    <3>0. /\ posted_events \in Seq(EventSet)
          /\ posted_events' = Append(posted_events, Measure!On("AP_STOP"))
          /\ Measure!On("AP_STOP").kind \in ApKinds
      BY <2>1, <2>2, <2>3, SetModeSta DEF FtmTypes, FtmQueueTypes, ApKinds
    <3>1. ~Quiet(posted_events', ApKinds)
            /\ \A e : Tells(posted_events', ApKinds, e) <=> e = Measure!On("AP_STOP")
      BY <2>2, <3>0, QueueAppend
    <3> QED
      BY <2>2, <3>1
  <2>4. CASE wifi_mode # "AP"
    BY <2>1, <2>2, <2>4, SetModeSta
  <2> QED
    BY <2>3, <2>4
<1>5. CASE Measure!Find
  <2>0. CASE UNCHANGED Measure!driver
    BY <1>5, <2>0 DEF Measure!Find
  <2> SUFFICES ASSUME Measure!StartScan("search"), UNCHANGED g_ap_started PROVE FtmApInv'
    BY <1>5, <2>0 DEF Measure!Find
  <2>1. Measure!SetMode("STA") /\ UNCHANGED g_ap_started
    BY DEF Measure!StartScan
  <2>2. wifi_mode' = "STA" /\ Measure!On("AP_STOP") \in EventSet
          /\ Measure!On("AP_STOP").kind = "AP_STOP"
    BY <2>1, SetModeSta DEF Measure!On
  <2>3. CASE wifi_mode = "AP"
    <3>0. /\ posted_events \in Seq(EventSet)
          /\ posted_events' = Append(posted_events, Measure!On("AP_STOP"))
          /\ Measure!On("AP_STOP").kind \in ApKinds
      BY <2>1, <2>2, <2>3, SetModeSta DEF FtmTypes, FtmQueueTypes, ApKinds
    <3>1. ~Quiet(posted_events', ApKinds)
            /\ \A e : Tells(posted_events', ApKinds, e) <=> e = Measure!On("AP_STOP")
      BY <2>2, <3>0, QueueAppend
    <3> QED
      BY <2>2, <3>1
  <2>4. CASE wifi_mode # "AP"
    BY <2>1, <2>2, <2>4, SetModeSta
  <2> QED
    BY <2>3, <2>4
<1>6. ASSUME NEW enable \in BOOLEAN, Measure!FtmOfLink \/ Measure!Responder(enable)
      PROVE  FtmApInv'
  BY <1>6 DEF Measure!FtmOfLink, Measure!Responder
<1>7. CASE Measure!Drop
  <2>1. UNCHANGED <<g_ap_started, wifi_mode>>
    BY <1>7 DEF Measure!Drop
  <2>2. posted_events' = posted_events
          \/ \E x \in EventSet : posted_events' = Append(posted_events, x)
               /\ x.kind \notin ApKinds
    BY <1>7 DEF Measure!Drop, FtmTypes, FtmNumberTypes, ApKinds, Measure!On, EventSet, Bssids
  <2>3. CASE posted_events' = posted_events
    BY <2>1, <2>3
  <2>4. ASSUME NEW x \in EventSet, posted_events'
          = Append(posted_events, x), x.kind \notin ApKinds PROVE FtmApInv'
    <3>1. /\ Quiet(posted_events', ApKinds) <=> Quiet(posted_events, ApKinds)
          /\ \A e : Tells(posted_events', ApKinds, e) <=> Tells(posted_events, ApKinds, e)
      BY <2>4, QueueAppend DEF FtmTypes, FtmQueueTypes
    <3> QED
      BY <2>1, <3>1
  <2> QED
    BY <2>2, <2>3, <2>4
<1>8. CASE Measure!Join \/ Measure!ScanDone \/ Measure!Match
  BY <1>8 DEF Measure!Join, Measure!ScanDone, Measure!Store, Measure!Match
<1>9. CASE Measure!Ask \/ Measure!Reported \/ Measure!Process
  BY <1>9 DEF Measure!Ask, Measure!Reported, Measure!Taken, Measure!Process
<1>10. CASE Measure!Restart
  <2>1. /\ Quiet(posted_events', ApKinds) /\ \A e : ~Tells(posted_events', ApKinds, e)
    BY <1>10, EmptyQueue DEF Measure!Restart
  <2> HIDE DEF Quiet, Tells
  <2> QED
    BY <1>10, <2>1 DEF Measure!Restart
<1>11. CASE Measure!event_handler
  <2> DEFINE x == Head(posted_events)
  <2>1. /\ posted_events' = Tail(posted_events) /\ posted_events # <<>>
        /\ wifi_mode' = wifi_mode /\ x \in EventSet
        /\ Measure!OnConnected(x) \/ Measure!OnDisconnected(x) \/ Measure!OnReport(x)
             \/ Measure!OnAp(x)
    BY <1>11, QueueTail DEF Measure!event_handler, FtmTypes, FtmQueueTypes
  <2> HIDE DEF x
  <2>2. /\ \A e : Tells(posted_events', ApKinds, e) => Tells(posted_events, ApKinds, e)
        /\ Quiet(posted_events', ApKinds) => IF x.kind \in ApKinds
             THEN Tells(posted_events, ApKinds, x) ELSE Quiet(posted_events, ApKinds)
    BY <2>1, QueueTail DEF FtmTypes, FtmQueueTypes, x
  <2>3. CASE Measure!OnConnected(x)
    BY <2>1, <2>2, <2>3 DEF Measure!OnConnected, ApKinds
  <2>4. CASE Measure!OnDisconnected(x)
    BY <2>1, <2>2, <2>4 DEF Measure!OnDisconnected, ApKinds
  <2>5. CASE Measure!OnReport(x)
    BY <2>1, <2>2, <2>5 DEF Measure!OnReport, ApKinds
  <2>6. CASE Measure!OnAp(x)
    BY <2>1, <2>2, <2>6 DEF Measure!OnAp, ApKinds
  <2> QED
    BY <2>1, <2>3, <2>4, <2>5, <2>6
<1>12. CASE Measure!Associate
  <2>1. UNCHANGED <<g_ap_started, wifi_mode>>
    BY <1>12 DEF Measure!Associate
  <2>2. posted_events' = posted_events
          \/ \E x \in EventSet : posted_events' = Append(posted_events, x)
               /\ x.kind \notin ApKinds
    BY <1>12 DEF Measure!Associate, FtmTypes, FtmNumberTypes, ApKinds, Measure!On, EventSet,
          Bssids
  <2>3. CASE posted_events' = posted_events
    BY <2>1, <2>3
  <2>4. ASSUME NEW x \in EventSet, posted_events'
          = Append(posted_events, x), x.kind \notin ApKinds PROVE FtmApInv'
    <3>1. /\ Quiet(posted_events', ApKinds) <=> Quiet(posted_events, ApKinds)
          /\ \A e : Tells(posted_events', ApKinds, e) <=> Tells(posted_events, ApKinds, e)
      BY <2>4, QueueAppend DEF FtmTypes, FtmQueueTypes
    <3> QED
      BY <2>1, <3>1
  <2> QED
    BY <2>2, <2>3, <2>4
<1>13. CASE Measure!Lose
  <2>1. UNCHANGED <<g_ap_started, wifi_mode>>
    BY <1>13 DEF Measure!Lose
  <2>2. posted_events' = posted_events
          \/ \E x \in EventSet : posted_events' = Append(posted_events, x)
               /\ x.kind \notin ApKinds
    BY <1>13 DEF Measure!Lose, FtmTypes, FtmNumberTypes, ApKinds, Measure!On, EventSet, Bssids
  <2>3. CASE posted_events' = posted_events
    BY <2>1, <2>3
  <2>4. ASSUME NEW x \in EventSet, posted_events'
          = Append(posted_events, x), x.kind \notin ApKinds PROVE FtmApInv'
    <3>1. /\ Quiet(posted_events', ApKinds) <=> Quiet(posted_events, ApKinds)
          /\ \A e : Tells(posted_events', ApKinds, e) <=> Tells(posted_events, ApKinds, e)
      BY <2>4, QueueAppend DEF FtmTypes, FtmQueueTypes
    <3> QED
      BY <2>1, <3>1
  <2> QED
    BY <2>2, <2>3, <2>4
<1>14. CASE Measure!Measured
  <2>1. UNCHANGED <<g_ap_started, wifi_mode>>
    BY <1>14 DEF Measure!Measured
  <2>2. PICK x : posted_events' = Append(posted_events, x) /\ x \in EventSet
          /\ x.kind \in EndKinds
    BY <1>14 DEF Measure!Measured, Measure!On, EventSet, FtmTypes, FtmNumberTypes, EndKinds
  <2>3. /\ Quiet(posted_events', ApKinds) <=> Quiet(posted_events, ApKinds)
        /\ \A e : Tells(posted_events', ApKinds, e) <=> Tells(posted_events, ApKinds, e)
    BY <2>2, QueueAppend DEF FtmTypes, FtmQueueTypes, ApKinds, EndKinds
  <2> QED
    BY <2>1, <2>3
<1>15. CASE UNCHANGED Measure!vars
  BY <1>15 DEF Measure!vars
<1> QED
  BY <1>1, <1>2, <1>3, <1>4, <1>5, <1>6, <1>7, <1>8, <1>9, <1>10, <1>11, <1>12, <1>13, <1>14,
     <1>15 DEF Measure!Next, Measure!Command, Measure!Console

LEMMA FtmListStep == FtmListInv /\ [Measure!Next]_Measure!vars => FtmListInv'
<1> SUFFICES ASSUME FtmListInv, [Measure!Next]_Measure!vars PROVE FtmListInv'
  OBVIOUS
<1> USE FtmNumbers DEF FtmListInv, Measure!flags, Measure!soft, Measure!list, Measure!driver,
      Measure!ftm, Measure!locals, Measure!Typed
<1>1. ASSUME NEW ssid \in Measure!Names, Measure!Sta(ssid) \/ Measure!FtmOf(ssid)
        \/ Measure!ApRefused(ssid)
      PROVE  FtmListInv'
  BY <1>1 DEF Measure!Sta, Measure!FtmOf, Measure!ApRefused
<1>2. ASSUME NEW ssid \in Measure!Names, NEW pass \in Measure!Passwords,
        Measure!ApSet(ssid, pass)
      PROVE  FtmListInv'
  BY <1>2 DEF Measure!ApSet, Measure!Passwords
<1>3. CASE Measure!Scan
  BY <1>3 DEF Measure!Scan, Measure!StartScan
<1>4. CASE Measure!JoinConnect
  BY <1>4 DEF Measure!JoinConnect
<1>5. CASE Measure!Find
  BY <1>5 DEF Measure!Find, Measure!StartScan
<1>6. ASSUME NEW enable \in BOOLEAN, Measure!FtmOfLink \/ Measure!Responder(enable)
      PROVE  FtmListInv'
  BY <1>6 DEF Measure!FtmOfLink, Measure!Responder
<1>7. CASE Measure!Drop
  BY <1>7 DEF Measure!Drop
<1>8. CASE Measure!Join \/ Measure!ScanDone \/ Measure!Match
  <2>1. CASE Measure!Join
    BY <2>1 DEF Measure!Join
  <2>2. CASE Measure!ScanDone
    <3>1. PICK n, records : /\ Len(records) = n /\ n \in Nat /\ Measure!Store(n, records)
      <4>1. PICK S \in SUBSET Measure!Heard :
              \/ Measure!Store(Len(Measure!SetToSeq(S)), Measure!SetToSeq(S))
              \/ Measure!Store(Len(Measure!SetToSeq(S)),
                   [k \in 1 .. Len(Measure!SetToSeq(S)) |-> Measure!Garbage])
        BY <2>2 DEF Measure!ScanDone
      <4>2. Measure!SetToSeq(S) \in Seq(S)
        BY SetToSeqIs DEF Measure!Heard
      <4>3. Len(Measure!SetToSeq(S)) \in Nat
        BY <4>2
      <4>4. Len([k \in 1 .. Len(Measure!SetToSeq(S)) |-> Measure!Garbage])
              = Len(Measure!SetToSeq(S))
        BY <4>3
      <4> QED
        BY <4>1, <4>3, <4>4
    <3>2. /\ g_scan_ap_num' = n
          /\ \/ n = 0 /\ UNCHANGED g_ap_list_buffer
             \/ g_ap_list_buffer' \in {Absent, records}
      BY <3>1 DEF Measure!Store
    <3>3. console' = "match" => g_ap_list_buffer' # Absent
      BY <2>2 DEF Measure!ScanDone
    <3> QED
      BY <3>1, <3>2, <3>3
  <2>3. CASE Measure!Match
    BY <2>3 DEF Measure!Match
  <2> QED
    BY <1>8, <2>1, <2>2, <2>3
<1>9. CASE Measure!Ask \/ Measure!Reported \/ Measure!Process
  BY <1>9 DEF Measure!Ask, Measure!Reported, Measure!Taken, Measure!Process
<1>10. CASE Measure!Restart
  BY <1>10 DEF Measure!Restart
<1>11. CASE Measure!event_handler
  BY <1>11 DEF Measure!event_handler, Measure!OnConnected, Measure!OnDisconnected,
        Measure!OnReport, Measure!OnAp, Measure!Disconnected
<1>12. CASE Measure!Associate
  BY <1>12 DEF Measure!Associate
<1>13. CASE Measure!Lose
  BY <1>13 DEF Measure!Lose
<1>14. CASE Measure!Measured
  BY <1>14 DEF Measure!Measured
<1>15. CASE UNCHANGED Measure!vars
  BY <1>15 DEF Measure!vars
<1> QED
  BY <1>1, <1>2, <1>3, <1>4, <1>5, <1>6, <1>7, <1>8, <1>9, <1>10, <1>11, <1>12, <1>13, <1>14,
     <1>15 DEF Measure!Next, Measure!Command, Measure!Console

LEMMA FtmPassStep == FtmPassInv /\ [Measure!Next]_Measure!vars => FtmPassInv'
<1> SUFFICES ASSUME FtmPassInv, [Measure!Next]_Measure!vars PROVE FtmPassInv'
  OBVIOUS
<1> USE FtmNumbers DEF FtmPassInv, Measure!flags, Measure!soft, Measure!list, Measure!driver,
      Measure!ftm, Measure!locals, Measure!Typed
<1>1. ASSUME NEW ssid \in Measure!Names, Measure!Sta(ssid) \/ Measure!FtmOf(ssid)
        \/ Measure!ApRefused(ssid)
      PROVE  FtmPassInv'
  BY <1>1 DEF Measure!Sta, Measure!FtmOf, Measure!ApRefused
<1>2. ASSUME NEW ssid \in Measure!Names, NEW pass \in Measure!Passwords,
        Measure!ApSet(ssid, pass)
      PROVE  FtmPassInv'
  BY <1>2 DEF Measure!ApSet, Measure!Passwords
<1>3. CASE Measure!Scan
  BY <1>3 DEF Measure!Scan, Measure!StartScan
<1>4. CASE Measure!JoinConnect
  BY <1>4 DEF Measure!JoinConnect
<1>5. CASE Measure!Find
  BY <1>5 DEF Measure!Find, Measure!StartScan
<1>6. ASSUME NEW enable \in BOOLEAN, Measure!FtmOfLink \/ Measure!Responder(enable)
      PROVE  FtmPassInv'
  BY <1>6 DEF Measure!FtmOfLink, Measure!Responder
<1>7. CASE Measure!Drop
  BY <1>7 DEF Measure!Drop
<1>8. CASE Measure!Join \/ Measure!ScanDone \/ Measure!Match
  BY <1>8 DEF Measure!Join, Measure!ScanDone, Measure!Store, Measure!Match
<1>9. CASE Measure!Ask \/ Measure!Reported \/ Measure!Process
  BY <1>9 DEF Measure!Ask, Measure!Reported, Measure!Taken, Measure!Process
<1>10. CASE Measure!Restart
  BY <1>10 DEF Measure!Restart
<1>11. CASE Measure!event_handler
  BY <1>11 DEF Measure!event_handler, Measure!OnConnected, Measure!OnDisconnected,
        Measure!OnReport, Measure!OnAp, Measure!Disconnected
<1>12. CASE Measure!Associate
  BY <1>12 DEF Measure!Associate
<1>13. CASE Measure!Lose
  BY <1>13 DEF Measure!Lose
<1>14. CASE Measure!Measured
  BY <1>14 DEF Measure!Measured
<1>15. CASE UNCHANGED Measure!vars
  BY <1>15 DEF Measure!vars
<1> QED
  BY <1>1, <1>2, <1>3, <1>4, <1>5, <1>6, <1>7, <1>8, <1>9, <1>10, <1>11, <1>12, <1>13, <1>14,
     <1>15 DEF Measure!Next, Measure!Command, Measure!Console

(* Steps that do not take part in a measurement.                           *)
Apart ==
  /\ Quiet(posted_events, EndKinds) => Quiet(posted_events', EndKinds)
  /\ \A e \in EventSet : Only(posted_events, EndKinds, e) => Only(posted_events', EndKinds, e)
Outside ==
  /\ UNCHANGED <<g_ftm_report, measuring, ftm_session, leaks>>
  /\ group_bits' \cap Measure!FtmBits = group_bits \cap Measure!FtmBits
  /\ console' = console
       \/ (console \notin {"wait", "process"} /\ console' \notin {"wait", "process"})

LEMMA SessionStays == Apart /\ Outside /\ FtmSessionInv => FtmSessionInv'
  BY DEF Apart, Outside, FtmSessionInv

LEMMA ApartAppend ==
  ASSUME FtmTypes, NEW x \in EventSet, posted_events'
    = Append(posted_events, x), x.kind \notin EndKinds
  PROVE  Apart
  BY QueueAppend DEF Apart, FtmTypes, FtmQueueTypes

LEMMA FtmSessionStep ==
  FtmTypes /\ FtmSessionInv /\ [Measure!Next]_Measure!vars => FtmSessionInv'
<1> SUFFICES ASSUME FtmTypes, FtmSessionInv, [Measure!Next]_Measure!vars PROVE FtmSessionInv'
  OBVIOUS
<1> USE FtmNumbers DEF Measure!flags, Measure!soft, Measure!list, Measure!driver, Measure!ftm,
      Measure!locals, Measure!Typed, Measure!Post
<1>1. ASSUME NEW ssid \in Measure!Names, Measure!Sta(ssid) \/ Measure!FtmOf(ssid)
        \/ Measure!ApRefused(ssid)
      PROVE  FtmSessionInv'
  <2>1. Outside /\ posted_events' = posted_events
    BY <1>1 DEF Outside, Measure!FtmBits, Measure!Passwords, Measure!Sta, Measure!FtmOf,
          Measure!ApRefused
  <2>2. Apart
    BY <2>1 DEF Apart
  <2> QED
    BY <2>1, <2>2, SessionStays
<1>2. ASSUME NEW ssid \in Measure!Names, NEW pass \in Measure!Passwords,
        Measure!ApSet(ssid, pass)
      PROVE  FtmSessionInv'
  <2> DEFINE cut == IF wifi_link # "down"
        THEN Append(posted_events, Measure!On("DISCONNECTED")) ELSE posted_events
  <2>1. /\ cut \in Seq(EventSet) /\ Outside
        /\ Measure!On("AP_START") \in EventSet /\ Measure!On("DISCONNECTED") \in EventSet
        /\ posted_events' = IF wifi_mode # "AP" THEN Append(cut, Measure!On("AP_START"))
             ELSE cut
    BY <1>2, SetModeAp DEF Measure!ApSet, FtmTypes, FtmQueueTypes, Outside
  <2>2. Measure!On("DISCONNECTED").kind \notin EndKinds
          /\ Measure!On("AP_START").kind \notin EndKinds
    BY DEF Measure!On, EndKinds
  <2>3. /\ Quiet(posted_events, EndKinds) => Quiet(cut, EndKinds)
        /\ \A e \in EventSet : Only(posted_events, EndKinds, e) => Only(cut, EndKinds, e)
    <3>1. CASE wifi_link = "down"
      BY <3>1
    <3>2. CASE wifi_link # "down"
      <4>1. posted_events \in Seq(EventSet)
        BY DEF FtmTypes, FtmQueueTypes
      <4> QED
        BY <2>1, <2>2, <3>2, <4>1, QueueAppend
    <3> QED
      BY <3>1, <3>2
  <2> HIDE DEF cut
  <2>4. Apart
    <3>1. CASE wifi_mode = "AP"
      BY <2>1, <2>3, <3>1 DEF Apart
    <3>2. CASE wifi_mode # "AP"
      BY <2>1, <2>2, <2>3, <3>2, QueueAppend DEF Apart
    <3> QED
      BY <3>1, <3>2
  <2> QED
    BY <2>1, <2>4, SessionStays
<1>3. CASE Measure!Scan
  <2>1. Measure!SetMode("STA") /\ Outside
    BY <1>3 DEF Outside, Measure!Scan, Measure!StartScan
  <2>2. Measure!On("AP_STOP") \in EventSet /\ Measure!On("AP_STOP").kind \notin EndKinds
    BY DEF Measure!On, EventSet, ApKinds, EndKinds
  <2>3. Apart
    <3>1. CASE wifi_mode = "AP"
      BY <2>1, <2>2, <3>1, SetModeSta, ApartAppend
    <3>2. CASE wifi_mode # "AP"
      BY <2>1, <3>2, SetModeSta DEF Apart
    <3> QED
      BY <3>1, <3>2
  <2> QED
    BY <2>1, <2>3, SessionStays
<1>4. CASE Measure!JoinConnect
  <2>1. Measure!SetMode("STA") /\ Outside
    BY <1>4 DEF Outside, Measure!JoinConnect
  <2>2. Measure!On("AP_STOP") \in EventSet /\ Measure!On("AP_STOP").kind \notin EndKinds
    BY DEF Measure!On, EventSet, ApKinds, EndKinds
  <2>3. Apart
    <3>1. CASE wifi_mode = "AP"
      BY <2>1, <2>2, <3>1, SetModeSta, ApartAppend
    <3>2. CASE wifi_mode # "AP"
      BY <2>1, <3>2, SetModeSta DEF Apart
    <3> QED
      BY <3>1, <3>2
  <2> QED
    BY <2>1, <2>3, SessionStays
<1>5. CASE Measure!Find
  <2>0. CASE UNCHANGED Measure!driver
    <3>1. Outside /\ posted_events' = posted_events
      BY <1>5, <2>0 DEF Outside, Measure!FtmBits, Measure!Passwords, Measure!Find,
            Measure!StartScan
    <3>2. Apart
      BY <3>1 DEF Apart
    <3> QED
      BY <3>1, <3>2, SessionStays
  <2> SUFFICES ASSUME Measure!StartScan("search"), Outside PROVE FtmSessionInv'
    BY <1>5, <2>0 DEF Measure!Find, Measure!StartScan, Outside
  <2>1. Measure!SetMode("STA") /\ Outside
    BY DEF Measure!StartScan
  <2>2. Measure!On("AP_STOP") \in EventSet /\ Measure!On("AP_STOP").kind \notin EndKinds
    BY DEF Measure!On, EventSet, ApKinds, EndKinds
  <2>3. Apart
    <3>1. CASE wifi_mode = "AP"
      BY <2>1, <2>2, <3>1, SetModeSta, ApartAppend
    <3>2. CASE wifi_mode # "AP"
      BY <2>1, <3>2, SetModeSta DEF Apart
    <3> QED
      BY <3>1, <3>2
  <2> QED
    BY <2>1, <2>3, SessionStays
<1>6. ASSUME NEW enable \in BOOLEAN, Measure!FtmOfLink \/ Measure!Responder(enable)
      PROVE  FtmSessionInv'
  <2>1. Outside /\ posted_events' = posted_events
    BY <1>6 DEF Outside, Measure!FtmBits, Measure!Passwords, Measure!FtmOfLink,
          Measure!Responder
  <2>2. Apart
    BY <2>1 DEF Apart
  <2> QED
    BY <2>1, <2>2, SessionStays
<1>7. CASE Measure!Drop
  <2>1. Outside
    BY <1>7 DEF Outside, Measure!Drop
  <2>2. posted_events' = posted_events \/ \E x \in EventSet : posted_events'
          = Append(posted_events, x) /\ x.kind \notin EndKinds
    BY <1>7 DEF Measure!Drop, EndKinds, Measure!On, EventSet, Bssids
  <2>3. Apart
    BY <2>2, ApartAppend DEF Apart
  <2> QED
    BY <2>1, <2>3, SessionStays
<1>8. CASE Measure!Join \/ Measure!ScanDone \/ Measure!Match
  <2>1. Outside /\ posted_events' = posted_events
    BY <1>8 DEF Outside, Measure!FtmBits, Measure!Passwords, Measure!Join, Measure!ScanDone,
          Measure!Store, Measure!Match
  <2>2. Apart
    BY <2>1 DEF Apart
  <2> QED
    BY <2>1, <2>2, SessionStays
<1>9. CASE Measure!Ask \/ Measure!Reported \/ Measure!Process
  <2>1. posted_events' = posted_events
          /\ Quiet(posted_events', EndKinds) = Quiet(posted_events, EndKinds)
    BY <1>9 DEF Measure!Ask, Measure!Reported, Measure!Process
  <2>2. CASE Measure!Ask
    BY <2>1, <2>2 DEF Measure!Ask, FtmSessionInv, FtmTypes, FtmNumberTypes
  <2>3. CASE Measure!Reported
    BY <2>1, <2>3 DEF Measure!Reported, Measure!Taken, FtmSessionInv, Measure!FtmBits
  <2>4. CASE Measure!Process
    BY <2>1, <2>4 DEF Measure!Process, FtmSessionInv
  <2> QED
    BY <1>9, <2>2, <2>3, <2>4
<1>10. CASE Measure!Restart
  <2>1. Quiet(posted_events', EndKinds)
    BY <1>10, EmptyQueue DEF Measure!Restart
  <2> QED
    BY <1>10, <2>1 DEF Measure!Restart, FtmSessionInv
<1>11. CASE Measure!event_handler
  <2> DEFINE x == Head(posted_events)
  <2>1. /\ posted_events' = Tail(posted_events) /\ posted_events # <<>> /\ x \in EventSet
        /\ UNCHANGED <<measuring, ftm_session, console, leaks>>
        /\ Measure!OnConnected(x) \/ Measure!OnDisconnected(x) \/ Measure!OnReport(x)
             \/ Measure!OnAp(x)
    BY <1>11, QueueTail DEF Measure!event_handler, FtmTypes, FtmQueueTypes
  <2> HIDE DEF x
  <2>2. /\ Quiet(posted_events, EndKinds)
             => Quiet(posted_events', EndKinds) /\ x.kind \notin EndKinds
        /\ \A e : Only(posted_events, EndKinds, e)
             => IF x.kind \in EndKinds THEN e = x /\ Quiet(posted_events', EndKinds)
                                      ELSE Only(posted_events', EndKinds, e)
    BY <2>1, QueueTail DEF FtmTypes, FtmQueueTypes, x
  <2>3. ASSUME Measure!OnConnected(x) \/ Measure!OnDisconnected(x) \/ Measure!OnAp(x)
        PROVE FtmSessionInv'
    <3>1. Outside /\ x.kind \notin EndKinds
      BY <2>1, <2>3 DEF Measure!OnConnected, Measure!OnDisconnected, Measure!OnAp,
            Measure!Disconnected, Outside, EndKinds, Measure!FtmBits
    <3>2. Apart
      BY <2>2, <3>1 DEF Apart
    <3> QED
      BY <3>1, <3>2, SessionStays
  <2>4. CASE Measure!OnReport(x)
    <3>1. x.kind \in EndKinds
      BY <2>4 DEF Measure!OnReport, EndKinds
    <3>2. /\ console = "wait" /\ measuring = 0 /\ group_bits \cap Measure!FtmBits = {}
          /\ g_ftm_report = Absent
          /\ Leveled => leaks = 0
          /\ Quiet(posted_events', EndKinds) /\ (x.kind = "REPORT" => x.of = ftm_session)
      BY <2>2, <3>1 DEF FtmSessionInv
    <3>3. CASE x.kind = "REPORT"
      <4>1. group_bits' \cap Measure!FtmBits = {"FTM_REPORT"} /\ g_ftm_report' = ftm_session
        BY <2>4, <3>2, <3>3 DEF Measure!OnReport, Measure!FtmBits
      <4> QED
        BY <2>1, <3>2, <4>1 DEF FtmSessionInv
    <3>4. CASE x.kind = "FAILURE"
      <4>1. group_bits' \cap Measure!FtmBits = {"FTM_FAILURE"} /\ g_ftm_report' = Absent
        BY <2>4, <3>2, <3>4 DEF Measure!OnReport, Measure!FtmBits
      <4> QED
        BY <2>1, <3>2, <4>1 DEF FtmSessionInv
    <3> QED
      BY <3>1, <3>3, <3>4 DEF EndKinds
  <2> QED
    BY <2>1, <2>3, <2>4
<1>12. CASE Measure!Associate
  <2>1. Outside
    BY <1>12 DEF Outside, Measure!Associate
  <2>2. posted_events' = posted_events \/ \E x \in EventSet : posted_events'
          = Append(posted_events, x) /\ x.kind \notin EndKinds
    BY <1>12 DEF Measure!Associate, EndKinds, Measure!On, EventSet, Bssids
  <2>3. Apart
    BY <2>2, ApartAppend DEF Apart
  <2> QED
    BY <2>1, <2>3, SessionStays
<1>13. CASE Measure!Lose
  <2>1. Outside
    BY <1>13 DEF Outside, Measure!Lose
  <2>2. posted_events' = posted_events \/ \E x \in EventSet : posted_events'
          = Append(posted_events, x) /\ x.kind \notin EndKinds
    BY <1>13 DEF Measure!Lose, EndKinds, Measure!On, EventSet, Bssids
  <2>3. Apart
    BY <2>2, ApartAppend DEF Apart
  <2> QED
    BY <2>1, <2>3, SessionStays
<1>14. CASE Measure!Measured
  <2>1. /\ measuring = ftm_session /\ console = "wait" /\ Quiet(posted_events, EndKinds)
        /\ measuring' = 0
        /\ group_bits \cap Measure!FtmBits = {} /\ g_ftm_report = Absent
        /\ Leveled => leaks = 0
        /\ UNCHANGED <<group_bits, g_ftm_report, ftm_session, console, leaks>>
    BY <1>14 DEF Measure!Measured, FtmSessionInv
  <2>2. PICK x \in EventSet : /\ posted_events' = Append(posted_events, x)
                              /\ x.kind \in EndKinds
                              /\ x.kind = "REPORT" => x.of = ftm_session
    <3>1. /\ Measure!On("FAILURE") \in EventSet /\ Measure!On("FAILURE").kind = "FAILURE"
          /\ [kind |-> "REPORT", of |-> measuring] \in EventSet
      BY DEF Measure!On, EventSet, FtmTypes, FtmNumberTypes
    <3> QED
      BY <1>14, <2>1, <3>1 DEF Measure!Measured, EndKinds
  <2>3. Only(posted_events', EndKinds, x)
    BY <2>1, <2>2, QueueAppend DEF FtmTypes, FtmQueueTypes
  <2>4. \E e \in EventSet : Only(posted_events', EndKinds, e)
          /\ (e.kind = "REPORT" => e.of = ftm_session')
    BY <2>1, <2>2, <2>3
  <2>5. /\ console' = "wait" /\ measuring' = 0 /\ group_bits' \cap Measure!FtmBits = {}
        /\ g_ftm_report' = Absent
        /\ Leveled => leaks' = 0
    BY <2>1
  <2> QED
    BY <2>4, <2>5 DEF FtmSessionInv, Measure!FtmBits
<1>15. CASE UNCHANGED Measure!vars
  <2>1. Outside /\ posted_events' = posted_events
    BY <1>15 DEF Outside, Measure!FtmBits, Measure!Passwords, Measure!vars
  <2>2. Apart
    BY <2>1 DEF Apart
  <2> QED
    BY <2>1, <2>2, SessionStays
<1> QED
  BY <1>1, <1>2, <1>3, <1>4, <1>5, <1>6, <1>7, <1>8, <1>9, <1>10, <1>11, <1>12, <1>13, <1>14,
     <1>15 DEF Measure!Next, Measure!Command, Measure!Console

FtmInv == FtmTypes /\ FtmLinkInv /\ FtmApInv /\ FtmSessionInv /\ FtmListInv /\ FtmPassInv

LEMMA FtmInit == Measure!Init => FtmInv
<1> SUFFICES ASSUME Measure!Init PROVE FtmInv
  OBVIOUS
<1>1. FtmLinkTypes /\ FtmNameTypes
  BY DEF Measure!Init, FtmLinkTypes, FtmNameTypes
<1>2. FtmFlagTypes
  BY DEF Measure!Init, FtmFlagTypes
<1>3. FtmNumberTypes /\ FtmQueueTypes
  BY FtmNumbers DEF Measure!Init, FtmNumberTypes, FtmQueueTypes
<1>4. posted_events = <<>> /\ \A K : Quiet(posted_events, K)
        /\ \A e : ~Tells(posted_events, K, e)
  BY EmptyQueue DEF Measure!Init
<1> HIDE DEF Quiet, Tells
<1>5. FtmLinkInv /\ FtmApInv
  BY <1>4 DEF Measure!Init, FtmLinkInv, FtmApInv, Measure!Up
<1>6. FtmSessionInv
  BY <1>4 DEF Measure!Init, FtmSessionInv
<1>7. FtmListInv /\ FtmPassInv
  BY DEF Measure!Init, FtmListInv, FtmPassInv
<1> QED
  BY <1>1, <1>2, <1>3, <1>5, <1>6, <1>7 DEF FtmInv, FtmTypes

LEMMA FtmSuffices == FtmInv => Measure!TypeOK /\ Measure!FtmIsSound
<1> SUFFICES ASSUME FtmInv PROVE Measure!TypeOK /\ Measure!FtmIsSound
  OBVIOUS
<1>1. Measure!TypeOK
  <2>1. {s_reconnect, g_ap_started, wasOpen, retry_scan} \subseteq BOOLEAN
    BY DEF FtmInv, FtmTypes, FtmFlagTypes
  <2> QED
    BY <2>1 DEF FtmInv, FtmTypes, FtmLinkTypes, FtmNameTypes, FtmFlagTypes, FtmNumberTypes,
          FtmListInv, Measure!TypeOK, LinkKinds, Bssids
<1>2. Measure!EventsTellLink
  <2>1. posted_events = <<>> => Quiet(posted_events, LinkKinds) /\ Quiet(posted_events, ApKinds)
    BY EmptyQueue
  <2> QED
    BY <2>1 DEF FtmInv, FtmLinkInv, FtmApInv, Measure!EventsTellLink
<1>3. Measure!ReportIsOwn
  BY DEF FtmInv, FtmSessionInv, Measure!ReportIsOwn
<1>4. Measure!ListIsReadable
  BY DEF FtmInv, FtmListInv, Measure!ListIsReadable
<1>5. Measure!PasswordProtects
  BY DEF FtmInv, FtmPassInv, Measure!PasswordProtects
<1>6. Measure!RetriesAreFew
  BY DEF FtmInv, FtmTypes, FtmNumberTypes, Measure!RetriesAreFew
<1> QED
  BY <1>1, <1>2, <1>3, <1>4, <1>5, <1>6 DEF Measure!FtmIsSound

(* For any access points in the air: once the events are handled the bits  *)
(* and the globals tell the link and the own access point, a report is of  *)
(* the session that waits for it, the list has the entries that are read,  *)
(* a password protects, and a link is tried again a limited number of times*)
THEOREM FtmHolds == Measure!Spec => [](Measure!TypeOK /\ Measure!FtmIsSound)
<1>1. FtmTypes /\ [Measure!Next]_Measure!vars => FtmTypes'
  BY FtmLinkTypesStep, FtmNameTypesStep, FtmFlagTypesStep, FtmNumberTypesStep, FtmQueueTypesStep
    DEF FtmTypes
<1>2. FtmInv /\ [Measure!Next]_Measure!vars => FtmInv'
  BY <1>1, FtmLinkStep, FtmApStep, FtmSessionStep, FtmListStep, FtmPassStep DEF FtmInv
<1> QED
  BY <1>2, FtmInit, FtmSuffices, PTL DEF Measure!Spec

-----------------------------------------------------------------------------
(* The throughput example: console, event task and driver.                 *)

IperfEvents == {"GOT_IP", "DISCONNECTED"}
IperfQueued ==
  ip_events \in Seq(IperfEvents) /\ (prompt = "source" => options \in Throughput!Options)
IperfTypes == Throughput!TypeOK /\ IperfQueued
Waits(kind) == \E k \in 1 .. Len(ip_events) : ip_events[k] = kind

(* The last event that waits tells the link; without one, the bit does.    *)
IperfEventInv ==
  /\ ip_events # <<>> => (ip_events[Len(ip_events)] = "GOT_IP" <=> ip_link = "addressed")
  /\ ip_events = <<>> => /\ "CONNECTED" \in ip_bits => ip_link = "addressed"
                         /\ prompt # "drop" /\ ip_link = "addressed" => "CONNECTED" \in ip_bits
  /\ ~("CONNECTED" \in ip_bits /\ "DISCONNECTED" \in ip_bits)

IperfTryInv ==
  /\ wants => ip_mode = "STA"
  /\ prompt = "connect" => reconnect
  /\ wants /\ prompt \notin {"drop", "join", "password"} => reconnect
  /\ wants /\ ~missed /\ prompt \notin {"drop", "join", "connect"} /\ ~Waits("DISCONNECTED")
       => ip_link # "down"

LEMMA IperfNumbers ==
  Seconds \subseteq Nat /\ DefaultInterval \in Nat \ {0} /\ DefaultTime \in Nat
  BY ProgramsAssumption DEF Throughput!TimesOK

LEMMA HeadIsFirst == ASSUME NEW T, NEW s \in Seq(T), s # <<>> PROVE Head(s) = s[1]
  OBVIOUS

(* The queue of events after its first one has been handled.               *)
LEMMA FirstHandled ==
  ASSUME ip_events \in Seq(IperfEvents), ip_events # <<>>, ip_events' = Tail(ip_events)
  PROVE  /\ ip_events' \in Seq(IperfEvents)
         /\ ip_events' # <<>> => ip_events'[Len(ip_events')] = ip_events[Len(ip_events)]
         /\ ip_events' = <<>> => Head(ip_events) = ip_events[Len(ip_events)]
         /\ \A k \in 2 .. Len(ip_events) : k - 1 \in 1 .. Len(ip_events')
              /\ ip_events'[k - 1] = ip_events[k]
         /\ Head(ip_events) = ip_events[1]
<1>1. Len(ip_events) \in Nat \ {0} /\ Len(ip_events') = Len(ip_events) - 1
        /\ ip_events' \in Seq(IperfEvents)
  OBVIOUS
<1>2. \A k \in 1 .. Len(ip_events') : ip_events'[k] = ip_events[k + 1]
  OBVIOUS
<1>3. Head(ip_events) = ip_events[1] /\ (ip_events' = <<>> <=> Len(ip_events') = 0)
  <2>1. Head(ip_events) = ip_events[1]
    BY HeadIsFirst
  <2>2. ip_events' = <<>> <=> Len(ip_events') = 0
    BY <1>1, EmptySeq
  <2> QED
    BY <2>1, <2>2
<1>4. \A k \in 2 .. Len(ip_events) : k - 1 \in 1 .. Len(ip_events')
        /\ ip_events'[k - 1] = ip_events[k]
  <2> SUFFICES ASSUME NEW k \in 2 .. Len(ip_events)
               PROVE  k - 1 \in 1 .. Len(ip_events') /\ ip_events'[k - 1] = ip_events[k]
    OBVIOUS
  <2>1. k - 1 \in 1 .. Len(ip_events') /\ (k - 1) + 1 = k
    BY <1>1
  <2> QED
    BY <1>2, <2>1
<1>5. ip_events' # <<>> => ip_events'[Len(ip_events')] = ip_events[Len(ip_events)]
  <2> SUFFICES ASSUME ip_events' # <<>>
      PROVE ip_events'[Len(ip_events')] = ip_events[Len(ip_events)]
    OBVIOUS
  <2>1. Len(ip_events) \in 2 .. Len(ip_events)
    BY <1>1, <1>3
  <2> QED
    BY <1>1, <1>4, <2>1
<1>6. ip_events' = <<>> => Len(ip_events) = 1
  BY <1>1, <1>3
<1> QED
  BY <1>1, <1>3, <1>4, <1>5, <1>6

LEMMA IperfTypesStep ==
  Throughput!TypeOK /\ [Throughput!Next]_Throughput!vars => Throughput!TypeOK'
<1> SUFFICES ASSUME Throughput!TypeOK, [Throughput!Next]_Throughput!vars
    PROVE Throughput!TypeOK'
  OBVIOUS
<1> USE IperfNumbers DEF Throughput!driver, Throughput!console, Throughput!Connect,
      Throughput!Break, Throughput!Typed, Throughput!TypeOK
<1>1. CASE Throughput!Join \/ Throughput!GetAddress \/ Throughput!Lose
  BY <1>1 DEF Throughput!Join, Throughput!GetAddress, Throughput!Lose
<1>2. CASE Throughput!got_ip_handler
  BY <1>2 DEF Throughput!got_ip_handler
<1>3. CASE Throughput!disconnect_handler
  BY <1>3 DEF Throughput!disconnect_handler
<1>4. CASE Throughput!Sta \/ Throughput!Forget \/ Throughput!Drop \/ Throughput!Reconnect
        \/ Throughput!StaConnect
  BY <1>4 DEF Throughput!Sta, Throughput!Forget, Throughput!Drop, Throughput!Reconnect,
        Throughput!StaConnect
<1>5. CASE Throughput!Ap \/ Throughput!ApRefused \/ Throughput!ApSet \/ Throughput!Scan
  BY <1>5 DEF Throughput!Ap, Throughput!ApRefused, Throughput!ApSet, Throughput!Scan
<1>5a. CASE Throughput!Restart
  BY <1>5a DEF Throughput!Restart
<1>6. CASE Throughput!Stop
  BY <1>6 DEF Throughput!Stop
<1>7. ASSUME NEW roles, NEW o \in Throughput!Options, Throughput!LocalIp(roles, o)
      PROVE Throughput!TypeOK'
  BY <1>7 DEF Throughput!LocalIp
<1>8. CASE Throughput!Start
  BY <1>8 DEF Throughput!Start
<1>9. CASE UNCHANGED Throughput!vars
  BY <1>9 DEF Throughput!vars
<1> QED
  BY <1>1, <1>2, <1>3, <1>4, <1>5, <1>5a, <1>6, <1>7, <1>8, <1>9 DEF Throughput!Next,
        Throughput!Command, Throughput!Console

LEMMA IperfQueueStep == IperfQueued /\ [Throughput!Next]_Throughput!vars => IperfQueued'
<1> SUFFICES ASSUME IperfQueued, [Throughput!Next]_Throughput!vars PROVE IperfQueued'
  OBVIOUS
<1> USE IperfNumbers DEF Throughput!driver, Throughput!console, Throughput!Connect,
      Throughput!Break, Throughput!Typed, IperfQueued, IperfEvents
<1>1. CASE Throughput!Join \/ Throughput!GetAddress \/ Throughput!Lose
  BY <1>1 DEF Throughput!Join, Throughput!GetAddress, Throughput!Lose
<1>2. CASE Throughput!got_ip_handler
  BY <1>2 DEF Throughput!got_ip_handler
<1>3. CASE Throughput!disconnect_handler
  BY <1>3 DEF Throughput!disconnect_handler
<1>4. CASE Throughput!Sta \/ Throughput!Forget \/ Throughput!Drop \/ Throughput!Reconnect
        \/ Throughput!StaConnect
  BY <1>4 DEF Throughput!Sta, Throughput!Forget, Throughput!Drop, Throughput!Reconnect,
        Throughput!StaConnect
<1>5. CASE Throughput!Ap \/ Throughput!ApRefused \/ Throughput!ApSet \/ Throughput!Scan
  BY <1>5 DEF Throughput!Ap, Throughput!ApRefused, Throughput!ApSet, Throughput!Scan
<1>5a. CASE Throughput!Restart
  BY <1>5a DEF Throughput!Restart
<1>6. CASE Throughput!Stop
  BY <1>6 DEF Throughput!Stop
<1>7. ASSUME NEW roles, NEW o \in Throughput!Options, Throughput!LocalIp(roles, o)
      PROVE IperfQueued'
  BY <1>7 DEF Throughput!LocalIp
<1>8. CASE Throughput!Start
  BY <1>8 DEF Throughput!Start
<1>9. CASE UNCHANGED Throughput!vars
  BY <1>9 DEF Throughput!vars
<1> QED
  BY <1>1, <1>2, <1>3, <1>4, <1>5, <1>5a, <1>6, <1>7, <1>8, <1>9 DEF Throughput!Next,
        Throughput!Command, Throughput!Console

LEMMA IperfEventStep ==
  IperfTypes /\ IperfEventInv /\ [Throughput!Next]_Throughput!vars => IperfEventInv'
<1> SUFFICES ASSUME IperfTypes, IperfEventInv, [Throughput!Next]_Throughput!vars
    PROVE IperfEventInv'
  OBVIOUS
<1> USE IperfNumbers DEF Throughput!driver, Throughput!console, Throughput!Connect,
      Throughput!Break, Throughput!Typed, IperfTypes, IperfQueued, Throughput!TypeOK,
      IperfEventInv
<1>1. CASE Throughput!Join \/ Throughput!GetAddress \/ Throughput!Lose
  BY <1>1 DEF Throughput!Join, Throughput!GetAddress, Throughput!Lose
<1>2. CASE Throughput!got_ip_handler
  BY <1>2, FirstHandled DEF Throughput!got_ip_handler
<1>3. CASE Throughput!disconnect_handler
  BY <1>3, FirstHandled DEF Throughput!disconnect_handler
<1>4. CASE Throughput!Sta \/ Throughput!Forget \/ Throughput!Drop \/ Throughput!Reconnect
        \/ Throughput!StaConnect
  BY <1>4 DEF Throughput!Sta, Throughput!Forget, Throughput!Drop, Throughput!Reconnect,
        Throughput!StaConnect
<1>5. CASE Throughput!Ap \/ Throughput!ApRefused \/ Throughput!ApSet \/ Throughput!Scan
  BY <1>5 DEF Throughput!Ap, Throughput!ApRefused, Throughput!ApSet, Throughput!Scan
<1>5a. CASE Throughput!Restart
  BY <1>5a DEF Throughput!Restart
<1>6. CASE Throughput!Stop
  BY <1>6 DEF Throughput!Stop
<1>7. ASSUME NEW roles, NEW o \in Throughput!Options, Throughput!LocalIp(roles, o)
      PROVE IperfEventInv'
  BY <1>7 DEF Throughput!LocalIp
<1>8. CASE Throughput!Start
  BY <1>8 DEF Throughput!Start
<1>9. CASE UNCHANGED Throughput!vars
  BY <1>9 DEF Throughput!vars
<1> QED
  BY <1>1, <1>2, <1>3, <1>4, <1>5, <1>5a, <1>6, <1>7, <1>8, <1>9 DEF Throughput!Next,
        Throughput!Command, Throughput!Console

LEMMA IperfTryStep ==
  IperfTypes /\ IperfTryInv /\ [Throughput!Next]_Throughput!vars => IperfTryInv'
<1> SUFFICES ASSUME IperfTypes, IperfTryInv, [Throughput!Next]_Throughput!vars
    PROVE IperfTryInv'
  OBVIOUS
<1> USE IperfNumbers DEF Throughput!driver, Throughput!console, Throughput!Connect,
      Throughput!Break, Throughput!Typed, IperfTypes, IperfQueued, Throughput!TypeOK,
      IperfTryInv, Waits
<1>1. CASE Throughput!Join \/ Throughput!GetAddress \/ Throughput!Lose
  BY <1>1 DEF Throughput!Join, Throughput!GetAddress, Throughput!Lose
<1>2. CASE Throughput!got_ip_handler
  BY <1>2, FirstHandled DEF Throughput!got_ip_handler
<1>3. CASE Throughput!disconnect_handler
  BY <1>3 DEF Throughput!disconnect_handler
<1>4. CASE Throughput!Sta \/ Throughput!Forget \/ Throughput!Drop \/ Throughput!Reconnect
        \/ Throughput!StaConnect
  BY <1>4 DEF Throughput!Sta, Throughput!Forget, Throughput!Drop, Throughput!Reconnect,
        Throughput!StaConnect
<1>5. CASE Throughput!Ap \/ Throughput!ApRefused \/ Throughput!ApSet \/ Throughput!Scan
  BY <1>5 DEF Throughput!Ap, Throughput!ApRefused, Throughput!ApSet, Throughput!Scan
<1>5a. CASE Throughput!Restart
  BY <1>5a DEF Throughput!Restart
<1>6. CASE Throughput!Stop
  BY <1>6 DEF Throughput!Stop
<1>7. ASSUME NEW roles, NEW o \in Throughput!Options, Throughput!LocalIp(roles, o)
      PROVE IperfTryInv'
  BY <1>7 DEF Throughput!LocalIp
<1>8. CASE Throughput!Start
  BY <1>8 DEF Throughput!Start
<1>9. CASE UNCHANGED Throughput!vars
  BY <1>9 DEF Throughput!vars
<1> QED
  BY <1>1, <1>2, <1>3, <1>4, <1>5, <1>5a, <1>6, <1>7, <1>8, <1>9 DEF Throughput!Next,
        Throughput!Command, Throughput!Console

LEMMA IperfTestStep ==
  IperfTypes /\ Throughput!TestsLast /\ [Throughput!Next]_Throughput!vars
    => Throughput!TestsLast'
<1> SUFFICES ASSUME IperfTypes, Throughput!TestsLast, [Throughput!Next]_Throughput!vars
    PROVE Throughput!TestsLast'
  OBVIOUS
<1> USE IperfNumbers DEF Throughput!driver, Throughput!console, Throughput!Connect,
      Throughput!Break, Throughput!Typed, IperfTypes, IperfQueued, Throughput!TestsLast
<1>1. CASE Throughput!Join \/ Throughput!GetAddress \/ Throughput!Lose
  BY <1>1 DEF Throughput!Join, Throughput!GetAddress, Throughput!Lose
<1>2. CASE Throughput!got_ip_handler
  BY <1>2 DEF Throughput!got_ip_handler
<1>3. CASE Throughput!disconnect_handler
  BY <1>3 DEF Throughput!disconnect_handler
<1>4. CASE Throughput!Sta \/ Throughput!Forget \/ Throughput!Drop \/ Throughput!Reconnect
        \/ Throughput!StaConnect
  BY <1>4 DEF Throughput!Sta, Throughput!Forget, Throughput!Drop, Throughput!Reconnect,
        Throughput!StaConnect
<1>5. CASE Throughput!Ap \/ Throughput!ApRefused \/ Throughput!ApSet \/ Throughput!Scan
  BY <1>5 DEF Throughput!Ap, Throughput!ApRefused, Throughput!ApSet, Throughput!Scan
<1>5a. CASE Throughput!Restart
  BY <1>5a DEF Throughput!Restart
<1>6. CASE Throughput!Stop
  BY <1>6 DEF Throughput!Stop
<1>7. ASSUME NEW roles, NEW o \in Throughput!Options, Throughput!LocalIp(roles, o)
      PROVE Throughput!TestsLast'
  BY <1>7 DEF Throughput!LocalIp
<1>8. CASE Throughput!Start
  <2>1. CASE test' = test
    BY <1>8, <2>1 DEF Throughput!Start
  <2>2. /\ options.interval \in Seconds \cup {Absent} /\ options.time \in Seconds \cup {Absent}
        /\ Throughput!Interval(options) \in Nat \ {0}
    BY <1>8 DEF Throughput!Start, Throughput!Options, Throughput!Interval
  <2>3. CASE options.time # Absent
          /\ test' = [netif |-> ip_netif, interval |-> Throughput!Interval(options),
                time |-> Throughput!Duration(options), timed |-> options.time # Absent]
    <3>1. options.time \in Nat
      BY <2>2, <2>3
    <3>2. Throughput!Duration(options) >= Throughput!Interval(options)
      BY <2>2, <2>3, <3>1 DEF Throughput!Duration
    <3> QED
      BY <2>2, <2>3, <3>2
  <2>4. CASE options.time = Absent
          /\ test' = [netif |-> ip_netif, interval |-> Throughput!Interval(options),
                time |-> Throughput!Duration(options), timed |-> options.time # Absent]
    BY <2>4
  <2> QED
    BY <1>8, <2>1, <2>3, <2>4 DEF Throughput!Start
<1>9. CASE UNCHANGED Throughput!vars
  BY <1>9 DEF Throughput!vars
<1> QED
  BY <1>1, <1>2, <1>3, <1>4, <1>5, <1>5a, <1>6, <1>7, <1>8, <1>9 DEF Throughput!Next,
        Throughput!Command, Throughput!Console

LEMMA IperfBits == IperfEventInv => Throughput!BitTellsAddress
  BY DEF IperfEventInv, Throughput!BitTellsAddress

LEMMA IperfTries == IperfTypes /\ IperfTryInv => Throughput!StationTries
<1> SUFFICES ASSUME IperfTypes, IperfTryInv PROVE Throughput!StationTries
  OBVIOUS
<1>1. Waits("DISCONNECTED") => "DISCONNECTED" \in {ip_events[k] : k \in DOMAIN ip_events}
  BY DEF Waits, IperfTypes, IperfQueued
<1> QED
  BY <1>1 DEF Throughput!StationTries, IperfTryInv

(* The bit for the address is right when the events are handled, a station *)
(* that lost its network is connecting again, and a test has a time and an *)
(* interval.                                                               *)
THEOREM IperfHolds == Throughput!Spec => [](Throughput!TypeOK /\ Throughput!IperfIsSound)
<1>1. Throughput!Init => Throughput!TypeOK
  BY DEF Throughput!Init, Throughput!TypeOK
<1>2. Throughput!Init => IperfQueued
  BY DEF Throughput!Init, IperfQueued, IperfEvents
<1>3. Throughput!Init => IperfEventInv /\ IperfTryInv /\ Throughput!TestsLast
  BY DEF Throughput!Init, IperfEventInv, IperfTryInv, Throughput!TestsLast, Waits
<1> QED
  BY <1>1, <1>2, <1>3, IperfQueueStep, IperfTypesStep, IperfEventStep, IperfTryStep,
     IperfTestStep, IperfBits, IperfTries, PTL DEF Throughput!Spec, Throughput!IperfIsSound,
        IperfTypes

-----------------------------------------------------------------------------
(* The programs that enrol a station: station, WPS, DPP and SmartConfig.   *)

Beginning == <<"start">>
Linking == {<<>>, <<"got_ip">>, <<"lost">>, <<"got_ip", "lost">>}
Successes ==
  {<<"success">>, <<"lost", "success">>, <<"start", "success">>, <<"start", "lost", "success">>}
Acking ==
  {<<"acked">>, <<"acked", "lost">>, <<"got_ip", "acked">>, <<"got_ip", "acked", "lost">>}
Losses == {<<"lost">>, <<"got_ip", "lost">>, <<"acked", "lost">>, <<"got_ip", "acked", "lost">>}

(* What is in the queue tells the link.                                    *)
LinkOf == /\ en_events \in Losses => en_link = "down"
          /\ en_events \in {<<"got_ip">>, <<"acked">>, <<"got_ip", "acked">>}
               => en_link = "addressed"

EnrollNumbers ==
  /\ en_retry \in 0 .. Retries /\ en_ap \in Nat /\ en_creds \in 0 .. MaxCreds
  /\ en_granted \in 0 .. MaxCreds
  /\ en_lost \in [Enroll!Nets -> 0 .. Enroll!Enough] /\ en_refused \in 0 .. Enroll!Enough
  /\ en_config \in {Enroll!Unset} \cup Enroll!Nets
  /\ en_link # "down" => en_config # Enroll!Unset
  /\ en_program # "wps" => en_ap = 1 /\ en_creds = 0

EnrollNames ==
  /\ en_program \in {"station", "wps", "dpp", "smartconfig"}
  /\ en_bits \subseteq {"CONNECTED", "FAIL", "AUTH", "DONE"}
  /\ en_handlers \subseteq {"wifi", "ip"}
  /\ en_link \in {"down", "connecting", "joined", "addressed"}

EnrollFlags == en_group \in BOOLEAN /\ en_early \in BOOLEAN /\ en_crashed \in BOOLEAN

EnrollTypes == EnrollNumbers /\ EnrollNames /\ EnrollFlags

(* A program that waits for its end, in whose time it takes its handlers away *)
WaitsForEnd ==
  /\ ~en_crashed
  /\ "wifi" \in en_handlers => en_task \in {"wait", "address", "wifi"}
  /\ "ip" \in en_handlers => en_task \in {"wait", "address"}
  /\ en_group \/ en_task = "ended"
  /\ en_task \in {"wait", "address", "wifi", "delete", "ended"}
  /\ en_task = "wait" \/ (en_bits # {} /\ en_enrol = "off")

(* Losses that are handled and those that wait are the joins that failed.  *)
Joins ==
  /\ en_events \in Linking /\ LinkOf /\ en_config = 0
  /\ Enroll!Listens => \/ en_link = "down" /\ en_events = <<>> /\ en_lost[0] = Enroll!Enough
                       \/ /\ en_link # "down" \/ en_events # <<>>
                          /\ "FAIL" \notin en_bits
                          /\ en_lost[0] = (IF en_events \in {<<"got_ip">>, <<"got_ip", "lost">>}
                                           THEN 0 ELSE en_retry)
                                         + (IF en_events \in Losses THEN 1 ELSE 0)

EnrollStill == en_link = "down" /\ en_retry = 0 /\ en_lost[0] = 0

StationInv == en_program = "station" =>
  /\ WaitsForEnd /\ en_enrol = "off" /\ en_bits \subseteq {"CONNECTED", "FAIL"}
  /\ (en_events = Beginning /\ en_config = 0 /\ EnrollStill /\ en_bits = {}) \/ Joins

DppInv == en_program = "dpp" =>
  /\ WaitsForEnd
  /\ \/ /\ en_events = Beginning /\ en_config = Enroll!Unset /\ EnrollStill /\ en_bits = {}
        /\ en_enrol = "off" /\ en_refused = 0
     \/ /\ en_events = <<>> /\ en_config = Enroll!Unset /\ en_link = "down" /\ en_lost[0] = 0
        /\ \/ en_enrol = "on" /\ en_bits = {} /\ en_refused = en_retry
           \/ en_enrol = "off" /\ en_bits = {"AUTH"} /\ en_refused = Enroll!Enough
     \/ Joins /\ en_enrol \in {"done", "off"} /\ en_bits \subseteq {"CONNECTED", "FAIL"}

(* WPS has not ended, or its success is not handled yet.                   *)
WpsRuns ==
  /\ en_config = Enroll!Unset /\ en_link = "down" /\ en_ap = 1 /\ en_creds = 0
  /\ en_lost = [n \in Enroll!Nets |-> 0]
  /\ \/ /\ en_enrol = "on" /\ en_granted = 0 /\ en_events \in {<<>>, Beginning} /\ ~en_early
        /\ en_retry = 0
     \/ /\ en_enrol = "failed" /\ en_granted = 0 /\ ~en_early /\ en_retry = 0
        /\ en_events \in {<<"failed">>, <<"start", "failed">>}
     \/ /\ en_enrol = "done" /\ en_granted \in {0} \cup 2 .. MaxCreds /\ en_events \in Successes
        /\ en_early \/ (en_retry = 0 /\ en_events \in {<<"success">>, <<"start", "success">>})

(* Its networks are tried, one after the other.                            *)
NetworksTried ==
  /\ \A n \in Enroll!Nets : n < en_config => en_lost[n] = Enroll!Enough
  /\ \A n \in Enroll!Nets : n > en_config => en_lost[n] = 0
  /\ \/ en_link = "down" /\ en_events = <<>> /\ en_lost[en_config] = Enroll!Enough
        /\ en_ap >= en_granted
     \/ /\ en_link # "down" \/ en_events \in Losses
        /\ en_lost[en_config] = en_retry + (IF en_events \in Losses THEN 1 ELSE 0)

WpsLinks ==
  /\ en_enrol = "off" /\ en_config = en_ap - 1 /\ en_ap >= 1 /\ en_creds = en_granted
  /\ en_granted \in {0} \cup 2 .. MaxCreds
       /\ en_ap <= (IF en_granted = 0 THEN 1 ELSE en_granted)
  /\ en_events \in Linking /\ LinkOf

WpsJoins == WpsLinks /\ (en_early \/ NetworksTried)

WpsInv == en_program = "wps" =>
  en_task = "ended" /\ Enroll!Listens /\ en_group /\ ~en_crashed /\ en_bits = {}
    /\ (WpsRuns \/ WpsJoins)

(* SmartConfig has not found a network, or what it found is not handled.   *)
(* The phone has not told the network yet; it has, and the station joins.  *)
SmartRuns ==
  /\ en_config = Enroll!Unset /\ en_link = "down" /\ en_bits = {}
  /\ \/ en_events = Beginning /\ en_task = "none" /\ en_enrol = "off"
     \/ en_events = <<>> /\ en_task = "start" /\ en_enrol = "off"
     \/ en_events = <<>> /\ en_task = "wait" /\ en_enrol = "on"
     \/ en_events = <<"credentials">> /\ en_task = "wait" /\ en_enrol = "found"

SmartJoins ==
  /\ en_config = 0 /\ en_events \in Linking \cup Acking /\ LinkOf
  /\ en_task \in {"wait", "ended"} /\ en_enrol \in {"found", "acked", "off"}
  /\ en_link = "down" => en_events \in Losses
  /\ en_events \in Acking => en_enrol = "acked" /\ "DONE" \notin en_bits
  /\ "DONE" \in en_bits => en_enrol = "acked"
  /\ en_enrol = "acked" => en_events \in Acking \/ "DONE" \in en_bits

SmartInv == en_program = "smartconfig" =>
  Enroll!Listens /\ en_group /\ ~en_crashed /\ en_bits \subseteq {"CONNECTED", "DONE"}
    /\ (SmartRuns \/ SmartJoins)

LEMMA EnrollBounds ==
  MaxCreds \in Nat \ {0} /\ Retries \in Nat
  BY ProgramsAssumption DEF Enroll!RetriesOK

LEMMA AppendToOne == ASSUME NEW a, NEW b PROVE Append(<<a>>, b) = <<a, b>>
<1>1. PICK V : V = {a, b}
 OBVIOUS
<1>2. <<a>> \in Seq(V) /\ <<a, b>> \in Seq(V) /\ b \in V
 BY <1>1
<1>3. Append(<<a>>, b) \in Seq(V) /\ Len(Append(<<a>>, b)) = 2
 BY <1>2
<1>4. Append(<<a>>, b)[1] = a /\ Append(<<a>>, b)[2] = b
 BY <1>2
<1>5. \A i \in 1 .. 2 : Append(<<a>>, b)[i] = <<a, b>>[i]
  <2>1. \A i \in 1 .. 2 : i = 1 \/ i = 2
    OBVIOUS
  <2> QED
    BY <2>1, <1>4
<1> QED
 <2>1. Len(<<a,b>>) = 2
   OBVIOUS
 <2> QED
 BY <1>2, <1>3, <1>5, <2>1, SeqEqual, Zenon

LEMMA AppendToTwo == ASSUME NEW a, NEW b, NEW c PROVE Append(<<a, b>>, c) = <<a, b, c>>
<1>1. PICK V : V = {a, b, c}
 OBVIOUS
<1>2. <<a, b>> \in Seq(V) /\ <<a, b, c>> \in Seq(V) /\ c \in V
 BY <1>1
<1>3. Append(<<a, b>>, c) \in Seq(V) /\ Len(Append(<<a, b>>, c)) = 3 /\ Len(<<a, b, c>>) = 3
 BY <1>2
<1>4. Append(<<a, b>>, c)[1] = a /\ Append(<<a, b>>, c)[2] = b /\ Append(<<a, b>>, c)[3] = c
 BY <1>2
<1>5. \A i \in 1 .. 3 : Append(<<a, b>>, c)[i] = <<a, b, c>>[i]
  <2>1. \A i \in 1 .. 3 : i = 1 \/ i = 2 \/ i = 3
    OBVIOUS
  <2> QED
    BY <2>1, <1>4
<1> QED
 BY <1>2, <1>3, <1>5, SeqEqual, Zenon

LEMMA OneAndTwo == ASSUME NEW a, NEW b, NEW c PROVE <<a>> \o <<b, c>> = <<a, b, c>>
<1>1. PICK V : V = {a, b, c}
 OBVIOUS
<1>2. <<a>> \in Seq(V) /\ <<b, c>> \in Seq(V) /\ <<a, b, c>> \in Seq(V)
 BY <1>1
<1>3. <<a>> \o <<b, c>> \in Seq(V) /\ Len(<<a>> \o <<b, c>>) = 3 /\ Len(<<a, b, c>>) = 3
 BY <1>2
<1>4. (<<a>> \o <<b, c>>)[1] = a /\ (<<a>> \o <<b, c>>)[2] = b /\ (<<a>> \o <<b, c>>)[3] = c
 BY <1>2, ConcatProperties
<1>5. \A i \in 1 .. 3 : (<<a>> \o <<b, c>>)[i] = <<a, b, c>>[i]
  <2>1. \A i \in 1 .. 3 : i = 1 \/ i = 2 \/ i = 3
    OBVIOUS
  <2> QED
    BY <2>1, <1>4
<1> QED
 BY <1>2, <1>3, <1>5, SeqEqual, Zenon

LEMMA Appended ==
  /\ Append(<<>>, "lost") = <<"lost">> /\ Append(<<"got_ip">>, "lost") = <<"got_ip", "lost">>
  /\ Append(<<>>, "acked") = <<"acked">>
  /\ Append(<<"got_ip">>, "acked") = <<"got_ip", "acked">>
  /\ Append(<<"acked">>, "lost") = <<"acked", "lost">>
  /\ Append(<<"got_ip", "acked">>, "lost") = <<"got_ip", "acked", "lost">>
  /\ Append(<<>>, "got_ip") = <<"got_ip">> /\ Append(<<>>, "credentials") = <<"credentials">>
  /\ Append(<<>>, "success") = <<"success">>
  /\ Append(<<"start">>, "success") = <<"start", "success">>
  /\ Append(<<>>, "failed") = <<"failed">>
  /\ Append(<<"start">>, "failed") = <<"start", "failed">>
  /\ <<>> \o <<"lost", "success">> = <<"lost", "success">>
  /\ <<"start">> \o <<"lost", "success">> = <<"start", "lost", "success">>
  BY AppendToOne, AppendToTwo, OneAndTwo

LEMMA LinkingQueues ==
  ASSUME en_events \in Linking
  PROVE  /\ Enroll!On("lost") => en_events = <<"lost">> /\ en_events' = <<>>
         /\ Enroll!On("got_ip") => (en_events = <<"got_ip">> /\ en_events' = <<>>)
              \/ (en_events = <<"got_ip", "lost">> /\ en_events' = <<"lost">>)
         /\ \A kind \in {"start", "success", "failed", "credentials", "acked"} :
              ~Enroll!On(kind)
<1>2. CASE en_events = <<>>
  BY <1>2 DEF Enroll!On
<1>3. CASE en_events = <<"lost">>
  BY <1>3 DEF Enroll!On
<1>4. CASE en_events = <<"got_ip">>
  BY <1>4 DEF Enroll!On
<1>5. CASE en_events = <<"got_ip", "lost">>
  BY <1>5 DEF Enroll!On
<1> QED
  BY <1>2, <1>3, <1>4, <1>5 DEF Linking

LEMMA OnStart == ASSUME en_events = Beginning PROVE /\ Enroll!On("start") => en_events' = <<>>
         /\ \A kind \in {"lost", "got_ip", "success", "failed", "credentials", "acked"} :
              ~Enroll!On(kind) /\ ~Enroll!Pending(kind)
         /\ Enroll!Pending("start")
  BY DEF Enroll!On, Beginning, Enroll!Pending

LEMMA WpsQueues ==
  ASSUME en_events \in Successes \cup {<<>>, Beginning, <<"failed">>, <<"start", "failed">>}
  PROVE  /\ Enroll!On("start") => \/ en_events = Beginning /\ en_events' = <<>>
                                  \/ en_events = <<"start", "failed">>
                                     /\ en_events' = <<"failed">>
                                  \/ en_events = <<"start", "success">>
                                     /\ en_events' = <<"success">>
                                  \/ en_events = <<"start", "lost", "success">>
                                     /\ en_events' = <<"lost", "success">>
         /\ Enroll!On("lost") => en_events = <<"lost", "success">> /\ en_events' = <<"success">>
         /\ Enroll!On("success") => en_events = <<"success">> /\ en_events' = <<>>
         /\ Enroll!On("failed") => en_events = <<"failed">> /\ en_events' = <<>>
         /\ \A kind \in {"got_ip", "credentials", "acked"} : ~Enroll!On(kind)
<1>1. CASE en_events = <<>>
  BY <1>1 DEF Enroll!On
<1>7. CASE en_events = Beginning
  BY <1>7, OnStart DEF Enroll!On
<1>2. CASE en_events = <<"failed">>
  BY <1>2 DEF Enroll!On
<1>8. CASE en_events = <<"start", "failed">>
  BY <1>8 DEF Enroll!On
<1>3. CASE en_events = <<"success">>
  BY <1>3 DEF Enroll!On
<1>4. CASE en_events = <<"lost", "success">>
  BY <1>4 DEF Enroll!On
<1>5. CASE en_events = <<"start", "success">>
  BY <1>5 DEF Enroll!On
<1>6. CASE en_events = <<"start", "lost", "success">>
  BY <1>6 DEF Enroll!On
<1> QED
  BY <1>1, <1>2, <1>3, <1>4, <1>5, <1>6, <1>7, <1>8 DEF Successes

LEMMA AckingQueues ==
  ASSUME en_events \in Acking
  PROVE  /\ Enroll!On("got_ip")
              => \/ en_events = <<"got_ip", "acked">> /\ en_events' = <<"acked">>
                 \/ en_events = <<"got_ip", "acked", "lost">>
                    /\ en_events' = <<"acked", "lost">>
         /\ Enroll!On("acked") => \/ en_events = <<"acked">> /\ en_events' = <<>>
                                  \/ en_events = <<"acked", "lost">> /\ en_events' = <<"lost">>
         /\ \A kind \in {"start", "lost", "success", "failed", "credentials"} : ~Enroll!On(kind)
         /\ Enroll!Pending("acked")
<1>1. CASE en_events = <<"acked">>
  BY <1>1 DEF Enroll!On, Enroll!Pending
<1>2. CASE en_events = <<"acked", "lost">>
  BY <1>2 DEF Enroll!On, Enroll!Pending
<1>3. CASE en_events = <<"got_ip", "acked">>
  BY <1>3 DEF Enroll!On, Enroll!Pending
<1>4. CASE en_events = <<"got_ip", "acked", "lost">>
  BY <1>4 DEF Enroll!On, Enroll!Pending
<1> QED
  BY <1>1, <1>2, <1>3, <1>4 DEF Acking

LEMMA EnrollNumbersStep == EnrollTypes /\ [Enroll!Next]_Enroll!vars => EnrollNumbers'
<1> SUFFICES ASSUME EnrollTypes, [Enroll!Next]_Enroll!vars PROVE EnrollNumbers'
  OBVIOUS
<1> USE EnrollBounds DEF EnrollTypes, EnrollNumbers, Enroll!Nets, Enroll!Unset, Enroll!Enough,
      EnrollNames, Enroll!memory, Enroll!radio, Enroll!supplicant, Enroll!group_vars,
      Enroll!Connect, Enroll!SetBit, Enroll!RetryOnce
<1>1. CASE Enroll!Handle
  <2>1. UNCHANGED <<en_program, en_handlers, en_granted, en_refused, en_early>>
    BY <1>1 DEF Enroll!Handle
  <2>2. CASE Enroll!StationStart \/ Enroll!DppStart \/ Enroll!SmartStart
    BY <2>1, <2>2 DEF Enroll!StationStart, Enroll!DppStart, Enroll!SmartStart
  <2>3. CASE Enroll!StationLost \/ Enroll!DppLost \/ Enroll!SmartLost
    BY <2>1, <2>3 DEF Enroll!StationLost, Enroll!DppLost, Enroll!SmartLost
  <2>4. CASE Enroll!WpsLost
    BY <2>1, <2>4 DEF Enroll!WpsLost, Enroll!NextNetwork
  <2>5. CASE Enroll!StationAddress \/ Enroll!DppAddress \/ Enroll!SmartAddress
    BY <2>1, <2>5 DEF Enroll!StationAddress, Enroll!DppAddress, Enroll!SmartAddress
  <2>6. CASE Enroll!WpsSuccess \/ Enroll!WpsFailed
    BY <2>1, <2>6 DEF Enroll!WpsSuccess, Enroll!WpsFailed
  <2>7. CASE Enroll!SmartCredentials \/ Enroll!SmartAcked
    BY <2>1, <2>7 DEF Enroll!SmartCredentials, Enroll!SmartAcked
  <2> QED
    BY <1>1, <2>2, <2>3, <2>4, <2>5, <2>6, <2>7 DEF Enroll!Handle
<1>2. CASE Enroll!Ignore
  BY <1>2 DEF Enroll!Ignore
<1>3. CASE Enroll!Task
  BY <1>3 DEF Enroll!Task, Enroll!Told, Enroll!Unregister, Enroll!DeleteGroup,
        Enroll!BeginSmart, Enroll!WaitSmart, Enroll!Goes
<1>4. CASE Enroll!Join
  BY <1>4 DEF Enroll!Join
<1>4a. CASE Enroll!Address
  BY <1>4a DEF Enroll!Address
<1>4b. CASE Enroll!Lose
  <2>1. en_config \in Enroll!Nets /\ en_lost[en_config] \in 0 .. Enroll!Enough
          /\ Enroll!Counted(en_lost[en_config]) \in 0 .. Enroll!Enough
    BY <1>4b DEF Enroll!Lose, Enroll!Counted
  <2> QED
    BY <1>4b, <2>1 DEF Enroll!Lose
<1>5. CASE Enroll!WpsEnds
  BY <1>5 DEF Enroll!WpsEnds
<1>6. CASE Enroll!DppReceived
  BY <1>6 DEF Enroll!DppReceived
<1>6a. CASE Enroll!DppFails
  BY <1>6a DEF Enroll!DppFails, Enroll!Counted
<1>7. CASE Enroll!SmartFinds \/ Enroll!SmartTells
  BY <1>7 DEF Enroll!SmartFinds, Enroll!SmartTells
<1>8. CASE UNCHANGED Enroll!vars
  BY <1>8 DEF Enroll!vars
<1> QED
  BY <1>1, <1>2, <1>3, <1>4, <1>4a, <1>4b, <1>5, <1>6, <1>6a, <1>7, <1>8 DEF Enroll!Next,
        Enroll!World

LEMMA EnrollNamesStep == EnrollTypes /\ [Enroll!Next]_Enroll!vars => EnrollNames'
<1> SUFFICES ASSUME EnrollTypes, [Enroll!Next]_Enroll!vars PROVE EnrollNames'
  OBVIOUS
<1> USE EnrollBounds DEF EnrollTypes, EnrollNames, Enroll!memory, Enroll!radio,
      Enroll!supplicant, Enroll!group_vars, Enroll!Connect, Enroll!SetBit, Enroll!RetryOnce
<1>1. CASE Enroll!Handle
  <2>1. UNCHANGED <<en_program, en_handlers, en_granted, en_refused, en_early>>
    BY <1>1 DEF Enroll!Handle
  <2>2. CASE Enroll!StationStart \/ Enroll!DppStart \/ Enroll!SmartStart
    BY <2>1, <2>2 DEF Enroll!StationStart, Enroll!DppStart, Enroll!SmartStart
  <2>3. CASE Enroll!StationLost \/ Enroll!DppLost \/ Enroll!SmartLost
    BY <2>1, <2>3 DEF Enroll!StationLost, Enroll!DppLost, Enroll!SmartLost
  <2>4. CASE Enroll!WpsLost
    BY <2>1, <2>4 DEF Enroll!WpsLost, Enroll!NextNetwork
  <2>5. CASE Enroll!StationAddress \/ Enroll!DppAddress \/ Enroll!SmartAddress
    BY <2>1, <2>5 DEF Enroll!StationAddress, Enroll!DppAddress, Enroll!SmartAddress
  <2>6. CASE Enroll!WpsSuccess \/ Enroll!WpsFailed
    BY <2>1, <2>6 DEF Enroll!WpsSuccess, Enroll!WpsFailed
  <2>7. CASE Enroll!SmartCredentials \/ Enroll!SmartAcked
    BY <2>1, <2>7 DEF Enroll!SmartCredentials, Enroll!SmartAcked
  <2> QED
    BY <1>1, <2>2, <2>3, <2>4, <2>5, <2>6, <2>7 DEF Enroll!Handle
<1>2. CASE Enroll!Ignore
  BY <1>2 DEF Enroll!Ignore
<1>3. CASE Enroll!Task
  BY <1>3 DEF Enroll!Task, Enroll!Told, Enroll!Unregister, Enroll!DeleteGroup,
        Enroll!BeginSmart, Enroll!WaitSmart, Enroll!Goes
<1>4. CASE Enroll!Join \/ Enroll!Address \/ Enroll!Lose
  BY <1>4 DEF Enroll!Join, Enroll!Address, Enroll!Lose, Enroll!Counted
<1>5. CASE Enroll!WpsEnds
  BY <1>5 DEF Enroll!WpsEnds
<1>6. CASE Enroll!DppReceived \/ Enroll!DppFails
  BY <1>6 DEF Enroll!DppReceived, Enroll!DppFails, Enroll!Counted
<1>7. CASE Enroll!SmartFinds \/ Enroll!SmartTells
  BY <1>7 DEF Enroll!SmartFinds, Enroll!SmartTells
<1>8. CASE UNCHANGED Enroll!vars
  BY <1>8 DEF Enroll!vars
<1> QED
  BY <1>1, <1>2, <1>3, <1>4, <1>5, <1>6, <1>7, <1>8 DEF Enroll!Next, Enroll!World

LEMMA EnrollFlagsStep == EnrollTypes /\ [Enroll!Next]_Enroll!vars => EnrollFlags'
<1> SUFFICES ASSUME EnrollTypes, [Enroll!Next]_Enroll!vars PROVE EnrollFlags'
  OBVIOUS
<1> USE EnrollBounds DEF EnrollTypes, EnrollFlags, Enroll!memory, Enroll!radio,
      Enroll!supplicant, Enroll!group_vars, Enroll!Connect, Enroll!SetBit, Enroll!RetryOnce
<1>1. CASE Enroll!Handle
  <2>1. UNCHANGED <<en_program, en_handlers, en_granted, en_refused, en_early>>
    BY <1>1 DEF Enroll!Handle
  <2>2. CASE Enroll!StationStart \/ Enroll!DppStart \/ Enroll!SmartStart
    BY <2>1, <2>2 DEF Enroll!StationStart, Enroll!DppStart, Enroll!SmartStart
  <2>3. CASE Enroll!StationLost \/ Enroll!DppLost \/ Enroll!SmartLost
    BY <2>1, <2>3 DEF Enroll!StationLost, Enroll!DppLost, Enroll!SmartLost
  <2>4. CASE Enroll!WpsLost
    BY <2>1, <2>4 DEF Enroll!WpsLost, Enroll!NextNetwork
  <2>5. CASE Enroll!StationAddress \/ Enroll!DppAddress \/ Enroll!SmartAddress
    BY <2>1, <2>5 DEF Enroll!StationAddress, Enroll!DppAddress, Enroll!SmartAddress
  <2>6. CASE Enroll!WpsSuccess \/ Enroll!WpsFailed
    BY <2>1, <2>6 DEF Enroll!WpsSuccess, Enroll!WpsFailed
  <2>7. CASE Enroll!SmartCredentials \/ Enroll!SmartAcked
    BY <2>1, <2>7 DEF Enroll!SmartCredentials, Enroll!SmartAcked
  <2> QED
    BY <1>1, <2>2, <2>3, <2>4, <2>5, <2>6, <2>7 DEF Enroll!Handle
<1>2. CASE Enroll!Ignore
  BY <1>2 DEF Enroll!Ignore
<1>3. CASE Enroll!Task
  BY <1>3 DEF Enroll!Task, Enroll!Told, Enroll!Unregister, Enroll!DeleteGroup,
        Enroll!BeginSmart, Enroll!WaitSmart, Enroll!Goes
<1>4. CASE Enroll!Join \/ Enroll!Address \/ Enroll!Lose
  BY <1>4 DEF Enroll!Join, Enroll!Address, Enroll!Lose, Enroll!Counted
<1>5. CASE Enroll!WpsEnds
  BY <1>5 DEF Enroll!WpsEnds
<1>6. CASE Enroll!DppReceived \/ Enroll!DppFails
  BY <1>6 DEF Enroll!DppReceived, Enroll!DppFails, Enroll!Counted
<1>7. CASE Enroll!SmartFinds \/ Enroll!SmartTells
  BY <1>7 DEF Enroll!SmartFinds, Enroll!SmartTells
<1>8. CASE UNCHANGED Enroll!vars
  BY <1>8 DEF Enroll!vars
<1> QED
  BY <1>1, <1>2, <1>3, <1>4, <1>5, <1>6, <1>7, <1>8 DEF Enroll!Next, Enroll!World

LEMMA EndsStep ==
  ASSUME EnrollTypes, WaitsForEnd, en_program \in {"station", "dpp"}, Enroll!On("start")
    => en_task = "wait", Enroll!Next
  PROVE  WaitsForEnd'
<1> USE DEF WaitsForEnd, Enroll!memory, Enroll!radio, Enroll!supplicant, Enroll!group_vars,
      Enroll!Connect, Enroll!SetBit, Enroll!RetryOnce
<1>1. CASE Enroll!Handle
  <2>1. UNCHANGED <<en_program, en_handlers, en_granted, en_refused, en_early>>
    BY <1>1 DEF Enroll!Handle
  <2>2. CASE Enroll!On("start") /\ (Enroll!StationStart \/ Enroll!DppStart)
    <3>1. UNCHANGED <<en_bits, en_group, en_crashed, en_task>> /\ en_task = "wait"
      BY <2>2 DEF Enroll!StationStart, Enroll!DppStart
    <3> QED
      BY <2>1, <3>1
  <2>3. CASE "wifi" \in en_handlers /\ (Enroll!StationLost \/ Enroll!DppLost)
    <3>1. UNCHANGED <<en_group, en_task, en_enrol>> /\ en_group /\ (en_crashed' <=> en_crashed)
            /\ en_bits \subseteq en_bits'
      BY <2>3 DEF Enroll!StationLost, Enroll!DppLost, EnrollTypes, EnrollFlags
    <3> QED
      BY <2>1, <3>1
  <2>4. CASE "ip" \in en_handlers /\ (Enroll!StationAddress \/ Enroll!DppAddress)
    <3>1. UNCHANGED <<en_group, en_task, en_enrol>> /\ en_group /\ (en_crashed' <=> en_crashed)
            /\ en_bits \subseteq en_bits'
      BY <2>4 DEF Enroll!StationAddress, Enroll!DppAddress
    <3> QED
      BY <2>1, <3>1
  <2> QED
    BY <1>1, <2>2, <2>3, <2>4 DEF Enroll!Handle, Enroll!SmartStart, Enroll!SmartLost,
          Enroll!SmartAddress, Enroll!SmartAcked, Enroll!WpsLost, Enroll!WpsSuccess,
          Enroll!WpsFailed, Enroll!SmartCredentials
<1>2. CASE Enroll!Ignore
  BY <1>2 DEF Enroll!Ignore
<1>3. CASE Enroll!Told \/ Enroll!Unregister \/ Enroll!DeleteGroup
  BY <1>3 DEF Enroll!Told, Enroll!Unregister, Enroll!DeleteGroup, Enroll!Goes
<1>4. CASE Enroll!Join \/ Enroll!Address \/ Enroll!Lose
  BY <1>4 DEF Enroll!Join, Enroll!Address, Enroll!Lose
<1>5. CASE Enroll!DppReceived \/ Enroll!DppFails
  <2>1. UNCHANGED <<en_group, en_task, en_handlers>> /\ en_task = "wait" /\ en_group
          /\ (en_crashed' <=> en_crashed)
    BY <1>5 DEF Enroll!DppReceived, Enroll!DppFails, EnrollTypes, EnrollFlags
  <2> QED
    BY <2>1
<1> QED
  BY <1>1, <1>2, <1>3, <1>4, <1>5 DEF Enroll!Next, Enroll!World, Enroll!Task, Enroll!BeginSmart,
        Enroll!WaitSmart, Enroll!WpsEnds, Enroll!SmartFinds, Enroll!SmartTells

LEMMA JoinsStep ==
  ASSUME EnrollTypes, WaitsForEnd, Joins, en_program \in {"station", "dpp"}, en_enrol # "on",
    Enroll!Next
  PROVE  Joins'
<1> USE EnrollBounds DEF EnrollTypes, EnrollNumbers, EnrollNames, Enroll!memory, Enroll!radio,
      Enroll!supplicant, Enroll!group_vars, Enroll!Connect, Enroll!SetBit, Enroll!RetryOnce,
      Enroll!Unset, Enroll!Nets, Enroll!Enough
<1>1. CASE Enroll!Handle
  <2>1. UNCHANGED <<en_program, en_handlers, en_granted, en_refused, en_early>>
    BY <1>1 DEF Enroll!Handle
  <2>3. CASE Enroll!On("lost") /\ "wifi" \in en_handlers
          /\ (Enroll!StationLost \/ Enroll!DppLost)
    <3>1. en_events = <<"lost">> /\ en_events' = <<>> /\ en_link = "down" /\ en_config = 0
      BY <2>3, LinkingQueues DEF Joins, LinkOf, Losses
    <3>2. CASE en_retry >= Retries /\ Enroll!SetBit("FAIL")
            /\ UNCHANGED <<Enroll!memory, Enroll!radio, en_enrol>>
      <4>1. Enroll!Listens => en_lost[0] = en_retry + 1
        BY <3>1 DEF Joins, Losses
      <4> QED
        BY <2>1, <3>1, <3>2, <4>1 DEF Losses, Linking, Joins, LinkOf, Enroll!Listens
    <3>3. CASE Enroll!RetryOnce
      <4>1. Enroll!Listens => en_lost[0] = en_retry + 1 /\ "FAIL" \notin en_bits
        BY <3>1 DEF Joins, Losses
      <4>2. en_retry' = en_retry + 1 /\ en_link' = "connecting"
              /\ UNCHANGED <<en_bits, en_lost, en_config>>
        BY <3>1, <3>3
      <4> QED
        BY <2>1, <3>1, <4>1, <4>2 DEF Losses, Linking, Joins, LinkOf, Enroll!Listens
    <3> QED
      BY <2>3, <3>2, <3>3 DEF Enroll!StationLost, Enroll!DppLost
  <2>4. CASE Enroll!On("got_ip") /\ "ip" \in en_handlers
          /\ (Enroll!StationAddress \/ Enroll!DppAddress)
    <3>1. /\ en_retry' = 0 /\ en_bits' = en_bits \cup {"CONNECTED"}
          /\ UNCHANGED <<en_link, en_lost, en_config>>
          /\ \/ en_events = <<"got_ip">> /\ en_events' = <<>>
             \/ en_events = <<"got_ip", "lost">> /\ en_events' = <<"lost">>
      BY <2>4, LinkingQueues DEF Enroll!StationAddress, Enroll!DppAddress, Joins
    <3>2. CASE en_events = <<"got_ip">> /\ en_events' = <<>>
      BY <2>1, <3>1, <3>2 DEF Losses, Linking, Joins, LinkOf, Enroll!Listens
    <3>3. CASE en_events = <<"got_ip", "lost">> /\ en_events' = <<"lost">>
      <4>1. en_lost[0] = 1 \/ ~Enroll!Listens
        BY <3>3 DEF Joins, Losses
      <4> QED
        BY <2>1, <3>1, <3>3, <4>1 DEF Losses, Linking, Joins, LinkOf, Enroll!Listens
    <3> QED
      BY <3>1, <3>2, <3>3
  <2> QED
    BY <1>1, <2>3, <2>4, LinkingQueues, Appended DEF Losses, Linking, Joins, Enroll!Handle,
          Enroll!SmartLost, Enroll!SmartAddress, Enroll!WpsLost
<1>2. CASE Enroll!Ignore
  BY <1>2, LinkingQueues, Appended DEF Losses, Linking, Enroll!Ignore, Joins, LinkOf,
        Enroll!Listens
<1>3. CASE Enroll!Told \/ Enroll!Unregister \/ Enroll!DeleteGroup
  BY <1>3 DEF Enroll!Told, Enroll!Unregister, Enroll!DeleteGroup, Enroll!Goes, Joins, LinkOf,
        Enroll!Listens
<1>4. CASE Enroll!Join
  BY <1>4, LinkingQueues, Appended DEF Losses, Linking, Enroll!Join, Joins, LinkOf,
        Enroll!Listens
<1>5. CASE Enroll!Address
  <2>1. /\ en_events' = <<"got_ip">> /\ en_link' = "addressed" /\ en_lost'[0] = 0
        /\ UNCHANGED <<en_bits, en_handlers, en_config, en_retry>> /\ en_link = "joined"
        /\ en_events \in {<<>>}
    BY <1>5, Appended DEF Enroll!Address, Joins, LinkOf, Enroll!Post, Linking, Losses
  <2> QED
    BY <2>1 DEF Joins, LinkOf, Linking, Losses, Enroll!Listens
<1>6. CASE Enroll!Lose
  <2>1. /\ en_link # "down" /\ en_link' = "down"
        /\ UNCHANGED <<en_bits, en_handlers, en_config, en_retry>>
        /\ \/ en_events = <<>> /\ en_events' = <<"lost">>
           \/ en_events = <<"got_ip">> /\ en_events' = <<"got_ip", "lost">>
        /\ en_lost'[0] = Enroll!Counted(en_lost[0]) /\ en_lost[0] \in 0 .. Retries + 1
    BY <1>6, Appended DEF Enroll!Lose, Joins, LinkOf, Enroll!Post, Linking, Losses
  <2> QED
    BY <2>1 DEF Joins, LinkOf, Linking, Losses, Enroll!Listens, Enroll!Counted
<1> QED
  BY <1>1, <1>2, <1>3, <1>4, <1>5, <1>6 DEF Enroll!Next, Enroll!World, Enroll!Task,
        Enroll!BeginSmart, Enroll!WaitSmart, Enroll!WpsEnds, Enroll!SmartFinds,
        Enroll!SmartTells, Enroll!DppReceived, Enroll!DppFails

LEMMA ProgramStays == Enroll!Next => en_program' = en_program
  BY DEF Enroll!Next, Enroll!Handle, Enroll!Ignore, Enroll!Task, Enroll!World, Enroll!Told,
        Enroll!Unregister, Enroll!DeleteGroup, Enroll!BeginSmart, Enroll!WaitSmart, Enroll!Join,
        Enroll!Address, Enroll!Lose, Enroll!WpsEnds, Enroll!DppReceived, Enroll!DppFails,
        Enroll!SmartFinds, Enroll!SmartTells

LEMMA StationStep == EnrollTypes /\ StationInv /\ [Enroll!Next]_Enroll!vars => StationInv'
<1>0. CASE UNCHANGED Enroll!vars
  BY <1>0 DEF Enroll!vars, Enroll!memory, Enroll!group_vars, Enroll!radio, Enroll!supplicant,
        StationInv, WaitsForEnd, Joins, LinkOf, EnrollStill, Enroll!Listens
<1> SUFFICES ASSUME EnrollTypes, StationInv, en_program = "station", Enroll!Next
    PROVE StationInv'
  BY <1>0, ProgramStays DEF StationInv
<1>1. en_program' = "station" /\ en_enrol' = "off"
        /\ en_bits' \in SUBSET (en_bits \cup {"CONNECTED", "FAIL"})
  BY DEF Enroll!Next, Enroll!Handle, Enroll!Ignore, Enroll!Task, Enroll!World,
        Enroll!StationStart, Enroll!DppStart, Enroll!SmartStart, Enroll!StationLost,
        Enroll!DppLost, Enroll!WpsLost, Enroll!SmartLost, Enroll!RetryOnce, Enroll!SetBit,
        Enroll!Connect, StationInv, Enroll!StationAddress, Enroll!DppAddress,
        Enroll!SmartAddress, Enroll!WpsSuccess, Enroll!WpsFailed, Enroll!SmartCredentials,
        Enroll!SmartAcked, Enroll!group_vars, Enroll!supplicant, Enroll!Told, Enroll!Unregister,
        Enroll!DeleteGroup, Enroll!BeginSmart, Enroll!WaitSmart, Enroll!Join, Enroll!Address,
        Enroll!Lose, Enroll!WpsEnds, Enroll!DppReceived, Enroll!DppFails, Enroll!SmartFinds,
        Enroll!SmartTells
<1>2. CASE en_events = Beginning /\ en_config = 0 /\ EnrollStill /\ en_bits = {}
  <2>1. Enroll!On("start") /\ Enroll!StationStart
          /\ UNCHANGED <<en_program, en_handlers, en_granted, en_refused, en_early>>
    BY <1>2, OnStart DEF Enroll!Next, Enroll!Handle, Enroll!Ignore, Enroll!Task, Enroll!World,
          StationInv, WaitsForEnd, EnrollStill, Enroll!DppStart, Enroll!SmartStart, Enroll!Told,
          Enroll!Unregister, Enroll!Goes, Enroll!DeleteGroup, Enroll!BeginSmart,
          Enroll!WaitSmart, Enroll!Join, Enroll!Address, Enroll!Lose, Enroll!WpsEnds,
          Enroll!DppReceived, Enroll!DppFails, Enroll!SmartFinds, Enroll!SmartTells
  <2>2. Joins'
    BY <1>2, <2>1, OnStart DEF Enroll!StationStart, EnrollStill, Joins, LinkOf, Linking, Losses,
          Enroll!Listens, Enroll!Connect, Enroll!Unset, Enroll!memory, Enroll!group_vars
  <2>3. WaitsForEnd'
    BY <1>2, <2>1 DEF StationInv, Enroll!StationStart, WaitsForEnd, Enroll!group_vars
  <2> QED
    BY <1>1, <1>2, <2>2, <2>3 DEF StationInv
<1>3. CASE Joins
  <2>1. ~Enroll!On("start")
    BY <1>3, LinkingQueues DEF Joins
  <2>2. WaitsForEnd' /\ Joins'
    BY <1>3, <2>1, EndsStep, JoinsStep DEF StationInv
  <2> QED
    BY <1>1, <2>2 DEF StationInv
<1> QED
  BY <1>2, <1>3 DEF StationInv

LEMMA DppStep == EnrollTypes /\ DppInv /\ [Enroll!Next]_Enroll!vars => DppInv'
<1>0. CASE UNCHANGED Enroll!vars
  BY <1>0 DEF Enroll!vars, Enroll!memory, Enroll!group_vars, Enroll!radio, Enroll!supplicant,
        DppInv, WaitsForEnd, Joins, LinkOf, EnrollStill, Enroll!Listens
<1> SUFFICES ASSUME EnrollTypes, DppInv, en_program = "dpp", Enroll!Next PROVE DppInv'
  BY <1>0, ProgramStays DEF DppInv
<1>1. en_program' = "dpp"
  BY ProgramStays
<1> USE EnrollBounds DEF EnrollTypes, EnrollNumbers, EnrollNames, Enroll!memory, Enroll!radio,
      Enroll!supplicant, Enroll!group_vars, Enroll!Connect, Enroll!SetBit, Enroll!Unset,
      Enroll!Nets, Enroll!Enough
<1>2. CASE en_events = Beginning /\ en_config = Enroll!Unset /\ EnrollStill /\ en_bits = {}
        /\ en_enrol = "off" /\ en_refused = 0
  <2>1. Enroll!On("start") /\ Enroll!DppStart
          /\ UNCHANGED <<en_program, en_handlers, en_granted, en_refused, en_early>>
    BY <1>2, OnStart DEF Enroll!Next, Enroll!Handle, Enroll!Ignore, Enroll!Task, Enroll!World,
          DppInv, WaitsForEnd, EnrollStill, Enroll!StationStart, Enroll!SmartStart, Enroll!Told,
          Enroll!Unregister, Enroll!Goes, Enroll!DeleteGroup, Enroll!BeginSmart,
          Enroll!WaitSmart, Enroll!Join, Enroll!Address, Enroll!Lose, Enroll!WpsEnds,
          Enroll!DppReceived, Enroll!DppFails, Enroll!SmartFinds, Enroll!SmartTells
  <2>2. WaitsForEnd'
    BY <1>2, <2>1 DEF DppInv, Enroll!DppStart, WaitsForEnd
  <2> QED
    BY <1>1, <1>2, <2>1, <2>2, OnStart DEF DppInv, Enroll!DppStart, EnrollStill
<1>3. CASE en_events = <<>> /\ en_config = Enroll!Unset /\ en_link = "down" /\ en_lost[0] = 0
  <2>1. \A kind : ~Enroll!On(kind)
    BY <1>3 DEF Enroll!On
  <2>2. WaitsForEnd'
    BY <2>1, EndsStep DEF DppInv
  <2>3. \/ en_enrol = "on" /\ en_bits = {} /\ en_refused = en_retry
        \/ en_enrol = "off" /\ en_bits = {"AUTH"} /\ en_refused = Enroll!Enough
    BY <1>3 DEF DppInv, Joins, Beginning
  <2>6. CASE Enroll!Told \/ Enroll!Unregister \/ Enroll!DeleteGroup
    <3>1. en_enrol = "off" /\ en_enrol' = "off"
            /\ UNCHANGED <<en_bits, en_refused, en_events, en_config, en_link, en_lost>>
      BY <1>3, <2>2, <2>3, <2>6 DEF DppInv, WaitsForEnd, Enroll!Told, Enroll!Unregister,
            Enroll!DeleteGroup, Enroll!Goes
    <3> QED
      BY <1>1, <1>3, <2>2, <2>3, <3>1 DEF DppInv
  <2>4. CASE Enroll!DppReceived
    BY <1>1, <1>3, <2>2, <2>4 DEF DppInv, Enroll!DppReceived, Joins, Linking, LinkOf, Losses
  <2>5. CASE Enroll!DppFails
    <3>1. en_enrol = "on" /\ en_refused' = en_refused + 1
            /\ UNCHANGED <<en_events, en_config, en_link, en_lost>>
      BY <1>3, <2>3, <2>5 DEF Enroll!DppFails, Enroll!Counted
    <3>2. \/ en_enrol' = "on" /\ en_bits' = {} /\ en_refused' = en_retry'
          \/ en_enrol' = "off" /\ en_bits' = {"AUTH"} /\ en_refused' = Enroll!Enough
      <4>1. CASE en_retry < Retries
        <5>1. en_bits = {} /\ en_refused = en_retry
          BY <2>3, <3>1
        <5>2. UNCHANGED <<en_enrol, en_bits>> /\ en_retry' = en_retry + 1
          BY <2>5, <4>1 DEF Enroll!DppFails
        <5> QED
          BY <3>1, <5>1, <5>2
      <4>2. CASE en_retry >= Retries
        <5>1. en_refused' = Enroll!Enough /\ en_bits = {}
          BY <2>3, <3>1, <4>2
        <5> QED
          BY <2>5, <4>2, <5>1 DEF Enroll!DppFails
      <4> QED
        BY <4>1, <4>2
    <3> QED
      BY <1>1, <1>3, <2>2, <3>1, <3>2 DEF DppInv
  <2> QED
    BY <1>3, <2>1, <2>4, <2>5, <2>6 DEF Enroll!Next, Enroll!Handle, Enroll!Ignore, Enroll!Task,
          Enroll!World, Enroll!BeginSmart, Enroll!WaitSmart, Enroll!Join, Enroll!Address,
          Enroll!Lose, Enroll!WpsEnds, Enroll!SmartFinds, Enroll!SmartTells
<1>4. CASE Joins /\ en_enrol \in {"done", "off"} /\ en_bits \subseteq {"CONNECTED", "FAIL"}
  <2>1. ~Enroll!On("start")
    BY <1>4, LinkingQueues DEF Joins
  <2>2. WaitsForEnd' /\ Joins'
    BY <1>4, <2>1, EndsStep, JoinsStep DEF DppInv
  <2>3. en_enrol' \in {"done", "off"} /\ en_bits' \subseteq {"CONNECTED", "FAIL"}
    BY <1>4, <2>1 DEF DppInv, Enroll!Next, Enroll!Handle, Enroll!Ignore, Enroll!Task,
          Enroll!World, Enroll!StationStart, Enroll!SmartStart, Enroll!StationLost,
          Enroll!DppLost, Enroll!WpsLost, Enroll!SmartLost, Enroll!RetryOnce,
          Enroll!StationAddress, Enroll!DppAddress, Enroll!SmartAddress, Enroll!WpsSuccess,
          Enroll!WpsFailed, Enroll!SmartCredentials, Enroll!SmartAcked, Enroll!Told,
          Enroll!Unregister, Enroll!DeleteGroup, Enroll!BeginSmart, Enroll!WaitSmart,
          Enroll!Join, Enroll!Address, Enroll!Lose, Enroll!WpsEnds, Enroll!DppReceived,
          Enroll!DppFails, Enroll!SmartFinds, Enroll!SmartTells
  <2> QED
    BY <1>1, <2>2, <2>3 DEF DppInv
<1> QED
  BY <1>2, <1>3, <1>4 DEF DppInv

LEMMA WpsStep == EnrollTypes /\ WpsInv /\ [Enroll!Next]_Enroll!vars => WpsInv'
<1>0. CASE UNCHANGED Enroll!vars
  BY <1>0 DEF Enroll!vars, Enroll!memory, Enroll!group_vars, Enroll!radio, Enroll!supplicant,
        WpsInv, WpsRuns, WpsJoins, WpsLinks, NetworksTried, LinkOf, Enroll!Listens
<1> SUFFICES ASSUME EnrollTypes, WpsInv, en_program = "wps", Enroll!Next PROVE WpsInv'
  BY <1>0, ProgramStays DEF WpsInv
<1>1. en_task = "ended" /\ Enroll!Listens /\ en_group /\ ~en_crashed /\ en_bits = {}
        /\ (WpsRuns \/ WpsJoins)
  BY DEF WpsInv
<1>0b. ~Enroll!Task
  BY <1>1 DEF Enroll!Task, Enroll!Told, Enroll!Unregister, Enroll!DeleteGroup,
        Enroll!BeginSmart, Enroll!WaitSmart, Enroll!Goes
<1>0c. ~Enroll!DppReceived /\ ~Enroll!DppFails /\ ~Enroll!SmartFinds /\ ~Enroll!SmartTells
  BY DEF Enroll!DppReceived, Enroll!DppFails, Enroll!SmartFinds, Enroll!SmartTells
<1> USE EnrollBounds DEF EnrollTypes, EnrollNumbers, EnrollNames, Enroll!memory, Enroll!radio,
      Enroll!supplicant, Enroll!group_vars, Enroll!Connect, Enroll!Unset, Enroll!Nets,
      Enroll!Enough
<1>0d. Enroll!Handle => (Enroll!WpsSuccess /\ Enroll!On("success"))
         \/ (Enroll!WpsFailed /\ Enroll!On("failed")) \/ (Enroll!WpsLost /\ Enroll!On("lost"))
  BY DEF Enroll!Handle, Enroll!StationStart, Enroll!DppStart, Enroll!SmartStart,
        Enroll!StationLost, Enroll!DppLost, Enroll!SmartLost, Enroll!StationAddress,
        Enroll!DppAddress, Enroll!SmartAddress, Enroll!SmartCredentials, Enroll!SmartAcked
<1>2. UNCHANGED <<en_task, en_handlers, en_group, en_crashed, en_bits>>
  <2>1. CASE Enroll!Handle
    BY <1>0d, <2>1 DEF Enroll!Handle, Enroll!WpsLost, Enroll!RetryOnce, Enroll!NextNetwork,
          Enroll!WpsSuccess, Enroll!WpsFailed
  <2> QED
    BY <1>0b, <1>0c, <2>1 DEF Enroll!Next, Enroll!Ignore, Enroll!World, Enroll!Join,
          Enroll!Address, Enroll!Lose, Enroll!WpsEnds
<1>2a. (en_task = "ended" /\ Enroll!Listens /\ en_group /\ ~en_crashed /\ en_bits = {})'
  BY <1>1, <1>2 DEF Enroll!Listens
<1> SUFFICES WpsRuns' \/ WpsJoins'
  BY <1>2a, ProgramStays DEF WpsInv
<1>3. CASE WpsRuns
  <2>1. en_events \in Successes \cup {<<>>, Beginning, <<"failed">>, <<"start", "failed">>}
    BY <1>3 DEF WpsRuns
  <2>2. CASE Enroll!Handle
    <3>1. UNCHANGED <<en_program, en_granted, en_refused, en_early>>
      BY <2>2 DEF Enroll!Handle
    <3>2. CASE Enroll!On("success") /\ Enroll!WpsSuccess
      <4>1. en_events' = <<>> /\ en_config' = 0 /\ en_link' = "connecting" /\ en_enrol' = "off"
              /\ en_granted \in {0} \cup 2 .. MaxCreds
        BY <1>3, <2>1, <3>2, WpsQueues DEF WpsRuns, Enroll!WpsSuccess
      <4>2. en_creds' = en_granted' /\ en_ap' = 1 /\ UNCHANGED <<en_retry, en_lost>>
        BY <1>3, <3>1, <3>2 DEF WpsRuns, Enroll!WpsSuccess
      <4>3. en_lost = [n \in Enroll!Nets |-> 0] /\ (en_early \/ en_retry = 0)
        BY <1>3, <2>1, <3>2, WpsQueues DEF WpsRuns
      <4>4. WpsLinks'
        BY <3>1, <4>1, <4>2 DEF WpsLinks, LinkOf, Linking, Losses
      <4>5. en_early' \/ NetworksTried'
        BY <3>1, <4>1, <4>2, <4>3 DEF NetworksTried, Losses
      <4> QED
        BY <4>4, <4>5 DEF WpsJoins
    <3>3. CASE Enroll!On("failed") /\ Enroll!WpsFailed
      BY <1>3, <2>1, <3>1, <3>3, WpsQueues DEF WpsRuns, Enroll!WpsFailed, Successes
    <3>4. CASE Enroll!On("lost") /\ Enroll!WpsLost
      <4>1. en_events' = <<"success">> /\ en_enrol = "done" /\ en_early
              /\ en_granted \in {0} \cup 2 .. MaxCreds
        BY <1>3, <2>1, <3>4, WpsQueues DEF WpsRuns, Beginning
      <4>2. UNCHANGED <<en_config, en_link, en_ap, en_creds, en_lost, en_enrol>>
        BY <1>3, <3>4 DEF WpsRuns, Enroll!WpsLost, Enroll!RetryOnce, Enroll!NextNetwork
      <4> QED
        BY <1>3, <3>1, <4>1, <4>2 DEF WpsRuns, Successes
    <3> QED
      BY <1>0d, <2>2, <3>2, <3>3, <3>4
  <2>3. CASE Enroll!Ignore
    BY <1>3, <2>1, <2>3, WpsQueues DEF WpsRuns, Enroll!Ignore, Successes, Beginning
  <2>4. CASE Enroll!WpsEnds
    <3>1. UNCHANGED <<en_config, en_link, en_ap, en_creds, en_lost, en_retry>>
      BY <2>4 DEF Enroll!WpsEnds
    <3>2. en_enrol = "on" /\ en_granted = 0 /\ en_events \in {<<>>, Beginning} /\ ~en_early
            /\ en_retry = 0
      BY <1>3, <2>4 DEF WpsRuns, Enroll!WpsEnds
    <3>3. CASE en_enrol' = "failed"
      BY <1>3, <2>4, <3>1, <3>2, <3>3, Appended DEF WpsRuns, Enroll!WpsEnds, Beginning,
            Enroll!Post
    <3>4. CASE en_enrol' = "done" /\ UNCHANGED en_early /\ Enroll!Post("success")
      <4>1. en_events' \in {<<"success">>, <<"start", "success">>}
        BY <3>2, <3>4, Appended DEF Enroll!Post, Beginning
      <4> QED
        BY <1>3, <2>4, <3>1, <3>2, <3>4, <4>1 DEF WpsRuns, Enroll!WpsEnds, Successes
    <3>5. CASE en_enrol' = "done" /\ en_early' = TRUE
            /\ en_events' = en_events \o <<"lost", "success">>
      <4>1. en_events' \in {<<"lost", "success">>, <<"start", "lost", "success">>}
        BY <3>2, <3>5, Appended DEF Beginning
      <4> QED
        BY <1>3, <2>4, <3>1, <3>2, <3>5, <4>1 DEF WpsRuns, Enroll!WpsEnds, Successes
    <3> QED
      BY <2>4, <3>3, <3>4, <3>5 DEF Enroll!WpsEnds
  <2> QED
    BY <1>0b, <1>0c, <1>3, <2>2, <2>3, <2>4 DEF WpsRuns, Enroll!Next, Enroll!World, Enroll!Join,
          Enroll!Address, Enroll!Lose
<1>4. CASE WpsJoins
  <2>1. en_events \in Linking /\ en_config \in Enroll!Nets /\ en_config = en_ap - 1
    BY <1>4 DEF WpsJoins, WpsLinks
  <2>2. CASE Enroll!Handle
    <3>1. en_events = <<"lost">> /\ en_events' = <<>> /\ Enroll!WpsLost
            /\ UNCHANGED <<en_program, en_granted, en_refused, en_early>>
      BY <1>0d, <2>1, <2>2, LinkingQueues DEF Enroll!Handle
    <3>2. en_link = "down" /\ en_lost' = en_lost
            /\ (en_early \/ en_lost[en_config] = en_retry + 1)
      BY <1>4, <3>1 DEF WpsJoins, WpsLinks, NetworksTried, LinkOf, Losses, Enroll!WpsLost,
            Enroll!RetryOnce, Enroll!NextNetwork
    <3>3. CASE Enroll!RetryOnce
      BY <1>4, <3>1, <3>2, <3>3 DEF WpsJoins, WpsLinks, NetworksTried, LinkOf, Linking, Losses,
            Enroll!RetryOnce
    <3>4. CASE Enroll!NextNetwork
      <4>1. en_retry = Retries /\ en_config' = en_config + 1 /\ en_ap' = en_ap + 1
              /\ en_retry' = 0 /\ en_link' = "connecting"
        BY <2>1, <3>2, <3>4 DEF Enroll!NextNetwork
      <4>2. WpsLinks'
        BY <1>4, <3>1, <3>4, <4>1 DEF Enroll!NextNetwork, WpsJoins, WpsLinks, LinkOf, Linking,
              Losses
      <4>3. en_early' \/ NetworksTried'
        BY <1>4, <2>1, <3>1, <3>2, <3>4, <4>1 DEF Enroll!NextNetwork, WpsJoins, WpsLinks,
              NetworksTried, Losses
      <4> QED
        BY <4>2, <4>3 DEF WpsJoins
    <3>5. CASE en_retry >= Retries /\ en_ap >= en_creds
            /\ UNCHANGED <<Enroll!memory, Enroll!group_vars, Enroll!radio, en_enrol>>
      BY <1>4, <3>1, <3>2, <3>5 DEF WpsJoins, WpsLinks, NetworksTried, LinkOf, Linking, Losses
    <3> QED
      BY <3>1, <3>3, <3>4, <3>5 DEF Enroll!WpsLost
  <2>3. CASE Enroll!Ignore
    <3>1. \/ en_events = <<"got_ip">> /\ en_events' = <<>>
          \/ en_events = <<"got_ip", "lost">> /\ en_events' = <<"lost">>
      BY <1>1, <2>1, <2>3, LinkingQueues DEF Enroll!Ignore, Enroll!Listens
    <3>2. en_link = "addressed" \/ en_events' = <<"lost">>
      BY <1>4, <3>1 DEF WpsJoins, WpsLinks, LinkOf
    <3>3. UNCHANGED <<Enroll!memory, Enroll!radio, Enroll!supplicant>>
      BY <2>3 DEF Enroll!Ignore
    <3> QED
      BY <1>4, <3>1, <3>2, <3>3 DEF WpsJoins, WpsLinks, NetworksTried, LinkOf, Linking, Losses
  <2>4. CASE Enroll!Join
    BY <1>4, <2>4 DEF WpsJoins, WpsLinks, NetworksTried, LinkOf, Linking, Losses, Enroll!Join
  <2>5. CASE Enroll!Address
    <3>1. /\ en_link = "joined" /\ en_link' = "addressed"
          /\ UNCHANGED <<Enroll!memory, en_config, en_lost, Enroll!supplicant>>
          /\ en_events = <<>> /\ en_events' = <<"got_ip">>
      BY <1>4, <2>5, Appended DEF WpsJoins, WpsLinks, LinkOf, Linking, Losses, Enroll!Address,
            Enroll!Post
    <3> QED
      BY <1>4, <3>1 DEF WpsJoins, WpsLinks, NetworksTried, LinkOf, Linking, Losses
  <2>6. CASE Enroll!Lose
    <3>1. /\ en_link # "down" /\ en_link' = "down"
          /\ UNCHANGED <<Enroll!memory, en_config, Enroll!supplicant>>
          /\ \/ en_events = <<>> /\ en_events' = <<"lost">>
             \/ en_events = <<"got_ip">> /\ en_events' = <<"got_ip", "lost">>
      BY <1>4, <2>6, Appended DEF WpsJoins, WpsLinks, LinkOf, Linking, Losses, Enroll!Lose,
            Enroll!Post
    <3>2. WpsLinks'
      BY <1>4, <3>1 DEF WpsJoins, WpsLinks, LinkOf, Linking, Losses
    <3>3. en_lost' = [en_lost EXCEPT ![en_config] = Enroll!Counted(@)]
      BY <2>6 DEF Enroll!Lose
    <3>4. CASE ~en_early
      <4>1. NetworksTried /\ en_lost[en_config] = en_retry
        <5>1. en_events \notin Losses
          BY <1>4, <3>1 DEF WpsJoins, WpsLinks, LinkOf
        <5> QED
          BY <1>4, <3>1, <3>4, <5>1 DEF WpsJoins, NetworksTried
      <4>2. en_lost'[en_config] = en_retry + 1 /\ \A n \in Enroll!Nets : n # en_config
              => en_lost'[n] = en_lost[n]
        BY <2>1, <3>3, <4>1 DEF Enroll!Counted
      <4> QED
        BY <3>1, <3>2, <4>1, <4>2 DEF WpsJoins, NetworksTried, Losses
    <3> QED
      BY <3>1, <3>2, <3>4 DEF WpsJoins
  <2> QED
    BY <1>0b, <1>0c, <1>4, <2>2, <2>3, <2>4, <2>5, <2>6 DEF WpsJoins, WpsLinks, Enroll!Next,
          Enroll!World, Enroll!WpsEnds
<1> QED
  BY <1>1, <1>3, <1>4

LEMMA SmartStep == EnrollTypes /\ SmartInv /\ [Enroll!Next]_Enroll!vars => SmartInv'
<1>0. CASE UNCHANGED Enroll!vars
  BY <1>0 DEF Enroll!vars, Enroll!memory, Enroll!group_vars, Enroll!radio, Enroll!supplicant,
        SmartInv, SmartRuns, SmartJoins, LinkOf, Enroll!Listens
<1> SUFFICES ASSUME EnrollTypes, SmartInv, en_program = "smartconfig", Enroll!Next
    PROVE SmartInv'
  BY <1>0, ProgramStays DEF SmartInv
<1>1. Enroll!Listens /\ en_group /\ ~en_crashed /\ en_bits \subseteq {"CONNECTED", "DONE"}
        /\ (SmartRuns \/ SmartJoins)
  BY DEF SmartInv
<1>2. en_task \in {"none", "start", "wait", "ended"}
  BY <1>1 DEF SmartRuns, SmartJoins
<1>3. Enroll!Task => Enroll!BeginSmart \/ Enroll!WaitSmart
  BY <1>2 DEF Enroll!Task, Enroll!Told, Enroll!Unregister, Enroll!DeleteGroup,
        Enroll!BeginSmart, Enroll!WaitSmart, Enroll!Goes
<1>4. ~Enroll!DppReceived /\ ~Enroll!DppFails /\ ~Enroll!WpsEnds
  BY DEF Enroll!DppReceived, Enroll!DppFails, Enroll!WpsEnds
<1>5. Enroll!Handle => \/ Enroll!SmartStart /\ Enroll!On("start")
                       \/ Enroll!SmartLost /\ Enroll!On("lost")
                       \/ Enroll!SmartAddress /\ Enroll!On("got_ip")
                       \/ Enroll!SmartCredentials /\ Enroll!On("credentials")
                       \/ Enroll!SmartAcked /\ Enroll!On("acked")
  BY DEF Enroll!Handle, Enroll!StationStart, Enroll!DppStart, Enroll!StationLost,
        Enroll!DppLost, Enroll!WpsLost, Enroll!StationAddress, Enroll!DppAddress,
        Enroll!WpsSuccess, Enroll!WpsFailed
<1>6. ~Enroll!Ignore
  BY <1>1 DEF Enroll!Ignore, Enroll!Listens
<1> USE EnrollBounds DEF EnrollTypes, EnrollNumbers, EnrollNames, EnrollFlags, Enroll!memory,
      Enroll!radio, Enroll!supplicant, Enroll!group_vars, Enroll!Connect, Enroll!SetBit,
      Enroll!Unset, Enroll!Nets
<1>7. (Enroll!Listens /\ en_group /\ ~en_crashed /\ en_bits \subseteq {"CONNECTED", "DONE"})'
  <2>1. UNCHANGED en_handlers
    BY <1>3, <1>4, <1>6 DEF Enroll!Next, Enroll!World, Enroll!Handle, Enroll!BeginSmart,
          Enroll!WaitSmart, Enroll!Join, Enroll!Address, Enroll!Lose, Enroll!SmartFinds,
          Enroll!SmartTells
  <2>4. CASE UNCHANGED Enroll!group_vars
    BY <1>1, <2>1, <2>4 DEF Enroll!Listens
  <2>2. CASE Enroll!Handle
    <3>1. CASE Enroll!SmartStart \/ Enroll!SmartCredentials
      BY <2>4, <3>1 DEF Enroll!SmartStart, Enroll!SmartCredentials
    <3>2. CASE Enroll!SmartLost
      BY <1>1, <2>1, <3>2 DEF Enroll!SmartLost, Enroll!Listens
    <3>3. CASE Enroll!SmartAddress
      BY <1>1, <2>1, <3>3 DEF Enroll!SmartAddress, Enroll!Listens
    <3>4. CASE Enroll!SmartAcked
      BY <1>1, <2>1, <3>4 DEF Enroll!SmartAcked, Enroll!Listens
    <3> QED
      BY <1>5, <2>2, <3>1, <3>2, <3>3, <3>4
  <2>3. CASE Enroll!WaitSmart
    BY <1>1, <2>1, <2>3 DEF Enroll!WaitSmart, Enroll!Listens
  <2> QED
    BY <1>3, <1>4, <1>6, <2>2, <2>3, <2>4 DEF Enroll!Next, Enroll!World, Enroll!BeginSmart,
          Enroll!Join, Enroll!Address, Enroll!Lose, Enroll!SmartFinds, Enroll!SmartTells
<1> SUFFICES SmartRuns' \/ SmartJoins'
  BY <1>7, ProgramStays DEF SmartInv
<1>8. CASE SmartRuns
  <2>1. CASE en_events = Beginning /\ en_task = "none" /\ en_enrol = "off"
    <3>1. Enroll!SmartStart /\ UNCHANGED <<en_config, en_link, en_bits, en_enrol>>
            /\ en_events' = <<>>
      BY <1>3, <1>4, <1>5, <1>6, <1>8, <2>1, OnStart DEF SmartRuns, Enroll!Next, Enroll!World,
            Enroll!BeginSmart, Enroll!WaitSmart, Enroll!Join, Enroll!Address, Enroll!Lose,
            Enroll!SmartFinds, Enroll!SmartTells, Enroll!SmartStart, Enroll!Goes
    <3> QED
      BY <1>8, <2>1, <3>1 DEF SmartRuns, Enroll!SmartStart
  <2>2. CASE en_events = <<>>
    <3>1. \A kind : ~Enroll!On(kind)
      BY <2>2 DEF Enroll!On
    <3>2. \/ Enroll!BeginSmart /\ en_task = "start"
          \/ Enroll!SmartFinds /\ en_task = "wait"
      BY <1>3, <1>4, <1>5, <1>6, <1>8, <2>2, <3>1 DEF SmartRuns, Enroll!Next, Enroll!World,
            Enroll!WaitSmart, Enroll!Join, Enroll!Address, Enroll!Lose, Enroll!SmartTells,
            Enroll!SmartFinds, Enroll!BeginSmart, Enroll!Goes, Beginning
    <3>3. CASE Enroll!BeginSmart
      BY <1>8, <2>2, <3>3 DEF SmartRuns, Enroll!BeginSmart, Enroll!Goes
    <3>4. CASE Enroll!SmartFinds /\ en_task = "wait"
      BY <1>8, <2>2, <3>4, Appended DEF SmartRuns, Enroll!SmartFinds, Enroll!Post
    <3> QED
      BY <3>2, <3>3, <3>4
  <2>3. CASE en_events = <<"credentials">> /\ en_task = "wait" /\ en_enrol = "found"
    <3>1. \A kind \in {"start", "lost", "got_ip", "acked"} : ~Enroll!On(kind)
      BY <2>3 DEF Enroll!On
    <3>2. Enroll!SmartCredentials /\ Enroll!On("credentials")
            /\ UNCHANGED <<en_handlers, en_granted, en_refused, en_early>>
      BY <1>3, <1>4, <1>5, <1>6, <1>8, <2>3, <3>1 DEF SmartRuns, Enroll!Next, Enroll!World,
            Enroll!BeginSmart, Enroll!WaitSmart, Enroll!Join, Enroll!Address, Enroll!Lose,
            Enroll!SmartTells, Enroll!SmartFinds, Enroll!Goes, Enroll!Handle
    <3>3. en_events' = <<>> /\ en_config' = 0 /\ en_link' = "connecting"
            /\ UNCHANGED <<en_task, en_enrol>> /\ en_bits' = {}
      BY <1>8, <2>3, <3>2 DEF SmartRuns, Enroll!SmartCredentials, Enroll!On
    <3> QED
      BY <2>3, <3>3 DEF SmartJoins, LinkOf, Linking, Losses, Acking
  <2> QED
    BY <1>8, <2>1, <2>2, <2>3 DEF SmartRuns
<1>9. CASE SmartJoins
  <2>1. en_config = 0 /\ en_events \in Linking \cup Acking /\ en_task \in {"wait", "ended"}
    BY <1>9 DEF SmartJoins
  <2>2. CASE Enroll!Handle
    <3>1. CASE Enroll!SmartLost /\ Enroll!On("lost")
      <4>1. en_events = <<"lost">> /\ en_events' = <<>>
        BY <2>1, <3>1, LinkingQueues, AckingQueues
      <4> QED
        BY <1>9, <2>1, <3>1, <4>1 DEF SmartJoins, LinkOf, Linking, Losses, Acking,
              Enroll!SmartLost
    <3>2. CASE Enroll!SmartAddress /\ Enroll!On("got_ip")
      <4>1. \/ en_events = <<"got_ip">> /\ en_events' = <<>>
            \/ en_events = <<"got_ip", "lost">> /\ en_events' = <<"lost">>
            \/ en_events = <<"got_ip", "acked">> /\ en_events' = <<"acked">>
            \/ en_events = <<"got_ip", "acked", "lost">> /\ en_events' = <<"acked", "lost">>
        BY <2>1, <3>2, LinkingQueues, AckingQueues
      <4>2. UNCHANGED <<en_config, en_link, en_enrol, en_task>>
              /\ ("DONE" \in en_bits' <=> "DONE" \in en_bits)
        BY <3>2 DEF Enroll!SmartAddress
      <4>3. /\ en_events' \in Linking \cup Acking
                 /\ (en_events' \in Losses <=> en_events \in Losses)
            /\ en_events' \in Acking <=> en_events \in Acking
        <5>1. CASE en_events = <<"got_ip">> /\ en_events' = <<>>
          BY <5>1 DEF Linking, Losses, Acking
        <5>2. CASE en_events = <<"got_ip", "lost">> /\ en_events' = <<"lost">>
          BY <5>2 DEF Linking, Losses, Acking
        <5>3. CASE en_events = <<"got_ip", "acked">> /\ en_events' = <<"acked">>
          BY <5>3 DEF Linking, Losses, Acking
        <5>4. CASE en_events = <<"got_ip", "acked", "lost">> /\ en_events' = <<"acked", "lost">>
          BY <5>4 DEF Linking, Losses, Acking
        <5> QED
          BY <4>1, <5>1, <5>2, <5>3, <5>4
      <4>4. \/ en_events' \notin {<<"got_ip">>, <<"acked">>, <<"got_ip", "acked">>}
            \/ en_events = <<"got_ip", "acked">>
        <5>1. CASE en_events' = <<>>
          BY <5>1
        <5>3. CASE en_events' = <<"lost">>
          BY <5>3
        <5>2. CASE en_events' = <<"acked", "lost">>
          BY <5>2
        <5> QED
          BY <4>1, <5>1, <5>2, <5>3
      <4> QED
        BY <1>9, <4>2, <4>3, <4>4 DEF SmartJoins, LinkOf
    <3>3. CASE Enroll!SmartAcked /\ Enroll!On("acked")
      <4>1. \/ en_events = <<"acked">> /\ en_events' = <<>>
            \/ en_events = <<"acked", "lost">> /\ en_events' = <<"lost">>
        BY <2>1, <3>3, LinkingQueues, AckingQueues
      <4>2. UNCHANGED <<en_config, en_link, en_enrol, en_task>> /\ "DONE" \in en_bits'
        BY <3>3 DEF Enroll!SmartAcked
      <4>3. CASE en_events = <<"acked">> /\ en_events' = <<>>
        BY <1>9, <4>2, <4>3 DEF SmartJoins, LinkOf, Linking, Losses, Acking
      <4>4. CASE en_events = <<"acked", "lost">> /\ en_events' = <<"lost">>
        <5>1. en_link = "down"
          BY <1>9, <4>4 DEF SmartJoins, LinkOf, Losses
        <5> QED
          BY <1>9, <4>2, <4>4, <5>1 DEF SmartJoins, LinkOf, Linking, Losses, Acking
      <4> QED
        BY <4>1, <4>3, <4>4
    <3>4. ~Enroll!On("start") /\ ~Enroll!On("credentials")
      BY <2>1, LinkingQueues, AckingQueues
    <3> QED
      BY <1>5, <2>2, <3>1, <3>2, <3>3, <3>4
  <2>3. CASE Enroll!WaitSmart
    <3>1. UNCHANGED <<en_config, en_link, en_events>> /\ en_task' \in {"wait", "ended"}
      BY <2>3 DEF Enroll!WaitSmart
    <3>2. \/ "DONE" \in en_bits /\ en_enrol' = "off"
          \/ "DONE" \notin en_bits /\ en_enrol' = en_enrol
      BY <2>3 DEF Enroll!WaitSmart
    <3>3. CASE "DONE" \in en_bits /\ en_enrol' = "off"
      <4>1. en_events \notin Acking /\ "DONE" \notin en_bits'
        BY <1>9, <2>3, <3>3 DEF SmartJoins, Enroll!WaitSmart
      <4> QED
        BY <1>9, <3>1, <3>3, <4>1 DEF SmartJoins, LinkOf
    <3>4. CASE "DONE" \notin en_bits /\ en_enrol' = en_enrol
      <4>1. "DONE" \notin en_bits'
        BY <2>3 DEF Enroll!WaitSmart
      <4> QED
        BY <1>9, <3>1, <3>4, <4>1 DEF SmartJoins, LinkOf
    <3> QED
      BY <3>2, <3>3, <3>4
  <2>4. CASE Enroll!Join
    BY <1>9, <2>4 DEF SmartJoins, LinkOf, Linking, Losses, Acking, Enroll!Join
  <2>5. CASE Enroll!Address
    <3>1. en_events = <<>> /\ en_events' = <<"got_ip">> /\ en_link' = "addressed"
            /\ UNCHANGED <<en_config, en_enrol, en_task, en_bits>>
      BY <1>9, <2>5, Appended DEF SmartJoins, LinkOf, Linking, Losses, Acking, Enroll!Address,
            Enroll!Post
    <3> QED
      BY <1>9, <3>1 DEF SmartJoins, LinkOf, Linking, Losses, Acking
  <2>6. CASE Enroll!Lose
    <3>1. \/ en_events = <<>> /\ en_events' = <<"lost">>
          \/ en_events = <<"got_ip">> /\ en_events' = <<"got_ip", "lost">>
          \/ en_events = <<"acked">> /\ en_events' = <<"acked", "lost">>
          \/ en_events = <<"got_ip", "acked">> /\ en_events' = <<"got_ip", "acked", "lost">>
      BY <1>9, <2>6, Appended DEF SmartJoins, LinkOf, Linking, Losses, Acking, Enroll!Lose,
            Enroll!Post
    <3>2. en_link' = "down" /\ UNCHANGED <<en_config, en_enrol, en_task, en_bits>>
      BY <2>6 DEF Enroll!Lose
    <3> QED
      BY <1>9, <3>1, <3>2 DEF SmartJoins, LinkOf, Linking, Losses, Acking
  <2>7. CASE Enroll!SmartTells
    <3>0. "DONE" \notin en_bits
      BY <1>9, <2>7 DEF SmartJoins, Enroll!SmartTells
    <3>1. /\ en_link = "addressed" /\ en_enrol = "found" /\ en_enrol' = "acked"
          /\ UNCHANGED <<en_config, en_link, en_task, en_bits>>
          /\ \/ en_events = <<>> /\ en_events' = <<"acked">>
             \/ en_events = <<"got_ip">> /\ en_events' = <<"got_ip", "acked">>
      BY <1>9, <2>7, Appended DEF SmartJoins, LinkOf, Linking, Losses, Acking,
            Enroll!SmartTells, Enroll!Post
    <3>2. en_events' \in {<<"acked">>, <<"got_ip", "acked">>} /\ en_link' = "addressed"
            /\ en_enrol' = "acked"
      BY <3>1
    <3>3. en_events' \notin Losses /\ en_events' \in Acking
      <4>1. CASE en_events' = <<"acked">>
        BY <4>1 DEF Losses, Acking
      <4>2. CASE en_events' = <<"got_ip", "acked">>
        BY <4>2 DEF Losses, Acking
      <4> QED
        BY <3>2, <4>1, <4>2
    <3> QED
      BY <1>9, <3>0, <3>1, <3>2, <3>3 DEF SmartJoins, LinkOf
  <2> QED
    BY <1>3, <1>4, <1>6, <1>9, <2>2, <2>3, <2>4, <2>5, <2>6, <2>7 DEF SmartJoins, Enroll!Next,
          Enroll!World, Enroll!BeginSmart, Enroll!Goes, Enroll!SmartFinds
<1> QED
  BY <1>1, <1>8, <1>9

LEMMA LossesWait == en_events \in Losses => Enroll!Pending("lost")
<1>1. CASE en_events = <<"lost">>
  BY <1>1 DEF Enroll!Pending
<1>2. CASE en_events = <<"got_ip", "lost">>
  <2>1. 2 \in DOMAIN en_events /\ en_events[2] = "lost"
    BY <1>2
  <2> QED
    BY <2>1 DEF Enroll!Pending
<1>3. CASE en_events = <<"acked", "lost">>
  <2>1. 2 \in DOMAIN en_events /\ en_events[2] = "lost"
    BY <1>3
  <2> QED
    BY <2>1 DEF Enroll!Pending
<1>4. CASE en_events = <<"got_ip", "acked", "lost">>
  <2>1. 3 \in DOMAIN en_events /\ en_events[3] = "lost"
    BY <1>4
  <2> QED
    BY <2>1 DEF Enroll!Pending
<1> QED
  BY <1>1, <1>2, <1>3, <1>4 DEF Losses

EnrollInv == EnrollTypes /\ StationInv /\ DppInv /\ WpsInv /\ SmartInv

LEMMA EnrollSuffices == EnrollInv => Enroll!EnrollmentIsSound
<1> SUFFICES ASSUME EnrollInv PROVE Enroll!EnrollmentIsSound
  OBVIOUS
<1> USE EnrollBounds DEF EnrollInv, EnrollTypes, EnrollNumbers, EnrollNames, Enroll!Nets,
      Enroll!Unset
<1>1. en_events = Beginning => Enroll!Pending("start")
  BY OnStart
<1>2. Enroll!StationTries
  <2> SUFFICES ASSUME en_config # Enroll!Unset, en_link = "down", Enroll!Listens
      PROVE Enroll!UsedUp \/ Enroll!Pending("start") \/ Enroll!Pending("lost")
    BY DEF Enroll!StationTries
  <2>1. CASE en_program \in {"station", "dpp"}
    <3>1. en_events = Beginning \/ Joins
      BY <2>1 DEF StationInv, DppInv
    <3>2. CASE Joins
      <4>1. en_events \in Losses \/ en_lost[0] = Enroll!Enough
        BY <3>2 DEF Joins, LinkOf, Linking, Losses
      <4> QED
        BY <2>1, <4>1, LossesWait DEF Enroll!UsedUp
    <3> QED
      BY <1>1, <3>1, <3>2
  <2>2. CASE en_program = "wps"
    <3>1. WpsJoins
      BY <2>2 DEF WpsInv, WpsRuns
    <3>2. CASE ~en_early /\ en_events \notin Losses
      <4>1. /\ \A n \in Enroll!Nets : n < en_config => en_lost[n] = Enroll!Enough
            /\ en_lost[en_config] = Enroll!Enough /\ en_ap >= en_granted
            /\ en_config = en_ap - 1
        BY <3>1, <3>2 DEF WpsJoins, WpsLinks, NetworksTried
      <4>2. \A n \in Enroll!Nets : n = 0 \/ n < en_granted => n <= en_config
        BY <4>1, <3>1 DEF WpsJoins, WpsLinks
      <4>3. \A n \in Enroll!Nets : n = 0 \/ n < en_granted => en_lost[n] = Enroll!Enough
        BY <4>1, <4>2
      <4> QED
        BY <2>2, <4>3 DEF Enroll!UsedUp
    <3> QED
      BY <2>2, <3>2, LossesWait DEF Enroll!UsedUp
  <2>3. CASE en_program = "smartconfig"
    BY <2>3, LossesWait DEF SmartInv, SmartRuns, SmartJoins
  <2> QED
    BY <2>1, <2>2, <2>3
<1>3. Enroll!FailuresAreTold
  <2>1. CASE en_program = "station"
    BY <2>1 DEF Enroll!FailuresAreTold, StationInv, Joins, WaitsForEnd
  <2>2. CASE en_program = "dpp"
    BY <2>2 DEF Enroll!FailuresAreTold, DppInv, Joins, WaitsForEnd
  <2>3. CASE en_program \in {"wps", "smartconfig"}
    BY <2>3 DEF Enroll!FailuresAreTold, WpsInv, SmartInv
  <2> QED
    BY <2>1, <2>2, <2>3
<1>4. Enroll!EndIsNoticed
  <2>1. en_enrol = "acked" => en_program = "smartconfig" /\ SmartJoins
    BY DEF StationInv, DppInv, WpsInv, WpsRuns, WpsJoins, WpsLinks, SmartInv, SmartRuns
  <2> QED
    BY <2>1, AckingQueues DEF Enroll!EndIsNoticed, SmartJoins
<1> QED
  BY <1>2, <1>3, <1>4 DEF Enroll!EnrollmentIsSound

(* No program has more than four events waiting.                           *)
LEMMA FewEvents ==
  en_events \in Linking \cup Successes \cup Acking
                \cup {Beginning, <<"failed">>, <<"start", "failed">>, <<"credentials">>}
    => Len(en_events) <= 4
<1>1. /\ Len(<<>>) = 0 /\ Len(<<"start">>) = 1 /\ Len(<<"got_ip">>) = 1 /\ Len(<<"lost">>) = 1
      /\ Len(<<"success">>) = 1 /\ Len(<<"failed">>) = 1 /\ Len(<<"credentials">>) = 1
      /\ Len(<<"acked">>) = 1
  OBVIOUS
<1>2. /\ Len(<<"got_ip", "lost">>) = 2 /\ Len(<<"lost", "success">>) = 2
      /\ Len(<<"start", "success">>) = 2 /\ Len(<<"start", "failed">>) = 2
      /\ Len(<<"acked", "lost">>) = 2 /\ Len(<<"got_ip", "acked">>) = 2
  OBVIOUS
<1>3. Len(<<"start", "lost", "success">>) = 3 /\ Len(<<"got_ip", "acked", "lost">>) = 3
  OBVIOUS
<1>4. SUFFICES ASSUME en_events \in Linking \cup Successes \cup Acking
                \cup {Beginning, <<"failed">>, <<"start", "failed">>, <<"credentials">>}
               PROVE  Len(en_events) \in {0, 1, 2, 3}
  BY <1>4
<1>5. CASE en_events \in Linking
  BY <1>1, <1>2, <1>3, <1>5, Zenon DEF Linking
<1>6. CASE en_events \in Successes
  BY <1>1, <1>2, <1>3, <1>6, Zenon DEF Successes
<1>7. CASE en_events \in Acking
  BY <1>1, <1>2, <1>3, <1>7, Zenon DEF Acking
<1>8. CASE en_events \in {Beginning, <<"failed">>, <<"start", "failed">>, <<"credentials">>}
  BY <1>1, <1>2, <1>3, <1>8, Zenon DEF Beginning
<1> QED
  BY <1>4, <1>5, <1>6, <1>7, <1>8

LEMMA EnrollTyped == EnrollInv => Enroll!TypeOK
<1> SUFFICES ASSUME EnrollInv PROVE Enroll!TypeOK
  OBVIOUS
<1> USE EnrollBounds DEF EnrollInv, EnrollTypes, EnrollNumbers, EnrollNames
<1>1. en_ap \in 1 .. MaxCreds
  <2>1. CASE en_program # "wps"
    BY <2>1
  <2>2. CASE en_program = "wps"
    BY <2>2 DEF WpsInv, WpsRuns, WpsJoins, WpsLinks
  <2> QED
    BY <2>1, <2>2
<1>2. en_events \in Linking \cup Successes \cup Acking
                \cup {Beginning, <<"failed">>, <<"start", "failed">>, <<"credentials">>}
  <2>1. <<>> \in Linking
    BY DEF Linking
  <2>2. <<"success">> \in Successes /\ <<"start", "success">> \in Successes
    BY DEF Successes
  <2>3. CASE en_program \in {"station", "dpp"}
    BY <2>1, <2>3 DEF StationInv, DppInv, Joins
  <2>4. CASE en_program = "wps"
    BY <2>1, <2>4 DEF WpsInv, WpsRuns, WpsJoins, WpsLinks
  <2>5. CASE en_program = "smartconfig"
    BY <2>1, <2>5 DEF SmartInv, SmartRuns, SmartJoins
  <2> QED
    BY <2>3, <2>4, <2>5
<1> QED
  BY <1>1, <1>2, FewEvents DEF Enroll!TypeOK

(* However often a connection is tried and however many networks WPS hands *)
(* over: a station that enrols goes on trying, every network gets its      *)
(* tries, and the program is told how its enrolling ended.                 *)
THEOREM EnrollmentHolds == Enroll!Spec => [](Enroll!TypeOK /\ Enroll!EnrollmentIsSound)
<1>1. Enroll!Init => EnrollInv
  <2> SUFFICES ASSUME Enroll!Init PROVE EnrollInv
    OBVIOUS
  <2> USE EnrollBounds DEF Enroll!Init, Enroll!StationInit, Enroll!WpsInit, Enroll!DppInit,
        Enroll!SmartInit
  <2>1. EnrollTypes
    <3>1. EnrollNumbers
      BY DEF EnrollNumbers, Enroll!Nets, Enroll!Unset, Enroll!Enough
    <3> QED
      BY <3>1 DEF EnrollTypes, EnrollNames, EnrollFlags
  <2>2. StationInv /\ DppInv
    BY DEF StationInv, DppInv, WaitsForEnd, EnrollStill, Beginning, Enroll!Nets
  <2>3. WpsInv /\ SmartInv
    BY DEF WpsInv, WpsRuns, SmartInv, SmartRuns, Enroll!Listens, Beginning, Successes
  <2> QED
    BY <2>1, <2>2, <2>3 DEF EnrollInv
<1>2. EnrollInv /\ [Enroll!Next]_Enroll!vars => EnrollInv'
  BY EnrollNumbersStep, EnrollNamesStep, EnrollFlagsStep, StationStep, DppStep, WpsStep,
     SmartStep DEF EnrollInv, EnrollTypes
<1> QED
  BY <1>1, <1>2, EnrollTyped, EnrollSuffices, PTL DEF Enroll!Spec

-----------------------------------------------------------------------------

(* Devices send one at a time, and the programs of the examples know their *)
(* link, their address, their reports and what enrolling has ended with.   *)
THEOREM ExamplesHold ==
  Peers!Spec /\ Measure!Spec /\ Throughput!Spec /\ Enroll!Spec => []ExamplesAreSound
<1>1. /\ Peers!SendsAreChained /\ Peers!LargerSends
      /\ Measure!FtmIsSound
      /\ Throughput!IperfIsSound
      /\ Enroll!EnrollmentIsSound
      => ExamplesAreSound
  BY DEF ExamplesAreSound
<1> QED
  BY <1>1, EspNowHolds, FtmHolds, IperfHolds, EnrollmentHolds, PTL
=============================================================================
