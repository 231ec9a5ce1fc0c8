------------------------- MODULE WifiStation_proofs -------------------------
(***************************************************************************)
(* Theorems about WifiStation, for any applications, queue and bounds.     *)
(***************************************************************************)
EXTENDS WifiStation, TLAPS

Labels == MainLabels \cup ModeLabels \cup EventLabels

Driver == [inited : BOOLEAN, stored : BOOLEAN, mode : Modes, running : BOOLEAN, link : Links]

-----------------------------------------------------------------------------
(* Type correctness.                                                       *)

(* What ModeReturns does to the two variables it changes.                  *)
LEMMA ModeReturnsType ==
  ASSUME TypeOK, NEW t \in Tasks, NEW r \in BOOLEAN, ModeReturns(t, r)
  PROVE  pc' \in [Tasks -> Labels] /\ answer' \in [Tasks -> BOOLEAN]
  BY DEF TypeOK, ModeReturns, Goes, Returns, Labels, MainLabels

(* What the driver does keeps its record and what it posts are events.     *)
LEMMA DriverType ==
  ASSUME TypeOK, NEW new \in Driver, DriverBecomes(new)
  PROVE  driver' \in Driver /\ posted' \in Seq(Events)
<1>1. driver' \in Driver
  <2>1. driver \in Driver
    BY DEF TypeOK, Driver
  <2>2. CASE Station(new)
    <3>1. driver' = [new EXCEPT !.link = driver.link]
      BY <2>2 DEF DriverBecomes, Changed
    <3> QED
      BY <2>1, <3>1 DEF Driver
  <2>3. CASE ~ Station(new)
    <3>1. driver' = [new EXCEPT !.link = "down"]
      BY <2>3 DEF DriverBecomes, Changed
    <3> QED
      BY <3>1 DEF Driver, Links
  <2> QED
    BY <2>2, <2>3
<1>2. Posts(driver, new) \in Seq(Events)
  <2>1. <<"stop">> \in Seq(Events) /\ <<"start">> \in Seq(Events) /\ <<>> \in Seq(Events)
    BY DEF Events
  <2>2. <<"leave", "stop">> \in Seq(Events)
    BY DEF Events, Reasons
  <2>3. CASE Station(driver) /\ ~ Station(new)
    BY <2>1, <2>2, <2>3 DEF Posts
  <2>4. CASE ~ Station(driver) /\ Station(new)
    BY <2>1, <2>4 DEF Posts
  <2>5. CASE Station(driver) = Station(new)
    BY <2>1, <2>5 DEF Posts
  <2> QED
    BY <2>3, <2>4, <2>5 DEF Station
<1>3. posted' \in Seq(Events)
  BY <1>2 DEF DriverBecomes, TypeOK
<1> QED
  BY <1>1, <1>3

LEMMA FaultType ==
  ASSUME TypeOK, Faulty \/ UNCHANGED faults
  PROVE  faults' \in 0..MaxFaults
  BY BoundsAssumption DEF Faulty, TypeOK

LEMMA DisconnectedType ==
  ASSUME TypeOK, NEW r \in Reasons, Disconnected(r)
  PROVE  driver' \in Driver /\ posted' \in Seq(Events)
<1>1. driver' \in Driver
  BY DEF Disconnected, TypeOK, Driver, Links
<1>2. r \in Events
  BY DEF Events
<1>3. posted' \in Seq(Events)
  BY <1>2 DEF Disconnected, TypeOK
<1> QED
  BY <1>1, <1>3

LEMMA GoesType ==
  ASSUME TypeOK, NEW t \in Tasks, NEW l \in Labels, Goes(t, l)
  PROVE  pc' \in [Tasks -> Labels] /\ answer' \in [Tasks -> BOOLEAN]
  BY DEF TypeOK, Goes, Labels

(* What a step of mode() may change, given the types of the new values.    *)
LEMMA ModeFrame ==
  ASSUME TypeOK,
         pc' \in [Tasks -> Labels] /\ answer' \in [Tasks -> BOOLEAN],
         ready' \in BOOLEAN /\ started' \in BOOLEAN,
         target' \in [Tasks -> Modes],
         driver' \in Driver /\ posted' \in Seq(Events),
         queue' \in Seq(Events) /\ Len(queue') <= QueueLen,
         faults' \in 0..MaxFaults,
         UNCHANGED <<reports, dhcp, lease, drops, late, calls, wanted, overlap, op>>
  PROVE  TypeOK'
  BY DEF TypeOK, reports, Labels, Driver

(* Its steps change the control state as Goes and ModeReturns do.          *)
LEMMA ModeControl ==
  ASSUME TypeOK, NEW t \in Tasks, ChangeMode(t)
  PROVE  pc' \in [Tasks -> Labels] /\ answer' \in [Tasks -> BOOLEAN]
<1>1. \/ \E r \in BOOLEAN : ModeReturns(t, r)
      \/ \E l \in Labels : Goes(t, l)
  <2>1. ModeLabels \subseteq Labels /\ "mode" \in Labels
    BY DEF Labels, MainLabels
  <2> QED
    BY <2>1 DEF ChangeMode, Enable, Mode, SetMode, InitTest, InitSet, InitDriver, InitDriverOr, InitPost,
         StartTest, Start, StartOr, StopTest, Stop, Deinit, ModeLabels
<1> QED
  BY <1>1, ModeReturnsType, GoesType

LEMMA ChangeModeType ==
  ASSUME TypeOK, NEW t \in Tasks, ChangeMode(t)
  PROVE  TypeOK'
<1>1. pc' \in [Tasks -> Labels] /\ answer' \in [Tasks -> BOOLEAN]
  BY ModeControl
<1>2. ready' \in BOOLEAN /\ started' \in BOOLEAN
  BY DEF TypeOK, ChangeMode, Enable, Mode, SetMode, InitTest, InitSet, InitDriver, InitDriverOr, InitPost,
       StartTest, Start, StartOr, StopTest, Stop, Deinit
<1>3. target' \in [Tasks -> Modes]
  <2>1. EnableTarget(t) \in Modes
    BY DEF TypeOK, GetMode, EnableTarget, Modes
  <2> QED
    BY <2>1 DEF TypeOK, ChangeMode, Enable, Mode, SetMode, InitTest, InitSet, InitDriver, InitDriverOr,
         InitPost, StartTest, Start, StartOr, StopTest, Stop, Deinit
<1>4. driver' \in Driver /\ posted' \in Seq(Events)
  <2>1. /\ driver \in Driver /\ posted \in Seq(Events)
        /\ [driver EXCEPT !.mode = target[t]] \in Driver
        /\ \A b \in BOOLEAN : [driver EXCEPT !.running = b] \in Driver
        /\ \A b, c \in BOOLEAN : [driver EXCEPT !.inited = b, !.stored = c] \in Driver
    BY DEF TypeOK, Driver
  <2>2. CASE UNCHANGED <<driver, posted>>
    BY <2>1, <2>2
  <2>3. CASE \E new \in Driver : DriverBecomes(new)
    BY <2>3, DriverType
  <2>4. CASE UNCHANGED posted /\ \E b, c \in BOOLEAN : driver' = [driver EXCEPT !.inited = b, !.stored = c]
    BY <2>1, <2>4
  <2> QED
    BY <2>1, <2>2, <2>3, <2>4 DEF ChangeMode, Enable, Mode, SetMode, InitTest, InitSet, InitDriver,
         InitDriverOr, InitPost, StartTest, Start, StartOr, StopTest, Stop, Deinit, Quiet, net
<1>5. queue' \in Seq(Events) /\ Len(queue') <= QueueLen
  <2>1. CASE InitPost(t)
    BY <2>1, BoundsAssumption DEF InitPost, TypeOK, Events
  <2>2. CASE UNCHANGED queue
    BY <2>2 DEF TypeOK
  <2> QED
    BY <2>1, <2>2 DEF ChangeMode, Enable, Mode, SetMode, InitTest, InitSet, InitDriver, InitDriverOr,
         StartTest, Start, StartOr, StopTest, Stop, Deinit, Quiet, DriverBecomes
<1>6. faults' \in 0..MaxFaults
  <2>1. Faulty \/ UNCHANGED faults
    BY DEF ChangeMode, Enable, Mode, SetMode, InitTest, InitSet, InitDriver, InitDriverOr, InitPost,
         StartTest, Start, StartOr, StopTest, Stop, Deinit
  <2> QED
    BY <2>1, FaultType
<1>7. UNCHANGED <<reports, dhcp, lease, drops, late, calls, wanted, overlap, op>>
  BY DEF ChangeMode, Enable, Mode, SetMode, InitTest, InitSet, InitDriver, InitDriverOr, InitPost,
       StartTest, Start, StartOr, StopTest, Stop, Deinit, Quiet, net, DriverBecomes
<1> QED
  BY <1>1, <1>2, <1>3, <1>4, <1>5, <1>6, <1>7, ModeFrame

LEMMA CallType ==
  ASSUME TypeOK, NEW t \in Tasks, Leave(t) \/ Config(t) \/ Connect(t) \/ Call(t)
  PROVE  TypeOK'
<1> USE DEF Quiet, reports, net
<1>0. ASSUME NEW r \in BOOLEAN, Returns(t, r)
      PROVE  pc' \in [Tasks -> Labels] /\ answer' \in [Tasks -> BOOLEAN]
  BY <1>0 DEF TypeOK, Returns, Labels, MainLabels
<1>1. ASSUME NEW l \in Labels, Goes(t, l)
      PROVE  pc' \in [Tasks -> Labels] /\ answer' \in [Tasks -> BOOLEAN]
  BY <1>1 DEF TypeOK, Goes, Labels
<1>2. CASE Leave(t)
  <2>1. driver' \in Driver /\ posted' \in Seq(Events)
    <3>1. CASE Disconnected("leave")
      BY <3>1, DisconnectedType DEF Reasons
    <3>2. CASE UNCHANGED <<driver, posted>>
      BY <3>2 DEF TypeOK, Driver
    <3> QED
      BY <1>2, <3>1, <3>2 DEF Leave, LeaveOr
  <2>2. pc' \in [Tasks -> Labels] /\ answer' \in [Tasks -> BOOLEAN]
    BY <1>2, <1>0, <1>1 DEF Leave, LeaveOr, Labels, MainLabels
  <2> QED
    BY <1>2, <2>1, <2>2 DEF Leave, LeaveOr, TypeOK, Labels, Driver
<1>3. CASE Config(t)
  <2>1. pc' \in [Tasks -> Labels] /\ answer' \in [Tasks -> BOOLEAN]
    BY <1>3, <1>0, <1>1 DEF Config, Labels, MainLabels
  <2>2. driver' \in Driver /\ dhcp' \in BOOLEAN
    BY <1>3 DEF Config, RestartDhcp, TypeOK, Driver, Links
  <2> QED
    BY <1>3, <2>1, <2>2 DEF Config, TypeOK, Labels, Driver
<1>4. CASE Connect(t)
  <2>1. driver' \in Driver
    BY <1>4 DEF Connect, ConnectIf, TypeOK, Driver, Links
  <2>2. Returns(t, ~ (status # "connected") \/ Station(driver))
    BY <1>4 DEF Connect, ConnectIf
  <2>3. (~ (status # "connected") \/ Station(driver)) \in BOOLEAN
    OBVIOUS
  <2>4. pc' \in [Tasks -> Labels] /\ answer' \in [Tasks -> BOOLEAN]
    BY <2>2, <2>3, <1>0
  <2> QED
    BY <1>4, <2>1, <2>4 DEF Connect, ConnectIf, TypeOK, Labels, Driver
<1>5. CASE Call(t)
  <2>1. PICK o \in Ops \ {"reconnect"}, m \in Modes :
          /\ op' = [op EXCEPT ![t] = o]
          /\ target' = [target EXCEPT ![t] = m]
          /\ Goes(t, Entry(o))
          /\ wanted' = (o = "begin")
    BY <1>5 DEF Call
  <2>2. Entry(o) \in Labels
    BY DEF Entry, Labels, MainLabels
  <2>3. pc' \in [Tasks -> Labels] /\ answer' \in [Tasks -> BOOLEAN]
    BY <2>1, <2>2, <1>1
  <2>4. calls' \in 0..MaxCalls /\ overlap' \in BOOLEAN
    BY <1>5, BoundsAssumption DEF Call, TypeOK
  <2> QED
    BY <1>5, <2>1, <2>3, <2>4 DEF Call, TypeOK, Labels
<1> QED
  BY <1>2, <1>3, <1>4, <1>5

LEMMA EventType ==
  ASSUME TypeOK, HandleEvent
  PROVE  TypeOK'
<1> USE DEF net
<1>0. Ev \in Tasks
  BY DEF Tasks
<1>1. ASSUME NEW l \in Labels, Goes(Ev, l)
      PROVE  pc' \in [Tasks -> Labels] /\ answer' \in [Tasks -> BOOLEAN]
  BY <1>0, <1>1 DEF TypeOK, Goes, Labels
<1>2. CASE Receive
  <2>1. Head(queue) \in Events /\ Tail(queue) \in Seq(Events) /\ Len(Tail(queue)) <= QueueLen
    BY <1>2, BoundsAssumption DEF Receive, TypeOK
  <2>2. NewStatus(Head(queue)) \in Statuses
    BY DEF NewStatus, Statuses
  <2>3. pc' \in [Tasks -> Labels] /\ answer' \in [Tasks -> BOOLEAN]
    BY <1>1, <1>2 DEF Receive, Labels, EventLabels
  <2>4. goal' \in Statuses /\ event' \in HandledEvents
    BY <1>2, <2>1, <2>2 DEF Receive, TypeOK, HandledEvents
  <2> QED
    BY <1>2, <2>1, <2>3, <2>4 DEF Receive, TypeOK, Labels
<1>3. CASE ClearStatus
  BY <1>1, <1>3 DEF ClearStatus, TypeOK, Labels, EventLabels, Statuses
<1>4. CASE SetStatus
  <2>1. pc' \in [Tasks -> Labels] /\ answer' \in [Tasks -> BOOLEAN]
    BY <1>1, <1>4 DEF SetStatus, Labels, EventLabels, MainLabels
  <2>2. event' \in HandledEvents /\ goal' \in Statuses
    BY <1>4 DEF SetStatus, TypeOK, HandledEvents, Statuses
  <2> QED
    BY <1>4, <2>1, <2>2 DEF SetStatus, TypeOK, Labels
<1>5. CASE StoreBits
  <2>1. pc' \in [Tasks -> Labels] /\ answer' \in [Tasks -> BOOLEAN]
    BY <1>1, <1>5 DEF StoreBits, Labels, EventLabels, MainLabels
  <2>2. NewBits(event) \subseteq {"STARTED", "CONNECTED", "HAS_IP"}
    BY DEF NewBits, TypeOK
  <2>3. event' \in HandledEvents
    BY <1>5 DEF StoreBits, TypeOK, HandledEvents
  <2> QED
    BY <1>5, <2>1, <2>2, <2>3 DEF StoreBits, TypeOK, Labels
<1>6. CASE React
  <2>1. pc' \in [Tasks -> Labels] /\ answer' \in [Tasks -> BOOLEAN]
    <3>1. CASE Goes(Ev, "leave")
      BY <1>1, <3>1 DEF Labels, MainLabels
    <3>2. CASE Goes(Ev, "clear")
      BY <1>1, <3>2 DEF Labels, EventLabels
    <3>3. CASE Goes(Ev, "rest")
      BY <1>1, <3>3 DEF Labels, MainLabels
    <3> QED
      BY <1>6, <3>1, <3>2, <3>3 DEF React
  <2>2. first' \in BOOLEAN /\ overlap' \in BOOLEAN
    BY <1>6 DEF React, TypeOK
  <2>3. goal' \in Statuses /\ event' \in HandledEvents
    BY <1>6 DEF React, Statuses, TypeOK, HandledEvents
  <2> QED
    BY <1>6, <2>1, <2>2, <2>3 DEF React, TypeOK, Labels
<1> QED
  BY <1>2, <1>3, <1>4, <1>5, <1>6 DEF HandleEvent

LEMMA WorldType ==
  ASSUME TypeOK, Forward \/ Network \/ SetAutoReconnect
  PROVE  TypeOK'
<1> USE DEF app, reports, net
<1>1. CASE Forward
  <2>1. Head(posted) \in Events /\ Tail(posted) \in Seq(Events)
    BY <1>1 DEF Forward, Report, TypeOK
  <2>2. queue' \in Seq(Events) /\ Len(queue') <= QueueLen
    BY <1>1, <2>1, BoundsAssumption DEF Forward, Report, WithHead, TypeOK
  <2>3. dhcp' \in BOOLEAN
    BY <1>1 DEF Forward, Report, DhcpAfter, TypeOK
  <2> QED
    BY <1>1, <2>1, <2>2, <2>3 DEF Forward, Report, TypeOK
<1>2. CASE Joined
  BY SMTT(60), <1>2 DEF Joined, TypeOK, Links, Events
<1>3. CASE Lost
  <2>1. PICK r \in Reasons : Disconnected(r)
    BY <1>3 DEF Lost, Retryable, Reasons
  <2>2. driver' \in Driver /\ posted' \in Seq(Events)
    BY <2>1, DisconnectedType
  <2>3. drops' \in 0..MaxDrops
    BY <1>3, BoundsAssumption DEF Lost, TypeOK
  <2> QED
    BY <1>3, <2>2, <2>3 DEF Lost, TypeOK, Driver
<1>4. CASE Addressed
  <2>1. driver' \in Driver
    BY <1>4 DEF Addressed, TypeOK, Driver, Links
  <2>2. posted' \in Seq(Events)
    BY <1>4 DEF Addressed, TypeOK, Events
  <2>3. dhcp' \in BOOLEAN /\ lease' \in BOOLEAN /\ late' \in BOOLEAN
    BY <1>4 DEF Addressed, TypeOK
  <2> QED
    BY <1>4, <2>1, <2>2, <2>3 DEF Addressed, TypeOK, Driver
<1>5. CASE LostAddress
  <2>1. posted' \in Seq(Events) /\ drops' \in 0..MaxDrops
    BY <1>5, BoundsAssumption DEF LostAddress, TypeOK, Events
  <2> QED
    BY ZenonT(60), <1>5, <2>1 DEF LostAddress, TypeOK
<1>6. CASE SetAutoReconnect
  BY <1>6, BoundsAssumption DEF SetAutoReconnect, TypeOK
<1> QED
  BY <1>1, <1>2, <1>3, <1>4, <1>5, <1>6 DEF Network

LEMMA InitType == Init => TypeOK
<1> SUFFICES ASSUME Init PROVE TypeOK
  OBVIOUS
<1>1. driver \in Driver
  BY DEF Init, Driver, Modes, Links
<1>2. posted \in Seq(Events) /\ queue \in Seq(Events) /\ Len(queue) <= QueueLen
  BY BoundsAssumption DEF Init
<1>3. event \in HandledEvents /\ goal \in Statuses /\ status \in Statuses
  BY DEF Init, HandledEvents, Statuses
<1>4. calls \in 0..MaxCalls /\ drops \in 0..MaxDrops /\ faults \in 0..MaxFaults
  BY BoundsAssumption DEF Init
<1>5. /\ pc \in [Tasks -> Labels] /\ op \in [Tasks -> Ops]
      /\ target \in [Tasks -> Modes] /\ answer \in [Tasks -> BOOLEAN]
  BY DEF Init, Labels, MainLabels, Ops, Modes
<1> QED
  BY <1>1, <1>2, <1>3, <1>4, <1>5 DEF Init, TypeOK, Driver, Labels

LEMMA NextType == TypeOK /\ [Next]_vars => TypeOK'
<1> SUFFICES ASSUME TypeOK, [Next]_vars PROVE TypeOK'
  OBVIOUS
<1>1. ASSUME NEW t \in Apps, Call(t) PROVE TypeOK'
  BY <1>1, CallType DEF Tasks
<1>2. ASSUME NEW t \in Tasks, Step(t) PROVE TypeOK'
  BY <1>2, CallType, ChangeModeType DEF Step
<1>3. CASE UNCHANGED vars
  BY <1>3 DEF vars, app, reports, net, TypeOK
<1> QED
  BY <1>1, <1>2, <1>3, EventType, WorldType DEF Next

(* Every variable keeps its type, and the event queue its bound.           *)
THEOREM TypeCorrect == Spec => []TypeOK
  BY InitType, NextType, PTL DEF Spec

-----------------------------------------------------------------------------
(* The two flags and the driver.  Agreement alone is not inductive: inside *)
(* mode() a flag is set before the driver follows, in the order below.     *)

Agree == ready = (driver.inited /\ driver.stored) /\ started = driver.running

FlagsAt(label) ==
  /\ label \notin {"init", "start", "stop"} => Agree
  /\ label = "init_set" => ~ ready
  /\ label = "init" => ready /\ ~ (driver.inited /\ driver.stored) /\ started = driver.running
  /\ label = "start" => ready = (driver.inited /\ driver.stored) /\ started /\ ~ driver.running
  /\ label = "stop" => ready = (driver.inited /\ driver.stored) /\ ~ started /\ driver.running
  /\ label = "deinit" => ~ driver.running

OthersOut(t) == \A u \in Tasks \ {t} : ~ Inside(u)

FlagInv ==
  ~ overlap =>
    /\ \A t \in Tasks : Inside(t) => OthersOut(t)
    /\ \A t \in Tasks : OthersOut(t) => FlagsAt(pc[t])

(* Labels at which the flags agree and nothing else is known.              *)
Plain == (MainLabels \cup EventLabels) \cup {"init_test", "init_post", "set_mode", "start_test", "stop_test"}

LEMMA PlainFlags ==
  ASSUME NEW l \in Plain
  PROVE  FlagsAt(l) <=> Agree
  BY DEF Plain, FlagsAt, MainLabels, EventLabels

LEMMA ModeReturnsPlain ==
  ASSUME TypeOK, NEW t \in Tasks, NEW r \in BOOLEAN, ModeReturns(t, r) \/ Returns(t, r)
  PROVE  pc'[t] \in Plain
  BY DEF TypeOK, ModeReturns, Goes, Returns, Plain, MainLabels

(* A step in mode() keeps the relation of its label.                       *)
LEMMA ModeKeepsFlags ==
  ASSUME TypeOK, NEW t \in Tasks, FlagsAt(pc[t]), ChangeMode(t)
  PROVE  FlagsAt(pc[t])'
<1> USE DEF Quiet, net
<1>0. /\ ready \in BOOLEAN /\ started \in BOOLEAN
      /\ driver.inited \in BOOLEAN /\ driver.stored \in BOOLEAN /\ driver.running \in BOOLEAN
      /\ DOMAIN pc = Tasks /\ driver \in Driver
  BY DEF TypeOK, Driver
<1>a. ASSUME NEW l, Goes(t, l) PROVE pc'[t] = l
  BY <1>a, <1>0 DEF Goes
<1>b. ASSUME Agree, pc'[t] \in Plain, UNCHANGED <<ready, started>>,
             driver'.inited = driver.inited, driver'.stored = driver.stored, driver'.running = driver.running
      PROVE  FlagsAt(pc[t])'
  BY <1>b DEF FlagsAt, Agree, Plain, MainLabels, EventLabels
<1>c. ASSUME NEW new \in Driver, DriverBecomes(new)
      PROVE  driver'.inited = new.inited /\ driver'.stored = new.stored /\ driver'.running = new.running
  BY <1>c DEF DriverBecomes, Changed, Driver
<1>1. CASE Enable(t)
  <2>1. pc'[t] \in Plain
    BY <1>1, <1>a, ModeReturnsPlain DEF Enable, Plain, MainLabels
  <2> QED
    BY <1>1, <1>b, <2>1 DEF Enable, At, FlagsAt
<1>2. CASE Mode(t)
  <2>1. pc'[t] \in Plain
    BY <1>2, <1>a, ModeReturnsPlain DEF Mode, Plain
  <2> QED
    BY <1>2, <1>b, <2>1 DEF Mode, At, FlagsAt
<1>3. CASE SetMode(t)
  <2>1. pc'[t] \in Plain
    BY <1>3, <1>a, ModeReturnsPlain DEF SetMode, Plain
  <2>2. driver'.inited = driver.inited /\ driver'.stored = driver.stored /\ driver'.running = driver.running
    <3>1. CASE driver.inited
      <4>1. [driver EXCEPT !.mode = target[t]] \in Driver
        BY DEF TypeOK, Driver
      <4> QED
        BY <1>3, <1>c, <3>1, <4>1 DEF SetMode, TypeOK
    <3>2. CASE ~ driver.inited
      BY <1>3, <3>2 DEF SetMode
    <3> QED
      BY <3>1, <3>2
  <2> QED
    BY <1>3, <1>b, <2>1, <2>2 DEF SetMode, At, FlagsAt
<1>4. CASE InitTest(t)
  <2>1. CASE ready
    <3>1. pc'[t] \in Plain
      BY <1>4, <1>a, <2>1 DEF InitTest, Plain
    <3> QED
      BY <1>4, <1>b, <3>1 DEF InitTest, At, FlagsAt
  <2>2. CASE ~ ready
    <3>1. pc'[t] = "init_set"
      BY <1>4, <1>a, <2>2 DEF InitTest
    <3> QED
      BY <1>4, <2>2, <3>1 DEF InitTest, At, FlagsAt, Agree
  <2> QED
    BY <2>1, <2>2
<1>5. CASE InitSet(t)
  <2>1. pc'[t] = "init"
    BY <1>5, <1>a DEF InitSet
  <2> QED
    BY <1>0, <1>5, <2>1 DEF InitSet, At, FlagsAt, Agree
<1>6. CASE InitDriver(t)
  <2>1. CASE /\ Goes(t, "init_post") /\ UNCHANGED <<ready, faults>>
             /\ driver' = [driver EXCEPT !.inited = TRUE, !.stored = TRUE]
    <3>1. pc'[t] = "init_post" /\ driver'.inited = TRUE /\ driver'.stored = TRUE /\ driver'.running = driver.running
      BY <1>0, <1>a, <2>1 DEF Driver
    <3> QED
      BY <1>0, <1>6, <2>1, <3>1 DEF InitDriver, InitDriverOr, At, FlagsAt, Agree
  <2>2. CASE ModeReturns(t, FALSE) /\ Faulty /\ ready' = FALSE /\ UNCHANGED driver
    <3>1. pc'[t] \in Plain
      BY <2>2, ModeReturnsPlain
    <3>2. Agree'
      BY <1>0, <1>6, <2>2 DEF InitDriver, InitDriverOr, At, FlagsAt, Agree
    <3> QED
      BY <3>1, <3>2 DEF FlagsAt, Plain, MainLabels, EventLabels
  <2>3. CASE /\ ModeReturns(t, FALSE) /\ Faulty /\ ready' = FALSE
             /\ driver' = [driver EXCEPT !.inited = TRUE, !.stored = FALSE]
    <3>1. pc'[t] \in Plain
      BY <2>3, ModeReturnsPlain
    <3>2. driver'.stored = FALSE /\ driver'.running = driver.running
      BY <1>0, <2>3 DEF Driver
    <3>3. Agree'
      BY <1>0, <1>6, <2>3, <3>2 DEF InitDriver, InitDriverOr, At, FlagsAt, Agree
    <3> QED
      BY <3>1, <3>3 DEF FlagsAt, Plain, MainLabels, EventLabels
  <2> QED
    BY <1>6, <2>1, <2>2, <2>3 DEF InitDriver, InitDriverOr
<1>7. CASE InitPost(t)
  <2>1. pc'[t] \in Plain
    BY <1>7, <1>a DEF InitPost, Plain
  <2> QED
    BY <1>7, <1>b, <2>1 DEF InitPost, At, FlagsAt
<1>8. CASE StartTest(t)
  <2>1. CASE started
    <3>1. pc'[t] \in Plain
      BY <1>8, <2>1, ModeReturnsPlain DEF StartTest
    <3> QED
      BY <1>0, <1>8, <1>b, <2>1, <3>1 DEF StartTest, At, FlagsAt
  <2>2. CASE ~ started
    <3>1. pc'[t] = "start"
      BY <1>8, <1>a, <2>2 DEF StartTest
    <3> QED
      BY <1>0, <1>8, <2>2, <3>1 DEF StartTest, At, FlagsAt, Agree
  <2> QED
    BY <2>1, <2>2
<1>9. CASE Start(t)
  <2>1. CASE /\ DriverBecomes([driver EXCEPT !.running = TRUE])
             /\ ModeReturns(t, TRUE) /\ UNCHANGED <<started, faults>>
    <3>1. [driver EXCEPT !.running = TRUE] \in Driver
      BY <1>0 DEF Driver
    <3>2. driver'.inited = driver.inited /\ driver'.stored = driver.stored /\ driver'.running = TRUE
      BY <1>0, <1>c, <2>1, <3>1 DEF Driver
    <3>3. pc'[t] \in Plain
      BY <2>1, ModeReturnsPlain
    <3>4. Agree'
      BY <1>0, <1>9, <2>1, <3>2 DEF Start, StartOr, At, FlagsAt, Agree
    <3> QED
      BY <3>3, <3>4 DEF FlagsAt, Plain, MainLabels, EventLabels
  <2>2. CASE ModeReturns(t, FALSE) /\ started' = FALSE /\ Quiet
    <3>1. pc'[t] \in Plain
      BY <2>2, ModeReturnsPlain
    <3>2. Agree'
      BY <1>0, <1>9, <2>2 DEF Start, StartOr, At, FlagsAt, Agree
    <3> QED
      BY <3>1, <3>2 DEF FlagsAt, Plain, MainLabels, EventLabels
  <2> QED
    BY <1>9, <2>1, <2>2 DEF Start, StartOr
<1>10. CASE StopTest(t)
  <2>1. CASE started
    <3>1. pc'[t] = "stop"
      BY <1>10, <1>a, <2>1 DEF StopTest
    <3> QED
      BY <1>0, <1>10, <2>1, <3>1 DEF StopTest, At, FlagsAt, Agree
  <2>2. CASE ~ started
    <3>1. pc'[t] \in Plain
      BY <1>10, <2>2, ModeReturnsPlain DEF StopTest
    <3> QED
      BY <1>0, <1>10, <1>b, <2>2, <3>1 DEF StopTest, At, FlagsAt
  <2> QED
    BY <2>1, <2>2
<1>11. CASE Stop(t)
  <2>1. CASE /\ DriverBecomes([driver EXCEPT !.running = FALSE])
             /\ Goes(t, "deinit") /\ UNCHANGED <<started, faults>>
    <3>1. [driver EXCEPT !.running = FALSE] \in Driver
      BY <1>0 DEF Driver
    <3>2. driver'.inited = driver.inited /\ driver'.stored = driver.stored /\ driver'.running = FALSE
      BY <1>0, <1>c, <2>1, <3>1 DEF Driver
    <3>3. pc'[t] = "deinit"
      BY <1>a, <2>1
    <3> QED
      BY <1>0, <1>11, <2>1, <3>2, <3>3 DEF Stop, At, FlagsAt, Agree
  <2>2. CASE ModeReturns(t, FALSE) /\ started' = TRUE /\ Quiet
    <3>1. pc'[t] \in Plain
      BY <2>2, ModeReturnsPlain
    <3>2. Agree'
      BY <1>0, <1>11, <2>2 DEF Stop, At, FlagsAt, Agree
    <3> QED
      BY <3>1, <3>2 DEF FlagsAt, Plain, MainLabels, EventLabels
  <2> QED
    BY <1>11, <2>1, <2>2 DEF Stop
<1>12. CASE Deinit(t)
  <2>1. pc'[t] \in Plain
    BY <1>12, ModeReturnsPlain DEF Deinit
  <2>2. Agree'
    <3>1. Agree
      BY <1>12 DEF Deinit, At, FlagsAt
    <3>2. CASE driver' = [driver EXCEPT !.inited = FALSE, !.stored = FALSE] /\ ready' = FALSE
      BY <1>0, <1>12, <3>1, <3>2 DEF Deinit, Agree, Driver
    <3>3. CASE UNCHANGED <<ready, driver>>
      BY <1>12, <3>1, <3>3 DEF Deinit, Agree
    <3> QED
      BY <1>12, <3>2, <3>3 DEF Deinit
  <2> QED
    BY <2>1, <2>2 DEF FlagsAt, Plain, MainLabels, EventLabels
<1> QED
  BY <1>1, <1>2, <1>3, <1>4, <1>5, <1>6, <1>7, <1>8, <1>9, <1>10, <1>11, <1>12 DEF ChangeMode


(* A step inside a call moves one task and starts no overlap.              *)
LEMMA StepFrame ==
  ASSUME TypeOK, NEW t \in Tasks, Step(t)
  PROVE  /\ Inside(t)
         /\ \A u \in Tasks \ {t} : pc'[u] = pc[u]
         /\ overlap' = overlap
<1> USE DEF Quiet, At
<1>1. Inside(t)
  BY DEF Step, ChangeMode, Enable, Mode, SetMode, InitTest, InitSet, InitDriver, InitDriverOr, InitPost,
         StartTest, Start, StartOr, StopTest, Stop, Deinit, Leave, LeaveOr, Config, RestartDhcp, Connect, ConnectIf,
         Inside, MainLabels, ModeLabels
<1>2. \E l : pc' = [pc EXCEPT ![t] = l]
  BY DEF Step, ChangeMode, Enable, Mode, SetMode, InitTest, InitSet, InitDriver, InitDriverOr, InitPost,
         StartTest, Start, StartOr, StopTest, Stop, Deinit, Leave, LeaveOr, Config, RestartDhcp, Connect, ConnectIf,
         ModeReturns, Returns, Goes
<1>3. overlap' = overlap
  BY DEF Step, ChangeMode, Enable, Mode, SetMode, InitTest, InitSet, InitDriver, InitDriverOr, InitPost,
         StartTest, Start, StartOr, StopTest, Stop, Deinit, Leave, LeaveOr, Config, RestartDhcp, Connect, ConnectIf,
         DriverBecomes
<1> QED
  BY <1>1, <1>2, <1>3 DEF TypeOK

LEMMA CallKeepsFlags ==
  ASSUME TypeOK, NEW t \in Tasks, FlagsAt(pc[t]), Leave(t) \/ Config(t) \/ Connect(t)
  PROVE  FlagsAt(pc[t])'
<1> USE DEF Quiet, net
<1>1. Agree
  BY DEF Leave, LeaveOr, Config, RestartDhcp, Connect, ConnectIf, At, FlagsAt
<1>2. /\ UNCHANGED <<ready, started>>
      /\ driver'.inited = driver.inited /\ driver'.stored = driver.stored /\ driver'.running = driver.running
  BY DEF Leave, LeaveOr, Config, RestartDhcp, Connect, ConnectIf, Disconnected, TypeOK
<1>3. pc'[t] \in Plain
  <2>1. ASSUME NEW l \in Plain, Goes(t, l) PROVE pc'[t] \in Plain
    BY <2>1 DEF Goes, TypeOK
  <2> QED
    BY <2>1, ModeReturnsPlain DEF Leave, LeaveOr, Config, RestartDhcp, Connect, ConnectIf, Plain, MainLabels
<1> QED
  BY <1>1, <1>2, <1>3 DEF FlagsAt, Agree, Plain, MainLabels, EventLabels

(* A task that is not inside knows that the flags agree.                   *)
LEMMA OutsideIsPlain ==
  ASSUME TypeOK, NEW t \in Tasks, ~ Inside(t)
  PROVE  pc[t] \in Plain
  BY DEF TypeOK, Inside, Plain, MainLabels, ModeLabels, EventLabels

LEMMA StepFlags ==
  ASSUME TypeOK, TypeOK', FlagInv, NEW t \in Tasks, Step(t)
  PROVE  FlagInv'
<1> SUFFICES ASSUME ~ overlap'
             PROVE  /\ \A u \in Tasks : Inside(u)' => OthersOut(u)'
                    /\ \A u \in Tasks : OthersOut(u)' => FlagsAt(pc[u])'
  BY DEF FlagInv
<1>1. ~ overlap /\ Inside(t) /\ \A u \in Tasks \ {t} : pc'[u] = pc[u]
  BY StepFrame
<1>2. OthersOut(t) /\ FlagsAt(pc[t])
  BY <1>1 DEF FlagInv
<1>3. \A u \in Tasks \ {t} : ~ Inside(u)'
  BY <1>1, <1>2 DEF OthersOut, Inside
<1>4. FlagsAt(pc[t])'
  BY <1>2, ModeKeepsFlags, CallKeepsFlags DEF Step
<1>5. ASSUME NEW u \in Tasks \ {t}, OthersOut(u)' PROVE FlagsAt(pc[u])'
  <2>1. ~ Inside(t)' /\ ~ Inside(u)'
    BY <1>3, <1>5 DEF OthersOut
  <2>2. pc'[t] \in Plain /\ pc'[u] \in Plain
    BY <2>1 DEF TypeOK, Inside, Plain, MainLabels, ModeLabels, EventLabels
  <2>3. Agree'
    BY <1>4, <2>2 DEF FlagsAt, Plain, MainLabels, EventLabels
  <2> QED
    BY <2>2, <2>3 DEF FlagsAt, Plain, MainLabels, EventLabels
<1> QED
  BY <1>3, <1>4, <1>5 DEF OthersOut

(* Steps outside mode() and the station's calls leave flags and driver     *)
(* alone; one that starts a call while another is inside starts overlap.   *)
LEMMA OtherFlags ==
  ASSUME TypeOK, TypeOK', FlagInv,
         (\E t \in Apps : Call(t)) \/ HandleEvent \/ Forward \/ Network \/ SetAutoReconnect
  PROVE  FlagInv'
<1> USE DEF net, app
<1> SUFFICES ASSUME ~ overlap'
             PROVE  /\ \A u \in Tasks : Inside(u)' => OthersOut(u)'
                    /\ \A u \in Tasks : OthersOut(u)' => FlagsAt(pc[u])'
  BY DEF FlagInv
<1>1. /\ UNCHANGED <<ready, started>>
      /\ driver'.inited = driver.inited /\ driver'.stored = driver.stored /\ driver'.running = driver.running
  BY DEF Call, HandleEvent, Receive, ClearStatus, SetStatus, StoreBits, React, Forward, Report,
         Network, Joined, Lost, Disconnected, Addressed, LostAddress, SetAutoReconnect, TypeOK
<1>2. ~ overlap
  BY DEF Call, HandleEvent, Receive, ClearStatus, SetStatus, StoreBits, React, Forward, Report,
         Network, Joined, Lost, Addressed, LostAddress, SetAutoReconnect
<1>3. ASSUME NEW u \in Tasks, pc[u] \in Plain, FlagsAt(pc[u]), pc'[u] \in Plain PROVE FlagsAt(pc[u])'
  BY <1>1, <1>3 DEF FlagsAt, Agree, Plain, MainLabels, EventLabels
<1>4. CASE UNCHANGED pc
  BY <1>1, <1>2, <1>4 DEF FlagInv, OthersOut, Inside, FlagsAt, Agree
<1>5. ASSUME NEW t \in Apps, Call(t)
      PROVE  /\ \A u \in Tasks : Inside(u)' => OthersOut(u)'
             /\ \A u \in Tasks : OthersOut(u)' => FlagsAt(pc[u])'
  <2>1. \A u \in Tasks : ~ Inside(u)
    BY <1>5 DEF Call
  <2>2. t \in Tasks /\ \A u \in Tasks \ {t} : pc'[u] = pc[u]
    BY <1>5 DEF Call, Goes, TypeOK, Tasks
  <2>3. pc'[t] \in Plain
    BY <1>5, <2>2 DEF Call, Goes, Entry, Plain, MainLabels, TypeOK
  <2>4. \A u \in Tasks : pc[u] \in Plain /\ FlagsAt(pc[u])
    BY <1>2, <2>1, OutsideIsPlain DEF FlagInv, OthersOut
  <2>5. \A u \in Tasks : pc'[u] \in Plain
    BY <2>2, <2>3, <2>4
  <2> QED
    BY <1>3, <2>1, <2>2, <2>4, <2>5 DEF OthersOut, Inside
<1>6. ASSUME HandleEvent
      PROVE  /\ \A u \in Tasks : Inside(u)' => OthersOut(u)'
             /\ \A u \in Tasks : OthersOut(u)' => FlagsAt(pc[u])'
  <2>0. Ev \in Tasks
    BY DEF Tasks
  <2>1. /\ ~ Inside(Ev)
        /\ \A u \in Tasks \ {Ev} : pc'[u] = pc[u]
        /\ pc'[Ev] \in Plain
    BY <1>6, <2>0 DEF HandleEvent, Receive, ClearStatus, SetStatus, StoreBits, React, At, Goes, Inside,
       MainLabels, ModeLabels, EventLabels, Plain, TypeOK
  <2>2. Inside(Ev)' => \A u \in Apps : ~ Inside(u)
    BY <1>6, <2>0 DEF HandleEvent, Receive, ClearStatus, SetStatus, StoreBits, React, At, Goes, Inside,
       MainLabels, ModeLabels, EventLabels, TypeOK
  <2>3. \A u \in Tasks : Inside(u)' => OthersOut(u)'
    BY <1>2, <2>1, <2>2 DEF FlagInv, OthersOut, Inside, Tasks
  <2>4. ASSUME NEW u \in Tasks, OthersOut(u)' PROVE FlagsAt(pc[u])'
    <3>1. CASE u = Ev
      <4>1. OthersOut(u) /\ pc[Ev] \in Plain
        BY <2>0, <2>1, <2>4, <3>1, OutsideIsPlain DEF OthersOut, Inside
      <4> QED
        BY <1>2, <1>3, <2>1, <3>1, <4>1 DEF FlagInv
    <3>2. CASE u # Ev
      <4>1. OthersOut(u) /\ pc'[u] = pc[u]
        BY <2>1, <2>4, <3>2 DEF OthersOut, Inside
      <4> QED
        BY <1>1, <1>2, <4>1 DEF FlagInv, FlagsAt, Agree
    <3> QED
      BY <3>1, <3>2
  <2> QED
    BY <2>3, <2>4
<1>7. Forward \/ Network \/ SetAutoReconnect => UNCHANGED pc
  BY DEF Forward, Report, Network, Joined, Lost, Addressed, LostAddress, SetAutoReconnect
<1> QED
  BY <1>4, <1>5, <1>6, <1>7

LEMMA InitFlags == Init => FlagInv
<1> SUFFICES ASSUME Init PROVE FlagInv
  OBVIOUS
<1>1. \A t \in Tasks : pc[t] = "rest"
  BY DEF Init
<1>2. Agree
  BY DEF Init, Agree
<1> QED
  BY <1>1, <1>2 DEF FlagInv, FlagsAt, Inside

LEMMA NextFlags == TypeOK /\ TypeOK' /\ FlagInv /\ [Next]_vars => FlagInv'
<1> SUFFICES ASSUME TypeOK, TypeOK', FlagInv, [Next]_vars PROVE FlagInv'
  OBVIOUS
<1>1. CASE UNCHANGED vars
  BY <1>1 DEF vars, app, net, FlagInv, FlagsAt, Agree, Inside, OthersOut
<1>2. CASE Next
  BY <1>2, StepFlags, OtherFlags DEF Next
<1> QED
  BY <1>1, <1>2

LEMMA FlagsHold == Spec => []FlagInv
<1>1. Init /\ [][Next]_vars /\ []TypeOK => []FlagInv
  BY InitFlags, NextFlags, PTL
<1> QED
  BY <1>1, TypeCorrect, PTL DEF Spec

(* Whatever fails inside mode(), and however many applications take turns, *)
(* between calls that did not overlap lowLevelInitDone tells whether the   *)
(* driver is initialised and told where to store its settings, and         *)
(* _esp_wifi_started whether it runs.                                      *)
THEOREM FlagsAreDrivers == Spec => []FlagsTellDriver
<1>1. TypeOK /\ FlagInv => FlagsTellDriver
  <2> SUFFICES ASSUME TypeOK, FlagInv, ~ overlap, \A t \in Tasks : ~ Inside(t) PROVE Agree
    BY DEF FlagsTellDriver, Agree
  <2>1. Ev \in Tasks
    BY DEF Tasks
  <2>2. FlagsAt(pc[Ev]) /\ pc[Ev] \in Plain
    BY <2>1, OutsideIsPlain DEF FlagInv, OthersOut
  <2> QED
    BY <2>2, PlainFlags
<1> QED
  BY <1>1, TypeCorrect, FlagsHold, PTL

-----------------------------------------------------------------------------
(* mode() and the mode it is given.  On the way to start, the mode is not  *)
(* off and the driver has it before it is started; on the way to stop it   *)
(* is off.  A driver that runs is initialised, has its storage set and has *)
(* a mode; so is one that mode() is about to start.                        *)

Upward   == {"init_test", "init_set", "init", "init_post", "set_mode", "start_test", "start"}
Downward == {"stop_test", "stop", "deinit"}
Prepared == {"init_post", "set_mode", "start_test", "start"}

PathAt(t) ==
  /\ pc[t] \in Upward => target[t] # {}
  /\ pc[t] \in {"start_test", "start"} => driver.mode = target[t]
  /\ pc[t] \in Downward => target[t] = {}
  /\ pc[t] \in Prepared => driver.inited /\ driver.stored

RunsInMode == driver.running => driver.inited /\ driver.stored /\ driver.mode # {}

PathInv == ~ overlap => RunsInMode /\ \A t \in Tasks : PathAt(t)

(* A call of mode() goes through none of the labels of the others, and the *)
(* event task only reconnects.                                             *)
ModeOnly ==
  /\ op[Ev] = "reconnect"
  /\ \A t \in Tasks : op[t] = "mode" => pc[t] \notin {"leave", "enable", "config", "connect"}

(* A task outside the path of mode() knows nothing of its target.          *)
LEMMA PlainPath ==
  ASSUME NEW t, pc[t] \notin Upward \cup Downward
  PROVE  PathAt(t)
  BY DEF PathAt, Upward, Downward, Prepared

LEMMA ReturnsOffPath ==
  ASSUME TypeOK, NEW t \in Tasks, NEW r, ModeReturns(t, r) \/ Returns(t, r)
  PROVE  pc'[t] \notin Upward \cup Downward
  BY DEF TypeOK, ModeReturns, Goes, Returns, Upward, Downward, MainLabels

(* A step of mode() keeps to its path.                                     *)
LEMMA ModeKeepsPath ==
  ASSUME TypeOK, TypeOK', NEW t \in Tasks, FlagsAt(pc[t]), RunsInMode, PathAt(t), ChangeMode(t)
  PROVE  RunsInMode' /\ PathAt(t)'
<1> USE DEF Quiet, net
<1>0. /\ ready \in BOOLEAN /\ started \in BOOLEAN /\ driver \in Driver
      /\ driver.inited \in BOOLEAN /\ driver.stored \in BOOLEAN /\ driver.running \in BOOLEAN
      /\ DOMAIN pc = Tasks /\ DOMAIN target = Tasks
  BY DEF TypeOK, Driver
<1>a. ASSUME NEW l, Goes(t, l) PROVE pc'[t] = l
  BY <1>a, <1>0 DEF Goes
<1>b. ASSUME NEW r, ModeReturns(t, r) PROVE PathAt(t)'
  BY <1>b, ReturnsOffPath DEF PathAt, Upward, Downward, Prepared
<1>c. ASSUME NEW new \in Driver, DriverBecomes(new)
      PROVE  /\ driver'.inited = new.inited /\ driver'.stored = new.stored
             /\ driver'.running = new.running /\ driver'.mode = new.mode
  BY <1>c DEF DriverBecomes, Changed, Driver
<1>d. UNCHANGED driver => RunsInMode'
  BY DEF RunsInMode
<1>1. CASE Enable(t)
  <2>1. CASE ModeReturns(t, TRUE)
    BY <1>1, <1>b, <1>d, <2>1 DEF Enable
  <2>2. CASE Goes(t, "mode")
    <3>1. pc'[t] \notin Upward \cup Downward
      BY <1>a, <2>2 DEF Upward, Downward
    <3> QED
      BY <1>1, <1>d, <3>1 DEF Enable, PathAt, Upward, Downward, Prepared
  <2> QED
    BY <1>1, <2>1, <2>2 DEF Enable
<1>2. CASE Mode(t)
  <2>1. CASE ModeReturns(t, TRUE)
    BY <1>2, <1>b, <1>d, <2>1 DEF Mode
  <2>2. CASE GetMode # target[t] /\ ~ ModeReturns(t, TRUE)
    <3>1. target' = target /\ UNCHANGED driver
      BY <1>2 DEF Mode
    <3>2. \/ Goes(t, "init_test") /\ target[t] # {}
          \/ Goes(t, "stop_test") /\ target[t] = {}
          \/ Goes(t, "set_mode") /\ target[t] # {}
      BY <1>2, <2>2 DEF Mode
    <3>3. \/ pc'[t] = "init_test" /\ target[t] # {}
          \/ pc'[t] = "stop_test" /\ target[t] = {}
          \/ pc'[t] = "set_mode" /\ target[t] # {}
      BY <1>a, <3>2
    <3>4. pc'[t] = "set_mode" => driver.inited /\ driver.stored
      <4>1. Agree
        BY <1>2 DEF Mode, At, FlagsAt
      <4>2. pc'[t] = "set_mode" => GetMode # {}
        BY <1>2, <1>a, <2>2 DEF Mode
      <4> QED
        BY <4>1, <4>2 DEF Agree, GetMode
    <3> QED
      BY <1>d, <3>1, <3>3, <3>4 DEF PathAt, Upward, Downward, Prepared
  <2> QED
    BY <1>2, <2>1, <2>2 DEF Mode
<1>3. CASE SetMode(t)
  <2>0. target' = target /\ target[t] # {} /\ driver.inited /\ driver.stored
    BY <1>3 DEF SetMode, At, PathAt, Upward, Prepared
  <2>1. CASE driver.inited
    <3>1. DriverBecomes([driver EXCEPT !.mode = target[t]]) /\ pc'[t] = "start_test"
      BY <1>3, <1>a, <2>1 DEF SetMode
    <3>2. [driver EXCEPT !.mode = target[t]] \in Driver
      BY DEF TypeOK, Driver
    <3>3. driver'.inited = driver.inited /\ driver'.stored = driver.stored /\ driver'.mode = target[t]
      BY <1>0, <1>c, <3>1, <3>2 DEF Driver
    <3> QED
      BY <2>0, <2>1, <3>1, <3>3 DEF RunsInMode, PathAt, Upward, Downward, Prepared
  <2>2. CASE ~ driver.inited
    BY <1>3, <1>b, <1>d, <2>2 DEF SetMode
  <2> QED
    BY <2>1, <2>2
<1>4. CASE InitTest(t)
  <2>1. pc'[t] \in {"set_mode", "init_set"} /\ target' = target /\ UNCHANGED driver /\ target[t] # {}
    BY <1>4, <1>a DEF InitTest, At, PathAt, Upward
  <2>2. pc'[t] = "set_mode" => driver.inited /\ driver.stored
    <3>1. Agree
      BY <1>4 DEF InitTest, At, FlagsAt
    <3> QED
      BY <1>4, <1>a, <3>1 DEF InitTest, Agree
  <2> QED
    BY <1>d, <2>1, <2>2 DEF PathAt, Upward, Downward, Prepared
<1>5. CASE InitSet(t)
  <2>1. pc'[t] = "init" /\ target' = target /\ UNCHANGED driver /\ target[t] # {}
    BY <1>5, <1>a DEF InitSet, At, PathAt, Upward
  <2> QED
    BY <1>d, <2>1 DEF PathAt, Upward, Downward, Prepared
<1>6. CASE InitDriver(t)
  <2>1. CASE /\ Goes(t, "init_post") /\ UNCHANGED <<ready, faults>>
             /\ driver' = [driver EXCEPT !.inited = TRUE, !.stored = TRUE]
    <3>1. pc'[t] = "init_post" /\ target' = target /\ target[t] # {}
      BY <1>6, <1>a, <2>1 DEF InitDriver, InitDriverOr, At, PathAt, Upward
    <3>2. RunsInMode' /\ driver'.inited /\ driver'.stored
      BY <1>0, <2>1 DEF RunsInMode, Driver
    <3> QED
      BY <3>1, <3>2 DEF PathAt, Upward, Downward, Prepared
  <2>2. CASE ModeReturns(t, FALSE) /\ UNCHANGED driver
    BY <1>b, <1>d, <2>2
  <2>3. CASE ModeReturns(t, FALSE) /\ driver' = [driver EXCEPT !.inited = TRUE, !.stored = FALSE]
    <3>1. ~ driver.running
      BY <1>6 DEF InitDriver, InitDriverOr, At, FlagsAt, RunsInMode
    <3>2. RunsInMode'
      BY <1>0, <2>3, <3>1 DEF RunsInMode, Driver
    <3> QED
      BY <1>b, <2>3, <3>2
  <2> QED
    BY <1>6, <2>1, <2>2, <2>3 DEF InitDriver, InitDriverOr
<1>7. CASE InitPost(t)
  <2>1. /\ pc'[t] = "set_mode" /\ target' = target /\ UNCHANGED driver
        /\ target[t] # {} /\ driver.inited /\ driver.stored
    BY <1>7, <1>a DEF InitPost, At, PathAt, Upward, Prepared
  <2> QED
    BY <1>d, <2>1 DEF PathAt, Upward, Downward, Prepared
<1>8. CASE StartTest(t)
  <2>1. CASE started
    BY <1>8, <1>b, <1>d, <2>1 DEF StartTest
  <2>2. CASE ~ started
    <3>1. pc'[t] = "start" /\ target' = target /\ UNCHANGED driver
      BY <1>8, <1>a, <2>2 DEF StartTest
    <3>2. target[t] # {} /\ driver.mode = target[t] /\ driver.inited /\ driver.stored
      BY <1>8 DEF StartTest, At, PathAt, Upward, Prepared
    <3> QED
      BY <1>d, <3>1, <3>2 DEF PathAt, Upward, Downward, Prepared
  <2> QED
    BY <2>1, <2>2
<1>9. CASE Start(t)
  <2>1. CASE driver.inited /\ DriverBecomes([driver EXCEPT !.running = TRUE]) /\ ModeReturns(t, TRUE)
    <3>1. [driver EXCEPT !.running = TRUE] \in Driver
      BY <1>0 DEF Driver
    <3>2. driver'.inited = driver.inited /\ driver'.stored = driver.stored /\ driver'.mode = driver.mode
      BY <1>0, <1>c, <2>1, <3>1 DEF Driver
    <3>3. driver.mode # {} /\ driver.stored
      BY <1>9 DEF Start, StartOr, At, PathAt, Upward, Prepared
    <3> QED
      BY <1>b, <2>1, <3>2, <3>3 DEF RunsInMode
  <2>2. CASE ModeReturns(t, FALSE) /\ Quiet
    BY <1>b, <1>d, <2>2
  <2> QED
    BY <1>9, <2>1, <2>2 DEF Start, StartOr
<1>10. CASE StopTest(t)
  <2>1. CASE started
    <3>1. pc'[t] = "stop" /\ target' = target /\ UNCHANGED driver /\ target[t] = {}
      BY <1>10, <1>a, <2>1 DEF StopTest, At, PathAt, Downward
    <3> QED
      BY <1>d, <3>1 DEF PathAt, Upward, Downward, Prepared
  <2>2. CASE ~ started
    BY <1>10, <1>b, <1>d, <2>2 DEF StopTest
  <2> QED
    BY <2>1, <2>2
<1>11. CASE Stop(t)
  <2>1. CASE DriverBecomes([driver EXCEPT !.running = FALSE]) /\ Goes(t, "deinit")
    <3>1. [driver EXCEPT !.running = FALSE] \in Driver
      BY <1>0 DEF Driver
    <3>2. driver'.running = FALSE
      BY <1>0, <1>c, <2>1, <3>1 DEF Driver
    <3>3. pc'[t] = "deinit" /\ target' = target /\ target[t] = {}
      BY <1>11, <1>a, <2>1 DEF Stop, At, PathAt, Downward
    <3> QED
      BY <3>2, <3>3 DEF RunsInMode, PathAt, Upward, Downward, Prepared
  <2>2. CASE ModeReturns(t, FALSE) /\ Quiet
    BY <1>b, <1>d, <2>2
  <2> QED
    BY <1>11, <2>1, <2>2 DEF Stop
<1>12. CASE Deinit(t)
  <2>1. PathAt(t)'
    BY <1>12, <1>b DEF Deinit
  <2>2. CASE ~ driver.running /\ driver' = [driver EXCEPT !.inited = FALSE, !.stored = FALSE]
    BY <1>0, <2>1, <2>2 DEF RunsInMode, Driver
  <2>3. CASE UNCHANGED driver
    BY <1>d, <2>1, <2>3
  <2> QED
    BY <1>12, <2>2, <2>3 DEF Deinit
<1> QED
  BY <1>1, <1>2, <1>3, <1>4, <1>5, <1>6, <1>7, <1>8, <1>9, <1>10, <1>11, <1>12 DEF ChangeMode

(* The steps of begin() and disconnect() are off the path of mode().       *)
LEMMA CallKeepsPath ==
  ASSUME TypeOK, NEW t \in Tasks, RunsInMode, Leave(t) \/ Config(t) \/ Connect(t)
  PROVE  RunsInMode' /\ PathAt(t)'
<1>1. /\ driver'.inited = driver.inited /\ driver'.stored = driver.stored /\ driver'.running = driver.running
      /\ driver'.mode = driver.mode
  BY DEF Leave, LeaveOr, Config, RestartDhcp, Connect, ConnectIf, Disconnected, TypeOK
<1>2. pc'[t] \notin Upward \cup Downward
  <2>1. ASSUME NEW l \in {"enable", "connect"}, Goes(t, l) PROVE pc'[t] \notin Upward \cup Downward
    BY <2>1 DEF Goes, TypeOK, Upward, Downward
  <2> QED
    BY <2>1, ReturnsOffPath DEF Leave, LeaveOr, Config, RestartDhcp, Connect, ConnectIf
<1> QED
  BY <1>1, <1>2 DEF RunsInMode, PathAt, Upward, Downward, Prepared

(* A step inside a call changes no other task's target.                    *)
LEMMA TargetFrame ==
  ASSUME TypeOK, NEW t \in Tasks, Step(t)
  PROVE  op' = op /\ \A u \in Tasks \ {t} : target'[u] = target[u]
<1>1. target' = target \/ \E m : target' = [target EXCEPT ![t] = m]
  BY DEF Step, ChangeMode, Enable, Mode, SetMode, InitTest, InitSet, InitDriver, InitDriverOr, InitPost,
         StartTest, Start, StartOr, StopTest, Stop, Deinit, Leave, LeaveOr, Config, Connect, ConnectIf
<1>2. op' = op
  BY DEF Step, ChangeMode, Enable, Mode, SetMode, InitTest, InitSet, InitDriver, InitDriverOr, InitPost,
         StartTest, Start, StartOr, StopTest, Stop, Deinit, Leave, LeaveOr, Config, Connect, ConnectIf,
         Quiet, DriverBecomes
<1> QED
  BY <1>1, <1>2 DEF TypeOK

LEMMA OutsideIsOffPath ==
  ASSUME NEW t, ~ Inside(t)
  PROVE  pc[t] \notin Upward \cup Downward
  BY DEF Inside, Upward, Downward, MainLabels, ModeLabels

LEMMA PathStep ==
  ASSUME TypeOK, TypeOK', FlagInv, PathInv, [Next]_vars
  PROVE  PathInv'
<1> SUFFICES ASSUME ~ overlap' PROVE RunsInMode' /\ \A t \in Tasks : PathAt(t)'
  BY DEF PathInv
<1>1. ASSUME NEW t \in Tasks, Step(t) PROVE RunsInMode' /\ \A u \in Tasks : PathAt(u)'
  <2>1. ~ overlap /\ Inside(t) /\ \A u \in Tasks \ {t} : pc'[u] = pc[u]
    BY <1>1, StepFrame
  <2>2. OthersOut(t) /\ FlagsAt(pc[t]) /\ RunsInMode /\ PathAt(t)
    BY <2>1 DEF FlagInv, PathInv
  <2>3. RunsInMode' /\ PathAt(t)'
    BY <1>1, <2>2, ModeKeepsPath, CallKeepsPath DEF Step
  <2>4. \A u \in Tasks \ {t} : PathAt(u)'
    <3> SUFFICES ASSUME NEW u \in Tasks \ {t} PROVE PathAt(u)'
      OBVIOUS
    <3>1. pc[u] \notin Upward \cup Downward /\ pc'[u] = pc[u]
      BY <2>1, <2>2, OutsideIsOffPath DEF OthersOut
    <3> QED
      BY <3>1 DEF PathAt, Upward, Downward, Prepared
  <2> QED
    BY <2>3, <2>4
<1>2. ASSUME NEW t \in Apps, Call(t) PROVE RunsInMode' /\ \A u \in Tasks : PathAt(u)'
  <2>1. UNCHANGED driver /\ ~ overlap /\ \A u \in Tasks : ~ Inside(u)
    BY <1>2 DEF Call, net
  <2>2. t \in Tasks /\ \A u \in Tasks \ {t} : pc'[u] = pc[u]
    BY <1>2 DEF Call, Goes, TypeOK, Tasks
  <2>3. pc'[t] \notin Upward \cup Downward
    BY <1>2, <2>2 DEF Call, Goes, Entry, Upward, Downward, TypeOK
  <2>4. \A u \in Tasks : pc'[u] \notin Upward \cup Downward
    BY <2>1, <2>2, <2>3, OutsideIsOffPath
  <2> QED
    BY <2>1, <2>4 DEF PathInv, RunsInMode, PathAt, Upward, Downward, Prepared
<1>3. CASE HandleEvent
  <2>0. Ev \in Tasks
    BY DEF Tasks
  <2>1. UNCHANGED <<driver, target>> /\ ~ overlap
    <3>1. UNCHANGED <<driver, target>>
      BY <1>3 DEF HandleEvent, Receive, ClearStatus, SetStatus, StoreBits, React, net
    <3>2. overlap => overlap'
      BY <1>3 DEF HandleEvent, Receive, ClearStatus, SetStatus, StoreBits, React
    <3> QED
      BY <3>1, <3>2
  <2>2. /\ \A u \in Tasks \ {Ev} : pc'[u] = pc[u]
        /\ pc'[Ev] \notin Upward \cup Downward
    BY <1>3, <2>0 DEF HandleEvent, Receive, ClearStatus, SetStatus, StoreBits, React, Goes,
       Upward, Downward, TypeOK
  <2> QED
    <3>1. RunsInMode' /\ \A u \in Tasks \ {Ev} : PathAt(u)'
      BY <2>1, <2>2 DEF PathInv, RunsInMode, PathAt
    <3>2. PathAt(Ev)'
      BY <2>2 DEF PathAt, Upward, Downward, Prepared
    <3> QED
      BY <3>1, <3>2
<1>4. CASE Forward \/ Network \/ SetAutoReconnect \/ UNCHANGED vars
  <2>1. UNCHANGED <<pc, target>> /\ ~ overlap
    BY <1>4 DEF Forward, Report, Network, Joined, Lost, Addressed, LostAddress, SetAutoReconnect, vars, app
  <2>2. /\ driver'.inited = driver.inited /\ driver'.stored = driver.stored /\ driver'.running = driver.running
        /\ driver'.mode = driver.mode
    BY <1>4 DEF Forward, Report, Network, Joined, Lost, Disconnected, Addressed, LostAddress,
       SetAutoReconnect, vars, net, TypeOK
  <2> QED
    BY <2>1, <2>2 DEF PathInv, RunsInMode, PathAt
<1> QED
  BY <1>1, <1>2, <1>3, <1>4 DEF Next

LEMMA ModeOnlyStep ==
  ASSUME TypeOK, ModeOnly, [Next]_vars
  PROVE  ModeOnly'
<1>1. ASSUME NEW t \in Tasks, Step(t) PROVE ModeOnly'
  <2>1. op' = op /\ \A u \in Tasks \ {t} : pc'[u] = pc[u]
    BY <1>1, StepFrame, TargetFrame
  <2>2. ASSUME op[t] = "mode" PROVE pc'[t] \notin {"leave", "enable", "config", "connect"}
    <3>1. ChangeMode(t) /\ ~ Enable(t)
      BY <1>1, <2>2 DEF Step, ModeOnly, At, Leave, LeaveOr, Config, Connect, ConnectIf, Enable
    <3>2. ASSUME NEW r, ModeReturns(t, r) PROVE pc'[t] = "rest"
      BY <2>2, <3>2 DEF ModeReturns, Returns, TypeOK
    <3>3. ASSUME NEW l \in ModeLabels, Goes(t, l) PROVE pc'[t] = l
      BY <3>3 DEF Goes, TypeOK
    <3>4. (\E r \in BOOLEAN : ModeReturns(t, r)) \/ (\E l \in ModeLabels : Goes(t, l))
      BY <3>1 DEF ChangeMode, Mode, SetMode, InitTest, InitSet, InitDriver, InitDriverOr, InitPost,
         StartTest, Start, StartOr, StopTest, Stop, Deinit, ModeLabels
    <3> QED
      BY <3>2, <3>3, <3>4 DEF ModeLabels
  <2> QED
    BY <2>1, <2>2 DEF ModeOnly
<1>2. ASSUME NEW t \in Apps, Call(t) PROVE ModeOnly'
  <2>1. PICK o \in Ops \ {"reconnect"} : op' = [op EXCEPT ![t] = o] /\ Goes(t, Entry(o))
    BY <1>2 DEF Call
  <2>2. t \in Tasks /\ op'[t] = o /\ pc'[t] = Entry(o)
        /\ \A u \in Tasks \ {t} : pc'[u] = pc[u] /\ op'[u] = op[u]
    BY <2>1 DEF Goes, TypeOK, Tasks
  <2>3. o = "mode" => Entry(o) = "mode"
    BY DEF Entry
  <2> QED
    BY <2>2, <2>3, TasksAssumption DEF ModeOnly, Tasks
<1>3. CASE HandleEvent
  <2>1. op' = op /\ \A u \in Tasks \ {Ev} : pc'[u] = pc[u]
    BY <1>3 DEF HandleEvent, Receive, ClearStatus, SetStatus, StoreBits, React, Goes, TypeOK, Tasks
  <2> QED
    BY <2>1 DEF ModeOnly
<1>4. CASE Forward \/ Network \/ SetAutoReconnect \/ UNCHANGED vars
  BY <1>4 DEF Forward, Report, Network, Joined, Lost, Addressed, LostAddress, SetAutoReconnect, vars, app, ModeOnly
<1> QED
  BY <1>1, <1>2, <1>3, <1>4 DEF Next

LEMMA PathsHold == Spec => [](PathInv /\ ModeOnly)
<1>1. Init => PathInv /\ ModeOnly
  <2> SUFFICES ASSUME Init PROVE PathInv /\ ModeOnly
    OBVIOUS
  <2>1. /\ \A t \in Tasks : pc[t] = "rest"
        /\ ~ driver.running
    BY DEF Init
  <2>2. op[Ev] = "reconnect"
    BY DEF Init, Tasks
  <2> QED
    BY <2>1, <2>2 DEF PathInv, ModeOnly, RunsInMode, PathAt, Upward, Downward, Prepared
<1>2. Init /\ [][Next]_vars /\ []TypeOK /\ []FlagInv => [](PathInv /\ ModeOnly)
  BY <1>1, PathStep, ModeOnlyStep, PTL
<1> QED
  BY <1>2, TypeCorrect, FlagsHold, PTL DEF Spec

(* mode() that returns true has done it, whatever other calls came before  *)
(* it, failed, or left behind: the radio runs in that mode, or is off.     *)
THEOREM TrueIsMode == Spec => TrueMeansMode
<1> DEFINE Done ==
      \A t \in Apps :
        op[t] = "mode" /\ Inside(t) /\ pc'[t] = "rest" /\ answer'[t] /\ ~ overlap =>
          IF target[t] = {} THEN ~ driver'.running
          ELSE driver'.running /\ driver'.mode = target[t]
<1>1. TypeOK /\ TypeOK' /\ FlagInv /\ PathInv /\ ModeOnly /\ [Next]_vars => Done
  <2> SUFFICES ASSUME TypeOK, TypeOK', FlagInv, PathInv, ModeOnly, [Next]_vars,
                      NEW t \in Apps, op[t] = "mode", Inside(t), pc'[t] = "rest", answer'[t], ~ overlap
               PROVE  IF target[t] = {} THEN ~ driver'.running
                      ELSE driver'.running /\ driver'.mode = target[t]
    OBVIOUS
  <2>0. /\ t \in Tasks /\ t # Ev /\ pc[t] # "rest" /\ driver \in Driver
        /\ DOMAIN pc = Tasks /\ DOMAIN answer = Tasks
    BY TasksAssumption DEF Tasks, Inside, TypeOK, Driver
  <2>1. FlagsAt(pc[t]) /\ RunsInMode /\ PathAt(t) /\ pc[t] \notin {"leave", "enable", "config", "connect"}
    BY <2>0 DEF FlagInv, PathInv, ModeOnly
  <2>2. Step(t)
    <3>1. ASSUME NEW u \in Tasks \ {t}, Step(u) PROVE pc'[t] = pc[t]
      BY <2>0, <3>1, StepFrame
    <3>2. ASSUME NEW u \in Apps, Call(u) PROVE FALSE
      <4>1. pc[u] = "rest" /\ \E l : pc' = [pc EXCEPT ![u] = l]
        BY <3>2 DEF Call, At, Goes
      <4> QED
        BY <2>0, <4>1
    <3>3. ASSUME HandleEvent PROVE pc'[t] = pc[t]
      BY <2>0, <3>3 DEF HandleEvent, Receive, ClearStatus, SetStatus, StoreBits, React, Goes
    <3>4. Forward \/ Network \/ SetAutoReconnect \/ UNCHANGED vars => pc' = pc
      BY DEF Forward, Report, Network, Joined, Lost, Addressed, LostAddress, SetAutoReconnect, vars, app
    <3> QED
      BY <2>0, <3>1, <3>2, <3>3, <3>4 DEF Next
  <2>3. ChangeMode(t) /\ ~ Enable(t)
    BY <2>1, <2>2 DEF Step, At, Leave, LeaveOr, Config, Connect, ConnectIf, Enable
  <2>f. ~ ModeReturns(t, FALSE)
    BY <2>0 DEF ModeReturns, Returns
  <2>g. ASSUME NEW l \in ModeLabels PROVE ~ Goes(t, l)
    BY <2>0 DEF Goes, ModeLabels
  <2>a. ASSUME NEW new \in Driver, DriverBecomes(new)
        PROVE  driver'.inited = new.inited /\ driver'.running = new.running /\ driver'.mode = new.mode
    BY <2>a DEF DriverBecomes, Changed, Driver
  <2>4. CASE Mode(t)
    <3>1. GetMode = target[t] /\ UNCHANGED driver
      BY <2>4, <2>g DEF Mode, Quiet, net, ModeLabels
    <3>2. Agree
      BY <2>1, <2>4 DEF Mode, At, FlagsAt
    <3>3. driver.running => GetMode = driver.mode /\ driver.mode # {}
      BY <2>1, <3>2 DEF RunsInMode, GetMode, Agree
    <3>4. ~ driver.running => GetMode = {}
      BY <3>2 DEF GetMode, Agree
    <3> QED
      BY <3>1, <3>3, <3>4
  <2>5. CASE StartTest(t)
    <3>1. started /\ UNCHANGED driver
      BY <2>5, <2>g DEF StartTest, Quiet, net, ModeLabels
    <3>2. Agree /\ target[t] # {} /\ driver.mode = target[t]
      BY <2>1, <2>5 DEF StartTest, At, FlagsAt, PathAt, Upward
    <3> QED
      BY <3>1, <3>2 DEF Agree
  <2>6. CASE Start(t)
    <3>1. DriverBecomes([driver EXCEPT !.running = TRUE])
      BY <2>6, <2>f DEF Start, StartOr
    <3>2. [driver EXCEPT !.running = TRUE] \in Driver
      BY <2>0 DEF Driver
    <3>3. driver'.running = TRUE /\ driver'.mode = driver.mode
      BY <2>0, <2>a, <3>1, <3>2 DEF Driver
    <3>4. target[t] # {} /\ driver.mode = target[t]
      BY <2>1, <2>6 DEF Start, StartOr, At, PathAt, Upward
    <3> QED
      BY <3>3, <3>4
  <2>7. CASE StopTest(t)
    <3>1. ~ started /\ UNCHANGED driver
      BY <2>7, <2>g DEF StopTest, Quiet, net, ModeLabels
    <3>2. Agree /\ target[t] = {}
      BY <2>1, <2>7 DEF StopTest, At, FlagsAt, PathAt, Downward
    <3> QED
      BY <3>1, <3>2 DEF Agree
  <2>8. CASE Deinit(t)
    <3>1. target[t] = {} /\ ~ driver.running
      BY <2>1, <2>8 DEF Deinit, At, FlagsAt, PathAt, Downward
    <3>2. driver'.running = driver.running
      BY <2>0, <2>8 DEF Deinit, Driver
    <3> QED
      BY <3>1, <3>2
  <2>9. ~ (SetMode(t) \/ InitTest(t) \/ InitSet(t) \/ InitDriver(t) \/ InitPost(t) \/ Stop(t))
    BY <2>f, <2>g DEF SetMode, InitTest, InitSet, InitDriver, InitDriverOr, InitPost, Stop, ModeLabels
  <2> QED
    BY <2>3, <2>4, <2>5, <2>6, <2>7, <2>8, <2>9 DEF ChangeMode
<1>2. TypeOK /\ TypeOK' /\ FlagInv /\ PathInv /\ ModeOnly /\ [Next]_vars => [Done]_vars
  BY <1>1
<1>3. Spec => [][Done]_vars
  BY <1>2, TypeCorrect, FlagsHold, PathsHold, PTL DEF Spec
<1> QED
  BY <1>3 DEF TrueMeansMode

-----------------------------------------------------------------------------
(* The events under way and what they will have said.  An event turns a    *)
(* truth on, off, or leaves it.  A queue of events says that it is on if   *)
(* its last event that turns it on is followed by none that turns it off,  *)
(* and leaves no doubt of what was before if none of it turns it off.      *)

SaysOn(s, On, Off) == \E i \in DOMAIN s : s[i] \in On /\ \A j \in DOMAIN s : j > i => s[j] \notin Off
Silent(s, Off)     == \A j \in DOMAIN s : s[j] \notin Off

LEMMA SaysNothing ==
  ASSUME NEW On, NEW Off
  PROVE  ~ SaysOn(<<>>, On, Off) /\ Silent(<<>>, Off)
  BY DEF SaysOn, Silent

LEMMA SaysAppend ==
  ASSUME NEW S, NEW s \in Seq(S), NEW e \in S, NEW On, NEW Off
  PROVE  /\ SaysOn(Append(s, e), On, Off) <=> e \in On \/ (SaysOn(s, On, Off) /\ e \notin Off)
         /\ Silent(Append(s, e), Off) <=> Silent(s, Off) /\ e \notin Off
<1> DEFINE k == Len(s) + 1
           r == Append(s, e)
<1>1. /\ Len(s) \in Nat /\ DOMAIN s = 1 .. Len(s) /\ DOMAIN r = 1 .. k
      /\ r[k] = e /\ \A i \in 1 .. Len(s) : r[i] = s[i]
  OBVIOUS
<1>2. /\ k \in DOMAIN r /\ \A i \in DOMAIN r : i = k \/ i \in DOMAIN s
      /\ \A i \in DOMAIN s : i \in DOMAIN r /\ k > i /\ ~ (i > k)
      /\ ~ (k > k)
  BY <1>1
<1> HIDE DEF k, r
<1>3. Silent(r, Off) <=> Silent(s, Off) /\ e \notin Off
  BY <1>1, <1>2 DEF Silent
<1>4. e \in On => SaysOn(r, On, Off)
  BY <1>1, <1>2 DEF SaysOn
<1>5. SaysOn(s, On, Off) /\ e \notin Off => SaysOn(r, On, Off)
  BY <1>1, <1>2 DEF SaysOn
<1>6. SaysOn(r, On, Off) => e \in On \/ (SaysOn(s, On, Off) /\ e \notin Off)
  BY <1>1, <1>2 DEF SaysOn
<1> QED
  BY <1>3, <1>4, <1>5, <1>6 DEF r

LEMMA SaysTail ==
  ASSUME NEW S, NEW s \in Seq(S), s # <<>>, NEW On, NEW Off
  PROVE  /\ SaysOn(s, On, Off) <=> SaysOn(Tail(s), On, Off) \/ (Head(s) \in On /\ Silent(Tail(s), Off))
         /\ Silent(s, Off) <=> Head(s) \notin Off /\ Silent(Tail(s), Off)
<1> DEFINE r == Tail(s)
<1>1. /\ Len(s) \in Nat \ {0} /\ DOMAIN s = 1 .. Len(s) /\ DOMAIN r = 1 .. Len(s) - 1
      /\ Head(s) = s[1] /\ \A i \in 1 .. Len(s) - 1 : r[i] = s[i + 1]
  OBVIOUS
<1>2. /\ 1 \in DOMAIN s /\ ~ (1 > 1)
      /\ \A i \in DOMAIN r : i + 1 \in DOMAIN s /\ i + 1 > 1 /\ r[i] = s[i + 1]
      /\ \A i, j \in DOMAIN r : j > i <=> j + 1 > i + 1
      /\ \A i \in DOMAIN s : i = 1 \/ (i - 1 \in DOMAIN r /\ (i - 1) + 1 = i /\ i > 1)
      /\ \A i \in DOMAIN s : ~ (1 > i)
  BY <1>1
<1> HIDE DEF r
<1>3. Silent(s, Off) <=> s[1] \notin Off /\ Silent(r, Off)
  BY <1>2 DEF Silent
<1>4. (\A j \in DOMAIN s : j > 1 => s[j] \notin Off) <=> Silent(r, Off)
  BY <1>2 DEF Silent
<1>5. ASSUME NEW i \in DOMAIN r
      PROVE  (\A j \in DOMAIN s : j > i + 1 => s[j] \notin Off)
               <=> (\A j \in DOMAIN r : j > i => r[j] \notin Off)
  <2>1. ASSUME \A j \in DOMAIN s : j > i + 1 => s[j] \notin Off, NEW j \in DOMAIN r, j > i
        PROVE  r[j] \notin Off
    BY <1>2, <2>1
  <2>2. ASSUME \A j \in DOMAIN r : j > i => r[j] \notin Off, NEW j \in DOMAIN s, j > i + 1
        PROVE  s[j] \notin Off
    <3>1. j # 1
      BY <1>1, <1>2, <2>2
    <3>2. j - 1 \in DOMAIN r /\ (j - 1) + 1 = j /\ j - 1 > i
      BY <1>1, <1>2, <2>2, <3>1
    <3> QED
      BY <1>2, <2>2, <3>2
  <2> QED
    BY <2>1, <2>2
<1>6. ASSUME NEW i \in DOMAIN s, s[i] \in On, \A j \in DOMAIN s : j > i => s[j] \notin Off
      PROVE  SaysOn(r, On, Off) \/ (s[1] \in On /\ Silent(r, Off))
  <2>1. CASE i = 1
    BY <1>4, <1>6, <2>1
  <2>2. CASE i # 1
    <3>1. i - 1 \in DOMAIN r /\ r[i - 1] \in On /\ (i - 1) + 1 = i
      BY <1>2, <1>6, <2>2
    <3>2. \A j \in DOMAIN r : j > i - 1 => r[j] \notin Off
      BY <1>5, <1>6, <3>1
    <3> QED
      BY <3>1, <3>2 DEF SaysOn
  <2> QED
    BY <2>1, <2>2
<1>7. SaysOn(r, On, Off) => SaysOn(s, On, Off)
  <2> SUFFICES ASSUME NEW i \in DOMAIN r, r[i] \in On, \A j \in DOMAIN r : j > i => r[j] \notin Off
               PROVE  SaysOn(s, On, Off)
    BY DEF SaysOn
  <2>1. i + 1 \in DOMAIN s /\ s[i + 1] \in On
    BY <1>2
  <2>2. \A j \in DOMAIN s : j > i + 1 => s[j] \notin Off
    BY <1>5
  <2> QED
    BY <2>1, <2>2 DEF SaysOn
<1>8. s[1] \in On /\ Silent(r, Off) => SaysOn(s, On, Off)
  BY <1>2, <1>4 DEF SaysOn
<1>9. SaysOn(s, On, Off) => SaysOn(r, On, Off) \/ (s[1] \in On /\ Silent(r, Off))
  BY <1>6 DEF SaysOn
<1> QED
  BY <1>1, <1>3, <1>7, <1>8, <1>9 DEF r

-----------------------------------------------------------------------------
(* What status and bits will say once every event under way is handled:    *)
(* first what the event task has stored, with the event whose bits it has  *)
(* still to store, then its queue, then what the driver has posted.        *)

Unstored ==
  pc[Ev] \in {"clear", "set", "bits"} /\ ~ (event = "assoc_fail" /\ goal = "connect_failed")

Stored(On, Off, bit) ==
  IF Unstored THEN event \in On \/ (bit \in bits /\ event \notin Off) ELSE bit \in bits

Told == IF pc[Ev] \in {"clear", "set"} THEN goal = "connected" ELSE status = "connected"

WillSay(On, Off, now) ==
  \/ SaysOn(posted, On, Off)
  \/ Silent(posted, Off) /\ SaysOn(queue, On, Off)
  \/ Silent(posted, Off) /\ Silent(queue, Off) /\ now

(* The events that turn on and off the three bits, and a status that is    *)
(* WL_CONNECTED.                                                           *)
StartOn == {"start"}
StartOff == {"stop"}
LinkOn == {"connected", "got_ip"}
LinkOff == Reasons \cup {"stop"}
IpOn == {"got_ip"}
IpOff == Reasons \cup {"stop", "lost_ip"}
ToldOff == Events \ {"got_ip", "ready", "auth_expire"}

SaysStarted == WillSay(StartOn, StartOff, Stored(StartOn, StartOff, "STARTED"))
SaysLinked  == WillSay(LinkOn, LinkOff, Stored(LinkOn, LinkOff, "CONNECTED"))
SaysIp      == WillSay(IpOn, IpOff, Stored(IpOn, IpOff, "HAS_IP"))
SaysTold    == WillSay(IpOn, ToldOff, Told)

Linked == driver.link \in {"joined", "addressed"}

(* The link needs a station that runs, and an address a lease; what will   *)
(* be said is what the driver is, or, after a late address, no less.       *)
LinkInv ==
  /\ ~ Station(driver) => driver.link = "down"
  /\ driver.link = "addressed" => lease
  /\ SaysStarted <=> Station(driver)
  /\ Linked => SaysLinked
  /\ ~ late => (SaysLinked => Linked)
  /\ driver.link = "addressed" => SaysIp
  /\ ~ late /\ SaysIp => driver.link = "addressed" \/ (driver.link = "joined" /\ lease)
  /\ driver.link = "addressed" => SaysTold

(* A refusal has no other status than these while it is handled, also when *)
(* it is taken for a failed connection in the end.                         *)
TaskInv ==
  event = "assoc_fail" =>
    /\ pc[Ev] \in {"clear", "set"} => goal \in {"disconnected", "connect_failed"}
    /\ pc[Ev] \in {"bits", "react"} => status # "connected" /\ goal # "connect_failed"

(* A step that leaves the event task where it is, or outside its handler,  *)
(* with all it has stored.                                                 *)
NowFrame ==
  /\ UNCHANGED <<event, goal, status, bits>>
  /\ pc'[Ev] = pc[Ev] \/ (pc[Ev] \notin EventLabels /\ pc'[Ev] \notin EventLabels)

SaysSame ==
  /\ SaysStarted' <=> SaysStarted
  /\ SaysLinked' <=> SaysLinked
  /\ SaysIp' <=> SaysIp
  /\ SaysTold' <=> SaysTold

LEMMA NowKept ==
  ASSUME NowFrame
  PROVE  /\ Stored(StartOn, StartOff, "STARTED")' <=> Stored(StartOn, StartOff, "STARTED")
         /\ Stored(LinkOn, LinkOff, "CONNECTED")' <=> Stored(LinkOn, LinkOff, "CONNECTED")
         /\ Stored(IpOn, IpOff, "HAS_IP")' <=> Stored(IpOn, IpOff, "HAS_IP")
         /\ Told' <=> Told
<1>1. Unstored' <=> Unstored
  BY DEF NowFrame, Unstored, EventLabels
<1>2. UNCHANGED <<event, bits>>
  BY DEF NowFrame
<1>3. Told' <=> Told
  BY DEF NowFrame, Told, EventLabels
<1> QED
  BY <1>1, <1>2, <1>3 DEF Stored, StartOn, StartOff, LinkOn, LinkOff, IpOn, IpOff

LEMMA NothingPosted ==
  ASSUME NowFrame, UNCHANGED <<posted, queue>>
  PROVE  SaysSame
<1> USE NowKept
<1>1. SaysStarted' <=> SaysStarted
  BY DEF SaysStarted, WillSay, StartOn, StartOff
<1>2. SaysLinked' <=> SaysLinked
  BY DEF SaysLinked, WillSay, LinkOn, LinkOff
<1>3. SaysIp' <=> SaysIp
  BY DEF SaysIp, WillSay, IpOn, IpOff
<1>4. SaysTold' <=> SaysTold
  BY DEF SaysTold, WillSay, IpOn, ToldOff
<1> QED
  BY <1>1, <1>2, <1>3, <1>4 DEF SaysSame

(* An event posted by the driver is the last to be handled.                *)
LEMMA EventPosted ==
  ASSUME TypeOK, NowFrame, UNCHANGED queue, NEW e \in Events, posted' = Append(posted, e)
  PROVE  /\ SaysStarted' <=> e \in StartOn \/ (SaysStarted /\ e \notin StartOff)
         /\ SaysLinked' <=> e \in LinkOn \/ (SaysLinked /\ e \notin LinkOff)
         /\ SaysIp' <=> e \in IpOn \/ (SaysIp /\ e \notin IpOff)
         /\ SaysTold' <=> e \in IpOn \/ (SaysTold /\ e \notin ToldOff)
<1>0. posted \in Seq(Events)
  BY DEF TypeOK
<1>a. ASSUME NEW On, NEW Off
      PROVE  /\ SaysOn(posted', On, Off) <=> e \in On \/ (SaysOn(posted, On, Off) /\ e \notin Off)
             /\ Silent(posted', Off) <=> Silent(posted, Off) /\ e \notin Off
  BY <1>0, SaysAppend
<1>1. SaysStarted' <=> e \in StartOn \/ (SaysStarted /\ e \notin StartOff)
  <2>1. /\ SaysOn(posted', StartOn, StartOff)
              <=> e \in StartOn \/ (SaysOn(posted, StartOn, StartOff) /\ e \notin StartOff)
        /\ Silent(posted', StartOff) <=> Silent(posted, StartOff) /\ e \notin StartOff
    BY <1>a
  <2> QED
    BY <2>1, NowKept DEF SaysStarted, WillSay, StartOn, StartOff
<1>2. SaysLinked' <=> e \in LinkOn \/ (SaysLinked /\ e \notin LinkOff)
  <2>1. /\ SaysOn(posted', LinkOn, LinkOff)
              <=> e \in LinkOn \/ (SaysOn(posted, LinkOn, LinkOff) /\ e \notin LinkOff)
        /\ Silent(posted', LinkOff) <=> Silent(posted, LinkOff) /\ e \notin LinkOff
    BY <1>a
  <2> QED
    BY <2>1, NowKept DEF SaysLinked, WillSay, LinkOn, LinkOff
<1>3. SaysIp' <=> e \in IpOn \/ (SaysIp /\ e \notin IpOff)
  <2>1. /\ SaysOn(posted', IpOn, IpOff)
              <=> e \in IpOn \/ (SaysOn(posted, IpOn, IpOff) /\ e \notin IpOff)
        /\ Silent(posted', IpOff) <=> Silent(posted, IpOff) /\ e \notin IpOff
    BY <1>a
  <2> QED
    BY <2>1, NowKept DEF SaysIp, WillSay, IpOn, IpOff
<1>4. SaysTold' <=> e \in IpOn \/ (SaysTold /\ e \notin ToldOff)
  <2>1. /\ SaysOn(posted', IpOn, ToldOff)
              <=> e \in IpOn \/ (SaysOn(posted, IpOn, ToldOff) /\ e \notin ToldOff)
        /\ Silent(posted', ToldOff) <=> Silent(posted, ToldOff) /\ e \notin ToldOff
    BY <1>a
  <2> QED
    BY <2>1, NowKept DEF SaysTold, WillSay, IpOn, ToldOff
<1> QED
  BY <1>1, <1>2, <1>3, <1>4

(* After a stop nothing is on, whatever was posted before it.              *)
LEMMA StopPosted ==
  ASSUME NEW s, s \in Seq(Events), posted' = Append(s, "stop")
  PROVE  ~ SaysStarted' /\ ~ SaysLinked' /\ ~ SaysIp'
<1>0. "stop" \in Events
  BY DEF Events
<1>1. ASSUME NEW On, NEW Off, "stop" \in Off, "stop" \notin On
      PROVE  ~ SaysOn(posted', On, Off) /\ ~ Silent(posted', Off)
  BY <1>0, <1>1, SaysAppend
<1>2. ~ SaysStarted'
  <2>1. ~ SaysOn(posted', StartOn, StartOff) /\ ~ Silent(posted', StartOff)
    BY <1>1 DEF StartOn, StartOff
  <2> QED
    BY <2>1 DEF SaysStarted, WillSay, StartOn, StartOff
<1>3. ~ SaysLinked'
  <2>0. "stop" \in LinkOff /\ "stop" \notin LinkOn
    BY DEF LinkOn, LinkOff
  <2>1. ~ SaysOn(posted', LinkOn, LinkOff) /\ ~ Silent(posted', LinkOff)
    BY <1>1, <2>0
  <2> QED
    BY <2>1 DEF SaysLinked, WillSay, LinkOn, LinkOff
<1>4. ~ SaysIp'
  <2>1. ~ SaysOn(posted', IpOn, IpOff) /\ ~ Silent(posted', IpOff)
    BY <1>1 DEF IpOn, IpOff
  <2> QED
    BY <2>1 DEF SaysIp, WillSay, IpOn, IpOff
<1> QED
  BY <1>2, <1>3, <1>4

(* The event of a driver made ready says nothing, where ever it is queued. *)
LEMMA ReadyQueued ==
  ASSUME TypeOK, NowFrame, UNCHANGED posted, queue' = Append(queue, "ready")
  PROVE  SaysSame
<1>0. queue \in Seq(Events) /\ "ready" \in Events
  BY DEF TypeOK, Events
<1>a. ASSUME NEW On, NEW Off, "ready" \notin On \cup Off
      PROVE  /\ SaysOn(queue', On, Off) <=> SaysOn(queue, On, Off)
             /\ Silent(queue', Off) <=> Silent(queue, Off)
  BY <1>0, <1>a, SaysAppend
<1>1. SaysStarted' <=> SaysStarted
  <2>1. /\ SaysOn(queue', StartOn, StartOff) <=> SaysOn(queue, StartOn, StartOff)
        /\ Silent(queue', StartOff) <=> Silent(queue, StartOff)
    BY <1>a DEF StartOn, StartOff
  <2> QED
    BY <2>1, NowKept DEF SaysStarted, WillSay, StartOn, StartOff
<1>2. SaysLinked' <=> SaysLinked
  <2>1. /\ SaysOn(queue', LinkOn, LinkOff) <=> SaysOn(queue, LinkOn, LinkOff)
        /\ Silent(queue', LinkOff) <=> Silent(queue, LinkOff)
    BY <1>a DEF LinkOn, LinkOff, Reasons
  <2> QED
    BY <2>1, NowKept DEF SaysLinked, WillSay, LinkOn, LinkOff
<1>3. SaysIp' <=> SaysIp
  <2>1. /\ SaysOn(queue', IpOn, IpOff) <=> SaysOn(queue, IpOn, IpOff)
        /\ Silent(queue', IpOff) <=> Silent(queue, IpOff)
    BY <1>a DEF IpOn, IpOff, Reasons
  <2> QED
    BY <2>1, NowKept DEF SaysIp, WillSay, IpOn, IpOff
<1>4. SaysTold' <=> SaysTold
  <2>1. /\ SaysOn(queue', IpOn, ToldOff) <=> SaysOn(queue, IpOn, ToldOff)
        /\ Silent(queue', ToldOff) <=> Silent(queue, ToldOff)
    BY <1>a DEF IpOn, ToldOff
  <2> QED
    BY <2>1, NowKept DEF SaysTold, WillSay, IpOn, ToldOff
<1> QED
  BY <1>1, <1>2, <1>3, <1>4 DEF SaysSame

(* An event forwarded goes from the end of what is posted to the queue's.  *)
LEMMA ForwardSays ==
  ASSUME TypeOK, Forward
  PROVE  SaysSame
<1> DEFINE e == Head(posted)
<1>0. /\ posted \in Seq(Events) /\ posted # <<>> /\ posted' = Tail(posted) /\ e \in Events
      /\ queue \in Seq(Events) /\ queue' = Append(queue, e)
  BY DEF TypeOK, Forward, Report, WithHead
<1>n. NowFrame
  BY DEF Forward, Report, app, reports, NowFrame
<1>a. ASSUME NEW On, NEW Off
      PROVE  /\ SaysOn(queue', On, Off) <=> e \in On \/ (SaysOn(queue, On, Off) /\ e \notin Off)
             /\ Silent(queue', Off) <=> Silent(queue, Off) /\ e \notin Off
             /\ SaysOn(posted, On, Off) <=> SaysOn(posted', On, Off) \/ (e \in On /\ Silent(posted', Off))
             /\ Silent(posted, Off) <=> e \notin Off /\ Silent(posted', Off)
  BY <1>0, SaysAppend, SaysTail
<1> HIDE DEF e
<1>1. SaysStarted' <=> SaysStarted
  BY <1>a, <1>n, NowKept DEF SaysStarted, WillSay, StartOn, StartOff
<1>2. SaysLinked' <=> SaysLinked
  BY <1>a, <1>n, NowKept DEF SaysLinked, WillSay, LinkOn, LinkOff
<1>3. SaysIp' <=> SaysIp
  BY <1>a, <1>n, NowKept DEF SaysIp, WillSay, IpOn, IpOff
<1>4. SaysTold' <=> SaysTold
  BY <1>a, <1>n, NowKept DEF SaysTold, WillSay, IpOn, ToldOff
<1> QED
  BY <1>1, <1>2, <1>3, <1>4 DEF SaysSame

(* The event task takes the event at the head of its queue.                *)
LEMMA ReceiveSays ==
  ASSUME TypeOK, Receive
  PROVE  SaysSame
<1> DEFINE e == Head(queue)
<1>0. /\ queue \in Seq(Events) /\ queue # <<>> /\ queue' = Tail(queue) /\ e \in Events
      /\ UNCHANGED <<posted, bits, status>> /\ event' = e /\ pc[Ev] = "rest"
      /\ Ev \in Tasks /\ DOMAIN pc = Tasks
  BY DEF TypeOK, Receive, net, At, Tasks
<1>a. ASSUME NEW On, NEW Off
      PROVE  /\ SaysOn(queue, On, Off) <=> SaysOn(queue', On, Off) \/ (e \in On /\ Silent(queue', Off))
             /\ Silent(queue, Off) <=> e \notin Off /\ Silent(queue', Off)
  BY <1>0, SaysTail
<1>b. /\ e \in {"ready", "auth_expire"} => pc'[Ev] = "bits"
      /\ e \notin {"ready", "auth_expire"} => pc'[Ev] = "clear" /\ goal' = NewStatus(e)
  BY <1>0 DEF Receive, Goes
<1> HIDE DEF e
<1>c. Unstored' /\ ~ Unstored
  <2>1. e = "assoc_fail" => goal' # "connect_failed"
    BY <1>b DEF NewStatus
  <2> QED
    BY <1>0, <1>b, <2>1 DEF Unstored
<1>d. Told' <=> e \in IpOn \/ (Told /\ e \notin ToldOff)
  <2>1. Told <=> status = "connected"
    BY <1>0 DEF Told
  <2>2. CASE e \in {"ready", "auth_expire"}
    <3>1. Told' <=> status = "connected"
      BY <1>0, <1>b, <2>2 DEF Told
    <3> QED
      BY <2>1, <2>2, <3>1 DEF IpOn, ToldOff
  <2>3. CASE e \notin {"ready", "auth_expire"}
    <3>1. Told' <=> NewStatus(e) = "connected"
      BY <1>b, <2>3 DEF Told
    <3>2. NewStatus(e) = "connected" <=> e = "got_ip"
      BY DEF NewStatus
    <3> QED
      BY <1>0, <2>3, <3>1, <3>2 DEF IpOn, ToldOff
  <2> QED
    BY <2>2, <2>3
<1>1. SaysStarted' <=> SaysStarted
  BY <1>0, <1>a, <1>c DEF SaysStarted, WillSay, Stored, StartOn, StartOff
<1>2. SaysLinked' <=> SaysLinked
  BY <1>0, <1>a, <1>c DEF SaysLinked, WillSay, Stored, LinkOn, LinkOff
<1>3. SaysIp' <=> SaysIp
  BY <1>0, <1>a, <1>c DEF SaysIp, WillSay, Stored, IpOn, IpOff
<1>4. SaysTold' <=> SaysTold
  <2>1. UNCHANGED posted
    BY <1>0
  <2> QED
    BY <2>1, <1>a, <1>d DEF SaysTold, WillSay, IpOn, ToldOff
<1> QED
  BY <1>1, <1>2, <1>3, <1>4 DEF SaysSame

(* What it stores of an event is what the event says.                      *)
LEMMA HandledSays ==
  ASSUME TypeOK, TaskInv, ClearStatus \/ SetStatus \/ StoreBits \/ React
  PROVE  SaysSame
<1>0. /\ UNCHANGED <<posted, queue>> /\ Ev \in Tasks /\ DOMAIN pc = Tasks
      /\ event \in HandledEvents
  BY DEF ClearStatus, SetStatus, StoreBits, React, net, Tasks, TypeOK
<1>a. ASSUME NEW l, Goes(Ev, l) PROVE pc'[Ev] = l
  BY <1>0, <1>a DEF Goes
<1>1. /\ Stored(StartOn, StartOff, "STARTED")' <=> Stored(StartOn, StartOff, "STARTED")
      /\ Stored(LinkOn, LinkOff, "CONNECTED")' <=> Stored(LinkOn, LinkOff, "CONNECTED")
      /\ Stored(IpOn, IpOff, "HAS_IP")' <=> Stored(IpOn, IpOff, "HAS_IP")
  <2>1. CASE ClearStatus \/ SetStatus
    <3>1. bits' = bits
      BY <2>1 DEF ClearStatus, SetStatus
    <3>2. Unstored' <=> Unstored
      <4>1. CASE ClearStatus
        <5>1. pc[Ev] = "clear" /\ pc'[Ev] = "set" /\ UNCHANGED <<event, goal>>
          BY <4>1, <1>a DEF ClearStatus, At
        <5> QED
          BY <5>1 DEF Unstored
      <4>2. CASE SetStatus
        <5>1. pc[Ev] = "set" /\ goal' = "no_shield"
          BY <4>2 DEF SetStatus, At
        <5>2. CASE event = "assoc_fail" /\ goal = "connect_failed"
          <6>1. pc'[Ev] = "rest"
            BY <4>2, <5>2, <1>a DEF SetStatus
          <6> QED
            BY <5>2, <6>1 DEF Unstored
        <5>3. CASE ~ (event = "assoc_fail" /\ goal = "connect_failed")
          <6>1. pc'[Ev] = "bits"
            BY <4>2, <5>3, <1>a DEF SetStatus
          <6> QED
            BY <5>1, <5>3, <6>1 DEF Unstored
        <5> QED
          BY <5>2, <5>3
      <4> QED
        BY <2>1, <4>1, <4>2
    <3>3. Unstored => event' = event
      BY <2>1 DEF ClearStatus, SetStatus, Unstored
    <3> QED
      BY <3>1, <3>2, <3>3 DEF Stored, StartOn, StartOff, LinkOn, LinkOff, IpOn, IpOff
  <2>2. CASE StoreBits
    <3>1. bits' = NewBits(event) /\ pc[Ev] = "bits"
      BY <2>2 DEF StoreBits, At
    <3>2. pc'[Ev] \in {"react", "rest"}
      BY <2>2, <1>a DEF StoreBits
    <3>3. ~ Unstored'
      BY <3>2 DEF Unstored
    <3>4. Unstored
      <4>1. event = "assoc_fail" => goal # "connect_failed"
        BY <3>1 DEF TaskInv
      <4> QED
        BY <3>1, <4>1 DEF Unstored
    <3>5. /\ "STARTED" \in NewBits(event) <=> event \in StartOn \/ ("STARTED" \in bits /\ event \notin StartOff)
          /\ "CONNECTED" \in NewBits(event) <=> event \in LinkOn \/ ("CONNECTED" \in bits /\ event \notin LinkOff)
          /\ "HAS_IP" \in NewBits(event) <=> event \in IpOn \/ ("HAS_IP" \in bits /\ event \notin IpOff)
      BY DEF NewBits, StartOn, StartOff, LinkOn, LinkOff, IpOn, IpOff, Reasons
    <3> QED
      BY <3>1, <3>3, <3>4, <3>5 DEF Stored, StartOn, StartOff, LinkOn, LinkOff, IpOn, IpOff
  <2>3. CASE React
    <3>1. bits' = bits /\ pc[Ev] = "react"
      BY <2>3 DEF React, At
    <3>2. pc'[Ev] \in {"leave", "rest"} \/ (event' = "assoc_fail" /\ goal' = "connect_failed")
      BY <2>3, <1>a DEF React, Refused
    <3>3. ~ Unstored /\ ~ Unstored'
      BY <3>1, <3>2 DEF Unstored
    <3> QED
      BY <3>1, <3>3 DEF Stored
  <2> QED
    BY <2>1, <2>2, <2>3
<1>2. Told' <=> Told
  <2>1. CASE ClearStatus
    <3>1. pc[Ev] = "clear" /\ pc'[Ev] = "set" /\ UNCHANGED goal
      BY <2>1, <1>a DEF ClearStatus, At
    <3> QED
      BY <3>1 DEF Told
  <2>2. CASE SetStatus
    <3>1. pc[Ev] = "set" /\ status' = goal
      BY <2>2 DEF SetStatus, At
    <3>2. pc'[Ev] \in {"rest", "bits"}
      BY <2>2, <1>a DEF SetStatus
    <3> QED
      BY <3>1, <3>2 DEF Told
  <2>3. CASE StoreBits
    <3>1. pc[Ev] = "bits" /\ UNCHANGED status
      BY <2>3 DEF StoreBits, At
    <3>2. pc'[Ev] \in {"react", "rest"}
      BY <2>3, <1>a DEF StoreBits
    <3> QED
      BY <3>1, <3>2 DEF Told
  <2>4. CASE React
    <3>1. pc[Ev] = "react" /\ UNCHANGED status
      BY <2>4 DEF React, At
    <3>2. CASE pc'[Ev] \in {"leave", "rest"}
      BY <3>1, <3>2 DEF Told
    <3>3. CASE Refused /\ pc'[Ev] = "clear" /\ goal' = "connect_failed"
      <4>1. status # "connected"
        BY <3>1, <3>3 DEF TaskInv, Refused
      <4> QED
        BY <3>1, <3>3, <4>1 DEF Told
    <3> QED
      BY <2>4, <1>a, <3>2, <3>3 DEF React
  <2> QED
    BY <2>1, <2>2, <2>3, <2>4
<1>3. SaysStarted' <=> SaysStarted
  BY <1>0, <1>1 DEF SaysStarted, WillSay, StartOn, StartOff
<1>4. SaysLinked' <=> SaysLinked
  BY <1>0, <1>1 DEF SaysLinked, WillSay, LinkOn, LinkOff
<1>5. SaysIp' <=> SaysIp
  BY <1>0, <1>1 DEF SaysIp, WillSay, IpOn, IpOff
<1>6. SaysTold' <=> SaysTold
  BY <1>0, <1>2 DEF SaysTold, WillSay, IpOn, ToldOff
<1> QED
  BY <1>3, <1>4, <1>5, <1>6 DEF SaysSame

-----------------------------------------------------------------------------
(* The invariant of the link, step by step.                                *)

LEMMA SameKeepsLink ==
  ASSUME LinkInv, SaysSame, UNCHANGED <<lease, late>>, driver'.link = driver.link,
         driver'.running = driver.running, driver'.mode = driver.mode
  PROVE  LinkInv'
<1>1. Station(driver)' <=> Station(driver)
  BY DEF Station
<1>2. Linked' <=> Linked
  BY DEF Linked
<1> QED
  BY <1>1, <1>2 DEF LinkInv, SaysSame

(* The link is lost, and its event posted.                                 *)
LEMMA DisconnectKeepsLink ==
  ASSUME TypeOK, LinkInv, NowFrame, UNCHANGED <<queue, lease, late>>, NEW r \in Reasons, Disconnected(r)
  PROVE  LinkInv'
<1>1. /\ driver'.link = "down" /\ driver'.running = driver.running /\ driver'.mode = driver.mode
      /\ posted' = Append(posted, r) /\ r \in Events
  BY DEF Disconnected, TypeOK, Events
<1>2. /\ r \notin StartOn /\ r \notin StartOff /\ r \notin LinkOn /\ r \in LinkOff
      /\ r \notin IpOn /\ r \in IpOff
  BY DEF Reasons, StartOn, StartOff, LinkOn, LinkOff, IpOn, IpOff
<1>3. (SaysStarted' <=> SaysStarted) /\ ~ SaysLinked' /\ ~ SaysIp'
  BY <1>1, <1>2, EventPosted
<1>4. Station(driver)' <=> Station(driver)
  BY <1>1 DEF Station
<1>5. ~ Linked'
  BY <1>1 DEF Linked
<1> QED
  BY <1>1, <1>3, <1>4, <1>5 DEF LinkInv

(* The driver gets another mode, starts or stops.                          *)
LEMMA BecomesKeepsLink ==
  ASSUME TypeOK, LinkInv, NowFrame, NEW new \in Driver, new.link = driver.link, DriverBecomes(new)
  PROVE  LinkInv'
<1>1. UNCHANGED <<queue, lease, late>> /\ posted \in Seq(Events)
  BY DEF DriverBecomes, TypeOK
<1>2. /\ driver'.running = new.running /\ driver'.mode = new.mode
      /\ driver'.link = IF Station(new) THEN driver.link ELSE "down"
  BY DEF DriverBecomes, Changed, Driver
<1>3. Station(driver)' <=> Station(new)
  BY <1>2 DEF Station
<1>4. CASE Station(driver) /\ ~ Station(new)
  <2>1. \E s : s \in Seq(Events) /\ posted' = Append(s, "stop")
    <3>1. posted' = posted \o <<"stop">> \/ posted' = posted \o <<"leave", "stop">>
      BY <1>4 DEF DriverBecomes, Posts
    <3>2. posted \o <<"stop">> = Append(posted, "stop")
      BY <1>1
    <3>3. "leave" \in Events /\ Append(posted, "leave") \in Seq(Events)
      BY <1>1 DEF Events, Reasons
    <3>4. posted \o <<"leave", "stop">> = Append(Append(posted, "leave"), "stop")
      BY <1>1
    <3> QED
      BY <1>1, <3>1, <3>2, <3>3, <3>4
  <2>2. ~ SaysStarted' /\ ~ SaysLinked' /\ ~ SaysIp'
    BY <2>1, StopPosted
  <2>3. driver'.link = "down" /\ ~ Station(driver)' /\ ~ Linked'
    BY <1>2, <1>3, <1>4 DEF Linked
  <2> QED
    BY <2>2, <2>3 DEF LinkInv
<1>5. CASE ~ Station(driver) /\ Station(new)
  <2>1. posted' = Append(posted, "start") /\ "start" \in Events
    <3>1. posted' = posted \o <<"start">>
      BY <1>5 DEF DriverBecomes, Posts
    <3> QED
      BY <1>1, <3>1 DEF Events
  <2>2. SaysStarted' /\ (SaysLinked' => SaysLinked) /\ (SaysIp' => SaysIp)
    <3>1. "start" \in StartOn /\ "start" \notin LinkOn /\ "start" \notin IpOn
      BY DEF StartOn, LinkOn, IpOn
    <3> QED
      BY <1>1, <2>1, <3>1, EventPosted
  <2>3. driver.link = "down" /\ driver'.link = "down" /\ Station(driver)' /\ ~ Linked /\ ~ Linked'
    BY <1>2, <1>3, <1>5 DEF LinkInv, Linked
  <2> QED
    BY <1>1, <2>2, <2>3 DEF LinkInv
<1>6. CASE Station(driver) <=> Station(new)
  <2>1. UNCHANGED posted
    <3>1. posted' = posted \o <<>>
      BY <1>6 DEF DriverBecomes, Posts
    <3> QED
      BY <1>1, <3>1
  <2>2. SaysSame
    BY <1>1, <2>1, NothingPosted
  <2>3. driver'.link = driver.link
    BY <1>2, <1>6 DEF LinkInv
  <2>4. Linked' <=> Linked
    BY <2>3 DEF Linked
  <2> QED
    BY <1>1, <1>3, <1>6, <2>2, <2>3, <2>4 DEF LinkInv, SaysSame
<1> QED
  BY <1>4, <1>5, <1>6

(* A step inside a call leaves the event task's handler alone.             *)
LEMMA StepNow ==
  ASSUME TypeOK, NEW t \in Tasks, Step(t)
  PROVE  NowFrame /\ UNCHANGED <<lease, late>>
<1>1. UNCHANGED <<event, goal, status, bits, lease, late>>
  BY DEF Step, ChangeMode, Enable, Mode, SetMode, InitTest, InitSet, InitDriver, InitDriverOr, InitPost,
         StartTest, Start, StartOr, StopTest, Stop, Deinit, Leave, LeaveOr, Config, Connect, ConnectIf,
         Quiet, DriverBecomes, reports, net
<1>2. CASE t # Ev
  <2>1. pc'[Ev] = pc[Ev]
    BY <1>2, StepFrame DEF Tasks
  <2> QED
    BY <1>1, <2>1 DEF NowFrame
<1>3. CASE t = Ev
  <2>1. pc[Ev] \notin EventLabels
    BY <1>3, StepFrame DEF Inside, MainLabels, ModeLabels, EventLabels
  <2>2. \/ \E r : ModeReturns(t, r) \/ Returns(t, r)
        \/ \E l \in MainLabels \cup ModeLabels : Goes(t, l)
    <3>1. {"enable", "mode", "config", "connect"} \subseteq MainLabels
      BY DEF MainLabels
    <3> QED
      BY <3>1 DEF Step, ChangeMode, Enable, Mode, SetMode, InitTest, InitSet, InitDriver, InitDriverOr, InitPost,
         StartTest, Start, StartOr, StopTest, Stop, Deinit, Leave, LeaveOr, Config, Connect, ConnectIf, ModeLabels
  <2>3. \E l \in MainLabels \cup ModeLabels : pc' = [pc EXCEPT ![t] = l]
    BY <2>2 DEF ModeReturns, Returns, Goes, MainLabels
  <2>4. pc'[Ev] \notin EventLabels
    BY <1>3, <2>3 DEF TypeOK, MainLabels, ModeLabels, EventLabels
  <2> QED
    BY <1>1, <2>1, <2>4 DEF NowFrame
<1> QED
  BY <1>2, <1>3

LEMMA StepKeepsLink ==
  ASSUME TypeOK, LinkInv, NEW t \in Tasks, Step(t)
  PROVE  LinkInv'
<1>0. driver \in Driver /\ NowFrame /\ UNCHANGED <<lease, late>>
  BY StepNow DEF TypeOK, Driver
<1>1. CASE SetMode(t) \/ Start(t) \/ Stop(t)
  <2>1. CASE \E new \in Driver : new.link = driver.link /\ DriverBecomes(new)
    BY <1>0, <2>1, BecomesKeepsLink
  <2>2. CASE Quiet /\ UNCHANGED posted
    <3>1. UNCHANGED <<queue, driver>>
      BY <2>2 DEF Quiet, net
    <3> QED
      BY <1>0, <2>2, <3>1, NothingPosted, SameKeepsLink
  <2>3. /\ [driver EXCEPT !.mode = target[t]] \in Driver
        /\ [driver EXCEPT !.mode = target[t]].link = driver.link
        /\ \A b \in BOOLEAN : [driver EXCEPT !.running = b] \in Driver
        /\ \A b \in BOOLEAN : [driver EXCEPT !.running = b].link = driver.link
    BY DEF TypeOK, Driver
  <2>4. \/ DriverBecomes([driver EXCEPT !.mode = target[t]])
        \/ \E b \in BOOLEAN : DriverBecomes([driver EXCEPT !.running = b])
        \/ Quiet /\ UNCHANGED posted
    BY <1>1 DEF SetMode, Start, StartOr, Stop
  <2> QED
    BY <2>1, <2>2, <2>3, <2>4
<1>2. CASE InitPost(t)
  <2>1. UNCHANGED <<posted, driver>> /\ queue' = Append(queue, "ready")
    BY <1>2 DEF InitPost, net
  <2> QED
    BY <1>0, <2>1, ReadyQueued, SameKeepsLink
<1>3. CASE Enable(t) \/ Mode(t) \/ InitTest(t) \/ InitSet(t) \/ InitDriver(t) \/ StartTest(t)
           \/ StopTest(t) \/ Deinit(t)
  <2>1. UNCHANGED <<posted, queue>>
    BY <1>3 DEF Enable, Mode, InitTest, InitSet, InitDriver, InitDriverOr, StartTest, StopTest, Deinit, Quiet
  <2>2. driver' = driver \/ \E b, c \in BOOLEAN : driver' = [driver EXCEPT !.inited = b, !.stored = c]
    BY <1>3 DEF Enable, Mode, InitTest, InitSet, InitDriver, InitDriverOr, StartTest, StopTest, Deinit, Quiet, net
  <2>3. driver'.link = driver.link /\ driver'.running = driver.running /\ driver'.mode = driver.mode
    BY <1>0, <2>2 DEF Driver
  <2> QED
    BY <1>0, <2>1, <2>3, NothingPosted, SameKeepsLink
<1>4. CASE Leave(t)
  <2>1. UNCHANGED queue /\ (Disconnected("leave") \/ UNCHANGED <<driver, posted>>) /\ "leave" \in Reasons
    BY <1>4 DEF Leave, LeaveOr, Reasons
  <2>2. CASE Disconnected("leave")
    BY <1>0, <2>1, <2>2, DisconnectKeepsLink
  <2>3. CASE UNCHANGED <<driver, posted>>
    BY <1>0, <2>1, <2>3, NothingPosted, SameKeepsLink
  <2> QED
    BY <2>1, <2>2, <2>3
<1>5. CASE Config(t)
  <2>1. UNCHANGED <<posted, queue>> /\ (RestartDhcp \/ UNCHANGED driver)
    BY <1>5 DEF Config
  <2>2. SaysSame
    BY <1>0, <2>1, NothingPosted
  <2>3. CASE UNCHANGED driver
    BY <1>0, <2>2, <2>3, SameKeepsLink
  <2>4. CASE RestartDhcp
    <3>1. /\ driver'.running = driver.running /\ driver'.mode = driver.mode
          /\ driver'.link = IF driver.link = "addressed" THEN "joined" ELSE driver.link
      BY <1>0, <2>4 DEF RestartDhcp, Driver
    <3>2. (Station(driver)' <=> Station(driver)) /\ (Linked' <=> Linked)
      BY <3>1 DEF Station, Linked
    <3> QED
      BY <1>0, <2>2, <3>1, <3>2 DEF LinkInv, SaysSame
  <2> QED
    BY <2>1, <2>3, <2>4
<1>6. CASE Connect(t)
  <2>1. UNCHANGED <<posted, queue>>
    BY <1>6 DEF Connect, ConnectIf
  <2>2. SaysSame
    BY <1>0, <2>1, NothingPosted
  <2>3. CASE UNCHANGED driver
    BY <1>0, <2>2, <2>3, SameKeepsLink
  <2>4. CASE Station(driver) /\ driver.link = "down" /\ driver' = [driver EXCEPT !.link = "joining"]
    <3>1. driver'.running = driver.running /\ driver'.mode = driver.mode /\ driver'.link = "joining"
      BY <1>0, <2>4 DEF Driver
    <3>2. Station(driver)' /\ ~ Linked' /\ ~ Linked
      BY <2>4, <3>1 DEF Station, Linked
    <3> QED
      BY <1>0, <2>2, <2>4, <3>1, <3>2 DEF LinkInv, SaysSame
  <2> QED
    BY <1>6, <2>3, <2>4 DEF Connect, ConnectIf
<1> QED
  BY <1>1, <1>2, <1>3, <1>4, <1>5, <1>6 DEF Step, ChangeMode

LEMMA NetworkKeepsLink ==
  ASSUME TypeOK, LinkInv, Network
  PROVE  LinkInv'
<1>0. /\ NowFrame /\ UNCHANGED queue /\ driver \in Driver
      /\ {"connected", "got_ip", "lost_ip"} \subseteq Events
  BY DEF Network, Joined, Lost, Addressed, LostAddress, app, reports, NowFrame, TypeOK, Driver, Events
<1>1. CASE Joined
  <2>1. /\ driver'.running = driver.running /\ driver'.mode = driver.mode /\ driver'.link = "joined"
        /\ driver.link = "joining" /\ posted' = Append(posted, "connected") /\ UNCHANGED <<lease, late>>
    BY <1>0, <1>1 DEF Joined, Driver
  <2>2. (SaysStarted' <=> SaysStarted) /\ SaysLinked' /\ (SaysIp' <=> SaysIp)
    <3>1. /\ "connected" \notin StartOn /\ "connected" \notin StartOff /\ "connected" \in LinkOn
          /\ "connected" \notin IpOn /\ "connected" \notin IpOff
      BY DEF StartOn, StartOff, LinkOn, IpOn, IpOff, Reasons
    <3> QED
      BY <1>0, <2>1, <3>1, EventPosted
  <2>3. (Station(driver)' <=> Station(driver)) /\ Linked'
    BY <2>1 DEF Station, Linked
  <2> QED
    BY <2>1, <2>2, <2>3 DEF LinkInv
<1>2. CASE Lost
  <2>1. UNCHANGED <<lease, late>> /\ \E r \in Reasons : Disconnected(r)
    BY <1>2 DEF Lost, Retryable, Reasons
  <2> QED
    BY <1>0, <2>1, DisconnectKeepsLink
<1>3. CASE Addressed
  <2>1. posted' = Append(posted, "got_ip") /\ lease' = TRUE
    BY <1>3 DEF Addressed
  <2>2. (SaysStarted' <=> SaysStarted) /\ SaysLinked' /\ SaysIp' /\ SaysTold'
    <3>1. /\ "got_ip" \notin StartOn /\ "got_ip" \notin StartOff /\ "got_ip" \in LinkOn
          /\ "got_ip" \in IpOn
      BY DEF StartOn, StartOff, LinkOn, IpOn
    <3> QED
      BY <1>0, <2>1, <3>1, EventPosted
  <2>3. CASE driver.link = "joined" /\ driver' = [driver EXCEPT !.link = "addressed"] /\ UNCHANGED late
    <3>1. driver'.running = driver.running /\ driver'.mode = driver.mode /\ driver'.link = "addressed"
      BY <1>0, <2>3 DEF Driver
    <3>2. (Station(driver)' <=> Station(driver)) /\ Linked'
      BY <3>1 DEF Station, Linked
    <3> QED
      BY <2>1, <2>2, <2>3, <3>1, <3>2 DEF LinkInv
  <2>4. CASE late' = TRUE /\ UNCHANGED driver
    <3>1. (Station(driver)' <=> Station(driver)) /\ (Linked' <=> Linked)
      BY <2>4 DEF Station, Linked
    <3> QED
      BY <2>1, <2>2, <2>4, <3>1 DEF LinkInv
  <2> QED
    BY <1>3, <2>3, <2>4 DEF Addressed
<1>4. CASE LostAddress
  <2>1. driver.link # "addressed" /\ posted' = Append(posted, "lost_ip") /\ UNCHANGED <<driver, late>>
    BY <1>4 DEF LostAddress
  <2>2. (SaysStarted' <=> SaysStarted) /\ (SaysLinked' <=> SaysLinked) /\ ~ SaysIp'
    <3>1. /\ "lost_ip" \notin StartOn /\ "lost_ip" \notin StartOff /\ "lost_ip" \notin LinkOn
          /\ "lost_ip" \notin LinkOff /\ "lost_ip" \notin IpOn /\ "lost_ip" \in IpOff
      BY DEF StartOn, StartOff, LinkOn, LinkOff, IpOn, IpOff, Reasons
    <3> QED
      BY <1>0, <2>1, <3>1, EventPosted
  <2>3. (Station(driver)' <=> Station(driver)) /\ (Linked' <=> Linked)
    BY <2>1 DEF Station, Linked
  <2> QED
    BY <2>1, <2>2, <2>3 DEF LinkInv
<1> QED
  BY <1>1, <1>2, <1>3, <1>4 DEF Network

LEMMA LinkStep ==
  ASSUME TypeOK, LinkInv, TaskInv, [Next]_vars
  PROVE  LinkInv'
<1>1. ASSUME NEW t \in Apps, Call(t) PROVE LinkInv'
  <2>1. /\ UNCHANGED <<posted, queue, driver, lease, late, event, goal, status, bits>>
        /\ pc'[Ev] = pc[Ev]
    BY <1>1, TasksAssumption DEF Call, Goes, reports, net, TypeOK, Tasks
  <2> QED
    BY <2>1, NothingPosted, SameKeepsLink DEF NowFrame
<1>2. CASE SetAutoReconnect \/ UNCHANGED vars
  <2>1. UNCHANGED <<posted, queue, driver, lease, late, event, goal, status, bits, pc>>
    BY <1>2 DEF SetAutoReconnect, vars, app, reports, net
  <2> QED
    BY <2>1, NothingPosted, SameKeepsLink DEF NowFrame
<1>3. CASE HandleEvent
  <2>1. UNCHANGED <<driver, lease, late>>
    BY <1>3 DEF HandleEvent, Receive, ClearStatus, SetStatus, StoreBits, React, net
  <2>2. SaysSame
    BY <1>3, ReceiveSays, HandledSays DEF HandleEvent
  <2> QED
    BY <2>1, <2>2, SameKeepsLink
<1>4. CASE Forward
  <2>1. UNCHANGED <<driver, lease, late>>
    BY <1>4 DEF Forward, Report
  <2> QED
    BY <1>4, <2>1, ForwardSays, SameKeepsLink
<1> QED
  BY <1>1, <1>2, <1>3, <1>4, StepKeepsLink, NetworkKeepsLink DEF Next

LEMMA TaskStep ==
  ASSUME TypeOK, TaskInv, [Next]_vars
  PROVE  TaskInv'
<1>0. Ev \in Tasks /\ DOMAIN pc = Tasks
  BY DEF Tasks, TypeOK
<1>a. ASSUME NEW l, Goes(Ev, l) PROVE pc'[Ev] = l
  BY <1>0, <1>a DEF Goes
<1>b. NowFrame => TaskInv'
  BY DEF NowFrame, TaskInv, EventLabels
<1>1. ASSUME NEW t \in Apps, Call(t) PROVE TaskInv'
  <2>1. UNCHANGED <<event, goal, status, bits>> /\ pc'[Ev] = pc[Ev]
    BY <1>1, TasksAssumption DEF Call, Goes, reports, TypeOK, Tasks
  <2> QED
    BY <1>b, <2>1 DEF NowFrame
<1>2. CASE SetAutoReconnect \/ Forward \/ Network \/ UNCHANGED vars
  <2>1. UNCHANGED <<event, goal, status, bits, pc>>
    BY <1>2 DEF SetAutoReconnect, Forward, Report, Network, Joined, Lost, Addressed, LostAddress, vars, app, reports
  <2> QED
    BY <1>b, <2>1 DEF NowFrame
<1>3. CASE Receive
  <2>1. CASE event' \in {"ready", "auth_expire"}
    BY <2>1 DEF TaskInv
  <2>2. CASE event' \notin {"ready", "auth_expire"}
    <3>1. pc'[Ev] = "clear" /\ goal' = NewStatus(event')
      BY <1>3, <1>a, <2>2 DEF Receive
    <3> QED
      BY <3>1 DEF TaskInv, NewStatus
  <2> QED
    BY <2>1, <2>2
<1>4. CASE ClearStatus
  <2>1. pc[Ev] = "clear" /\ pc'[Ev] = "set" /\ UNCHANGED <<event, goal>>
    BY <1>4, <1>a DEF ClearStatus, At
  <2> QED
    BY <2>1 DEF TaskInv
<1>5. CASE SetStatus
  <2>1. pc[Ev] = "set" /\ status' = goal /\ goal' = "no_shield"
    BY <1>5 DEF SetStatus, At
  <2>2. CASE event' = "assoc_fail"
    <3>1. event = "assoc_fail" /\ goal = "disconnected" /\ pc'[Ev] = "bits"
      BY <1>5, <1>a, <2>1, <2>2 DEF SetStatus, TaskInv
    <3> QED
      BY <2>1, <3>1 DEF TaskInv
  <2> QED
    BY <2>2 DEF TaskInv
<1>6. CASE StoreBits
  <2>1. pc[Ev] = "bits" /\ UNCHANGED <<status, goal>> /\ pc'[Ev] \in {"react", "rest"}
    BY <1>6, <1>a DEF StoreBits, At
  <2>2. event' = event \/ event' = "none"
    BY <1>6 DEF StoreBits
  <2> QED
    BY <2>1, <2>2 DEF TaskInv
<1>7. CASE React
  <2>1. event' = "none" \/ (pc'[Ev] = "clear" /\ goal' = "connect_failed")
    BY <1>7, <1>a DEF React
  <2> QED
    BY <2>1 DEF TaskInv
<1> QED
  BY <1>b, <1>1, <1>2, <1>3, <1>4, <1>5, <1>6, <1>7, StepNow DEF Next, HandleEvent

LEMMA LinkHolds == Spec => [](LinkInv /\ TaskInv)
<1>1. Init => LinkInv /\ TaskInv
  <2> SUFFICES ASSUME Init PROVE LinkInv /\ TaskInv
    OBVIOUS
  <2>1. /\ posted = <<>> /\ queue = <<>> /\ pc[Ev] = "rest" /\ bits = {} /\ status # "connected"
        /\ driver.link = "down" /\ ~ Station(driver) /\ event = "none"
    BY DEF Init, Station, Tasks
  <2>2. ~ Unstored /\ ~ Told
    BY <2>1 DEF Unstored, Told
  <2>3. ~ SaysStarted /\ ~ SaysLinked /\ ~ SaysIp
    BY <2>1, <2>2, SaysNothing DEF SaysStarted, SaysLinked, SaysIp, WillSay, Stored
  <2>4. ~ Linked
    BY <2>1 DEF Linked
  <2> QED
    BY <2>1, <2>3, <2>4 DEF LinkInv, TaskInv
<1>2. Init /\ [][Next]_vars /\ []TypeOK => [](LinkInv /\ TaskInv)
  BY <1>1, LinkStep, TaskStep, PTL
<1> QED
  BY <1>2, TypeCorrect, PTL DEF Spec

(* With nothing under way, what will be said is what is stored.            *)
LEMMA SettledSays ==
  ASSUME Settled
  PROVE  /\ SaysStarted <=> "STARTED" \in bits
         /\ SaysLinked <=> "CONNECTED" \in bits
         /\ SaysIp <=> "HAS_IP" \in bits
         /\ SaysTold <=> status = "connected"
<1>1. posted = <<>> /\ queue = <<>> /\ ~ Unstored /\ (Told <=> status = "connected")
  BY DEF Settled, Unstored, Told
<1> QED
  BY <1>1, SaysNothing DEF SaysStarted, SaysLinked, SaysIp, SaysTold, WillSay, Stored

(* Once every event has been handled the bits tell the driver's state, for *)
(* any queue and however many tasks called, lost or refused.               *)
THEOREM BitsAreLink == Spec => []BitsTellLink
<1>1. LinkInv => BitsTellLink
  <2> SUFFICES ASSUME LinkInv, Settled PROVE BitsTellLink
    BY DEF BitsTellLink
  <2>1. SaysStarted <=> "STARTED" \in bits
    BY SettledSays
  <2>2. SaysLinked <=> "CONNECTED" \in bits
    BY SettledSays
  <2>3. SaysIp <=> "HAS_IP" \in bits
    BY SettledSays
  <2>4. ("STARTED" \in bits) = Station(driver)
    BY <2>1 DEF LinkInv, Station
  <2>5. driver.link \in {"joined", "addressed"} => "CONNECTED" \in bits
    BY <2>2 DEF LinkInv, Linked
  <2>6. driver.link = "addressed" => "HAS_IP" \in bits
    BY <2>3 DEF LinkInv
  <2>7. ~ late => ("CONNECTED" \in bits) = (driver.link \in {"joined", "addressed"})
    BY <2>2 DEF LinkInv, Linked
  <2>8. ~ late /\ "HAS_IP" \in bits => driver.link = "addressed" \/ (driver.link = "joined" /\ lease)
    BY <2>3 DEF LinkInv
  <2> QED
    BY <2>4, <2>5, <2>6, <2>7, <2>8 DEF BitsTellLink
<1> QED
  BY <1>1, LinkHolds, PTL

(* A settled station that has an address reads WL_CONNECTED.               *)
THEOREM StatusIsAddress == Spec => []StatusTellsAddress
<1>1. LinkInv => StatusTellsAddress
  BY SettledSays DEF LinkInv, StatusTellsAddress
<1> QED
  BY <1>1, LinkHolds, PTL

=============================================================================
