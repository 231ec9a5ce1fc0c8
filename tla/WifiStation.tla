---------------------------- MODULE WifiStation ----------------------------
(***************************************************************************)
(* The Wi-Fi core of src/Extensions/Network/wifi: WiFiGeneric.cpp (mode    *)
(* changes, the event queue and its task) with the station of              *)
(* SRC/WiFi/WiFiSTA.cpp.  Application tasks call mode, begin, disconnect   *)
(* and enableAP; the event task turns what the driver reports into a       *)
(* status and status bits and calls the same functions to reconnect.       *)
(* Nothing is locked: lowLevelInitDone and _esp_wifi_started are shared by *)
(* every task, and mirror a driver that changes at other moments.          *)
(* The driver and the system event loop are external and modelled from     *)
(* how these files use them.                                               *)
(***************************************************************************)
EXTENDS Integers, Sequences, SequencesExt

CONSTANTS
  Apps,           \* the application tasks
  Ev,             \* the event task, _arduino_event_task
  QueueLen,       \* places of _arduino_event_queue (32 in the code)
  MaxCalls,       \* bound: calls of the applications
  MaxDrops,       \* bound: how often the network refuses or drops the station,
                  \* or the timer of a lost address runs out
  MaxFaults       \* bound: driver calls that fail for a reason of their own

ASSUME TasksAssumption == Ev \notin Apps
ASSUME BoundsAssumption ==
  QueueLen \in Nat \ {0} /\ MaxCalls \in Nat /\ MaxDrops \in Nat /\ MaxFaults \in Nat

VARIABLES
  ready,      \* lowLevelInitDone
  started,    \* _esp_wifi_started
  driver,     \* the driver: initialised, told where to store its settings,
              \* its mode, running, the station's link
  dhcp,       \* the DHCP client runs and may report an address
  lease,      \* it has reported one, and no loss of one since
  posted,     \* driver events in the system event loop
  queue,      \* _arduino_event_queue
  event,      \* the event the event task handles, or "none"
  goal,       \* the status it is about to store
  status,     \* _sta_status_group
  bits,       \* the station's bits of _arduino_event_group
  first,      \* first_connect
  auto,       \* _autoReconnect
  pc, op,     \* where each task is, and the function it executes
  target,     \* the mode its call of mode() is given
  answer,     \* what its last call returned
  calls, drops, faults,  \* counters of the bounded events
  wanted,     \* history: the last call of an application was begin
  overlap,    \* history: two tasks have been inside at once
  late        \* history: an address came after its link was gone

app == <<ready, started, pc, op, target, answer, calls, wanted, overlap>>
reports == <<event, goal, status, bits, first, auto>>
net == <<driver, dhcp, lease, drops, late>>
vars == <<app, reports, net, posted, queue, faults>>

Tasks == Apps \cup {Ev}
Modes == SUBSET {"sta", "ap"}
Links == {"down", "joining", "joined", "addressed"}

(* WIFI_EVENT_STA_DISCONNECTED carries a reason, and stands for it here;   *)
(* "leave" is any reason that is not retried.                              *)
Reasons == {"no_ap", "auth_fail", "auth_expire", "assoc_fail", "beacon_timeout", "leave"}
Events == {"ready", "start", "stop", "connected", "got_ip", "lost_ip"} \cup Reasons
HandledEvents == Events \cup {"none"}

(* reason >= WIFI_REASON_BEACON_TIMEOUT (200), or AUTH_EXPIRE (2).         *)
Retryable == Reasons \ {"leave"}

Statuses == {"no_shield", "idle", "no_ssid", "connected", "connect_failed", "lost", "disconnected"}

Ops == {"mode", "begin", "disconnect", "disconnect_off", "ap_on", "ap_off", "reconnect"}

MainLabels == {"rest", "leave", "enable", "mode", "config", "connect"}
ModeLabels == {"init_test", "init_set", "init", "init_post", "set_mode",
               "start_test", "start", "stop_test", "stop", "deinit"}
EventLabels == {"clear", "set", "bits", "react"}

Inside(t) == pc[t] \in (MainLabels \cup ModeLabels) \ {"rest"}

Init ==
  /\ ready = FALSE /\ started = FALSE
  /\ driver = [inited |-> FALSE, stored |-> FALSE, mode |-> {}, running |-> FALSE, link |-> "down"]
  /\ dhcp = FALSE /\ lease = FALSE
  /\ posted = <<>> /\ queue = <<>>
  /\ event = "none" /\ goal = "no_shield"
  /\ status = "no_shield" /\ bits = {} /\ first = TRUE /\ auto = TRUE
  /\ pc = [t \in Tasks |-> "rest"]
  /\ op = [t \in Tasks |-> IF t = Ev THEN "reconnect" ELSE "mode"]
  /\ target = [t \in Tasks |-> {}]
  /\ answer = [t \in Tasks |-> TRUE]
  /\ calls = 0 /\ drops = 0 /\ faults = 0
  /\ wanted = FALSE /\ overlap = FALSE /\ late = FALSE

-----------------------------------------------------------------------------
(* Control of the calls.                                                   *)

At(t, label) == pc[t] = label
Goes(t, label) == pc' = [pc EXCEPT ![t] = label] /\ UNCHANGED answer

(* The call in progress returns r; the event task calls begin() after      *)
(* disconnect() whatever that returned, and goes on after begin().         *)
Returns(t, r) ==
  /\ pc' = [pc EXCEPT ![t] = IF @ = "leave" /\ op[t] = "reconnect" THEN "enable" ELSE "rest"]
  /\ answer' = [answer EXCEPT ![t] = r]

(* mode() returned r: begin() goes on if it is true.                       *)
ModeReturns(t, r) ==
  IF r /\ op[t] \in {"begin", "reconnect"} THEN Goes(t, "config") ELSE Returns(t, r)

Faulty == faults < MaxFaults /\ faults' = faults + 1

Quiet == UNCHANGED <<reports, net, calls, wanted, overlap, op, queue>>

-----------------------------------------------------------------------------
(* mode() and what it calls.                                               *)

GetMode == IF ready /\ started /\ driver.inited THEN driver.mode ELSE {}

EnableTarget(t) ==
  CASE op[t] \in {"begin", "reconnect"} -> GetMode \cup {"sta"}
    [] op[t] = "disconnect_off"         -> GetMode \ {"sta"}
    [] op[t] = "ap_on"                  -> GetMode \cup {"ap"}
    [] OTHER                            -> GetMode \ {"ap"}

(* enableSTA and enableAP read the mode to compute the one to set.         *)
Enable(t) ==
  /\ At(t, "enable")
  /\ target' = [target EXCEPT ![t] = EnableTarget(t)]
  /\ IF EnableTarget(t) = GetMode THEN ModeReturns(t, TRUE) ELSE Goes(t, "mode")
  /\ UNCHANGED <<ready, started, posted, faults>> /\ Quiet

Mode(t) ==
  /\ At(t, "mode")
  /\ CASE GetMode = target[t] -> ModeReturns(t, TRUE)
       [] GetMode = {} /\ target[t] # {} -> Goes(t, "init_test")
       [] GetMode # {} /\ target[t] = {} -> Goes(t, "stop_test")
       [] OTHER -> Goes(t, "set_mode")
  /\ UNCHANGED <<ready, started, target, posted, faults>> /\ Quiet

(* wifiLowLevelInit sets its flag before it does its work.                 *)
InitTest(t) ==
  /\ At(t, "init_test")
  /\ Goes(t, IF ready THEN "set_mode" ELSE "init_set")
  /\ UNCHANGED <<ready, started, target, posted, faults>> /\ Quiet

InitSet(t) ==
  /\ At(t, "init_set") /\ Goes(t, "init")
  /\ ready' = TRUE
  /\ UNCHANGED <<started, target, posted, faults>> /\ Quiet

(* A failed initialisation leaves flag in lowLevelInitDone.  If settings   *)
(* are not to persist, esp_wifi_set_storage follows, and when it fails the *)
(* flag is false though the driver is initialised.                         *)
InitDriverOr(t, flag) ==
  /\ At(t, "init")
  /\ \/ /\ Goes(t, "init_post") /\ UNCHANGED <<ready, faults>>
        /\ driver' = [driver EXCEPT !.inited = TRUE, !.stored = TRUE]
     \/ ModeReturns(t, FALSE) /\ Faulty /\ ready' = flag /\ UNCHANGED driver
     \/ /\ ModeReturns(t, FALSE) /\ Faulty /\ ready' = FALSE
        /\ driver' = [driver EXCEPT !.inited = TRUE, !.stored = FALSE]
  /\ UNCHANGED <<started, target, posted, reports, queue, dhcp, lease, drops, late, calls, wanted, overlap, op>>

InitDriverKeepsFlag(t) == InitDriverOr(t, TRUE)         \* fault variant
InitDriver(t) == InitDriverOr(t, FALSE)

(* postArduinoEvent(WIFI_READY) waits for a place in the queue, for ever.  *)
InitPost(t) ==
  /\ At(t, "init_post") /\ Len(queue) < QueueLen
  /\ queue' = Append(queue, "ready")
  /\ Goes(t, "set_mode")
  /\ UNCHANGED <<ready, started, target, posted, faults, reports, net, calls, wanted, overlap, op>>

(* What the driver does and posts when the station loses its interface.    *)
Station(d) == d.running /\ "sta" \in d.mode

Changed(old, new) ==
  [new EXCEPT !.link = IF Station(new) THEN old.link ELSE "down"]

Posts(old, new) ==
  CASE Station(old) /\ ~ Station(new) -> IF old.link = "down" THEN <<"stop">> ELSE <<"leave", "stop">>
    [] ~ Station(old) /\ Station(new) -> <<"start">>
    [] OTHER -> <<>>

DriverBecomes(new) ==
  /\ driver' = Changed(driver, new)
  /\ posted' = posted \o Posts(driver, new)
  /\ UNCHANGED <<dhcp, lease, drops, late, reports, calls, wanted, overlap, op, queue>>

SetMode(t) ==
  /\ At(t, "set_mode")
  /\ IF driver.inited
     THEN DriverBecomes([driver EXCEPT !.mode = target[t]]) /\ Goes(t, "start_test")
     ELSE UNCHANGED posted /\ Quiet /\ ModeReturns(t, FALSE)
  /\ UNCHANGED <<ready, started, target, faults>>

StartTest(t) ==
  /\ At(t, "start_test")
  /\ started' = TRUE
  /\ IF started THEN ModeReturns(t, TRUE) ELSE Goes(t, "start")
  /\ UNCHANGED <<ready, target, posted, faults>> /\ Quiet

(* A failed start leaves flag in _esp_wifi_started.                        *)
StartOr(t, flag) ==
  /\ At(t, "start")
  /\ \/ /\ driver.inited
        /\ DriverBecomes([driver EXCEPT !.running = TRUE])
        /\ ModeReturns(t, TRUE)
        /\ UNCHANGED <<started, faults>>
     \/ /\ IF driver.inited THEN Faulty ELSE UNCHANGED faults
        /\ ModeReturns(t, FALSE)
        /\ started' = flag
        /\ UNCHANGED posted /\ Quiet
  /\ UNCHANGED <<ready, target>>

StartKeepsFlag(t) == StartOr(t, TRUE)                   \* fault variant
Start(t) == StartOr(t, FALSE)

StopTest(t) ==
  /\ At(t, "stop_test")
  /\ started' = FALSE
  /\ IF started THEN Goes(t, "stop") ELSE ModeReturns(t, TRUE)
  /\ UNCHANGED <<ready, target, posted, faults>> /\ Quiet

Stop(t) ==
  /\ At(t, "stop")
  /\ \/ /\ driver.inited
        /\ DriverBecomes([driver EXCEPT !.running = FALSE])
        /\ Goes(t, "deinit")
        /\ UNCHANGED <<started, faults>>
     \/ /\ IF driver.inited THEN Faulty ELSE UNCHANGED faults
        /\ ModeReturns(t, FALSE)
        /\ started' = TRUE
        /\ UNCHANGED posted /\ Quiet
  /\ UNCHANGED <<ready, target>>

(* wifiLowLevelDeinit: the driver refuses while it runs.                   *)
Deinit(t) ==
  /\ At(t, "deinit")
  /\ UNCHANGED <<started, target, posted, reports, queue>>
  /\ UNCHANGED <<dhcp, lease, drops, late, calls, wanted, overlap, op>>
  /\ \/ ~ ready /\ ModeReturns(t, TRUE) /\ UNCHANGED <<ready, driver, faults>>
     \/ /\ ready /\ driver.inited /\ ~ driver.running
        /\ driver' = [driver EXCEPT !.inited = FALSE, !.stored = FALSE]
        /\ ready' = FALSE
        /\ ModeReturns(t, TRUE) /\ UNCHANGED faults
     \/ /\ ready
        /\ IF driver.inited /\ ~ driver.running THEN Faulty ELSE UNCHANGED faults
        /\ ModeReturns(t, FALSE) /\ UNCHANGED <<ready, driver>>

ChangeMode(t) ==
  \/ Enable(t) \/ Mode(t) \/ SetMode(t)
  \/ InitTest(t) \/ InitSet(t) \/ InitDriver(t) \/ InitPost(t)
  \/ StartTest(t) \/ Start(t) \/ StopTest(t) \/ Stop(t) \/ Deinit(t)

-----------------------------------------------------------------------------
(* begin(), disconnect() and the calls of the applications.                *)

Disconnected(reason) ==
  /\ driver' = [driver EXCEPT !.link = "down"]
  /\ posted' = Append(posted, reason)

(* disconnect: esp_wifi_disconnect fails on a driver that does not run,    *)
(* and posts an event if the station was joined or joining.                *)
LeaveOr(t, Fails) ==
  /\ At(t, "leave")
  /\ IF "sta" \in GetMode /\ driver.running
     THEN /\ IF driver.link = "down" THEN UNCHANGED <<driver, posted>> ELSE Disconnected("leave")
          /\ IF op[t] = "disconnect_off" THEN Goes(t, "enable") ELSE Returns(t, TRUE)
     ELSE UNCHANGED <<driver, posted>> /\ Fails
  /\ UNCHANGED <<ready, started, target, faults, dhcp, lease, drops, late, reports, calls, wanted, overlap, op, queue>>

LeaveUntilLeft(t) == LeaveOr(t, Goes(t, "leave"))       \* fault variant
Leave(t) == LeaveOr(t, Returns(t, FALSE))

(* set_esp_interface_ip stops the DHCP client, clears the address and, if  *)
(* the interface is up, starts the client anew.                            *)
RestartDhcp ==
  /\ driver' = [driver EXCEPT !.link = IF @ = "addressed" THEN "joined" ELSE @]
  /\ dhcp' = (dhcp \/ (driver.link \in {"joined", "addressed"} /\ ~ Contains(posted, "connected")))

(* begin() stores the station's configuration and asks for an address.     *)
Config(t) ==
  /\ At(t, "config")
  /\ IF driver.inited /\ "sta" \in driver.mode
     THEN RestartDhcp /\ Goes(t, "connect")
     ELSE UNCHANGED <<driver, dhcp>> /\ Returns(t, FALSE)
  /\ UNCHANGED <<ready, started, target, posted, faults, lease, drops, late, reports, calls, wanted, overlap, op, queue>>

(* begin() connects if the status allows it.                               *)
ConnectIf(t, allowed) ==
  /\ At(t, "connect")
  /\ Returns(t, ~ allowed \/ Station(driver))
  /\ driver' = IF allowed /\ Station(driver) /\ driver.link = "down"
               THEN [driver EXCEPT !.link = "joining"] ELSE driver
  /\ UNCHANGED <<ready, started, target, posted, faults, dhcp, lease, drops, late, reports, calls, wanted, overlap, op, queue>>

ConnectIfNew(t) == ConnectIf(t, status = "disconnected")  \* fault variant
Connect(t) == ConnectIf(t, status # "connected")

Entry(o) ==
  CASE o = "mode" -> "mode"
    [] o \in {"begin", "ap_on", "ap_off"} -> "enable"
    [] OTHER -> "leave"

Call(t) ==
  /\ At(t, "rest") /\ calls < MaxCalls /\ calls' = calls + 1
  /\ \E o \in Ops \ {"reconnect"}, m \in Modes :
       /\ o # "mode" => m = {}
       /\ op' = [op EXCEPT ![t] = o]
       /\ target' = [target EXCEPT ![t] = m]
       /\ Goes(t, Entry(o))
       /\ wanted' = (o = "begin")
  /\ overlap' = (overlap \/ \E u \in Tasks : Inside(u))
  /\ UNCHANGED <<ready, started, posted, faults, reports, net, queue>>

SetAutoReconnect ==
  /\ calls < MaxCalls /\ calls' = calls + 1
  /\ auto' = ~ auto
  /\ UNCHANGED <<ready, started, pc, op, target, answer, wanted, overlap>>
  /\ UNCHANGED <<event, goal, status, bits, first, net, posted, queue, faults>>

-----------------------------------------------------------------------------
(* The event task: _eventCallback.                                         *)

NewStatusSwapped(e) ==             \* fault variant: the link is taken for an address
  CASE e = "connected" -> "connected" [] e \in {"got_ip", "lost_ip"} -> "idle" [] OTHER -> "disconnected"

(* The status an event stands for; AUTH_EXPIRE and WIFI_READY have none.   *)
NewStatus(e) ==
  CASE e = "stop" -> "no_shield"
    [] e \in {"connected", "lost_ip"} -> "idle"
    [] e = "got_ip" -> "connected"
    [] e = "no_ap" -> "no_ssid"
    [] e = "auth_fail" /\ ~ first -> "connect_failed"
    [] e = "beacon_timeout" -> "lost"
    [] OTHER -> "disconnected"

Receive ==
  /\ At(Ev, "rest") /\ queue # <<>>
  /\ event' = Head(queue) /\ queue' = Tail(queue)
  /\ IF Head(queue) \in {"ready", "auth_expire"}
     THEN Goes(Ev, "bits") /\ UNCHANGED goal
     ELSE Goes(Ev, "clear") /\ goal' = NewStatus(Head(queue))
  /\ UNCHANGED <<ready, started, op, target, calls, wanted, overlap, status, bits, first, auto, net, posted, faults>>

(* _setStatus clears the group and then sets it; cleared it reads IDLE.    *)
ClearStatus ==
  /\ At(Ev, "clear") /\ Goes(Ev, "set")
  /\ status' = "idle"
  /\ UNCHANGED <<ready, started, op, target, calls, wanted, overlap, event, goal, bits, first, auto, net, posted, queue, faults>>

SetStatus ==
  /\ At(Ev, "set")
  /\ IF event = "assoc_fail" /\ goal = "connect_failed"
     THEN Goes(Ev, "rest") /\ event' = "none"
     ELSE Goes(Ev, "bits") /\ UNCHANGED event
  /\ status' = goal /\ goal' = "no_shield"
  /\ UNCHANGED <<ready, started, op, target, calls, wanted, overlap, bits, first, auto, net, posted, queue, faults>>

NewBits(e) ==
  CASE e = "start" -> bits \cup {"STARTED"}
    [] e = "stop" -> {}
    [] e = "connected" -> bits \cup {"CONNECTED"}
    [] e = "got_ip" -> bits \cup {"CONNECTED", "HAS_IP"}
    [] e = "lost_ip" -> bits \ {"HAS_IP"}
    [] e \in Reasons -> bits \ {"CONNECTED", "HAS_IP"}
    [] OTHER -> bits

StoreBits ==
  /\ At(Ev, "bits")
  /\ IF event \in Reasons
     THEN Goes(Ev, "react") /\ UNCHANGED event
     ELSE Goes(Ev, "rest") /\ event' = "none"
  /\ bits' = NewBits(event)
  /\ UNCHANGED <<ready, started, op, target, calls, wanted, overlap, goal, status, first, auto, net, posted, queue, faults>>

Reconnects == event \in Retryable /\ (first \/ (auto /\ event # "auth_fail"))

Refused == ~ auto /\ event = "assoc_fail"

(* After a loss it calls disconnect() and begin() itself.  first_connect   *)
(* is cleared after begin() has returned, but nobody else reads it.        *)
React ==
  /\ At(Ev, "react")
  /\ CASE Reconnects -> Goes(Ev, "leave") /\ event' = "none" /\ UNCHANGED goal
       [] ~ Reconnects /\ Refused -> Goes(Ev, "clear") /\ goal' = "connect_failed" /\ UNCHANGED event
       [] OTHER -> Goes(Ev, "rest") /\ event' = "none" /\ UNCHANGED goal
  /\ first' = (first /\ ~ Reconnects)
  /\ overlap' = (overlap \/ (Reconnects /\ \E t \in Apps : Inside(t)))
  /\ UNCHANGED <<ready, started, op, target, calls, wanted, status, bits, auto, net, posted, queue, faults>>

HandleEvent == Receive \/ ClearStatus \/ SetStatus \/ StoreBits \/ React

-----------------------------------------------------------------------------
(* The system event loop and the network.                                  *)

DhcpAfter(e) == e = "connected" \/ (dhcp /\ e \in {"start", "ready", "got_ip", "lost_ip"})

Report(queued) ==
  /\ posted # <<>>
  /\ queue' = queued /\ posted' = Tail(posted)
  /\ dhcp' = DhcpAfter(Head(posted))
  /\ UNCHANGED <<app, reports, driver, lease, drops, late, faults>>

WithHead == Append(queue, Head(posted))

ForwardOrLose == Report(IF Len(queue) < QueueLen THEN WithHead ELSE queue)  \* fault variant

(* _arduino_event_cb posts what the driver reports and waits for a place;  *)
(* the default handlers have started or stopped the DHCP client by then.   *)
Forward == Len(queue) < QueueLen /\ Report(WithHead)

Joined ==
  /\ driver.link = "joining"
  /\ driver' = [driver EXCEPT !.link = "joined"]
  /\ posted' = Append(posted, "connected")
  /\ UNCHANGED <<app, reports, dhcp, lease, drops, late, queue, faults>>

(* Refused while joining, or dropped later.                                *)
Lost ==
  /\ driver.link # "down" /\ drops < MaxDrops /\ drops' = drops + 1
  /\ \E r \in IF driver.link = "joining" THEN Reasons \ {"beacon_timeout"}
              ELSE {"auth_expire", "beacon_timeout", "leave"} : Disconnected(r)
  /\ UNCHANGED <<app, reports, dhcp, lease, late, queue, faults>>

(* The client reports an address, perhaps just after the link was lost.    *)
Addressed ==
  /\ dhcp /\ dhcp' = FALSE /\ lease' = TRUE
  /\ posted' = Append(posted, "got_ip")
  /\ IF driver.link = "joined"
     THEN driver' = [driver EXCEPT !.link = "addressed"] /\ UNCHANGED late
     ELSE late' = TRUE /\ UNCHANGED driver
  /\ UNCHANGED <<app, reports, drops, queue, faults>>

(* A timer of two minutes reports that an address is gone and none came;   *)
(* the events that led to it have long been forwarded.                     *)
LostAddress ==
  /\ lease /\ driver.link # "addressed" /\ posted = <<>>
  /\ drops < MaxDrops /\ drops' = drops + 1
  /\ lease' = FALSE
  /\ posted' = Append(posted, "lost_ip")
  /\ UNCHANGED <<app, reports, driver, dhcp, late, queue, faults>>

Network == Joined \/ Lost \/ Addressed \/ LostAddress

Step(t) == ChangeMode(t) \/ Leave(t) \/ Config(t) \/ Connect(t)

Next ==
  \/ \E t \in Apps : Call(t)
  \/ SetAutoReconnect
  \/ \E t \in Tasks : Step(t)
  \/ HandleEvent \/ Forward \/ Network

Spec == Init /\ [][Next]_vars

(* The scheduler runs every task that is ready.                            *)
FairSpec ==
  Spec /\ WF_vars(Forward) /\ WF_vars(HandleEvent) /\ \A t \in Tasks : WF_vars(Step(t))

-----------------------------------------------------------------------------
TypeOK ==
  /\ ready \in BOOLEAN /\ started \in BOOLEAN
  /\ driver \in [inited : BOOLEAN, stored : BOOLEAN, mode : Modes, running : BOOLEAN, link : Links]
  /\ dhcp \in BOOLEAN /\ lease \in BOOLEAN
  /\ posted \in Seq(Events) /\ queue \in Seq(Events) /\ Len(queue) <= QueueLen
  /\ event \in HandledEvents /\ goal \in Statuses /\ status \in Statuses
  /\ bits \subseteq {"STARTED", "CONNECTED", "HAS_IP"}
  /\ first \in BOOLEAN /\ auto \in BOOLEAN
  /\ pc \in [Tasks -> MainLabels \cup ModeLabels \cup EventLabels]
  /\ op \in [Tasks -> Ops] /\ target \in [Tasks -> Modes] /\ answer \in [Tasks -> BOOLEAN]
  /\ calls \in 0..MaxCalls /\ drops \in 0..MaxDrops /\ faults \in 0..MaxFaults
  /\ wanted \in BOOLEAN /\ overlap \in BOOLEAN /\ late \in BOOLEAN

Settled == posted = <<>> /\ queue = <<>> /\ pc[Ev] = "rest"

(* Once every event has been handled the bits tell the driver's state,     *)
(* whatever was dropped, refused or reconnected before; an address that    *)
(* came too late can make them say more than there is, never less, and one *)
(* that begin() gave up counts until its loss is reported.                 *)
BitsTellLink ==
  Settled =>
    /\ ("STARTED" \in bits) = Station(driver)
    /\ driver.link \in {"joined", "addressed"} => "CONNECTED" \in bits
    /\ driver.link = "addressed" => "HAS_IP" \in bits
    /\ ~ late => ("CONNECTED" \in bits) = (driver.link \in {"joined", "addressed"})
    /\ ~ late /\ "HAS_IP" \in bits => driver.link = "addressed" \/ (driver.link = "joined" /\ lease)

(* A settled station that has an address reads WL_CONNECTED.               *)
StatusTellsAddress == Settled /\ driver.link = "addressed" => status = "connected"

(* Between calls the two flags are the driver's state, after any failure,  *)
(* as long as no two tasks were inside at once: it is initialised and told *)
(* where to store, and it runs.                                            *)
FlagsTellDriver ==
  ~ overlap /\ (\A t \in Tasks : ~ Inside(t)) =>
    ready = (driver.inited /\ driver.stored) /\ started = driver.running

(* mode() that returns true has done it: the radio runs in that mode, or   *)
(* is off.                                                                 *)
TrueMeansMode ==
  [][ \A t \in Apps :
        op[t] = "mode" /\ Inside(t) /\ pc'[t] = "rest" /\ answer'[t] /\ ~ overlap =>
          IF target[t] = {} THEN ~ driver'.running
          ELSE driver'.running /\ driver'.mode = target[t] ]_vars

(* Every call returns, unless the event task waits for a place in the very *)
(* queue that it alone empties.                                            *)
WaitsForItself == pc[Ev] = "init_post" /\ Len(queue) = QueueLen
CallReturns == \A t \in Tasks : Inside(t) ~> (~ Inside(t) \/ WaitsForItself)

(* With automatic reconnection a station that loses its network joins      *)
(* again, unless an application ended the connection, two calls overlapped *)
(* or the driver failed.                                                   *)
LossIsRetried ==
  (auto /\ Contains(posted, "beacon_timeout"))
    ~> (driver.link # "down" \/ ~ auto \/ ~ wanted \/ overlap \/ faults > 0 \/ WaitsForItself)

(* The same for a station whose authentication expired.                    *)
ExpiryIsRetried ==
  (auto /\ Contains(posted, "auth_expire"))
    ~> (driver.link # "down" \/ ~ auto \/ ~ wanted \/ overlap \/ faults > 0 \/ WaitsForItself)

=============================================================================
