------------------------------- MODULE Modbus -------------------------------
(***************************************************************************)
(* A Modbus master and a Modbus slave of src/Extensions/ModbusTCP.cpp (and *)
(* ModbusUART.cpp, which has the same two loops), connected to each other. *)
(* The master polls the rows of its parameter table until one raises the   *)
(* alarm or it runs out of rounds.  The slave's task counts the accesses   *)
(* to holding_data0 in holding_data0 itself, raises a coil near the limit  *)
(* and ends when the master has read a coil after that.  Between them runs *)
(* the slave's stack: it reads or writes the register, sets the event bit  *)
(* of the kind of access, then queues the information about it; the        *)
(* slave's task waits for bits and takes ONE information per wait.         *)
(***************************************************************************)
EXTENDS Naturals, Sequences, FiniteSets, SequencesExt

CONSTANTS
  Table,      \* the rows of device_parameters the master polls, in order
  MaxRetry,   \* MASTER_MAX_RETRY
  StartVal,   \* holding_data0 as setup_reg_data leaves it, in hundredths
  Offset,     \* MB_CHAN_DATA_OFFSET
  MaxVal,     \* MB_CHAN_DATA_MAX_VAL
  Lossy,      \* whether requests and answers can get lost, late or refused
  QueueSize,  \* the length of the stack's queue of access informations
  MaxLate,    \* bound: requests still under way that nobody waits for
  MaxResets   \* bound: times another host resets holding_data0

Rows == {"INP_DATA_0", "HOLD_DATA_0", "HOLD_DATA_1", "HOLD_TEST_REG", "RELAY_P1", "RELAY_P2"}

ASSUME TableAssumption ==
  /\ Table \in Seq(Rows) /\ Len(Table) > 0
  /\ \A i, j \in DOMAIN Table : Table[i] = Table[j] => i = j
ASSUME NumberAssumption ==
  /\ {MaxRetry, StartVal, MaxLate, MaxResets} \subseteq Nat
  /\ {Offset, MaxVal, QueueSize} \subseteq Nat \ {0} /\ QueueSize >= 2
  /\ StartVal + Offset < MaxVal
ASSUME LossyAssumption == Lossy \in BOOLEAN

Kind(row) ==
  CASE row = "INP_DATA_0" -> "INPUT_REG"
    [] row \in {"HOLD_DATA_0", "HOLD_DATA_1", "HOLD_TEST_REG"} -> "HOLDING_REG"
    [] row \in {"RELAY_P1", "RELAY_P2"} -> "COILS"

Kinds == {"INPUT_REG", "HOLDING_REG", "COILS"}

(* opt1 of a relay's row, one bit; the limits of the other rows.           *)
Opt1 == [row \in {"RELAY_P1", "RELAY_P2"} |-> IF row = "RELAY_P1" THEN 2 ELSE 1]
Within(row, value) ==
  value <= (IF row = "INP_DATA_0" THEN 1000 ELSE 10000)

VARIABLES
  hold,     \* holding_data0, in hundredths
  coils,    \* coils_port1
  filled,   \* whether the test registers hold 0xAA..., as the master writes
  bits,     \* the event group of the stack
  infos,    \* the queue of informations: the rows that were accessed
  inbox,    \* the requests on their way to the slave's stack
  serving,  \* the request the stack works on, or Nothing
  stage,    \* what the stack does next
  spc,      \* where the slave's task is
  event,    \* its local event
  loaded,   \* the value of holding_data0 it has loaded to increment it
  mpc,      \* where the master's task is
  retry, cid, alarm,       \* its locals
  err,      \* whether its err is ESP_ERR_NOT_FOUND or another value
  reply,    \* the value the stack has answered, or NoReply
  resets    \* how often the other host has reset holding_data0

slaveVars  == <<spc, event, loaded>>
stackVars  == <<bits, infos, inbox, serving, stage>>
registers  == <<hold, coils, filled>>
masterVars == <<mpc, retry, cid, err, alarm>>
vars == <<registers, stackVars, slaveVars, masterVars, reply, resets>>

Froms == {"master", "late", "host"}
Requests == [from : Froms, write : BOOLEAN, row : Rows]
Works    == [from : Froms \cup {"nobody"}, write : BOOLEAN, row : Rows, value : Nat]
Nothing  == [from |-> "nobody", write |-> FALSE, row |-> Table[1], value |-> 0]
NoReply  == 100000

(* setup_reg_data, before mbc_slave_start; the master starts to poll.      *)
Init ==
  /\ hold = StartVal /\ coils = 170 /\ filled = FALSE
  /\ bits = {} /\ infos = <<>>
  /\ inbox = <<>> /\ serving = Nothing /\ stage = "idle"
  /\ spc = "head" /\ event = {} /\ loaded = 0
  /\ mpc = "poll" /\ retry = 0 /\ cid = 1 /\ err = "other" /\ alarm = FALSE
  /\ reply = NoReply /\ resets = 0

-----------------------------------------------------------------------------
(* The slave's stack.                                                      *)

StackUp == spc \notin {"destroyed", "aborted"}

Value(row) ==
  CASE row = "HOLD_DATA_0"   -> hold
    [] row = "RELAY_P2"      -> coils
    [] row = "RELAY_P1"      -> 85
    [] row = "HOLD_TEST_REG" -> IF filled THEN 1 ELSE 0
    [] OTHER                 -> 112

(* A register is read or written, without param_lock.                      *)
Access ==
  /\ StackUp /\ stage = "idle" /\ inbox # <<>>
  /\ LET q == Head(inbox) IN
       /\ serving' = [from |-> q.from, write |-> q.write, row |-> q.row, value |-> Value(q.row)]
       /\ hold' = IF q.write /\ q.row = "HOLD_DATA_0" THEN StartVal ELSE hold
       /\ filled' = (filled \/ (q.write /\ q.row = "HOLD_TEST_REG"))
  /\ inbox' = Tail(inbox)
  /\ stage' = "notify"
  /\ UNCHANGED <<coils, bits, infos, slaveVars, masterVars, reply, resets>>

Notify ==
  /\ StackUp /\ stage = "notify"
  /\ bits' = bits \cup {Kind(serving.row)}
  /\ stage' = "inform"
  /\ UNCHANGED <<registers, infos, inbox, serving, slaveVars, masterVars, reply, resets>>

(* A full queue loses the information.  The answer goes out after it, and  *)
(* can get lost.                                                           *)
Inform ==
  /\ StackUp /\ stage = "inform"
  /\ infos' = IF Len(infos) < QueueSize THEN Append(infos, serving.row) ELSE infos
  /\ stage' = "idle" /\ serving' = Nothing
  /\ \/ serving.from = "master" /\ reply' = serving.value
     \/ (serving.from = "master" => Lossy) /\ UNCHANGED reply
  /\ UNCHANGED <<registers, bits, inbox, slaveVars, masterVars, resets>>

Stack == Access \/ Notify \/ Inform

(* Another Modbus host writes the first value back into holding_data0.     *)
Reset ==
  /\ resets < MaxResets
  /\ resets' = resets + 1
  /\ inbox' = Append(inbox, [from |-> "host", write |-> TRUE, row |-> "HOLD_DATA_0"])
  /\ UNCHANGED <<registers, bits, infos, serving, stage, slaveVars, masterVars, reply>>

-----------------------------------------------------------------------------
(* slave_operation_func.                                                   *)

SlaveGoes(from, to) == spc = from /\ spc' = to

LoopHead ==
  /\ SlaveGoes("head", IF hold < MaxVal THEN "wait" ELSE "ended")
  /\ UNCHANGED <<registers, stackVars, event, loaded, masterVars, reply, resets>>

(* mbc_slave_check_event returns the bits and clears them.                 *)
CheckEvent ==
  /\ bits # {}
  /\ SlaveGoes("wait", "info")
  /\ event' = bits /\ bits' = {}
  /\ UNCHANGED <<registers, infos, inbox, serving, stage, loaded, masterVars, reply, resets>>

(* Whatever the bits, one information is taken: the branches that follow   *)
(* are alternatives, holding registers before inputs before coils.         *)
AfterInfoAnyAddress(row) ==          \* fault variant: the address is not compared
  IF "HOLDING_REG" \in event
  THEN "load"
  ELSE IF event = {"COILS"} /\ coils = 255 THEN "ended" ELSE "head"

AfterInfo(row) ==
  IF "HOLDING_REG" \in event
  THEN IF row = "HOLD_DATA_0" THEN "load" ELSE "head"
  ELSE IF event = {"COILS"} /\ coils = 255 THEN "ended" ELSE "head"

GetInfoOfEach ==                     \* fault variant: the branches are no alternatives
  /\ infos # <<>>
  /\ SlaveGoes("info", AfterInfo(Head(infos)))
  /\ infos' = IF {"HOLDING_REG", "COILS"} \subseteq event /\ Len(infos) > 1
              THEN Tail(Tail(infos)) ELSE Tail(infos)
  /\ event' = {}
  /\ UNCHANGED <<registers, bits, inbox, serving, stage, loaded, masterVars, reply, resets>>

GetInfo ==
  /\ infos # <<>>
  /\ SlaveGoes("info", AfterInfo(Head(infos)))
  /\ infos' = Tail(infos) /\ event' = {}
  /\ UNCHANGED <<registers, bits, inbox, serving, stage, loaded, masterVars, reply, resets>>

(* No information within MB_PAR_INFO_GET_TOUT: ESP_ERROR_CHECK aborts.     *)
InfoTimeout ==
  /\ infos = <<>>
  /\ SlaveGoes("info", "aborted")
  /\ UNCHANGED <<registers, stackVars, event, loaded, masterVars, reply, resets>>

(* The increment, under param_lock, which the stack does not take.         *)
Load ==
  /\ SlaveGoes("load", "store")
  /\ loaded' = hold
  /\ UNCHANGED <<registers, stackVars, event, masterVars, reply, resets>>

RaisesAbove(value) == value >= MaxVal + Offset         \* fault variant: the wrong sign

Raises(value) == value >= MaxVal - Offset

Store ==
  /\ SlaveGoes("store", "head")
  /\ hold' = loaded + Offset /\ loaded' = 0
  /\ coils' = IF Raises(hold') THEN 255 ELSE coils
  /\ UNCHANGED <<filled, stackVars, event, masterVars, reply, resets>>

(* slave_destroy: the stack stops where it is.                             *)
SlaveDestroy ==
  /\ SlaveGoes("ended", "destroyed")
  /\ UNCHANGED <<registers, stackVars, event, loaded, masterVars, reply, resets>>

Slave ==
  LoopHead \/ CheckEvent \/ GetInfo \/ InfoTimeout \/ Load \/ Store \/ SlaveDestroy

-----------------------------------------------------------------------------
(* master_operation_func.                                                  *)

InRound == err # "NOT_FOUND" /\ cid <= Len(Table)
Row == Table[cid]

Send(write) ==
  inbox' = Append(inbox, [from |-> "master", write |-> write, row |-> Row])

(* mbc_master_get_parameter sends the request, or fails at once.           *)
Poll ==
  /\ mpc = "poll" /\ InRound
  /\ \/ /\ Send(FALSE)
        /\ mpc' = "read"
        /\ UNCHANGED <<cid, err>>
     \/ /\ Lossy
        /\ err' \in {"other", "NOT_FOUND"}
        /\ cid' = cid + 1
        /\ UNCHANGED <<mpc, inbox>>
  /\ UNCHANGED <<registers, bits, infos, serving, stage, slaveVars, retry, alarm, reply, resets>>

IsRelay(row) == row \in DOMAIN Opt1

AlarmBy(row, value) ==
  IF IsRelay(row) THEN (value \div Opt1[row]) % 2 = 1 ELSE ~ Within(row, value)

(* A value has arrived.  In the UART variant the test registers are then   *)
(* written, once they do not hold the pattern.                             *)
Judge ==
  /\ mpc = "read" /\ reply # NoReply
  /\ reply' = NoReply /\ err' = "other"
  /\ \/ /\ Row = "HOLD_TEST_REG" /\ reply = 0
        /\ Send(TRUE)
        /\ mpc' = "write"
        /\ UNCHANGED <<cid, retry, alarm>>
     \/ /\ Row = "HOLD_TEST_REG" => reply # 0
        /\ IF AlarmBy(Row, reply)
           THEN alarm' = TRUE /\ retry' = retry + 1 /\ mpc' = "done" /\ UNCHANGED cid
           ELSE cid' = cid + 1 /\ mpc' = "poll" /\ UNCHANGED <<retry, alarm>>
        /\ UNCHANGED inbox
  /\ UNCHANGED <<registers, bits, infos, serving, stage, slaveVars, resets>>

Written ==
  /\ mpc = "write" /\ reply # NoReply
  /\ reply' = NoReply /\ err' = "other"
  /\ cid' = cid + 1 /\ mpc' = "poll"
  /\ UNCHANGED <<registers, stackVars, slaveVars, retry, alarm, resets>>

Late(q) == IF q.from = "master" THEN [q EXCEPT !.from = "late"] ELSE q
From(f) == {i \in DOMAIN inbox : inbox[i].from = f}

(* No answer in time, for instance from a stack that has stopped.  The     *)
(* request was lost, or is still to be served.                             *)
ReadTimeout ==
  /\ Lossy \/ ~ StackUp
  /\ mpc \in {"read", "write"} /\ reply = NoReply
  /\ err' = "other" /\ cid' = cid + 1 /\ mpc' = "poll"
  /\ \/ \E i \in From("master") : inbox' = RemoveAt(inbox, i)
     \/ /\ Cardinality(From("late") \cup From("master")) <= MaxLate
        /\ inbox' = [i \in DOMAIN inbox |-> Late(inbox[i])]
     \/ From("master") = {} /\ UNCHANGED inbox
  /\ serving' = Late(serving)
  /\ UNCHANGED <<registers, bits, infos, stage, slaveVars, retry, alarm, reply, resets>>

(* All rows are read, or the rest is skipped, now and in later rounds.     *)
EndRoundAgain ==                     \* fault variant: a round that failed does not count
  /\ mpc = "poll" /\ ~ InRound
  /\ retry' = IF err = "NOT_FOUND" THEN retry ELSE retry + 1
  /\ mpc' = IF retry' <= MaxRetry THEN "poll" ELSE "done"
  /\ cid' = 1
  /\ UNCHANGED <<registers, stackVars, slaveVars, err, alarm, reply, resets>>

EndRound ==
  /\ mpc = "poll" /\ ~ InRound
  /\ retry' = retry + 1
  /\ mpc' = IF retry' <= MaxRetry THEN "poll" ELSE "done"
  /\ cid' = 1
  /\ UNCHANGED <<registers, stackVars, slaveVars, err, alarm, reply, resets>>

Master == Poll \/ Judge \/ Written \/ ReadTimeout \/ EndRound

Next == Stack \/ Slave \/ Master \/ Reset

Spec == Init /\ [][Next]_vars

(* The tasks are scheduled; get_parameter returns after its timeout.       *)
Fairness == WF_vars(Master) /\ WF_vars(Stack) /\ WF_vars(Slave)

FairSpec == Spec /\ Fairness

-----------------------------------------------------------------------------
(* Every variable has its type.                                            *)
TypeOK ==
  /\ hold \in Nat /\ coils \in {170, 255} /\ filled \in BOOLEAN
  /\ bits \subseteq Kinds /\ infos \in Seq(Rows) /\ Len(infos) <= QueueSize
  /\ inbox \in Seq(Requests)
  /\ serving \in Works
  /\ stage \in {"idle", "notify", "inform"}
  /\ spc \in {"head", "wait", "info", "load", "store", "ended", "destroyed", "aborted"}
  /\ event \subseteq Kinds /\ loaded \in Nat
  /\ mpc \in {"poll", "read", "write", "done"}
  /\ retry \in 0 .. MaxRetry + 1 /\ cid \in 1 .. Len(Table) + 1
  /\ err \in {"other", "NOT_FOUND"} /\ alarm \in BOOLEAN
  /\ reply \in Nat /\ resets \in 0 .. MaxResets

(* An event the slave has seen, or has been sent, has its information in   *)
(* the queue or about to be queued: although it waits for one event and    *)
(* takes the information of another, the wait of at most                   *)
(* MB_PAR_INFO_GET_TOUT ticks never depends on an access still to come.    *)
InfoFollowsEvent ==
  StackUp /\ (bits # {} \/ spc = "info") => infos # <<>> \/ stage = "inform"

(* No access is counted twice: the counter is at most one step per round   *)
(* of polls, begun or over, and per write of the other host, above its     *)
(* first value, whatever was late or merged.                               *)
CountsAccesses == hold <= StartVal + Offset * (retry + 1 + resets)

(* The slave's loop, left by either of its exits, has raised the coil that *)
(* the master takes for the alarm.                                         *)
EndsWithAlarm == spc \in {"ended", "destroyed"} => coils = 255

(* The master's alarm is the slave's: no late or stale answer raises it.   *)
AlarmIsReal == alarm => coils = 255

(* Slave and master end for the alarm, and for the same one.               *)
AlarmIsSound == EndsWithAlarm /\ AlarmIsReal

(* The master comes to an end, whatever becomes of the slave.              *)
MasterEnds == <>(mpc = "done")

(* The comment above the slave's loop: holding_data0 is "incremented each  *)
(* access cycle".  So when the stack and the slave have nothing left to do,*)
(* no access to it is left uncounted.                                      *)
EveryAccessCounts ==
  spc = "wait" /\ bits = {} /\ stage = "idle" => \A i \in DOMAIN infos : infos[i] # "HOLD_DATA_0"

=============================================================================
