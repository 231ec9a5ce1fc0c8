---------------------------- MODULE Modbus_proofs ----------------------------
(***************************************************************************)
(* Theorems about Modbus, for every table, number of rounds, limit, length *)
(* of the queue (two at least) and number of late requests and resets; and *)
(* in the last section about the runs of ModbusService around the loops,   *)
(* for any number of slaves, queries and runs.                             *)
(***************************************************************************)
EXTENDS Modbus, ModbusRuns, FiniteSetTheorems, SequenceTheorems, TLAPS

(* The assumptions on the constants, one by one.                           *)
LEMMA Constants ==
  /\ Table \in Seq(Rows) /\ Len(Table) \in Nat \ {0} /\ Table[1] \in Rows
  /\ \A i \in 1 .. Len(Table) : Table[i] \in Rows
  /\ MaxRetry \in Nat /\ StartVal \in Nat /\ MaxResets \in Nat
  /\ Offset \in Nat /\ MaxVal \in Nat /\ QueueSize \in Nat
  /\ Offset > 0 /\ QueueSize >= 2 /\ StartVal + Offset < MaxVal
  BY TableAssumption, NumberAssumption

LEMMA Numbers ==
  /\ MaxRetry \in Nat /\ StartVal \in Nat /\ MaxResets \in Nat
  /\ Offset \in Nat /\ MaxVal \in Nat /\ QueueSize \in Nat
  /\ Offset > 0 /\ QueueSize >= 2 /\ StartVal + Offset < MaxVal
  BY Constants

LEMMA TableLength == Len(Table) \in Nat \ {0}
  BY Constants

(* The kind of every row is one of Kinds.                                  *)
LEMMA KindType == \A row \in Rows : Kind(row) \in Kinds
  BY DEF Kind, Kinds, Rows

(* What a request is once nobody waits for it.                             *)
LEMMA LateType ==
  /\ \A q \in Requests : Late(q) \in Requests
  /\ \A q \in Works :
       Late(q) \in Works
  BY DEF Late, Requests, Works, Froms

-----------------------------------------------------------------------------
(* The row the master is at, when it waits for an answer, is a row of the  *)
(* table, and until it is done its round is one of the MaxRetry + 1.       *)
InBounds ==
  /\ mpc \in {"read", "write"} => cid <= Len(Table)
  /\ mpc # "done" => retry <= MaxRetry

LEMMA InitTypeOK == Init => TypeOK /\ InBounds
<1> SUFFICES ASSUME Init PROVE TypeOK /\ InBounds
  OBVIOUS
<1>1. serving \in Works
  BY Constants DEF Init, Nothing, Works
<1>2. bits \subseteq Kinds /\ event \subseteq Kinds
  BY DEF Init
<1>3. infos \in Seq(Rows) /\ inbox \in Seq(Requests) /\ Len(infos) <= QueueSize
  BY Numbers DEF Init
<1>4. hold \in Nat /\ resets \in 0 .. MaxResets /\ retry \in 0 .. MaxRetry + 1
  BY Numbers DEF Init
<1>5. cid \in 1 .. Len(Table) + 1
  BY TableLength DEF Init
<1>6. InBounds
  BY Numbers DEF Init, InBounds
<1>7. coils \in {170, 255} /\ reply \in Nat /\ loaded \in Nat
  BY DEF Init, NoReply
<1>9. filled \in BOOLEAN /\ alarm \in BOOLEAN
  BY DEF Init
<1>8. /\ stage \in {"idle", "notify", "inform"}
      /\ spc \in {"head", "wait", "info", "load", "store", "ended", "destroyed", "aborted"}
      /\ mpc \in {"poll", "read", "write", "done"} /\ err \in {"other", "NOT_FOUND"}
  BY DEF Init
<1> QED
  BY <1>1, <1>2, <1>3, <1>4, <1>5, <1>6, <1>7, <1>8, <1>9 DEF TypeOK

LEMMA ValueType == TypeOK => \A row : Value(row) \in Nat
  BY DEF TypeOK, Value

(* Every step preserves the types.                                         *)
LEMMA NextTypeOK == TypeOK /\ InBounds /\ [Next]_vars => TypeOK' /\ InBounds'
<1> SUFFICES ASSUME TypeOK, InBounds, [Next]_vars PROVE TypeOK' /\ InBounds'
  OBVIOUS
<1>1. CASE Access
  <2>1. Head(inbox) \in Requests /\ inbox' \in Seq(Requests)
    BY <1>1 DEF Access, TypeOK
  <2>2. serving' \in Works
    BY <1>1, <2>1, ValueType DEF Access, Requests, Works
  <2>3. hold' \in Nat /\ filled' \in BOOLEAN
    BY <1>1, <2>1, Numbers DEF Access, TypeOK, Requests
  <2> QED
    BY <1>1, <2>1, <2>2, <2>3 DEF Access, TypeOK, InBounds, slaveVars, masterVars
<1>2. CASE Notify
  <2>1. bits' \subseteq Kinds
    BY <1>2, KindType DEF Notify, TypeOK, Works
  <2> QED
    BY <1>2, <2>1 DEF Notify, TypeOK, InBounds, registers, slaveVars, masterVars
<1>3. CASE Inform
  <2>1. infos' \in Seq(Rows) /\ Len(infos') <= QueueSize
    BY <1>3, Numbers DEF Inform, TypeOK, Works
  <2>2. reply' \in Nat
    BY <1>3 DEF Inform, TypeOK, Works
  <2>3. serving' \in Works
    BY <1>3, Constants DEF Inform, Nothing, Works
  <2> QED
    BY <1>3, <2>1, <2>2, <2>3 DEF Inform, TypeOK, InBounds, registers, slaveVars, masterVars
<1>4. CASE Reset
  <2>1. inbox' \in Seq(Requests)
    BY <1>4 DEF Reset, TypeOK, Requests, Froms, Rows
  <2> QED
    BY <1>4, <2>1, Numbers DEF Reset, TypeOK, InBounds, registers, slaveVars, masterVars
<1>5. CASE Slave
  <2>1. CASE LoopHead
    BY <2>1 DEF LoopHead, SlaveGoes, TypeOK, InBounds, registers, stackVars, masterVars
  <2>2. CASE CheckEvent
    BY <2>2 DEF CheckEvent, SlaveGoes, TypeOK, InBounds, registers, masterVars
  <2>3. CASE GetInfo
    <3>1. infos' \in Seq(Rows) /\ Len(infos') <= QueueSize
      BY <2>3, Numbers DEF GetInfo, TypeOK
    <3>2. AfterInfo(Head(infos)) \in {"head", "load", "ended"}
      BY DEF AfterInfo
    <3> QED
      BY <2>3, <3>1, <3>2 DEF GetInfo, SlaveGoes, TypeOK, InBounds, registers, masterVars
  <2>4. CASE InfoTimeout
    BY <2>4 DEF InfoTimeout, SlaveGoes, TypeOK, InBounds, registers, stackVars, masterVars
  <2>5. CASE Load
    BY <2>5 DEF Load, SlaveGoes, TypeOK, InBounds, registers, stackVars, masterVars
  <2>6. CASE Store
    BY <2>6, Numbers DEF Store, SlaveGoes, TypeOK, InBounds, stackVars, masterVars
  <2>7. CASE SlaveDestroy
    BY <2>7 DEF SlaveDestroy, SlaveGoes, TypeOK, InBounds, registers, stackVars, masterVars
  <2> QED
    BY <1>5, <2>1, <2>2, <2>3, <2>4, <2>5, <2>6, <2>7 DEF Slave
<1>6. CASE Master
  <2>0. ASSUME cid \in 1 .. Len(Table), NEW w \in BOOLEAN, Send(w) PROVE inbox' \in Seq(Requests)
    BY <2>0, Constants DEF Send, Row, TypeOK, Requests, Froms
  <2>1. CASE Poll
    <3>1. cid \in 1 .. Len(Table)
      BY <2>1, TableLength DEF Poll, InRound, TypeOK
    <3>2. CASE Send(FALSE) /\ mpc' = "read" /\ UNCHANGED <<cid, err>>
      <4>1. inbox' \in Seq(Requests)
        BY <3>1, <3>2, <2>0
      <4> QED
        BY <2>1, <3>1, <3>2, <4>1, TableLength DEF Poll, TypeOK, InBounds, registers, slaveVars
    <3>3. CASE err' \in {"other", "NOT_FOUND"} /\ cid' = cid + 1 /\ UNCHANGED <<mpc, inbox>>
      BY <2>1, <3>1, <3>3, TableLength DEF Poll, TypeOK, InBounds, registers, slaveVars
    <3> QED
      BY <2>1, <3>2, <3>3 DEF Poll
  <2>2. CASE Judge
    <3>1. cid \in 1 .. Len(Table) /\ reply \in Nat
      BY <2>2 DEF Judge, InBounds, TypeOK
    <3>2. CASE Row = "HOLD_TEST_REG" /\ reply = 0 /\ Send(TRUE) /\ mpc' = "write" /\ UNCHANGED <<cid, retry, alarm>>
      <4>1. inbox' \in Seq(Requests)
        BY <3>1, <3>2, <2>0
      <4> QED
        BY <2>2, <3>2, <4>1 DEF Judge, TypeOK, InBounds, NoReply, registers, slaveVars
    <3>3. CASE AlarmBy(Row, reply) /\ alarm' = TRUE /\ retry' = retry + 1 /\ mpc' = "done" /\ UNCHANGED <<cid, inbox>>
      BY <2>2, <3>3, Numbers DEF Judge, TypeOK, InBounds, NoReply, registers, slaveVars
    <3>4. CASE cid' = cid + 1 /\ mpc' = "poll" /\ UNCHANGED <<retry, alarm, inbox>>
      BY <2>2, <3>1, <3>4, TableLength DEF Judge, TypeOK, InBounds, NoReply, registers, slaveVars
    <3> QED
      BY <2>2, <3>2, <3>3, <3>4 DEF Judge
  <2>3. CASE Written
    BY <2>3, TableLength DEF Written, TypeOK, InBounds, NoReply, registers, stackVars, slaveVars
  <2>4. CASE ReadTimeout
    <3>1. inbox' \in Seq(Requests)
      <4>1. ASSUME NEW i \in From("master") PROVE RemoveAt(inbox, i) \in Seq(Requests)
        <5>1. i \in 1 .. Len(inbox) /\ inbox \in Seq(Requests)
          BY <4>1 DEF From, TypeOK
        <5>2. SubSeq(inbox, 1, i - 1) \in Seq(Requests) /\ SubSeq(inbox, i + 1, Len(inbox)) \in Seq(Requests)
          BY <5>1
        <5> QED
          BY <5>2 DEF RemoveAt
      <4>2. [i \in DOMAIN inbox |-> Late(inbox[i])] \in Seq(Requests)
        <5>1. \A i \in 1 .. Len(inbox) : Late(inbox[i]) \in Requests
          BY LateType DEF TypeOK
        <5> QED
          BY <5>1 DEF TypeOK
      <4> QED
        BY SMTT(60), <2>4, <4>1, <4>2 DEF ReadTimeout, TypeOK
    <3>2. serving' \in Works
      BY <2>4, LateType DEF ReadTimeout, TypeOK
    <3> QED
      BY SMTT(60), <2>4, <3>1, <3>2, TableLength DEF ReadTimeout, TypeOK, InBounds, registers, slaveVars
  <2>5. CASE EndRound
    BY <2>5, Numbers, TableLength DEF EndRound, TypeOK, InBounds, registers, stackVars, slaveVars
  <2> QED
    BY <1>6, <2>1, <2>2, <2>3, <2>4, <2>5 DEF Master
<1>7. CASE UNCHANGED vars
  BY <1>7 DEF vars, TypeOK, InBounds, registers, stackVars, slaveVars, masterVars
<1> QED
  BY <1>1, <1>2, <1>3, <1>4, <1>5, <1>6, <1>7 DEF Next, Stack

(* Every variable has its type in every reachable state.                   *)
THEOREM TypeCorrect == Spec => []TypeOK
<1>1. Spec => [](TypeOK /\ InBounds)
  BY InitTypeOK, NextTypeOK, PTL DEF Spec
<1> QED
  BY <1>1, PTL

-----------------------------------------------------------------------------
(* The slave's loop ends with the coil raised.  Inductive with it: a       *)
(* counter at the limit has raised the coil, since the increment that took *)
(* it there passed MaxVal - Offset, and the other host only resets it.     *)
RaisedAtLimit == hold >= MaxVal => coils = 255

EndInv == RaisedAtLimit /\ EndsWithAlarm

LEMMA EndStep == TypeOK /\ EndInv /\ [Next]_vars => EndInv'
<1> SUFFICES ASSUME TypeOK, EndInv, [Next]_vars PROVE EndInv'
  OBVIOUS
<1> USE DEF EndInv, RaisedAtLimit, EndsWithAlarm
<1>1. CASE Access
  BY <1>1, Numbers DEF Access, slaveVars
<1>2. CASE Notify \/ Inform \/ Reset
  BY <1>2 DEF Notify, Inform, Reset, registers, slaveVars
<1>3. CASE LoopHead
  BY <1>3, Numbers DEF LoopHead, SlaveGoes, registers, TypeOK
<1>4. CASE CheckEvent \/ InfoTimeout \/ Load \/ SlaveDestroy
  BY <1>4 DEF CheckEvent, InfoTimeout, Load, SlaveDestroy, SlaveGoes, registers
<1>5. CASE GetInfo
  BY <1>5 DEF GetInfo, SlaveGoes, AfterInfo, registers
<1>6. CASE Store
  <2>1. hold' >= MaxVal => hold' >= MaxVal - Offset
    BY <1>6, Numbers DEF Store, TypeOK
  <2> QED
    BY <1>6, <2>1 DEF Store, SlaveGoes, Raises
<1>7. CASE Master
  <2>1. UNCHANGED <<registers, slaveVars>>
    BY <1>7 DEF Master, Poll, Judge, Written, ReadTimeout, EndRound, stackVars
  <2> QED
    BY <2>1 DEF registers, slaveVars
<1>8. CASE UNCHANGED vars
  BY <1>8 DEF vars, registers, slaveVars
<1> QED
  BY <1>1, <1>2, <1>3, <1>4, <1>5, <1>6, <1>7, <1>8 DEF Next, Stack, Slave

(* However the loop is left, the coil the master reads as the alarm is set.*)
THEOREM EndIsAlarmed == Spec => []EndsWithAlarm
<1>1. Init => EndInv
  BY Numbers DEF Init, EndInv, RaisedAtLimit, EndsWithAlarm
<1>2. EndInv => EndsWithAlarm
  BY DEF EndInv
<1> QED
  BY <1>1, <1>2, EndStep, TypeCorrect, PTL DEF Spec

-----------------------------------------------------------------------------
(* The informations owed to the slave: one for the bits it has not seen,   *)
(* one for those it is at.  They are queued, but for one that is about to  *)
(* be.  A full queue, which loses informations, holds two at least.        *)
One(b) == IF b THEN 1 ELSE 0

Owed == One(bits # {}) + One(spc = "info")

OwedIsQueued == StackUp => Owed <= Len(infos) + One(stage = "inform")

LEMMA OwedStep == TypeOK /\ OwedIsQueued /\ [Next]_vars => OwedIsQueued'
<1> SUFFICES ASSUME TypeOK, OwedIsQueued, [Next]_vars PROVE OwedIsQueued'
  OBVIOUS
<1>0. infos \in Seq(Rows) /\ Len(infos) \in Nat
  BY DEF TypeOK
<1> USE DEF OwedIsQueued, Owed, One, StackUp
<1>1. CASE Access
  BY <1>0, <1>1 DEF Access, slaveVars
<1>2. CASE Notify
  BY <1>0, <1>2 DEF Notify, slaveVars
<1>3. CASE Inform
  <2>1. Len(infos') = Len(infos) + 1 \/ Len(infos') >= 2
    BY <1>0, <1>3, Numbers DEF Inform
  <2>2. Len(infos') \in Nat
    BY <1>0, <1>3 DEF Inform, TypeOK, Works
  <2> QED
    BY <1>0, <1>3, <2>1, <2>2 DEF Inform, slaveVars
<1>4. CASE LoopHead \/ InfoTimeout \/ Load \/ Store \/ SlaveDestroy
  BY <1>0, <1>4 DEF LoopHead, InfoTimeout, Load, Store, SlaveDestroy, SlaveGoes, stackVars
<1>5. CASE CheckEvent
  BY <1>0, <1>5 DEF CheckEvent, SlaveGoes
<1>6. CASE GetInfo
  <2>1. Len(infos') = Len(infos) - 1
    BY <1>0, <1>6 DEF GetInfo
  <2>2. spc = "info" /\ spc' # "info" /\ spc' \notin {"destroyed", "aborted"}
    BY <1>6 DEF GetInfo, SlaveGoes, AfterInfo
  <2> QED
    BY <1>0, <1>6, <2>1, <2>2 DEF GetInfo
<1>7. CASE Master \/ Reset \/ UNCHANGED vars
  <2>1. UNCHANGED <<bits, infos, stage, spc>>
    BY <1>7 DEF Master, Poll, Judge, Written, ReadTimeout, EndRound, Reset, vars, stackVars, slaveVars
  <2> QED
    BY <2>1
<1> QED
  BY <1>1, <1>2, <1>3, <1>4, <1>5, <1>6, <1>7 DEF Next, Stack, Slave

(* The slave never waits for the information of an access still to come.   *)
THEOREM EventsAreInformed == Spec => []InfoFollowsEvent
<1>1. Init => OwedIsQueued
  BY DEF Init, OwedIsQueued, Owed, One
<1>2. TypeOK /\ OwedIsQueued => InfoFollowsEvent
  <2> SUFFICES ASSUME TypeOK, OwedIsQueued, StackUp, bits # {} \/ spc = "info", infos = <<>>
               PROVE stage = "inform"
    BY DEF InfoFollowsEvent
  <2>1. Owed >= 1
    BY DEF Owed, One
  <2> QED
    BY <2>1 DEF OwedIsQueued, Owed, One
<1> QED
  BY <1>1, <1>2, OwedStep, TypeCorrect, PTL DEF Spec

-----------------------------------------------------------------------------
(* The answer the master takes is the answer to the request it waits for:  *)
(* a request it does not wait for any more is served as a late one.  And   *)
(* an answer that raises the alarm was read when the coil was raised,      *)
(* since the counter passes no limit of a row before MaxVal.               *)
Waits == mpc \in {"read", "write"}

Real(row, value) == AlarmBy(row, value) => coils = 255

AskedInv ==
  \A i \in DOMAIN inbox : inbox[i].from = "master" =>
    /\ Waits /\ inbox[i].row = Row /\ reply = NoReply /\ serving.from # "master"
    /\ \A j \in DOMAIN inbox : inbox[j].from = "master" => i = j

ServedInv ==
  /\ serving.from = "master" => Waits /\ serving.row = Row /\ reply = NoReply
  /\ serving.from # "nobody" => Real(serving.row, serving.value)

AnsweredInv == reply # NoReply => Waits /\ Real(Row, reply)

AnswerInv == AskedInv /\ ServedInv /\ AnsweredInv /\ AlarmIsReal

(* The limits of the rows, 1000 and 10000, are above the values the slave  *)
(* answers before its counter has passed MaxVal.                           *)
LimitsAreHigh == MaxVal <= 10000

LEMMA ValueIsReal ==
  ASSUME LimitsAreHigh, TypeOK, EndInv, NEW row \in Rows
  PROVE  Real(row, Value(row))
<1>1. CASE row = "HOLD_DATA_0"
  <2>1. ~ IsRelay(row)
    BY <1>1 DEF IsRelay, Opt1
  <2>2. Value(row) = hold
    BY <1>1 DEF Value
  <2>3. ~ Within(row, hold) => hold >= MaxVal
    BY <1>1, Numbers DEF Within, LimitsAreHigh, TypeOK
  <2> QED
    BY <2>1, <2>2, <2>3 DEF Real, AlarmBy, EndInv, RaisedAtLimit
<1>2. CASE row = "RELAY_P2"
  <2>1. Opt1[row] = 1 /\ IsRelay(row)
    BY <1>2 DEF Opt1, IsRelay
  <2>2. Value(row) = coils
    BY <1>2 DEF Value
  <2>3. coils = 170 => (coils \div 1) % 2 # 1
    OBVIOUS
  <2> QED
    BY <2>1, <2>2, <2>3 DEF Real, AlarmBy, TypeOK
<1>3. CASE row = "RELAY_P1"
  <2>1. Opt1[row] = 2 /\ IsRelay(row)
    BY <1>3 DEF Opt1, IsRelay
  <2>2. Value(row) = 85
    BY <1>3 DEF Value
  <2>3. (85 \div 2) % 2 # 1
    OBVIOUS
  <2> QED
    BY <2>1, <2>2, <2>3 DEF Real, AlarmBy
<1>4. CASE row \in {"INP_DATA_0", "HOLD_DATA_1", "HOLD_TEST_REG"}
  <2>1. ~ IsRelay(row)
    BY <1>4 DEF IsRelay, Opt1
  <2>2. Value(row) \in {0, 1, 112}
    BY <1>4 DEF Value
  <2>3. Within(row, Value(row))
    BY <2>2 DEF Within
  <2> QED
    BY <2>1, <2>3 DEF Real, AlarmBy
<1> QED
  BY <1>1, <1>2, <1>3, <1>4 DEF Rows

(* What RemoveAt leaves of a sequence.                                     *)
LEMMA Removed ==
  ASSUME NEW S, NEW s \in Seq(S), NEW i \in 1 .. Len(s)
  PROVE  /\ DOMAIN RemoveAt(s, i) = 1 .. Len(s) - 1
         /\ \A j \in 1 .. Len(s) - 1 : RemoveAt(s, i)[j] = s[IF j < i THEN j ELSE j + 1]
<1> DEFINE a == SubSeq(s, 1, i - 1)
           b == SubSeq(s, i + 1, Len(s))
<1>0. Len(s) \in Nat /\ i \in Nat /\ i >= 1 /\ i <= Len(s) /\ \A k \in 1 .. Len(s) : s[k] \in S
  OBVIOUS
<1>1. a \in Seq(S) /\ Len(a) = i - 1 /\ \A j \in 1 .. i - 1 : a[j] = s[j]
  BY <1>0
<1> HIDE DEF a
<1>2. b \in Seq(S) /\ Len(b) = Len(s) - i /\ \A j \in 1 .. Len(s) - i : b[j] = s[i + j]
  BY <1>0
<1>3. RemoveAt(s, i) = a \o b
  BY DEF RemoveAt, a
<1> HIDE DEF b
<1>4. DOMAIN (a \o b) = 1 .. Len(s) - 1
  BY <1>0, <1>1, <1>2
<1>5. ASSUME NEW j \in 1 .. Len(s) - 1 PROVE (a \o b)[j] = s[IF j < i THEN j ELSE j + 1]
  <2>0. /\ j <= Len(a) => (a \o b)[j] = a[j]
        /\ j > Len(a) => (a \o b)[j] = b[j - Len(a)]
    BY <1>0, <1>1, <1>2
  <2>1. CASE j < i
    <3>1. j \in 1 .. i - 1
      BY <1>0, <2>1
    <3> QED
      BY <1>0, <1>1, <2>0, <2>1, <3>1
  <2>2. CASE ~ (j < i)
    <3>0. j \in Nat /\ j > i - 1 /\ j - (i - 1) \in 1 .. Len(s) - i
      BY <1>0, <2>2
    <3>4. Len(a) = i - 1
      BY <1>1
    <3>1. (a \o b)[j] = b[j - (i - 1)] /\ j - (i - 1) \in 1 .. Len(s) - i
      BY <2>0, <3>0, <3>4
    <3>2. i + (j - (i - 1)) = j + 1
      BY <1>0
    <3>3. b[j - (i - 1)] = s[i + (j - (i - 1))]
      BY <1>2, <3>1
    <3> QED
      BY <2>2, <3>1, <3>2, <3>3
  <2> QED
    BY <2>1, <2>2
<1> QED
  BY <1>3, <1>4, <1>5

LEMMA AnswerStep ==
  ASSUME LimitsAreHigh, TypeOK, InBounds, EndInv, AnswerInv, [Next]_vars
  PROVE  AnswerInv'
<1>0. coils' = coils \/ coils' = 255
  BY DEF Next, Stack, Access, Notify, Inform, Slave, LoopHead, CheckEvent, GetInfo, InfoTimeout, Load,
         Store, SlaveDestroy, Master, Poll, Judge, Written, ReadTimeout, EndRound, Reset, vars, registers
<1>t. inbox \in Seq(Requests) /\ Len(inbox) \in Nat /\ serving \in Works
  BY DEF TypeOK
<1>r. ASSUME NEW row, NEW value, Real(row, value) PROVE Real(row, value)'
  BY <1>0, <1>r DEF Real, AlarmBy, IsRelay, Within
<1>1. CASE Access
  <2>1. \A i \in DOMAIN inbox' : i + 1 \in DOMAIN inbox /\ inbox'[i] = inbox[i + 1] /\ i \in Nat \ {0}
    BY <1>1, <1>t DEF Access
  <2>2. 1 \in DOMAIN inbox /\ Head(inbox) = inbox[1] /\ inbox[1] \in Requests
    BY <1>1, <1>t DEF Access
  <2>3. /\ serving'.from = inbox[1].from /\ serving'.row = inbox[1].row
        /\ serving'.value = Value(inbox[1].row) /\ UNCHANGED <<masterVars, reply, coils>>
    BY <1>1, <2>2 DEF Access
  <2>4. inbox[1].row \in Rows
    BY <2>2 DEF Requests
  <2>5. AskedInv'
    <3> SUFFICES ASSUME NEW i \in DOMAIN inbox', inbox'[i].from = "master"
                 PROVE  /\ Waits' /\ inbox'[i].row = Row' /\ reply' = NoReply /\ serving'.from # "master"
                        /\ \A j \in DOMAIN inbox' : inbox'[j].from = "master" => i = j
      BY DEF AskedInv
    <3>1. i + 1 \in DOMAIN inbox /\ inbox[i + 1].from = "master" /\ i \in Nat /\ i + 1 # 1
      BY <2>1, <1>t
    <3>2. /\ Waits /\ inbox[i + 1].row = Row /\ reply = NoReply
          /\ \A j \in DOMAIN inbox : inbox[j].from = "master" => i + 1 = j
      BY <3>1 DEF AnswerInv, AskedInv
    <3>3. inbox[1].from # "master"
      BY <2>2, <3>1, <3>2
    <3>4. ASSUME NEW j \in DOMAIN inbox', inbox'[j].from = "master" PROVE i = j
      BY <2>1, <3>1, <3>2, <3>4
    <3> QED
      BY <2>1, <2>3, <3>2, <3>3, <3>4 DEF Waits, Row, masterVars
  <2>6. ServedInv'
    <3>1. inbox[1].from = "master" => Waits /\ inbox[1].row = Row /\ reply = NoReply
      BY <2>2 DEF AnswerInv, AskedInv
    <3>2. Real(inbox[1].row, Value(inbox[1].row))
      BY <2>4, ValueIsReal
    <3>3. Real(serving.row, serving.value)'
      BY <2>3, <3>2 DEF Real, AlarmBy, IsRelay, Within
    <3> QED
      BY <2>3, <3>1, <3>3 DEF ServedInv, Waits, Row, masterVars
  <2>7. AnsweredInv' /\ AlarmIsReal'
    BY <2>3, <1>r DEF AnswerInv, AnsweredInv, AlarmIsReal, Waits, Row, masterVars, Real, AlarmBy, IsRelay, Within
  <2> QED
    BY <2>5, <2>6, <2>7 DEF AnswerInv
<1>2. CASE Inform
  <2>1. serving' = Nothing /\ UNCHANGED <<inbox, masterVars, coils>>
    BY <1>2 DEF Inform, registers
  <2>2. serving'.from = "nobody"
    BY <2>1 DEF Nothing
  <2>3. CASE serving.from = "master" /\ reply' = serving.value
    <3>1. Waits /\ serving.row = Row /\ Real(Row, serving.value)
      BY <2>3 DEF AnswerInv, ServedInv
    <3>2. \A i \in DOMAIN inbox : inbox[i].from # "master"
      BY <2>3 DEF AnswerInv, AskedInv
    <3>3. AnsweredInv'
      BY <2>1, <2>3, <3>1 DEF AnsweredInv, Waits, Row, masterVars, Real, AlarmBy, IsRelay, Within
    <3> QED
      BY <2>1, <2>2, <3>2, <3>3 DEF AnswerInv, AskedInv, ServedInv, AlarmIsReal, masterVars
  <2>4. CASE UNCHANGED reply
    <3>1. AnsweredInv' /\ AlarmIsReal'
      BY <2>1, <2>4 DEF AnswerInv, AnsweredInv, AlarmIsReal, Waits, Row, masterVars, Real, AlarmBy, IsRelay, Within
    <3>2. AskedInv'
      BY <2>1, <2>2, <2>4 DEF AnswerInv, AskedInv, Waits, Row, masterVars
    <3> QED
      BY <2>2, <3>1, <3>2 DEF AnswerInv, ServedInv
  <2> QED
    BY <1>2, <2>3, <2>4 DEF Inform
<1>3. CASE Reset
  <2>1. /\ Len(inbox') = Len(inbox) + 1 /\ DOMAIN inbox' = 1 .. Len(inbox) + 1
        /\ \A i \in DOMAIN inbox : inbox'[i] = inbox[i]
        /\ inbox'[Len(inbox) + 1].from = "host" /\ UNCHANGED <<coils, serving, masterVars, reply>>
    BY <1>3, <1>t DEF Reset, registers
  <2>2. ASSUME NEW i \in DOMAIN inbox', inbox'[i].from = "master" PROVE i \in DOMAIN inbox /\ inbox'[i] = inbox[i]
    BY <1>t, <2>1, <2>2
  <2>3. AskedInv'
    BY <2>1, <2>2 DEF AnswerInv, AskedInv, Waits, Row, masterVars
  <2>4. ServedInv' /\ AnsweredInv' /\ AlarmIsReal'
    BY <2>1 DEF AnswerInv, ServedInv, AnsweredInv, AlarmIsReal, Waits, Row, masterVars, Real, AlarmBy, IsRelay, Within
  <2> QED
    BY <2>3, <2>4 DEF AnswerInv
<1>4. CASE Slave \/ Notify \/ UNCHANGED vars
  <2>1. UNCHANGED <<inbox, serving, masterVars, reply>>
    BY <1>4 DEF Slave, LoopHead, CheckEvent, GetInfo, InfoTimeout, Load, Store, SlaveDestroy, Notify, vars, stackVars
  <2>2. AskedInv'
    BY <2>1 DEF AnswerInv, AskedInv, Waits, Row, masterVars
  <2>3. ServedInv'
    BY <2>1, <1>0 DEF AnswerInv, ServedInv, Waits, Row, masterVars, Real, AlarmBy, IsRelay, Within
  <2>4. AnsweredInv'
    BY <2>1, <1>0 DEF AnswerInv, AnsweredInv, Waits, Row, masterVars, Real, AlarmBy, IsRelay, Within
  <2>5. AlarmIsReal'
    BY <2>1, <1>0 DEF AnswerInv, AlarmIsReal, masterVars
  <2> QED
    BY <2>2, <2>3, <2>4, <2>5 DEF AnswerInv
<1>5. CASE Master
  <2>0. UNCHANGED coils
    BY <1>5 DEF Master, Poll, Judge, Written, ReadTimeout, EndRound, registers
  <2>s. ASSUME NEW w \in BOOLEAN, Send(w), UNCHANGED <<serving, cid>>, reply' = NoReply, Waits',
               \A i \in DOMAIN inbox : inbox[i].from # "master", serving.from # "master"
        PROVE  AskedInv' /\ ServedInv' /\ AnsweredInv'
    <3>1. /\ DOMAIN inbox' = 1 .. Len(inbox) + 1
          /\ \A i \in DOMAIN inbox : inbox'[i] = inbox[i]
          /\ inbox'[Len(inbox) + 1].row = Row
      BY <2>s, <1>t DEF Send
    <3>2. \A i \in DOMAIN inbox' : inbox'[i].from = "master" => i = Len(inbox) + 1
      BY <1>t, <2>s, <3>1
    <3>3. AskedInv'
      BY <2>s, <3>1, <3>2 DEF AskedInv, Row
    <3>4. ServedInv'
      BY <2>s, <2>0 DEF AnswerInv, ServedInv, Real, AlarmBy, IsRelay, Within
    <3> QED
      BY <2>s, <3>3, <3>4 DEF AnsweredInv
  <2>q. ASSUME \A i \in DOMAIN inbox' : inbox'[i].from # "master", serving'.from # "master",
               UNCHANGED <<serving>>, reply' = NoReply
        PROVE  AskedInv' /\ ServedInv' /\ AnsweredInv'
    <3>1. AskedInv' /\ AnsweredInv'
      BY <2>q DEF AskedInv, AnsweredInv
    <3>2. ServedInv'
      BY <2>q, <2>0 DEF AnswerInv, ServedInv, Real, AlarmBy, IsRelay, Within
    <3> QED
      BY <3>1, <3>2
  <2>1. CASE Poll \/ EndRound
    <3>1. /\ mpc = "poll" /\ ~ Waits /\ UNCHANGED <<serving, alarm, reply>>
      BY <2>1 DEF Poll, EndRound, stackVars, Waits
    <3>2. /\ \A i \in DOMAIN inbox : inbox[i].from # "master"
          /\ serving.from # "master" /\ reply = NoReply
      BY <3>1 DEF AnswerInv, AskedInv, ServedInv, AnsweredInv
    <3>3. CASE Send(FALSE) /\ mpc' = "read" /\ UNCHANGED <<cid, err>>
      BY <2>0, <3>1, <3>2, <3>3, <2>s DEF AnswerInv, AlarmIsReal, Waits
    <3>4. CASE UNCHANGED inbox
      BY <2>0, <3>1, <3>2, <3>4, <2>q DEF AnswerInv, AlarmIsReal
    <3> QED
      BY <2>1, <3>3, <3>4 DEF Poll, EndRound, stackVars
  <2>2. CASE Judge \/ Written
    <3>1. Waits /\ reply # NoReply /\ reply' = NoReply /\ UNCHANGED serving
      BY <2>2 DEF Judge, Written, stackVars, Waits
    <3>2. /\ \A i \in DOMAIN inbox : inbox[i].from # "master"
          /\ serving.from # "master" /\ Real(Row, reply)
      BY <3>1 DEF AnswerInv, AskedInv, ServedInv, AnsweredInv
    <3>3. CASE Judge /\ Send(TRUE) /\ mpc' = "write" /\ UNCHANGED <<cid, retry, alarm>>
      BY <2>0, <3>1, <3>2, <3>3, <2>s DEF AnswerInv, AlarmIsReal, Waits
    <3>4. CASE UNCHANGED inbox
      <4>1. AlarmIsReal'
        BY <2>0, <2>2, <3>2 DEF Judge, Written, Real, AnswerInv, AlarmIsReal
      <4> QED
        BY <3>1, <3>2, <3>4, <4>1, <2>q DEF AnswerInv
    <3> QED
      BY <2>2, <3>3, <3>4 DEF Judge, Written, stackVars
  <2>3. CASE ReadTimeout
    <3>1. /\ reply = NoReply /\ reply' = NoReply /\ serving' = Late(serving) /\ alarm' = alarm
      BY <2>3 DEF ReadTimeout
    <3>2. /\ serving'.from # "master" /\ serving'.row = serving.row /\ serving'.value = serving.value
          /\ serving'.from = "nobody" => serving.from = "nobody"
          /\ serving'.from # "nobody" => serving.from # "nobody"
      BY <1>t, <3>1 DEF Late, Works
    <3>3. \A i \in DOMAIN inbox' : inbox'[i].from # "master"
      <4>1. ASSUME NEW i \in From("master"), inbox' = RemoveAt(inbox, i)
            PROVE  \A j \in DOMAIN inbox' : inbox'[j].from # "master"
        <5>1. i \in 1 .. Len(inbox) /\ inbox[i].from = "master"
          BY <1>t DEF From
        <5>2. /\ DOMAIN inbox' = 1 .. Len(inbox) - 1
              /\ \A j \in 1 .. Len(inbox) - 1 : inbox'[j] = inbox[IF j < i THEN j ELSE j + 1]
          BY <1>t, <4>1, <5>1, Removed
        <5>3. ASSUME NEW j \in 1 .. Len(inbox) - 1
              PROVE  \E k \in DOMAIN inbox : k # i /\ inbox'[j] = inbox[k]
          <6> DEFINE k == IF j < i THEN j ELSE j + 1
          <6>1. k \in 1 .. Len(inbox) /\ k # i
            BY <1>t, <5>1
          <6> QED
            BY <1>t, <5>2, <6>1
        <5> QED
          BY <1>t, <5>1, <5>2, <5>3 DEF AnswerInv, AskedInv
      <4>2. ASSUME inbox' = [i \in DOMAIN inbox |-> Late(inbox[i])]
            PROVE  \A j \in DOMAIN inbox' : inbox'[j].from # "master"
        <5>1. \A q \in Requests : Late(q).from # "master"
          BY DEF Late, Requests
        <5> QED
          BY <1>t, <4>2, <5>1
      <4>3. ASSUME From("master") = {}, UNCHANGED inbox
            PROVE  \A j \in DOMAIN inbox' : inbox'[j].from # "master"
        BY <4>3 DEF From
      <4> QED
        BY <2>3, <4>1, <4>2, <4>3 DEF ReadTimeout
    <3>4. ServedInv'
      BY <2>0, <3>2 DEF AnswerInv, ServedInv, Real, AlarmBy, IsRelay, Within
    <3> QED
      BY <2>0, <3>1, <3>3, <3>4 DEF AnswerInv, AskedInv, AnsweredInv, AlarmIsReal
  <2> QED
    <3>1. CASE Poll \/ EndRound
      BY <3>1, <2>1
    <3>2. CASE Judge \/ Written
      BY <3>2, <2>2
    <3> QED
      BY <1>5, <2>3, <3>1, <3>2 DEF Master
<1> QED
  BY <1>1, <1>2, <1>3, <1>4, <1>5 DEF Next, Stack

(* Slave and master end for the alarm, and no late or stale answer raises  *)
(* it: when the master has it, the slave's coil is raised.                 *)
THEOREM AlarmIsTrue == ASSUME LimitsAreHigh PROVE Spec => []AlarmIsSound
<1>1. Init => TypeOK /\ InBounds /\ EndInv /\ AnswerInv
  <2> SUFFICES ASSUME Init PROVE EndInv /\ AnswerInv
    BY InitTypeOK
  <2>1. EndInv
    BY Numbers DEF Init, EndInv, RaisedAtLimit, EndsWithAlarm
  <2>2. serving.from = "nobody" /\ inbox = <<>> /\ reply = NoReply /\ alarm = FALSE
    BY DEF Init, Nothing
  <2> QED
    BY <2>1, <2>2 DEF AnswerInv, AskedInv, ServedInv, AnsweredInv, AlarmIsReal
<1>2. TypeOK /\ InBounds /\ EndInv /\ AnswerInv /\ [Next]_vars
        => TypeOK' /\ InBounds' /\ EndInv' /\ AnswerInv'
  BY NextTypeOK, EndStep, AnswerStep
<1>3. EndInv /\ AnswerInv => AlarmIsSound
  BY DEF EndInv, AnswerInv, AlarmIsSound
<1> QED
  BY <1>1, <1>2, <1>3, PTL DEF Spec

-----------------------------------------------------------------------------
(* How many elements of a queue are in a set, and how the operations of    *)
(* the queues change it.                                                   *)
Spots(s, V) == {i \in DOMAIN s : s[i] \in V}
Hits(s, V)  == Cardinality(Spots(s, V))

LEMMA HitsType ==
  ASSUME NEW S, NEW s \in Seq(S), NEW V
  PROVE  IsFiniteSet(Spots(s, V)) /\ Hits(s, V) \in Nat
<1>1. DOMAIN s = 1 .. Len(s) /\ Len(s) \in Nat
  OBVIOUS
<1>2. IsFiniteSet(1 .. Len(s))
  BY <1>1, FS_Interval
<1>3. Spots(s, V) \in SUBSET (1 .. Len(s))
  BY <1>1 DEF Spots
<1> QED
  BY <1>2, <1>3, FS_Subset, FS_CardinalityType DEF Hits

LEMMA HitsAppend ==
  ASSUME NEW S, NEW s \in Seq(S), NEW e \in S, NEW V
  PROVE  Hits(Append(s, e), V) = Hits(s, V) + One(e \in V)
<1> DEFINE k == Len(s) + 1
<1>1. /\ DOMAIN Append(s, e) = 1 .. k /\ DOMAIN s = 1 .. Len(s) /\ Len(s) \in Nat
      /\ Append(s, e)[k] = e /\ \A i \in 1 .. Len(s) : Append(s, e)[i] = s[i]
  OBVIOUS
<1>2. k \notin Spots(s, V)
  BY <1>1 DEF Spots
<1>3. IsFiniteSet(Spots(s, V)) /\ Hits(s, V) \in Nat
  BY HitsType
<1>4. CASE e \in V
  <2>1. Spots(Append(s, e), V) = Spots(s, V) \cup {k}
    BY <1>1, <1>4 DEF Spots
  <2>2. Cardinality(Spots(s, V) \cup {k}) = Cardinality(Spots(s, V)) + 1
    BY <1>2, <1>3, FS_AddElement
  <2> QED
    BY <1>4, <2>1, <2>2 DEF Hits, One
<1>5. CASE e \notin V
  <2>1. Spots(Append(s, e), V) = Spots(s, V)
    BY <1>1, <1>5 DEF Spots
  <2> QED
    BY <1>3, <1>5, <2>1 DEF Hits, One
<1> QED
  BY <1>4, <1>5

LEMMA HitsTail ==
  ASSUME NEW S, NEW s \in Seq(S), s # <<>>, NEW V
  PROVE  Hits(s, V) = Hits(Tail(s), V) + One(Head(s) \in V)
<1>1. /\ Len(s) \in Nat \ {0} /\ DOMAIN s = 1 .. Len(s) /\ Tail(s) \in Seq(S)
      /\ DOMAIN Tail(s) = 1 .. Len(s) - 1 /\ Head(s) = s[1]
      /\ \A i \in 1 .. Len(s) - 1 : Tail(s)[i] = s[i + 1]
  OBVIOUS
<1> DEFINE A == Spots(Tail(s), V)
           B == Spots(s, V) \ {1}
           f == [i \in A |-> i + 1]
<1>2. f \in Bijection(A, B)
  <2>1. \A i \in A : i \in 1 .. Len(s) - 1 /\ i + 1 \in B
    BY <1>1 DEF Spots
  <2>2. \A j \in B : j - 1 \in A /\ f[j - 1] = j
    <3> SUFFICES ASSUME NEW j \in B PROVE j - 1 \in A /\ f[j - 1] = j
      OBVIOUS
    <3>1. j \in 1 .. Len(s) /\ j # 1 /\ s[j] \in V
      BY <1>1 DEF Spots
    <3>2. j - 1 \in 1 .. Len(s) - 1 /\ (j - 1) + 1 = j
      BY <1>1, <3>1
    <3>3. j - 1 \in A
      BY <1>1, <3>1, <3>2 DEF Spots
    <3> QED
      BY <3>2, <3>3
  <2>3. \A i, j \in A : f[i] = f[j] => i = j
    BY <2>1
  <2>4. f \in [A -> B]
    BY <2>1
  <2> HIDE DEF A, B, f
  <2> QED
    BY <2>2, <2>3, <2>4 DEF Bijection, Injection, Surjection, IsInjective
<1>3. IsFiniteSet(A) /\ IsFiniteSet(Spots(s, V)) /\ Hits(s, V) \in Nat /\ Hits(Tail(s), V) \in Nat
  BY <1>1, HitsType
<1>4. ExistsBijection(A, B)
  BY <1>2 DEF ExistsBijection
<1>5. Cardinality(B) = Cardinality(A)
  BY <1>3, <1>4, FS_Bijection
<1>6. Cardinality(B) = IF 1 \in Spots(s, V) THEN Cardinality(Spots(s, V)) - 1 ELSE Cardinality(Spots(s, V))
  BY <1>3, FS_RemoveElement
<1>7. 1 \in Spots(s, V) <=> Head(s) \in V
  BY <1>1 DEF Spots
<1> QED
  BY <1>3, <1>5, <1>6, <1>7 DEF Hits, One

LEMMA HitsRemoved ==
  ASSUME NEW S, NEW s \in Seq(S), NEW i \in 1 .. Len(s), NEW V
  PROVE  IsFiniteSet(Spots(RemoveAt(s, i), V)) /\ Hits(RemoveAt(s, i), V) <= Hits(s, V)
<1> DEFINE A == Spots(RemoveAt(s, i), V)
           B == Spots(s, V)
           f == [j \in A |-> IF j < i THEN j ELSE j + 1]
<1>0. Len(s) \in Nat /\ DOMAIN s = 1 .. Len(s) /\ i \in Nat /\ i >= 1 /\ i <= Len(s)
  OBVIOUS
<1>1. \A j \in A : j \in 1 .. Len(s) - 1 /\ f[j] \in B
  <2> SUFFICES ASSUME NEW j \in A PROVE j \in 1 .. Len(s) - 1 /\ f[j] \in B
    OBVIOUS
  <2>1. j \in 1 .. Len(s) - 1 /\ s[IF j < i THEN j ELSE j + 1] \in V
    BY Removed DEF Spots
  <2>2. (IF j < i THEN j ELSE j + 1) \in 1 .. Len(s)
    BY <1>0, <2>1
  <2> QED
    BY <1>0, <2>1, <2>2 DEF Spots
<1>2. \A j, k \in A : f[j] = f[k] => j = k
  BY <1>0, <1>1
<1>3. f \in [A -> B]
  BY <1>1
<1>4. f \in Injection(A, B)
  <2> HIDE DEF A, B, f
  <2> QED
    BY <1>2, <1>3 DEF Injection, IsInjective
<1>5. IsFiniteSet(B)
  BY HitsType
<1> QED
  BY <1>4, <1>5, FS_Injection DEF Hits

-----------------------------------------------------------------------------
(* No access is counted twice.  An access to holding_data0 is pending from *)
(* the request to the increment: it is in the inbox, with the stack, in    *)
(* the queue of informations, or with the slave's task.  The register is   *)
(* its first value and one Offset for each of n accesses, and those n and  *)
(* the pending ones are no more than were asked for: one in each round the *)
(* master has ended, one in this round once it has polled the row, one for *)
(* each reset.  A lost access, and a reset of the register, only lower n.  *)
Counted == "HOLD_DATA_0"

Asks == {q \in Requests : q.row = Counted}

Pending ==
  Hits(inbox, Asks) + One(stage # "idle" /\ serving.row = Counted)
    + Hits(infos, {Counted}) + One(spc \in {"load", "store"})

Polled == \E i \in DOMAIN Table : Table[i] = Counted /\ (cid > i \/ (cid = i /\ Waits))

Asked == retry + One(Polled) + resets

Reached(v, pending, asked) ==
  \E n \in Nat : v = StartVal + Offset * n /\ n + pending <= asked

CountInv ==
  /\ Reached(hold, Pending, Asked)
  /\ spc = "store" => Reached(loaded, Pending, Asked)

LEMMA OneType == \A b : One(b) \in {0, 1}
  BY DEF One

LEMMA CountTypes == TypeOK => Pending \in Nat /\ Asked \in Nat
<1> SUFFICES ASSUME TypeOK PROVE Pending \in Nat /\ Asked \in Nat
  OBVIOUS
<1>1. Hits(inbox, Asks) \in Nat /\ Hits(infos, {Counted}) \in Nat
  BY HitsType DEF TypeOK
<1>2. retry \in Nat /\ resets \in Nat
  BY Numbers DEF TypeOK
<1>3. Pending \in Nat
  BY <1>1, OneType DEF Pending, One
<1>4. Asked \in Nat
  BY <1>2, OneType DEF Asked, One
<1> QED
  BY <1>3, <1>4

LEMMA CountTypesNext == (TypeOK => Pending \in Nat /\ Asked \in Nat)'
  BY CountTypes, PTL

(* A value stays reached when no more becomes pending than is asked for.   *)
LEMMA StaysReached ==
  ASSUME NEW v, NEW p \in Nat, NEW a \in Nat, NEW q \in Nat, NEW b \in Nat,
         Reached(v, p, a), q + a <= p + b
  PROVE  Reached(v, q, b)
<1>1. PICK n \in Nat : v = StartVal + Offset * n /\ n + p <= a
  BY DEF Reached
<1>2. n + q <= b
  BY <1>1
<1> QED
  BY <1>1, <1>2 DEF Reached

(* What the whole of a step shows when it changes neither value.           *)
LEMMA CountKept ==
  ASSUME TypeOK, TypeOK', CountInv, UNCHANGED <<hold, loaded>>, spc' = "store" => spc = "store",
         Pending' + Asked <= Pending + Asked'
  PROVE  CountInv'
<1>1. Pending \in Nat /\ Asked \in Nat /\ Pending' \in Nat /\ Asked' \in Nat
  BY CountTypes, CountTypesNext
<1>2. Reached(hold, Pending', Asked')
  BY <1>1, StaysReached DEF CountInv
<1>3. spc = "store" => Reached(loaded, Pending', Asked')
  BY <1>1, StaysReached DEF CountInv
<1> QED
  BY <1>2, <1>3 DEF CountInv, Reached

(* The polls asked for never get fewer, and one is added for the request   *)
(* the master sends for the row.                                           *)
LEMMA AskedSame == UNCHANGED <<masterVars, resets>> => Asked' = Asked
  BY DEF Asked, Polled, Waits, masterVars

LEMMA CidGoesOn ==
  ASSUME TypeOK, UNCHANGED <<retry, resets>>, cid' = cid + 1, mpc' = "poll" \/ mpc' = mpc
  PROVE  Asked <= Asked'
<1>1. cid \in Nat /\ retry \in Nat /\ resets \in Nat
  BY Numbers, TableLength DEF TypeOK
<1>2. Polled => Polled'
  <2> SUFFICES ASSUME Polled PROVE Polled'
    OBVIOUS
  <2>1. PICK i \in DOMAIN Table : Table[i] = Counted /\ (cid > i \/ (cid = i /\ Waits))
    BY DEF Polled
  <2>2. i \in Nat
    BY TableLength, Constants
  <2>3. cid' > i
    BY <1>1, <2>1, <2>2
  <2> QED
    BY <2>1, <2>3 DEF Polled
<1> QED
  BY <1>1, <1>2 DEF Asked, One

LEMMA PollCounts ==
  ASSUME TypeOK, mpc = "poll", mpc' = "read", cid \in DOMAIN Table, UNCHANGED <<cid, retry, resets>>
  PROVE  Asked' = Asked + One(Row = Counted)
<1>1. cid \in Nat /\ retry \in Nat /\ resets \in Nat
  BY Numbers, TableLength DEF TypeOK
<1>2. ~ Waits /\ Waits'
  BY DEF Waits
<1>3. DOMAIN Table \subseteq Nat
  BY Constants
<1>4. CASE Row = Counted
  <2>1. ~ Polled
    <3> SUFFICES ASSUME Polled PROVE FALSE
      OBVIOUS
    <3>1. PICK i \in DOMAIN Table : Table[i] = Counted /\ cid > i
      BY <1>2 DEF Polled
    <3>2. i = cid
      BY <1>4, <3>1, TableAssumption DEF Row
    <3> QED
      BY <1>1, <3>1, <3>2
  <2>2. Polled'
    BY <1>2, <1>4 DEF Polled, Row
  <2> QED
    BY <1>1, <1>4, <2>1, <2>2 DEF Asked, One
<1>5. CASE Row # Counted
  <2>1. Polled' <=> Polled
    BY <1>2, <1>5 DEF Polled, Row
  <2> QED
    BY <1>1, <1>5, <2>1 DEF Asked, One
<1> QED
  BY <1>4, <1>5

(* What becomes pending is weighed against what is asked for.              *)
LEMMA Weighed ==
  ASSUME NEW p \in Nat, NEW a \in Nat, NEW q \in Nat, NEW b \in Nat, NEW n \in Nat,
         q <= p + n, b = a + n
  PROVE  q + a <= p + b
  OBVIOUS

LEMMA NotMore ==
  ASSUME NEW p \in Nat, NEW a \in Nat, NEW q \in Nat, q <= p
  PROVE  q + a <= p + a
  OBVIOUS

LEMMA CountStep ==
  ASSUME TypeOK, TypeOK', InBounds, CountInv, [Next]_vars
  PROVE  CountInv'
<1>a. /\ inbox \in Seq(Requests) /\ inbox' \in Seq(Requests)
      /\ infos \in Seq(Rows) /\ infos' \in Seq(Rows)
  BY DEF TypeOK
<1>b. /\ Hits(inbox, Asks) \in Nat /\ Hits(inbox', Asks) \in Nat
      /\ Hits(infos, {Counted}) \in Nat /\ Hits(infos', {Counted}) \in Nat
  BY <1>a, HitsType
<1>c. Pending \in Nat /\ Asked \in Nat /\ Pending' \in Nat /\ Asked' \in Nat
  BY CountTypes, CountTypesNext
<1>d. /\ Reached(hold, Pending, Asked) /\ (spc = "store" => Reached(loaded, Pending, Asked))
      /\ CountInv' <=> /\ Reached(hold', Pending', Asked')
                       /\ spc' = "store" => Reached(loaded', Pending', Asked')
  BY DEF CountInv, Reached
<1>1. CASE Access
  <2> DEFINE q == Head(inbox)
  <2>1. /\ inbox # <<>> /\ stage = "idle" /\ stage' = "notify" /\ serving'.row = q.row
        /\ inbox' = Tail(inbox) /\ q \in Requests
        /\ UNCHANGED <<infos, spc, loaded, masterVars, resets>> /\ hold' \in {hold, StartVal}
    BY <1>1, <1>a DEF Access, slaveVars
  <2>2. Hits(inbox, Asks) = Hits(inbox', Asks) + One(q \in Asks)
    BY <1>a, <2>1, HitsTail
  <2>3. One(q \in Asks) = One(stage' # "idle" /\ serving'.row = Counted)
    BY <2>1 DEF Asks, One
  <2>4. One(stage # "idle" /\ serving.row = Counted) = 0
    BY <2>1 DEF One
  <2>5. Pending' = Pending
    <3> DEFINE x == One(q \in Asks)
               y == One(spc \in {"load", "store"})
               z == Hits(infos, {Counted})
    <3>1. x \in Nat /\ y \in Nat
      BY OneType
    <3>2. Pending = Hits(inbox, Asks) + 0 + z + y
      BY <2>4 DEF Pending
    <3>3. Pending' = Hits(inbox', Asks) + x + z + y
      BY <2>1, <2>3 DEF Pending
    <3> HIDE DEF x, y, z
    <3> QED
      BY <1>b, <2>2, <3>1, <3>2, <3>3 DEF x, z
  <2>6. Asked' = Asked
    BY <2>1, AskedSame
  <2>7. Reached(StartVal, Pending, Asked)
    <3>1. Pending <= Asked
      BY <1>c, <1>d DEF Reached
    <3> QED
      BY <1>c, <3>1, Numbers DEF Reached
  <2> QED
    BY <1>d, <2>1, <2>5, <2>6, <2>7
<1>2. CASE Notify
  <2>1. /\ stage = "notify" /\ stage' = "inform"
        /\ UNCHANGED <<infos, inbox, serving, hold, spc, loaded, masterVars, resets>>
    BY <1>2 DEF Notify, registers, slaveVars
  <2>2. Pending' = Pending
    BY <2>1 DEF Pending
  <2> QED
    BY <1>c, <2>1, <2>2, AskedSame, CountKept
<1>3. CASE Inform
  <2>1. /\ stage = "inform" /\ stage' = "idle"
        /\ UNCHANGED <<inbox, hold, spc, loaded, masterVars, resets>>
        /\ infos' = infos \/ (infos' = Append(infos, serving.row) /\ serving.row \in Rows)
    BY <1>3 DEF Inform, registers, slaveVars, TypeOK, Works
  <2>2. Hits(infos', {Counted}) <= Hits(infos, {Counted}) + One(serving.row = Counted)
    <3>1. CASE infos' = infos
      BY <1>b, <3>1, OneType DEF One
    <3>2. CASE infos' = Append(infos, serving.row) /\ serving.row \in Rows
      <4>1. Hits(infos', {Counted}) = Hits(infos, {Counted}) + One(serving.row \in {Counted})
        BY <1>a, <3>2, HitsAppend
      <4>2. One(serving.row \in {Counted}) = One(serving.row = Counted)
        BY DEF One
      <4> QED
        BY <1>b, <4>1, <4>2
    <3> QED
      BY <2>1, <3>1, <3>2
  <2>3. /\ One(stage # "idle" /\ serving.row = Counted) = One(serving.row = Counted)
        /\ One(stage' # "idle" /\ serving'.row = Counted) = 0
    BY <2>1 DEF One
  <2>4. Pending' <= Pending
    <3> DEFINE x == One(serving.row = Counted)
               y == One(spc \in {"load", "store"})
               z == Hits(inbox, Asks)
    <3>1. x \in Nat /\ y \in Nat
      BY OneType
    <3>2. Pending = z + x + Hits(infos, {Counted}) + y
      BY <2>3 DEF Pending
    <3>3. Pending' = z + 0 + Hits(infos', {Counted}) + y
      BY <2>1, <2>3 DEF Pending
    <3> HIDE DEF y, z
    <3> QED
      BY <1>b, <2>2, <3>1, <3>2, <3>3 DEF z
  <2>5. Pending' + Asked <= Pending + Asked'
    BY <1>c, <2>1, <2>4, AskedSame, NotMore
  <2> QED
    BY <1>c, <2>1, <2>5, CountKept
<1>4. CASE Reset
  <2> DEFINE q == [from |-> "host", write |-> TRUE, row |-> "HOLD_DATA_0"]
  <2>1. /\ inbox' = Append(inbox, q) /\ resets' = resets + 1
        /\ UNCHANGED <<infos, stage, serving, hold, spc, loaded, masterVars>>
    BY <1>4 DEF Reset, registers, slaveVars
  <2>2. q \in Requests
    BY DEF Requests, Froms, Rows
  <2>3. Hits(inbox', Asks) = Hits(inbox, Asks) + One(q \in Asks)
    BY <1>a, <2>1, <2>2, HitsAppend
  <2>4. Pending' <= Pending + 1
    <3> DEFINE x == One(stage # "idle" /\ serving.row = Counted)
               y == One(spc \in {"load", "store"})
    <3>1. x \in Nat /\ y \in Nat /\ One(q \in Asks) <= 1 /\ One(q \in Asks) \in Nat
      BY OneType DEF One
    <3>2. Pending = Hits(inbox, Asks) + x + Hits(infos, {Counted}) + y
      BY DEF Pending
    <3>3. Pending' = Hits(inbox', Asks) + x + Hits(infos, {Counted}) + y
      BY <2>1 DEF Pending
    <3> HIDE DEF x, y, q
    <3> QED
      BY <1>b, <2>3, <3>1, <3>2, <3>3
  <2>5. Asked' = Asked + 1
    <3>1. Polled' = Polled /\ retry' = retry
      BY <2>1 DEF Polled, Waits, masterVars
    <3>2. One(Polled) \in Nat /\ retry \in Nat /\ resets \in Nat
      BY SMTT(60), Numbers, OneType DEF TypeOK
    <3> QED
      BY <2>1, <3>1, <3>2 DEF Asked
  <2>6. Pending' + Asked <= Pending + Asked'
    BY <1>c, <2>4, <2>5, Weighed
  <2> QED
    BY <1>c, <2>1, <2>6, CountKept
<1>5. CASE Slave
  <2>0. UNCHANGED <<masterVars, resets, inbox, serving, stage>>
    BY <1>5 DEF Slave, LoopHead, CheckEvent, GetInfo, InfoTimeout, Load, Store, SlaveDestroy, stackVars
  <2>1. Asked' = Asked
    BY <2>0, AskedSame
  <2>p. /\ One(stage # "idle" /\ serving.row = Counted) \in Nat
        /\ One(stage' # "idle" /\ serving'.row = Counted) = One(stage # "idle" /\ serving.row = Counted)
        /\ Hits(inbox', Asks) = Hits(inbox, Asks)
    BY <2>0, OneType
  <2>2. CASE LoopHead \/ CheckEvent \/ InfoTimeout \/ SlaveDestroy
    <3>1. /\ UNCHANGED <<infos, hold, loaded>> /\ spc' # "store"
          /\ spc \notin {"load", "store"} /\ spc' \notin {"load", "store"}
      BY <2>2 DEF LoopHead, CheckEvent, InfoTimeout, SlaveDestroy, SlaveGoes, stackVars, registers
    <3>2. Pending' = Pending
      BY <2>0, <3>1 DEF Pending, One
    <3> QED
      BY <1>c, <2>1, <3>1, <3>2, CountKept
  <2>3. CASE GetInfo
    <3>1. /\ infos # <<>> /\ infos' = Tail(infos) /\ UNCHANGED <<hold, loaded>>
          /\ spc = "info" /\ spc' # "store" /\ (spc' = "load" => Head(infos) = Counted)
      BY <2>3 DEF GetInfo, SlaveGoes, AfterInfo, registers, Counted
    <3>2. Hits(infos, {Counted}) = Hits(infos', {Counted}) + One(Head(infos) \in {Counted})
      BY <1>a, <3>1, HitsTail
    <3>3. /\ One(spc' \in {"load", "store"}) <= One(Head(infos) \in {Counted})
          /\ One(spc \in {"load", "store"}) = 0
      BY <3>1 DEF One
    <3>4. Pending' <= Pending
      <4> DEFINE x == One(stage # "idle" /\ serving.row = Counted)
                 y == One(spc' \in {"load", "store"})
                 z == One(Head(infos) \in {Counted})
      <4>1. x \in Nat /\ y \in Nat /\ z \in Nat
        BY OneType
      <4>2. Pending = Hits(inbox, Asks) + x + Hits(infos, {Counted}) + 0
        BY <3>3 DEF Pending
      <4>3. Pending' = Hits(inbox, Asks) + x + Hits(infos', {Counted}) + y
        BY <2>p DEF Pending
      <4>4. y <= z /\ Hits(infos, {Counted}) = Hits(infos', {Counted}) + z
        BY <3>2, <3>3
      <4> HIDE DEF x, y, z
      <4> QED
        BY <1>b, <4>1, <4>2, <4>3, <4>4
    <3>5. Pending' + Asked <= Pending + Asked'
      BY <1>c, <2>1, <3>4, NotMore
    <3> QED
      BY <1>c, <3>1, <3>5, CountKept
  <2>4. CASE Load
    <3>1. loaded' = hold /\ spc = "load" /\ spc' = "store" /\ UNCHANGED <<hold, infos>>
      BY <2>4 DEF Load, SlaveGoes, registers, stackVars
    <3>2. Pending' = Pending
      BY <2>0, <3>1 DEF Pending, One
    <3> QED
      BY <1>d, <2>1, <3>1, <3>2
  <2>5. CASE Store
    <3>1. spc = "store" /\ spc' = "head" /\ hold' = loaded + Offset /\ UNCHANGED infos
      BY <2>5 DEF Store, SlaveGoes, stackVars
    <3>2. /\ One(spc' \in {"load", "store"}) = 0
          /\ One(spc \in {"load", "store"}) = 1
      BY <3>1 DEF One
    <3>3. Pending' = Pending - 1
      BY <1>b, <2>p, <3>1, <3>2 DEF Pending
    <3>4. PICK n \in Nat : loaded = StartVal + Offset * n /\ n + Pending <= Asked
      BY <1>d, <3>1 DEF Reached
    <3>5. hold' = StartVal + Offset * (n + 1) /\ (n + 1) + Pending' <= Asked'
      BY <1>c, <2>1, <3>1, <3>3, <3>4, Numbers
    <3>6. Reached(hold', Pending', Asked')
      BY <3>5 DEF Reached
    <3> QED
      BY <1>d, <3>1, <3>6
  <2> QED
    BY <1>5, <2>2, <2>3, <2>4, <2>5 DEF Slave
<1>6. CASE Master
  <2>0. UNCHANGED <<hold, loaded, spc, infos, stage, resets>>
    BY <1>6 DEF Master, Poll, Judge, Written, ReadTimeout, EndRound, registers, slaveVars, stackVars
  <2>1. serving'.row = serving.row
    <3>1. serving' = serving \/ serving' = Late(serving)
      BY <1>6 DEF Master, Poll, Judge, Written, ReadTimeout, EndRound, stackVars
    <3>2. serving \in Works
      BY DEF TypeOK
    <3>3. Late(serving).row = serving.row
      BY <3>2 DEF Late, Works
    <3> QED
      BY <3>1, <3>3
  <2>2. Pending' = Pending + (Hits(inbox', Asks) - Hits(inbox, Asks))
    <3> DEFINE x == One(stage # "idle" /\ serving.row = Counted)
               y == One(spc \in {"load", "store"})
    <3>1. x \in Nat /\ y \in Nat
      BY OneType
    <3>2. Pending = Hits(inbox, Asks) + x + Hits(infos, {Counted}) + y
      BY DEF Pending
    <3>3. Pending' = Hits(inbox', Asks) + x + Hits(infos, {Counted}) + y
      BY <2>0, <2>1 DEF Pending
    <3> HIDE DEF x, y
    <3> QED
      BY <1>b, <3>1, <3>2, <3>3
  <2>s. ASSUME cid \in DOMAIN Table, NEW w \in BOOLEAN, Send(w)
        PROVE  Hits(inbox', Asks) = Hits(inbox, Asks) + One(Row = Counted)
    <3> DEFINE q == [from |-> "master", write |-> w, row |-> Row]
    <3>1. q \in Requests /\ inbox' = Append(inbox, q)
      BY <2>s, Constants DEF Send, Requests, Froms, Row
    <3>2. Hits(inbox', Asks) = Hits(inbox, Asks) + One(q \in Asks)
      BY <1>a, <3>1, HitsAppend
    <3>3. One(q \in Asks) = One(Row = Counted)
      BY <3>1 DEF Asks, One
    <3> QED
      BY <3>2, <3>3
  <2>r. cid \in Nat /\ retry \in Nat /\ resets \in Nat /\ DOMAIN Table = 1 .. Len(Table)
    BY Numbers, TableLength, Constants DEF TypeOK
  <2>3. CASE Poll
    <3>1. mpc = "poll" /\ cid \in DOMAIN Table /\ UNCHANGED retry
      BY <2>3, <2>r, TableLength DEF Poll, InRound, TypeOK
    <3>2. CASE Send(FALSE) /\ mpc' = "read" /\ UNCHANGED <<cid, err>>
      <4>1. Asked' = Asked + One(Row = Counted)
        BY <2>0, <3>1, <3>2, PollCounts
      <4>2. Hits(inbox', Asks) = Hits(inbox, Asks) + One(Row = Counted)
        BY <3>1, <3>2, <2>s
      <4>3. One(Row = Counted) \in Nat
        BY OneType
      <4>4. Pending' + Asked <= Pending + Asked'
        BY <1>b, <1>c, <2>2, <4>1, <4>2, <4>3
      <4> QED
        BY <2>0, <4>4, CountKept
    <3>3. CASE cid' = cid + 1 /\ UNCHANGED <<mpc, inbox>>
      <4>1. Asked <= Asked'
        BY <2>0, <3>1, <3>3, CidGoesOn
      <4>2. Pending' + Asked <= Pending + Asked'
        BY <1>b, <1>c, <2>2, <3>3, <4>1
      <4> QED
        BY <2>0, <4>2, CountKept
    <3> QED
      BY <2>3, <3>2, <3>3 DEF Poll
  <2>4. CASE Judge
    <3>1. mpc = "read" /\ cid \in DOMAIN Table
      BY <2>4, <2>r, TableLength DEF Judge, TypeOK, InBounds
    <3>2. CASE Row = "HOLD_TEST_REG" /\ Send(TRUE) /\ mpc' = "write" /\ UNCHANGED <<cid, retry, alarm>>
      <4>1. Asked' = Asked
        BY <2>0, <3>1, <3>2 DEF Asked, Polled, Waits
      <4>2. One(Row = Counted) = 0
        BY <3>2 DEF One, Counted
      <4>3. Hits(inbox', Asks) = Hits(inbox, Asks) + 0
        BY <3>1, <3>2, <4>2, <2>s
      <4>4. Pending' + Asked <= Pending + Asked'
        BY <1>b, <1>c, <2>2, <4>1, <4>3
      <4> QED
        BY <2>0, <4>4, CountKept
    <3>3. CASE retry' = retry + 1 /\ UNCHANGED <<cid, inbox>>
      <4>1. Asked <= Asked'
        BY <2>0, <2>r, <3>3, OneType DEF Asked, One
      <4>2. Pending' + Asked <= Pending + Asked'
        BY <1>b, <1>c, <2>2, <3>3, <4>1
      <4> QED
        BY <2>0, <4>2, CountKept
    <3>4. CASE cid' = cid + 1 /\ mpc' = "poll" /\ UNCHANGED <<retry, inbox>>
      <4>1. Asked <= Asked'
        BY <2>0, <3>4, CidGoesOn
      <4>2. Pending' + Asked <= Pending + Asked'
        BY <1>b, <1>c, <2>2, <3>4, <4>1
      <4> QED
        BY <2>0, <4>2, CountKept
    <3> QED
      BY <2>4, <3>2, <3>3, <3>4 DEF Judge
  <2>5. CASE Written
    <3>1. cid' = cid + 1 /\ mpc' = "poll" /\ UNCHANGED <<retry, inbox>>
      BY <2>5 DEF Written, stackVars
    <3>2. Asked <= Asked'
      BY <2>0, <3>1, CidGoesOn
    <3>3. Pending' + Asked <= Pending + Asked'
      BY <1>b, <1>c, <2>2, <3>1, <3>2
    <3> QED
      BY <2>0, <3>3, CountKept
  <2>6. CASE ReadTimeout
    <3>1. cid' = cid + 1 /\ mpc' = "poll" /\ UNCHANGED retry
      BY <2>6 DEF ReadTimeout
    <3>2. Asked <= Asked'
      BY <2>0, <3>1, CidGoesOn
    <3>3. Hits(inbox', Asks) <= Hits(inbox, Asks)
      <4>1. ASSUME NEW i \in From("master"), inbox' = RemoveAt(inbox, i)
            PROVE  Hits(inbox', Asks) <= Hits(inbox, Asks)
        <5>1. i \in 1 .. Len(inbox)
          BY <1>a DEF From
        <5> QED
          BY <1>a, <4>1, <5>1, HitsRemoved
      <4>2. ASSUME inbox' = [i \in DOMAIN inbox |-> Late(inbox[i])]
            PROVE  Hits(inbox', Asks) <= Hits(inbox, Asks)
        <5>1. \A q \in Requests : Late(q) \in Asks <=> q \in Asks
          <6>1. \A q \in Requests : Late(q).row = q.row
            BY DEF Late, Requests
          <6> QED
            BY <6>1, LateType DEF Asks
        <5>2. DOMAIN inbox' = DOMAIN inbox /\ \A i \in DOMAIN inbox : inbox[i] \in Requests
          BY <1>a, <4>2
        <5>3. Spots(inbox', Asks) = Spots(inbox, Asks)
          BY <4>2, <5>1, <5>2 DEF Spots
        <5> QED
          BY <1>b, <5>3 DEF Hits
      <4>3. ASSUME UNCHANGED inbox PROVE Hits(inbox', Asks) <= Hits(inbox, Asks)
        BY <1>b, <4>3
      <4> QED
        BY <2>6, <4>1, <4>2, <4>3 DEF ReadTimeout
    <3>4. Pending' + Asked <= Pending + Asked'
      BY <1>b, <1>c, <2>2, <3>2, <3>3
    <3> QED
      BY <2>0, <3>4, CountKept
  <2>7. CASE EndRound
    <3>1. retry' = retry + 1 /\ UNCHANGED inbox
      BY <2>7 DEF EndRound, stackVars
    <3>2. Asked <= Asked'
      BY <2>0, <2>r, <3>1, OneType DEF Asked, One
    <3>3. Pending' + Asked <= Pending + Asked'
      BY <1>b, <1>c, <2>2, <3>1, <3>2
    <3> QED
      BY <2>0, <3>3, CountKept
  <2> QED
    BY <1>6, <2>3, <2>4, <2>5, <2>6, <2>7 DEF Master
<1>7. CASE UNCHANGED vars
  <2>1. UNCHANGED <<hold, loaded, spc, infos, inbox, stage, serving, masterVars, resets>>
    BY <1>7 DEF vars, registers, stackVars, slaveVars
  <2>2. Pending' = Pending
    BY <2>1 DEF Pending
  <2> QED
    BY <1>c, <2>1, <2>2, AskedSame, CountKept
<1> QED
  BY <1>1, <1>2, <1>3, <1>4, <1>5, <1>6, <1>7 DEF Next, Stack

(* No access is counted twice, whatever was late, lost or merged: the      *)
(* counter is at most one step per round and per reset above its start.    *)
THEOREM NothingCountsTwice == Spec => []CountsAccesses
<1>1. Init => CountInv
  <2> SUFFICES ASSUME Init PROVE CountInv
    OBVIOUS
  <2>1. Spots(inbox, Asks) = {} /\ Spots(infos, {Counted}) = {}
    BY DEF Init, Spots
  <2>2. Hits(inbox, Asks) = 0 /\ Hits(infos, {Counted}) = 0
    BY <2>1, FS_EmptySet DEF Hits
  <2>3. Pending = 0
    BY <2>2 DEF Init, Pending, One
  <2>4. Asked \in Nat
    BY CountTypes, InitTypeOK
  <2>5. hold = StartVal + Offset * 0 /\ 0 + Pending <= Asked
    BY <2>3, <2>4, Numbers DEF Init
  <2> QED
    BY <2>5 DEF CountInv, Reached, Init
<1>2. TypeOK /\ InBounds /\ CountInv /\ [Next]_vars => TypeOK' /\ InBounds' /\ CountInv'
  BY NextTypeOK, CountStep
<1>3. TypeOK /\ CountInv => CountsAccesses
  <2> SUFFICES ASSUME TypeOK, CountInv PROVE CountsAccesses
    OBVIOUS
  <2>1. PICK n \in Nat : hold = StartVal + Offset * n /\ n + Pending <= Asked
    BY DEF CountInv, Reached
  <2>2. retry \in Nat /\ resets \in Nat /\ Pending \in Nat
    BY CountTypes, Numbers DEF TypeOK
  <2>3. Asked <= retry + 1 + resets
    BY <2>2, OneType DEF Asked, One
  <2>4. n <= retry + 1 + resets
    BY <2>1, <2>2, <2>3, CountTypes
  <2> DEFINE d == retry + 1 + resets - n
  <2>5. d \in Nat /\ retry + 1 + resets = n + d
    BY <2>2, <2>4
  <2>6. Offset * (n + d) = Offset * n + Offset * d /\ Offset * d \in Nat /\ Offset * n \in Nat
    BY <2>5, Numbers
  <2> QED
    BY <2>1, <2>5, <2>6, Numbers DEF CountsAccesses
<1> QED
  BY <1>1, <1>2, <1>3, InitTypeOK, PTL DEF Spec


-----------------------------------------------------------------------------
(* ModbusService: what a run does, program by program.                     *)
Names == {"nvs", "netif", "loop", "mdns", "net", "ps", "stack", "setup", "descriptors", "started",
          "pins", "mode", "query", "ask", "operate", "destroy_list"}
RunSteps == {"up", "down", "do"} \X Names

(* The sequence u is s followed by t.                                      *)
Joins(s, t, u) ==
  /\ s \in Seq(RunSteps) /\ t \in Seq(RunSteps) /\ u \in Seq(RunSteps) /\ Len(u) = Len(s) + Len(t)
  /\ \A k \in 1 .. Len(s) : u[k] = s[k]
  /\ \A k \in 1 .. Len(t) : u[Len(s) + k] = t[k]

LEMMA JoinedIs == ASSUME NEW s, NEW t, NEW u, Joins(s, t, u) PROVE s \o t = u
<1>1. /\ s \o t \in Seq(RunSteps) /\ Len(s \o t) = Len(s) + Len(t) /\ Len(s) \in Nat /\ Len(t) \in Nat
      /\ \A k \in 1 .. Len(s) + Len(t) : (s \o t)[k] = IF k <= Len(s) THEN s[k] ELSE t[k - Len(s)]
  BY ConcatProperties DEF Joins
<1>2. \A k \in 1 .. Len(s) + Len(t) : u[k] = IF k <= Len(s) THEN s[k] ELSE t[k - Len(s)]
  <2> SUFFICES ASSUME NEW k \in 1 .. Len(s) + Len(t), ~(k <= Len(s)) PROVE u[k] = t[k - Len(s)]
    BY <1>1 DEF Joins
  <2>1. k - Len(s) \in 1 .. Len(t) /\ Len(s) + (k - Len(s)) = k
    BY <1>1
  <2>2. u[Len(s) + (k - Len(s))] = t[k - Len(s)]
    BY <2>1 DEF Joins
  <2> QED
    BY <2>1, <2>2
<1> QED
  BY <1>1, <1>2, SeqEqual DEF Joins

BringsUp(s) == <<"up", s>>
TakesDown(s) == <<"down", s>>
Does(s) == <<"do", s>>

LEMMA StepsAre ==
  /\ BringsUp("nvs") \in RunSteps /\ BringsUp("netif") \in RunSteps
  /\ BringsUp("loop") \in RunSteps /\ BringsUp("mdns") \in RunSteps
  /\ BringsUp("net") \in RunSteps /\ BringsUp("ps") \in RunSteps
  /\ BringsUp("stack") \in RunSteps /\ BringsUp("setup") \in RunSteps
  /\ BringsUp("descriptors") \in RunSteps /\ BringsUp("started") \in RunSteps
  /\ BringsUp("pins") \in RunSteps /\ BringsUp("mode") \in RunSteps
  /\ TakesDown("stack") \in RunSteps /\ TakesDown("mdns") \in RunSteps
  /\ TakesDown("net") \in RunSteps /\ TakesDown("loop") \in RunSteps
  /\ TakesDown("netif") \in RunSteps /\ TakesDown("nvs") \in RunSteps
  /\ Does("query") \in RunSteps /\ Does("ask") \in RunSteps
  /\ Does("operate") \in RunSteps /\ Does("destroy_list") \in RunSteps
  BY DEF Names, RunSteps, BringsUp, TakesDown, Does

(* The concatenations of ModbusService, written out.                       *)
LEMMA OperationIs ==
  Services!Operation =
    << Does("operate"), TakesDown("stack") >>
<1>1. /\ Services!Do("operate") = << Does("operate") >>
      /\ Services!Down(<<"stack">>) = << TakesDown("stack") >>
  BY DEF Services!Up, Services!Do, Services!Down, BringsUp, TakesDown, Does
<1>2. /\ Does("operate") \in RunSteps /\ TakesDown("stack") \in RunSteps
  BY StepsAre
<1>3. \A k \in 1 .. 1 : (k = 1 /\ 1 + k = 2)
  OBVIOUS
<1>4. Joins(<< Does("operate") >>,
          << TakesDown("stack") >>,
          << Does("operate"), TakesDown("stack") >>)
  BY <1>2, <1>3 DEF Joins
<1>5. << Does("operate") >>
        \o << TakesDown("stack") >>
      =
      << Does("operate"), TakesDown("stack") >>
  BY <1>4, JoinedIs
<1>6. (Services!Do("operate")
         \o Services!Down(<<"stack">>))
        =
        << Does("operate"), TakesDown("stack") >>
  BY <1>1, <1>5
<1> QED
  BY <1>6 DEF Services!Operation

LEMMA MdnsInit ==
  ASSUME resolver = "mdns"
  PROVE  Services!InitServices =
         << BringsUp("nvs"), BringsUp("netif"), BringsUp("loop"), BringsUp("mdns"),
            BringsUp("net"), BringsUp("ps"), Does("query"), TakesDown("mdns") >>
<1>1. /\ Services!Up(<<"nvs", "netif", "loop">>)
        = << BringsUp("nvs"), BringsUp("netif"), BringsUp("loop") >>
      /\ Services!Up(<<"net", "ps">>) = << BringsUp("net"), BringsUp("ps") >>
      /\ Services!Up(<<"mdns">>) = << BringsUp("mdns") >>
      /\ Services!Do("query") = << Does("query") >>
      /\ Services!Down(<<"mdns">>) = << TakesDown("mdns") >>
  BY DEF Services!Up, Services!Do, Services!Down, BringsUp, TakesDown, Does
<1>2. /\ BringsUp("nvs") \in RunSteps /\ BringsUp("netif") \in RunSteps
      /\ BringsUp("loop") \in RunSteps /\ BringsUp("mdns") \in RunSteps
  BY StepsAre
<1>3. \A k \in 1 .. 1 : (k = 1 /\ 3 + k = 4)
  OBVIOUS
<1>4. Joins(<< BringsUp("nvs"), BringsUp("netif"), BringsUp("loop") >>,
          << BringsUp("mdns") >>,
          << BringsUp("nvs"), BringsUp("netif"), BringsUp("loop"), BringsUp("mdns") >>)
  BY <1>2, <1>3 DEF Joins
<1>5. << BringsUp("nvs"), BringsUp("netif"), BringsUp("loop") >>
        \o << BringsUp("mdns") >>
      =
      << BringsUp("nvs"), BringsUp("netif"), BringsUp("loop"), BringsUp("mdns") >>
  BY <1>4, JoinedIs
<1>6. (Services!Up(<<"nvs", "netif", "loop">>)
         \o Services!Up(<<"mdns">>))
        =
        << BringsUp("nvs"), BringsUp("netif"), BringsUp("loop"), BringsUp("mdns") >>
  BY <1>1, <1>5
<1>7. /\ BringsUp("nvs") \in RunSteps /\ BringsUp("netif") \in RunSteps
      /\ BringsUp("loop") \in RunSteps /\ BringsUp("mdns") \in RunSteps
      /\ BringsUp("net") \in RunSteps /\ BringsUp("ps") \in RunSteps
  BY StepsAre
<1>8. \A k \in 1 .. 2 : (k = 1 /\ 4 + k = 5) \/ (k = 2 /\ 4 + k = 6)
  OBVIOUS
<1>9. Joins(<< BringsUp("nvs"), BringsUp("netif"), BringsUp("loop"), BringsUp("mdns") >>,
          << BringsUp("net"), BringsUp("ps") >>,
          << BringsUp("nvs"), BringsUp("netif"), BringsUp("loop"), BringsUp("mdns"),
             BringsUp("net"), BringsUp("ps") >>)
  BY <1>7, <1>8 DEF Joins
<1>10. << BringsUp("nvs"), BringsUp("netif"), BringsUp("loop"), BringsUp("mdns") >>
        \o << BringsUp("net"), BringsUp("ps") >>
      =
      << BringsUp("nvs"), BringsUp("netif"), BringsUp("loop"), BringsUp("mdns"),
         BringsUp("net"), BringsUp("ps") >>
  BY <1>9, JoinedIs
<1>11. ((Services!Up(<<"nvs", "netif", "loop">>)
         \o Services!Up(<<"mdns">>))
         \o Services!Up(<<"net", "ps">>))
        =
        << BringsUp("nvs"), BringsUp("netif"), BringsUp("loop"), BringsUp("mdns"),
           BringsUp("net"), BringsUp("ps") >>
  BY <1>6, <1>1, <1>10
<1>12. /\ Does("query") \in RunSteps /\ TakesDown("mdns") \in RunSteps
  BY StepsAre
<1>13. \A k \in 1 .. 1 : (k = 1 /\ 1 + k = 2)
  OBVIOUS
<1>14. Joins(<< Does("query") >>,
          << TakesDown("mdns") >>,
          << Does("query"), TakesDown("mdns") >>)
  BY <1>12, <1>13 DEF Joins
<1>15. << Does("query") >>
        \o << TakesDown("mdns") >>
      =
      << Does("query"), TakesDown("mdns") >>
  BY <1>14, JoinedIs
<1>16. (Services!Do("query")
         \o Services!Down(<<"mdns">>))
        =
        << Does("query"), TakesDown("mdns") >>
  BY <1>1, <1>15
<1>17. /\ BringsUp("nvs") \in RunSteps /\ BringsUp("netif") \in RunSteps
      /\ BringsUp("loop") \in RunSteps /\ BringsUp("mdns") \in RunSteps
      /\ BringsUp("net") \in RunSteps /\ BringsUp("ps") \in RunSteps
      /\ Does("query") \in RunSteps /\ TakesDown("mdns") \in RunSteps
  BY StepsAre
<1>18. \A k \in 1 .. 2 : (k = 1 /\ 6 + k = 7) \/ (k = 2 /\ 6 + k = 8)
  OBVIOUS
<1>19. Joins(<< BringsUp("nvs"), BringsUp("netif"), BringsUp("loop"), BringsUp("mdns"),
         BringsUp("net"), BringsUp("ps") >>,
          << Does("query"), TakesDown("mdns") >>,
          << BringsUp("nvs"), BringsUp("netif"), BringsUp("loop"), BringsUp("mdns"),
             BringsUp("net"), BringsUp("ps"), Does("query"), TakesDown("mdns") >>)
  BY <1>17, <1>18 DEF Joins
<1>20. << BringsUp("nvs"), BringsUp("netif"), BringsUp("loop"), BringsUp("mdns"),
         BringsUp("net"), BringsUp("ps") >>
        \o << Does("query"), TakesDown("mdns") >>
      =
      << BringsUp("nvs"), BringsUp("netif"), BringsUp("loop"), BringsUp("mdns"),
         BringsUp("net"), BringsUp("ps"), Does("query"), TakesDown("mdns") >>
  BY <1>19, JoinedIs
<1>21. (((Services!Up(<<"nvs", "netif", "loop">>)
         \o Services!Up(<<"mdns">>))
         \o Services!Up(<<"net", "ps">>))
         \o (Services!Do("query")
         \o Services!Down(<<"mdns">>)))
        =
        << BringsUp("nvs"), BringsUp("netif"), BringsUp("loop"), BringsUp("mdns"),
           BringsUp("net"), BringsUp("ps"), Does("query"), TakesDown("mdns") >>
  BY <1>11, <1>16, <1>20
<1> QED
  BY <1>21 DEF Services!InitServices

LEMMA StdinInit ==
  ASSUME resolver # "mdns"
  PROVE  Services!InitServices =
         << BringsUp("nvs"), BringsUp("netif"), BringsUp("loop"), BringsUp("net"),
            BringsUp("ps"), Does("ask") >>
<1>1. /\ Services!Up(<<"nvs", "netif", "loop">>)
        = << BringsUp("nvs"), BringsUp("netif"), BringsUp("loop") >>
      /\ Services!Up(<<"net", "ps">>) = << BringsUp("net"), BringsUp("ps") >>
      /\ Services!Do("ask") = << Does("ask") >>
  BY DEF Services!Up, Services!Do, Services!Down, BringsUp, TakesDown, Does
<1>2. /\ BringsUp("nvs") \in RunSteps /\ BringsUp("netif") \in RunSteps
      /\ BringsUp("loop") \in RunSteps
  BY StepsAre
<1>3. << BringsUp("nvs"), BringsUp("netif"), BringsUp("loop") >> \in Seq(RunSteps)
  BY <1>2
<1>4. (Services!Up(<<"nvs", "netif", "loop">>) \o <<>>)
        =
        << BringsUp("nvs"), BringsUp("netif"), BringsUp("loop") >>
  BY <1>3, <1>1, ConcatEmptySeq
<1>5. /\ BringsUp("nvs") \in RunSteps /\ BringsUp("netif") \in RunSteps
      /\ BringsUp("loop") \in RunSteps /\ BringsUp("net") \in RunSteps
      /\ BringsUp("ps") \in RunSteps
  BY StepsAre
<1>6. \A k \in 1 .. 2 : (k = 1 /\ 3 + k = 4) \/ (k = 2 /\ 3 + k = 5)
  OBVIOUS
<1>7. Joins(<< BringsUp("nvs"), BringsUp("netif"), BringsUp("loop") >>,
          << BringsUp("net"), BringsUp("ps") >>,
          << BringsUp("nvs"), BringsUp("netif"), BringsUp("loop"), BringsUp("net"),
             BringsUp("ps") >>)
  BY <1>5, <1>6 DEF Joins
<1>8. << BringsUp("nvs"), BringsUp("netif"), BringsUp("loop") >>
        \o << BringsUp("net"), BringsUp("ps") >>
      =
      << BringsUp("nvs"), BringsUp("netif"), BringsUp("loop"), BringsUp("net"), BringsUp("ps") >>
  BY <1>7, JoinedIs
<1>9. ((Services!Up(<<"nvs", "netif", "loop">>) \o <<>>)
         \o Services!Up(<<"net", "ps">>))
        =
        << BringsUp("nvs"), BringsUp("netif"), BringsUp("loop"), BringsUp("net"), BringsUp("ps") >>
  BY <1>4, <1>1, <1>8
<1>10. /\ BringsUp("nvs") \in RunSteps /\ BringsUp("netif") \in RunSteps
      /\ BringsUp("loop") \in RunSteps /\ BringsUp("net") \in RunSteps
      /\ BringsUp("ps") \in RunSteps /\ Does("ask") \in RunSteps
  BY StepsAre
<1>11. \A k \in 1 .. 1 : (k = 1 /\ 5 + k = 6)
  OBVIOUS
<1>12. Joins(<< BringsUp("nvs"), BringsUp("netif"), BringsUp("loop"), BringsUp("net"),
                BringsUp("ps") >>,
          << Does("ask") >>,
          << BringsUp("nvs"), BringsUp("netif"), BringsUp("loop"), BringsUp("net"),
             BringsUp("ps"), Does("ask") >>)
  BY <1>10, <1>11 DEF Joins
<1>13. << BringsUp("nvs"), BringsUp("netif"), BringsUp("loop"), BringsUp("net"), BringsUp("ps") >>
        \o << Does("ask") >>
      =
      << BringsUp("nvs"), BringsUp("netif"), BringsUp("loop"), BringsUp("net"), BringsUp("ps"),
         Does("ask") >>
  BY <1>12, JoinedIs
<1>14. (((Services!Up(<<"nvs", "netif", "loop">>) \o <<>>)
         \o Services!Up(<<"net", "ps">>))
         \o Services!Do("ask"))
        =
        << BringsUp("nvs"), BringsUp("netif"), BringsUp("loop"), BringsUp("net"),
           BringsUp("ps"), Does("ask") >>
  BY <1>9, <1>1, <1>13
<1> QED
  BY <1>14 DEF Services!InitServices

LEMMA MdnsDestroy ==
  ASSUME resolver = "mdns"
  PROVE  Services!DestroyServices =
         << Does("destroy_list"), TakesDown("net"), TakesDown("loop"), TakesDown("netif"),
            TakesDown("nvs"), TakesDown("mdns") >>
<1>1. /\ Services!Do("destroy_list") = << Does("destroy_list") >>
      /\ Services!Down(<<"net", "loop", "netif", "nvs">>)
              = << TakesDown("net"), TakesDown("loop"), TakesDown("netif"), TakesDown("nvs") >>
      /\ Services!Down(<<"mdns">>) = << TakesDown("mdns") >>
  BY DEF Services!Up, Services!Do, Services!Down, BringsUp, TakesDown, Does
<1>2. /\ Does("destroy_list") \in RunSteps /\ TakesDown("net") \in RunSteps
      /\ TakesDown("loop") \in RunSteps /\ TakesDown("netif") \in RunSteps
      /\ TakesDown("nvs") \in RunSteps
  BY StepsAre
<1>3. \A k \in 1 .. 4 :
        (k = 1 /\ 1 + k = 2) \/ (k = 2 /\ 1 + k = 3) \/ (k = 3 /\ 1 + k = 4) \/
        (k = 4 /\ 1 + k = 5)
  OBVIOUS
<1>4. Joins(<< Does("destroy_list") >>,
          << TakesDown("net"), TakesDown("loop"), TakesDown("netif"), TakesDown("nvs") >>,
          << Does("destroy_list"), TakesDown("net"), TakesDown("loop"), TakesDown("netif"),
             TakesDown("nvs") >>)
  BY <1>2, <1>3 DEF Joins
<1>5. << Does("destroy_list") >>
        \o << TakesDown("net"), TakesDown("loop"), TakesDown("netif"), TakesDown("nvs") >>
      =
      << Does("destroy_list"), TakesDown("net"), TakesDown("loop"), TakesDown("netif"),
         TakesDown("nvs") >>
  BY <1>4, JoinedIs
<1>6. (Services!Do("destroy_list")
         \o Services!Down(<<"net", "loop", "netif", "nvs">>))
        =
        << Does("destroy_list"), TakesDown("net"), TakesDown("loop"), TakesDown("netif"),
           TakesDown("nvs") >>
  BY <1>1, <1>5
<1>7. /\ Does("destroy_list") \in RunSteps /\ TakesDown("net") \in RunSteps
      /\ TakesDown("loop") \in RunSteps /\ TakesDown("netif") \in RunSteps
      /\ TakesDown("nvs") \in RunSteps /\ TakesDown("mdns") \in RunSteps
  BY StepsAre
<1>8. \A k \in 1 .. 1 : (k = 1 /\ 5 + k = 6)
  OBVIOUS
<1>9. Joins(<< Does("destroy_list"), TakesDown("net"), TakesDown("loop"), TakesDown("netif"),
         TakesDown("nvs") >>,
          << TakesDown("mdns") >>,
          << Does("destroy_list"), TakesDown("net"), TakesDown("loop"), TakesDown("netif"),
             TakesDown("nvs"), TakesDown("mdns") >>)
  BY <1>7, <1>8 DEF Joins
<1>10. << Does("destroy_list"), TakesDown("net"), TakesDown("loop"), TakesDown("netif"),
         TakesDown("nvs") >>
        \o << TakesDown("mdns") >>
      =
      << Does("destroy_list"), TakesDown("net"), TakesDown("loop"), TakesDown("netif"),
         TakesDown("nvs"), TakesDown("mdns") >>
  BY <1>9, JoinedIs
<1>11. ((Services!Do("destroy_list")
         \o Services!Down(<<"net", "loop", "netif", "nvs">>))
         \o Services!Down(<<"mdns">>))
        =
        << Does("destroy_list"), TakesDown("net"), TakesDown("loop"), TakesDown("netif"),
           TakesDown("nvs"), TakesDown("mdns") >>
  BY <1>6, <1>1, <1>10
<1> QED
  BY <1>11 DEF Services!DestroyServices

LEMMA StdinDestroy ==
  ASSUME resolver # "mdns"
  PROVE  Services!DestroyServices =
         << TakesDown("net"), TakesDown("loop"), TakesDown("netif"), TakesDown("nvs") >>
<1>1. /\ Services!Down(<<"net", "loop", "netif", "nvs">>)
        = << TakesDown("net"), TakesDown("loop"), TakesDown("netif"), TakesDown("nvs") >>
  BY DEF Services!Up, Services!Do, Services!Down, BringsUp, TakesDown, Does
<1>2. /\ TakesDown("net") \in RunSteps /\ TakesDown("loop") \in RunSteps
      /\ TakesDown("netif") \in RunSteps /\ TakesDown("nvs") \in RunSteps
  BY StepsAre
<1>3. << TakesDown("net"), TakesDown("loop"), TakesDown("netif"), TakesDown("nvs") >>
        \in Seq(RunSteps)
  BY <1>2
<1>4. (<<>> \o Services!Down(<<"net", "loop", "netif", "nvs">>))
        =
        << TakesDown("net"), TakesDown("loop"), TakesDown("netif"), TakesDown("nvs") >>
  BY <1>3, <1>1, ConcatEmptySeq
<1>5. /\ TakesDown("net") \in RunSteps /\ TakesDown("loop") \in RunSteps
      /\ TakesDown("netif") \in RunSteps /\ TakesDown("nvs") \in RunSteps
  BY StepsAre
<1>6. << TakesDown("net"), TakesDown("loop"), TakesDown("netif"), TakesDown("nvs") >>
        \in Seq(RunSteps)
  BY <1>5
<1>7. ((<<>> \o Services!Down(<<"net", "loop", "netif", "nvs">>)) \o <<>>)
        =
        << TakesDown("net"), TakesDown("loop"), TakesDown("netif"), TakesDown("nvs") >>
  BY <1>6, <1>4, ConcatEmptySeq
<1> QED
  BY <1>7 DEF Services!DestroyServices

LEMMA InitsAre ==
  /\ Services!TcpMasterInit =
       << BringsUp("stack"), BringsUp("setup"), BringsUp("descriptors"), BringsUp("started") >>
  /\ Services!TcpSlaveInit =
       << BringsUp("stack"), BringsUp("setup"), BringsUp("descriptors"), BringsUp("started") >>
  /\ Services!UartMasterInit =
       << BringsUp("stack"), BringsUp("setup"), BringsUp("pins"), BringsUp("started"),
          BringsUp("mode"), BringsUp("descriptors") >>
  /\ Services!UartSlaveInit =
       << BringsUp("stack"), BringsUp("setup"), BringsUp("descriptors"), BringsUp("started"),
          BringsUp("pins"), BringsUp("mode") >>
  BY DEF Services!TcpMasterInit, Services!TcpSlaveInit, Services!UartMasterInit,
         Services!UartSlaveInit, Services!Up, BringsUp

LEMMA MdnsTcpMasterRun ==
  ASSUME resolver = "mdns"
  PROVE  Services!RunTcpMaster =
         << BringsUp("nvs"), BringsUp("netif"), BringsUp("loop"), BringsUp("mdns"),
            BringsUp("net"), BringsUp("ps"), Does("query"), TakesDown("mdns"),
            BringsUp("stack"), BringsUp("setup"), BringsUp("descriptors"), BringsUp("started"),
            Does("operate"), TakesDown("stack"), Does("destroy_list"), TakesDown("net"),
            TakesDown("loop"), TakesDown("netif"), TakesDown("nvs"), TakesDown("mdns") >>
<1>1. /\ BringsUp("nvs") \in RunSteps /\ BringsUp("netif") \in RunSteps
      /\ BringsUp("loop") \in RunSteps /\ BringsUp("mdns") \in RunSteps
      /\ BringsUp("net") \in RunSteps /\ BringsUp("ps") \in RunSteps
      /\ Does("query") \in RunSteps /\ TakesDown("mdns") \in RunSteps
      /\ BringsUp("stack") \in RunSteps /\ BringsUp("setup") \in RunSteps
      /\ BringsUp("descriptors") \in RunSteps /\ BringsUp("started") \in RunSteps
  BY StepsAre
<1>2. \A k \in 1 .. 4 :
        (k = 1 /\ 8 + k = 9) \/ (k = 2 /\ 8 + k = 10) \/ (k = 3 /\ 8 + k = 11) \/
        (k = 4 /\ 8 + k = 12)
  OBVIOUS
<1>3. Joins(<< BringsUp("nvs"), BringsUp("netif"), BringsUp("loop"), BringsUp("mdns"),
         BringsUp("net"), BringsUp("ps"), Does("query"), TakesDown("mdns") >>,
          << BringsUp("stack"), BringsUp("setup"), BringsUp("descriptors"), BringsUp("started") >>,
          << BringsUp("nvs"), BringsUp("netif"), BringsUp("loop"), BringsUp("mdns"),
             BringsUp("net"), BringsUp("ps"), Does("query"), TakesDown("mdns"),
             BringsUp("stack"), BringsUp("setup"), BringsUp("descriptors"), BringsUp("started") >>)
  BY <1>1, <1>2 DEF Joins
<1>4. << BringsUp("nvs"), BringsUp("netif"), BringsUp("loop"), BringsUp("mdns"),
         BringsUp("net"), BringsUp("ps"), Does("query"), TakesDown("mdns") >>
        \o << BringsUp("stack"), BringsUp("setup"), BringsUp("descriptors"), BringsUp("started") >>
      =
      << BringsUp("nvs"), BringsUp("netif"), BringsUp("loop"), BringsUp("mdns"),
         BringsUp("net"), BringsUp("ps"), Does("query"), TakesDown("mdns"), BringsUp("stack"),
         BringsUp("setup"), BringsUp("descriptors"), BringsUp("started") >>
  BY <1>3, JoinedIs
<1>5. (Services!InitServices
         \o Services!TcpMasterInit)
        =
        << BringsUp("nvs"), BringsUp("netif"), BringsUp("loop"), BringsUp("mdns"),
           BringsUp("net"), BringsUp("ps"), Does("query"), TakesDown("mdns"), BringsUp("stack"),
           BringsUp("setup"), BringsUp("descriptors"), BringsUp("started") >>
  BY MdnsInit, InitsAre, <1>4
<1>6. /\ BringsUp("nvs") \in RunSteps /\ BringsUp("netif") \in RunSteps
      /\ BringsUp("loop") \in RunSteps /\ BringsUp("mdns") \in RunSteps
      /\ BringsUp("net") \in RunSteps /\ BringsUp("ps") \in RunSteps
      /\ Does("query") \in RunSteps /\ TakesDown("mdns") \in RunSteps
      /\ BringsUp("stack") \in RunSteps /\ BringsUp("setup") \in RunSteps
      /\ BringsUp("descriptors") \in RunSteps /\ BringsUp("started") \in RunSteps
      /\ Does("operate") \in RunSteps /\ TakesDown("stack") \in RunSteps
  BY StepsAre
<1>7. \A k \in 1 .. 2 : (k = 1 /\ 12 + k = 13) \/ (k = 2 /\ 12 + k = 14)
  OBVIOUS
<1>8. Joins(<< BringsUp("nvs"), BringsUp("netif"), BringsUp("loop"), BringsUp("mdns"),
         BringsUp("net"), BringsUp("ps"), Does("query"), TakesDown("mdns"), BringsUp("stack"),
         BringsUp("setup"), BringsUp("descriptors"), BringsUp("started") >>,
          << Does("operate"), TakesDown("stack") >>,
          << BringsUp("nvs"), BringsUp("netif"), BringsUp("loop"), BringsUp("mdns"),
             BringsUp("net"), BringsUp("ps"), Does("query"), TakesDown("mdns"),
             BringsUp("stack"), BringsUp("setup"), BringsUp("descriptors"), BringsUp("started"),
             Does("operate"), TakesDown("stack") >>)
  BY <1>6, <1>7 DEF Joins
<1>9. << BringsUp("nvs"), BringsUp("netif"), BringsUp("loop"), BringsUp("mdns"),
         BringsUp("net"), BringsUp("ps"), Does("query"), TakesDown("mdns"), BringsUp("stack"),
         BringsUp("setup"), BringsUp("descriptors"), BringsUp("started") >>
        \o << Does("operate"), TakesDown("stack") >>
      =
      << BringsUp("nvs"), BringsUp("netif"), BringsUp("loop"), BringsUp("mdns"),
         BringsUp("net"), BringsUp("ps"), Does("query"), TakesDown("mdns"), BringsUp("stack"),
         BringsUp("setup"), BringsUp("descriptors"), BringsUp("started"), Does("operate"),
         TakesDown("stack") >>
  BY <1>8, JoinedIs
<1>10. ((Services!InitServices
         \o Services!TcpMasterInit)
         \o Services!Operation)
        =
        << BringsUp("nvs"), BringsUp("netif"), BringsUp("loop"), BringsUp("mdns"),
           BringsUp("net"), BringsUp("ps"), Does("query"), TakesDown("mdns"), BringsUp("stack"),
           BringsUp("setup"), BringsUp("descriptors"), BringsUp("started"), Does("operate"),
           TakesDown("stack") >>
  BY <1>5, OperationIs, <1>9
<1>11. /\ BringsUp("nvs") \in RunSteps /\ BringsUp("netif") \in RunSteps
      /\ BringsUp("loop") \in RunSteps /\ BringsUp("mdns") \in RunSteps
      /\ BringsUp("net") \in RunSteps /\ BringsUp("ps") \in RunSteps
      /\ Does("query") \in RunSteps /\ TakesDown("mdns") \in RunSteps
      /\ BringsUp("stack") \in RunSteps /\ BringsUp("setup") \in RunSteps
      /\ BringsUp("descriptors") \in RunSteps /\ BringsUp("started") \in RunSteps
      /\ Does("operate") \in RunSteps /\ TakesDown("stack") \in RunSteps
      /\ Does("destroy_list") \in RunSteps /\ TakesDown("net") \in RunSteps
      /\ TakesDown("loop") \in RunSteps /\ TakesDown("netif") \in RunSteps
      /\ TakesDown("nvs") \in RunSteps
  BY StepsAre
<1>12. \A k \in 1 .. 6 :
        (k = 1 /\ 14 + k = 15) \/ (k = 2 /\ 14 + k = 16) \/ (k = 3 /\ 14 + k = 17) \/
        (k = 4 /\ 14 + k = 18) \/ (k = 5 /\ 14 + k = 19) \/ (k = 6 /\ 14 + k = 20)
  OBVIOUS
<1>13. Joins(<< BringsUp("nvs"), BringsUp("netif"), BringsUp("loop"), BringsUp("mdns"),
         BringsUp("net"), BringsUp("ps"), Does("query"), TakesDown("mdns"), BringsUp("stack"),
         BringsUp("setup"), BringsUp("descriptors"), BringsUp("started"), Does("operate"),
         TakesDown("stack") >>,
          << Does("destroy_list"), TakesDown("net"), TakesDown("loop"), TakesDown("netif"),
             TakesDown("nvs"), TakesDown("mdns") >>,
          << BringsUp("nvs"), BringsUp("netif"), BringsUp("loop"), BringsUp("mdns"),
             BringsUp("net"), BringsUp("ps"), Does("query"), TakesDown("mdns"),
             BringsUp("stack"), BringsUp("setup"), BringsUp("descriptors"), BringsUp("started"),
             Does("operate"), TakesDown("stack"), Does("destroy_list"), TakesDown("net"),
             TakesDown("loop"), TakesDown("netif"), TakesDown("nvs"), TakesDown("mdns") >>)
  BY <1>11, <1>12 DEF Joins
<1>14. << BringsUp("nvs"), BringsUp("netif"), BringsUp("loop"), BringsUp("mdns"),
         BringsUp("net"), BringsUp("ps"), Does("query"), TakesDown("mdns"), BringsUp("stack"),
         BringsUp("setup"), BringsUp("descriptors"), BringsUp("started"), Does("operate"),
         TakesDown("stack") >>
        \o << Does("destroy_list"), TakesDown("net"), TakesDown("loop"), TakesDown("netif"),
   TakesDown("nvs"), TakesDown("mdns") >>
      =
      << BringsUp("nvs"), BringsUp("netif"), BringsUp("loop"), BringsUp("mdns"),
         BringsUp("net"), BringsUp("ps"), Does("query"), TakesDown("mdns"), BringsUp("stack"),
         BringsUp("setup"), BringsUp("descriptors"), BringsUp("started"), Does("operate"),
         TakesDown("stack"), Does("destroy_list"), TakesDown("net"), TakesDown("loop"),
         TakesDown("netif"), TakesDown("nvs"), TakesDown("mdns") >>
  BY <1>13, JoinedIs
<1>15. (((Services!InitServices
         \o Services!TcpMasterInit)
         \o Services!Operation)
         \o Services!DestroyServices)
        =
        << BringsUp("nvs"), BringsUp("netif"), BringsUp("loop"), BringsUp("mdns"),
           BringsUp("net"), BringsUp("ps"), Does("query"), TakesDown("mdns"), BringsUp("stack"),
           BringsUp("setup"), BringsUp("descriptors"), BringsUp("started"), Does("operate"),
           TakesDown("stack"), Does("destroy_list"), TakesDown("net"), TakesDown("loop"),
           TakesDown("netif"), TakesDown("nvs"), TakesDown("mdns") >>
  BY <1>10, MdnsDestroy, <1>14
<1> QED
  BY <1>15 DEF Services!RunTcpMaster

LEMMA StdinTcpMasterRun ==
  ASSUME resolver # "mdns"
  PROVE  Services!RunTcpMaster =
         << BringsUp("nvs"), BringsUp("netif"), BringsUp("loop"), BringsUp("net"),
            BringsUp("ps"), Does("ask"), BringsUp("stack"), BringsUp("setup"),
            BringsUp("descriptors"), BringsUp("started"), Does("operate"), TakesDown("stack"),
            TakesDown("net"), TakesDown("loop"), TakesDown("netif"), TakesDown("nvs") >>
<1>1. /\ BringsUp("nvs") \in RunSteps /\ BringsUp("netif") \in RunSteps
      /\ BringsUp("loop") \in RunSteps /\ BringsUp("net") \in RunSteps
      /\ BringsUp("ps") \in RunSteps /\ Does("ask") \in RunSteps
      /\ BringsUp("stack") \in RunSteps /\ BringsUp("setup") \in RunSteps
      /\ BringsUp("descriptors") \in RunSteps /\ BringsUp("started") \in RunSteps
  BY StepsAre
<1>2. \A k \in 1 .. 4 :
        (k = 1 /\ 6 + k = 7) \/ (k = 2 /\ 6 + k = 8) \/ (k = 3 /\ 6 + k = 9) \/
        (k = 4 /\ 6 + k = 10)
  OBVIOUS
<1>3. Joins(<< BringsUp("nvs"), BringsUp("netif"), BringsUp("loop"), BringsUp("net"),
               BringsUp("ps"),
         Does("ask") >>,
          << BringsUp("stack"), BringsUp("setup"), BringsUp("descriptors"), BringsUp("started") >>,
          << BringsUp("nvs"), BringsUp("netif"), BringsUp("loop"), BringsUp("net"),
             BringsUp("ps"), Does("ask"), BringsUp("stack"), BringsUp("setup"),
             BringsUp("descriptors"), BringsUp("started") >>)
  BY <1>1, <1>2 DEF Joins
<1>4. << BringsUp("nvs"), BringsUp("netif"), BringsUp("loop"), BringsUp("net"), BringsUp("ps"),
         Does("ask") >>
        \o << BringsUp("stack"), BringsUp("setup"), BringsUp("descriptors"), BringsUp("started") >>
      =
      << BringsUp("nvs"), BringsUp("netif"), BringsUp("loop"), BringsUp("net"), BringsUp("ps"),
         Does("ask"), BringsUp("stack"), BringsUp("setup"), BringsUp("descriptors"),
         BringsUp("started") >>
  BY <1>3, JoinedIs
<1>5. (Services!InitServices
         \o Services!TcpMasterInit)
        =
        << BringsUp("nvs"), BringsUp("netif"), BringsUp("loop"), BringsUp("net"),
           BringsUp("ps"), Does("ask"), BringsUp("stack"), BringsUp("setup"),
           BringsUp("descriptors"), BringsUp("started") >>
  BY StdinInit, InitsAre, <1>4
<1>6. /\ BringsUp("nvs") \in RunSteps /\ BringsUp("netif") \in RunSteps
      /\ BringsUp("loop") \in RunSteps /\ BringsUp("net") \in RunSteps
      /\ BringsUp("ps") \in RunSteps /\ Does("ask") \in RunSteps
      /\ BringsUp("stack") \in RunSteps /\ BringsUp("setup") \in RunSteps
      /\ BringsUp("descriptors") \in RunSteps /\ BringsUp("started") \in RunSteps
      /\ Does("operate") \in RunSteps /\ TakesDown("stack") \in RunSteps
  BY StepsAre
<1>7. \A k \in 1 .. 2 : (k = 1 /\ 10 + k = 11) \/ (k = 2 /\ 10 + k = 12)
  OBVIOUS
<1>8. Joins(<< BringsUp("nvs"), BringsUp("netif"), BringsUp("loop"), BringsUp("net"),
               BringsUp("ps"),
         Does("ask"), BringsUp("stack"), BringsUp("setup"), BringsUp("descriptors"),
         BringsUp("started") >>,
          << Does("operate"), TakesDown("stack") >>,
          << BringsUp("nvs"), BringsUp("netif"), BringsUp("loop"), BringsUp("net"),
             BringsUp("ps"), Does("ask"), BringsUp("stack"), BringsUp("setup"),
             BringsUp("descriptors"), BringsUp("started"), Does("operate"), TakesDown("stack") >>)
  BY <1>6, <1>7 DEF Joins
<1>9. << BringsUp("nvs"), BringsUp("netif"), BringsUp("loop"), BringsUp("net"), BringsUp("ps"),
         Does("ask"), BringsUp("stack"), BringsUp("setup"), BringsUp("descriptors"),
         BringsUp("started") >>
        \o << Does("operate"), TakesDown("stack") >>
      =
      << BringsUp("nvs"), BringsUp("netif"), BringsUp("loop"), BringsUp("net"), BringsUp("ps"),
         Does("ask"), BringsUp("stack"), BringsUp("setup"), BringsUp("descriptors"),
         BringsUp("started"), Does("operate"), TakesDown("stack") >>
  BY <1>8, JoinedIs
<1>10. ((Services!InitServices
         \o Services!TcpMasterInit)
         \o Services!Operation)
        =
        << BringsUp("nvs"), BringsUp("netif"), BringsUp("loop"), BringsUp("net"),
           BringsUp("ps"), Does("ask"), BringsUp("stack"), BringsUp("setup"),
           BringsUp("descriptors"), BringsUp("started"), Does("operate"), TakesDown("stack") >>
  BY <1>5, OperationIs, <1>9
<1>11. /\ BringsUp("nvs") \in RunSteps /\ BringsUp("netif") \in RunSteps
      /\ BringsUp("loop") \in RunSteps /\ BringsUp("net") \in RunSteps
      /\ BringsUp("ps") \in RunSteps /\ Does("ask") \in RunSteps
      /\ BringsUp("stack") \in RunSteps /\ BringsUp("setup") \in RunSteps
      /\ BringsUp("descriptors") \in RunSteps /\ BringsUp("started") \in RunSteps
      /\ Does("operate") \in RunSteps /\ TakesDown("stack") \in RunSteps
      /\ TakesDown("net") \in RunSteps /\ TakesDown("loop") \in RunSteps
      /\ TakesDown("netif") \in RunSteps /\ TakesDown("nvs") \in RunSteps
  BY StepsAre
<1>12. \A k \in 1 .. 4 :
        (k = 1 /\ 12 + k = 13) \/ (k = 2 /\ 12 + k = 14) \/ (k = 3 /\ 12 + k = 15) \/
        (k = 4 /\ 12 + k = 16)
  OBVIOUS
<1>13. Joins(<< BringsUp("nvs"), BringsUp("netif"), BringsUp("loop"), BringsUp("net"),
                BringsUp("ps"),
         Does("ask"), BringsUp("stack"), BringsUp("setup"), BringsUp("descriptors"),
         BringsUp("started"), Does("operate"), TakesDown("stack") >>,
          << TakesDown("net"), TakesDown("loop"), TakesDown("netif"), TakesDown("nvs") >>,
          << BringsUp("nvs"), BringsUp("netif"), BringsUp("loop"), BringsUp("net"),
             BringsUp("ps"), Does("ask"), BringsUp("stack"), BringsUp("setup"),
             BringsUp("descriptors"), BringsUp("started"), Does("operate"), TakesDown("stack"),
             TakesDown("net"), TakesDown("loop"), TakesDown("netif"), TakesDown("nvs") >>)
  BY <1>11, <1>12 DEF Joins
<1>14. << BringsUp("nvs"), BringsUp("netif"), BringsUp("loop"), BringsUp("net"), BringsUp("ps"),
         Does("ask"), BringsUp("stack"), BringsUp("setup"), BringsUp("descriptors"),
         BringsUp("started"), Does("operate"), TakesDown("stack") >>
        \o << TakesDown("net"), TakesDown("loop"), TakesDown("netif"), TakesDown("nvs") >>
      =
      << BringsUp("nvs"), BringsUp("netif"), BringsUp("loop"), BringsUp("net"), BringsUp("ps"),
         Does("ask"), BringsUp("stack"), BringsUp("setup"), BringsUp("descriptors"),
         BringsUp("started"), Does("operate"), TakesDown("stack"), TakesDown("net"),
         TakesDown("loop"), TakesDown("netif"), TakesDown("nvs") >>
  BY <1>13, JoinedIs
<1>15. (((Services!InitServices
         \o Services!TcpMasterInit)
         \o Services!Operation)
         \o Services!DestroyServices)
        =
        << BringsUp("nvs"), BringsUp("netif"), BringsUp("loop"), BringsUp("net"),
           BringsUp("ps"), Does("ask"), BringsUp("stack"), BringsUp("setup"),
           BringsUp("descriptors"), BringsUp("started"), Does("operate"), TakesDown("stack"),
           TakesDown("net"), TakesDown("loop"), TakesDown("netif"), TakesDown("nvs") >>
  BY <1>10, StdinDestroy, <1>14
<1> QED
  BY <1>15 DEF Services!RunTcpMaster

LEMMA SlaveRunsLikeMaster == Services!RunTcpSlave = Services!RunTcpMaster
  BY DEF Services!RunTcpSlave, Services!RunTcpMaster, Services!TcpMasterInit, Services!TcpSlaveInit

LEMMA UartMasterRun ==
  Services!UartMasterInit \o Services!Operation =
    << BringsUp("stack"), BringsUp("setup"), BringsUp("pins"), BringsUp("started"),
       BringsUp("mode"), BringsUp("descriptors"), Does("operate"), TakesDown("stack") >>
<1>1. /\ BringsUp("stack") \in RunSteps /\ BringsUp("setup") \in RunSteps
      /\ BringsUp("pins") \in RunSteps /\ BringsUp("started") \in RunSteps
      /\ BringsUp("mode") \in RunSteps /\ BringsUp("descriptors") \in RunSteps
      /\ Does("operate") \in RunSteps /\ TakesDown("stack") \in RunSteps
  BY StepsAre
<1>2. \A k \in 1 .. 2 : (k = 1 /\ 6 + k = 7) \/ (k = 2 /\ 6 + k = 8)
  OBVIOUS
<1>3. Joins(<< BringsUp("stack"), BringsUp("setup"), BringsUp("pins"), BringsUp("started"),
         BringsUp("mode"), BringsUp("descriptors") >>,
          << Does("operate"), TakesDown("stack") >>,
          << BringsUp("stack"), BringsUp("setup"), BringsUp("pins"), BringsUp("started"),
             BringsUp("mode"), BringsUp("descriptors"), Does("operate"), TakesDown("stack") >>)
  BY <1>1, <1>2 DEF Joins
<1>4. << BringsUp("stack"), BringsUp("setup"), BringsUp("pins"), BringsUp("started"),
         BringsUp("mode"), BringsUp("descriptors") >>
        \o << Does("operate"), TakesDown("stack") >>
      =
      << BringsUp("stack"), BringsUp("setup"), BringsUp("pins"), BringsUp("started"),
         BringsUp("mode"), BringsUp("descriptors"), Does("operate"), TakesDown("stack") >>
  BY <1>3, JoinedIs
<1>5. (Services!UartMasterInit
         \o Services!Operation)
        =
        << BringsUp("stack"), BringsUp("setup"), BringsUp("pins"), BringsUp("started"),
           BringsUp("mode"), BringsUp("descriptors"), Does("operate"), TakesDown("stack") >>
  BY InitsAre, OperationIs, <1>4
<1> QED
  BY <1>5

LEMMA UartSlaveRun ==
  Services!UartSlaveInit \o Services!Operation =
    << BringsUp("stack"), BringsUp("setup"), BringsUp("descriptors"), BringsUp("started"),
       BringsUp("pins"), BringsUp("mode"), Does("operate"), TakesDown("stack") >>
<1>1. /\ BringsUp("stack") \in RunSteps /\ BringsUp("setup") \in RunSteps
      /\ BringsUp("descriptors") \in RunSteps /\ BringsUp("started") \in RunSteps
      /\ BringsUp("pins") \in RunSteps /\ BringsUp("mode") \in RunSteps
      /\ Does("operate") \in RunSteps /\ TakesDown("stack") \in RunSteps
  BY StepsAre
<1>2. \A k \in 1 .. 2 : (k = 1 /\ 6 + k = 7) \/ (k = 2 /\ 6 + k = 8)
  OBVIOUS
<1>3. Joins(<< BringsUp("stack"), BringsUp("setup"), BringsUp("descriptors"), BringsUp("started"),
         BringsUp("pins"), BringsUp("mode") >>,
          << Does("operate"), TakesDown("stack") >>,
          << BringsUp("stack"), BringsUp("setup"), BringsUp("descriptors"), BringsUp("started"),
             BringsUp("pins"), BringsUp("mode"), Does("operate"), TakesDown("stack") >>)
  BY <1>1, <1>2 DEF Joins
<1>4. << BringsUp("stack"), BringsUp("setup"), BringsUp("descriptors"), BringsUp("started"),
         BringsUp("pins"), BringsUp("mode") >>
        \o << Does("operate"), TakesDown("stack") >>
      =
      << BringsUp("stack"), BringsUp("setup"), BringsUp("descriptors"), BringsUp("started"),
         BringsUp("pins"), BringsUp("mode"), Does("operate"), TakesDown("stack") >>
  BY <1>3, JoinedIs
<1>5. (Services!UartSlaveInit
         \o Services!Operation)
        =
        << BringsUp("stack"), BringsUp("setup"), BringsUp("descriptors"), BringsUp("started"),
           BringsUp("pins"), BringsUp("mode"), Does("operate"), TakesDown("stack") >>
  BY InitsAre, OperationIs, <1>4
<1> QED
  BY <1>5

(* The four kinds of run.                                                  *)
IsMdns == program \in Services!Tcp /\ resolver = "mdns"
IsStdin == program \in Services!Tcp /\ resolver # "mdns"
IsMaster == program = "uart_master"
IsSlave == program = "uart_slave"

MdnsRun ==
  << BringsUp("nvs"), BringsUp("netif"), BringsUp("loop"), BringsUp("mdns"), BringsUp("net"),
     BringsUp("ps"), Does("query"), TakesDown("mdns"), BringsUp("stack"), BringsUp("setup"),
     BringsUp("descriptors"), BringsUp("started"), Does("operate"), TakesDown("stack"),
     Does("destroy_list"), TakesDown("net"), TakesDown("loop"), TakesDown("netif"),
     TakesDown("nvs"), TakesDown("mdns") >>

LEMMA MdnsRunIs ==
  IsMdns => Services!Run = MdnsRun
  BY MdnsTcpMasterRun, SlaveRunsLikeMaster DEF IsMdns, MdnsRun, Services!Run, Services!Tcp

MdnsUps(k, s) ==
  (k = 1 /\ s = "nvs") \/ (k = 2 /\ s = "netif") \/ (k = 3 /\ s = "loop") \/
  (k = 4 /\ s = "mdns") \/ (k = 5 /\ s = "net") \/ (k = 6 /\ s = "ps") \/
  (k = 9 /\ s = "stack") \/ (k = 10 /\ s = "setup") \/ (k = 11 /\ s = "descriptors") \/
  (k = 12 /\ s = "started")

MdnsDowns(k, s) ==
  (k = 8 /\ s = "mdns") \/ (k = 14 /\ s = "stack") \/ (k = 16 /\ s = "net") \/
  (k = 17 /\ s = "loop") \/ (k = 18 /\ s = "netif") \/ (k = 19 /\ s = "nvs") \/
  (k = 20 /\ s = "mdns")

MdnsDoes(k, s) ==
  (k = 7 /\ s = "query") \/ (k = 13 /\ s = "operate") \/ (k = 15 /\ s = "destroy_list")

LEMMA MdnsRunLength == Len(MdnsRun) = 20
  BY DEF MdnsRun

LEMMA MdnsSchedule ==
  ASSUME NEW k \in 1 .. 20, NEW s
  PROVE  /\ MdnsRun[k] = <<"up", s>> => MdnsUps(k, s)
         /\ MdnsRun[k] = <<"down", s>> => MdnsDowns(k, s)
         /\ MdnsRun[k] = <<"do", s>> => MdnsDoes(k, s)
<1>1. k = 1 \/ k = 2 \/ k = 3 \/ k = 4 \/ k = 5 \/ k = 6 \/ k = 7 \/ k = 8 \/ k = 9 \/ k = 10 \/
      k = 11 \/ k = 12 \/ k = 13 \/ k = 14 \/ k = 15 \/ k = 16 \/ k = 17 \/ k = 18 \/ k = 19 \/
      k = 20
  OBVIOUS
<1>2. /\ MdnsRun[1] = BringsUp("nvs")
      /\ MdnsRun[2] = BringsUp("netif")
      /\ MdnsRun[3] = BringsUp("loop")
      /\ MdnsRun[4] = BringsUp("mdns")
      /\ MdnsRun[5] = BringsUp("net")
      /\ MdnsRun[6] = BringsUp("ps")
      /\ MdnsRun[7] = Does("query")
      /\ MdnsRun[8] = TakesDown("mdns")
      /\ MdnsRun[9] = BringsUp("stack")
      /\ MdnsRun[10] = BringsUp("setup")
      /\ MdnsRun[11] = BringsUp("descriptors")
      /\ MdnsRun[12] = BringsUp("started")
      /\ MdnsRun[13] = Does("operate")
      /\ MdnsRun[14] = TakesDown("stack")
      /\ MdnsRun[15] = Does("destroy_list")
      /\ MdnsRun[16] = TakesDown("net")
      /\ MdnsRun[17] = TakesDown("loop")
      /\ MdnsRun[18] = TakesDown("netif")
      /\ MdnsRun[19] = TakesDown("nvs")
      /\ MdnsRun[20] = TakesDown("mdns")
  BY DEF MdnsRun
<1>3. CASE k = 1
  BY <1>3, <1>2 DEF BringsUp, TakesDown, Does, MdnsUps, MdnsDowns, MdnsDoes
<1>4. CASE k = 2
  BY <1>4, <1>2 DEF BringsUp, TakesDown, Does, MdnsUps, MdnsDowns, MdnsDoes
<1>5. CASE k = 3
  BY <1>5, <1>2 DEF BringsUp, TakesDown, Does, MdnsUps, MdnsDowns, MdnsDoes
<1>6. CASE k = 4
  BY <1>6, <1>2 DEF BringsUp, TakesDown, Does, MdnsUps, MdnsDowns, MdnsDoes
<1>7. CASE k = 5
  BY <1>7, <1>2 DEF BringsUp, TakesDown, Does, MdnsUps, MdnsDowns, MdnsDoes
<1>8. CASE k = 6
  BY <1>8, <1>2 DEF BringsUp, TakesDown, Does, MdnsUps, MdnsDowns, MdnsDoes
<1>9. CASE k = 7
  BY <1>9, <1>2 DEF BringsUp, TakesDown, Does, MdnsUps, MdnsDowns, MdnsDoes
<1>10. CASE k = 8
  BY <1>10, <1>2 DEF BringsUp, TakesDown, Does, MdnsUps, MdnsDowns, MdnsDoes
<1>11. CASE k = 9
  BY <1>11, <1>2 DEF BringsUp, TakesDown, Does, MdnsUps, MdnsDowns, MdnsDoes
<1>12. CASE k = 10
  BY <1>12, <1>2 DEF BringsUp, TakesDown, Does, MdnsUps, MdnsDowns, MdnsDoes
<1>13. CASE k = 11
  BY <1>13, <1>2 DEF BringsUp, TakesDown, Does, MdnsUps, MdnsDowns, MdnsDoes
<1>14. CASE k = 12
  BY <1>14, <1>2 DEF BringsUp, TakesDown, Does, MdnsUps, MdnsDowns, MdnsDoes
<1>15. CASE k = 13
  BY <1>15, <1>2 DEF BringsUp, TakesDown, Does, MdnsUps, MdnsDowns, MdnsDoes
<1>16. CASE k = 14
  BY <1>16, <1>2 DEF BringsUp, TakesDown, Does, MdnsUps, MdnsDowns, MdnsDoes
<1>17. CASE k = 15
  BY <1>17, <1>2 DEF BringsUp, TakesDown, Does, MdnsUps, MdnsDowns, MdnsDoes
<1>18. CASE k = 16
  BY <1>18, <1>2 DEF BringsUp, TakesDown, Does, MdnsUps, MdnsDowns, MdnsDoes
<1>19. CASE k = 17
  BY <1>19, <1>2 DEF BringsUp, TakesDown, Does, MdnsUps, MdnsDowns, MdnsDoes
<1>20. CASE k = 18
  BY <1>20, <1>2 DEF BringsUp, TakesDown, Does, MdnsUps, MdnsDowns, MdnsDoes
<1>21. CASE k = 19
  BY <1>21, <1>2 DEF BringsUp, TakesDown, Does, MdnsUps, MdnsDowns, MdnsDoes
<1>22. CASE k = 20
  BY <1>22, <1>2 DEF BringsUp, TakesDown, Does, MdnsUps, MdnsDowns, MdnsDoes
<1> QED
  BY <1>1, <1>3, <1>4, <1>5, <1>6, <1>7, <1>8, <1>9, <1>10, <1>11, <1>12, <1>13, <1>14,
              <1>15, <1>16, <1>17, <1>18, <1>19, <1>20, <1>21, <1>22

LEMMA MdnsAt ==
  ASSUME IsMdns, step \in Nat, NEW s
  PROVE  /\ Len(Services!Run) = 20
         /\ Services!At("up", s) => MdnsUps(step + 1, s)
         /\ Services!At("down", s) => MdnsDowns(step + 1, s)
         /\ Services!At("do", s) => MdnsDoes(step + 1, s)
<1>1. Services!Run = MdnsRun /\ Len(MdnsRun) = 20
  BY MdnsRunIs, MdnsRunLength
<1>2. SUFFICES ASSUME step < 20
               PROVE  /\ MdnsRun[step + 1] = <<"up", s>> => MdnsUps(step + 1, s)
                      /\ MdnsRun[step + 1] = <<"down", s>> => MdnsDowns(step + 1, s)
                      /\ MdnsRun[step + 1] = <<"do", s>> => MdnsDoes(step + 1, s)
  BY <1>1 DEF Services!At
<1> QED
  BY <1>2, MdnsSchedule

MdnsUp ==
  /\ step \in 0 .. 19 /\ up \subseteq {"nvs", "netif", "loop", "mdns", "net", "ps", "stack", "setup", "descriptors", "started"}
  /\ "nvs" \in up <=> step \in 1 .. 18
  /\ step \in 2 .. 19 => "netif" \in up
  /\ "loop" \in up <=> step \in 3 .. 16
  /\ "mdns" \in up <=> step \in 4 .. 7
  /\ "net" \in up <=> step \in 5 .. 15
  /\ "ps" \in up <=> step \in 6 .. 15
  /\ "stack" \in up <=> step \in 9 .. 13
  /\ "setup" \in up <=> step \in 10 .. 13
  /\ "descriptors" \in up <=> step \in 11 .. 13
  /\ "started" \in up <=> step \in 12 .. 13

LEMMA MdnsBringUp ==
  ASSUME IsMdns, MdnsUp, Services!BringUp
  PROVE  MdnsUp' /\ step \in {0, 1, 2, 3, 4, 5, 8, 9, 10, 11} /\ step' = IF step = 19 THEN 0 ELSE step + 1
<1>1. PICK s \in {"nvs", "netif", "loop", "mdns", "net", "ps", "stack", "setup", "descriptors",
                   "started", "pins", "mode"} :
           /\ Services!At("up", s) /\ Services!Done
           /\ up' = up \cup {s}
  BY DEF Services!BringUp, Services!Unchecked, Services!Tcp, IsMdns
<1>2. step \in 0 .. 19
  BY DEF MdnsUp
<1>3. MdnsUps(step + 1, s) /\ Len(Services!Run) = 20
  BY <1>1, <1>2, MdnsAt
<1>4. step' = IF step + 1 = 20 THEN 0 ELSE step + 1
  BY <1>1, <1>3 DEF Services!Done
<1>5. step \in {0, 1, 2, 3, 4, 5, 8, 9, 10, 11} /\ step' = IF step = 19 THEN 0 ELSE step + 1
  BY <1>2, <1>3, <1>4 DEF MdnsUps
<1>6. MdnsUp'
  BY <1>1, <1>2, <1>3, <1>4 DEF MdnsUp, MdnsUps
<1> QED
  BY <1>5, <1>6

LEMMA MdnsTakeDown ==
  ASSUME IsMdns, MdnsUp, Services!TakeDown
  PROVE  MdnsUp' /\ step \in {7, 13, 15, 16, 17, 18, 19} /\ step' = IF step = 19 THEN 0 ELSE step + 1
<1>1. PICK s \in {"stack", "mdns", "net", "loop", "netif", "nvs"} :
           /\ Services!At("down", s) /\ Services!Done
           /\ up' = up \ Services!GoesDown(s)
  BY DEF Services!TakeDown
<1>2. step \in 0 .. 19
  BY DEF MdnsUp
<1>3. MdnsDowns(step + 1, s) /\ Len(Services!Run) = 20
  BY <1>1, <1>2, MdnsAt
<1>4. step' = IF step + 1 = 20 THEN 0 ELSE step + 1
  BY <1>1, <1>3 DEF Services!Done
<1>5. step \in {7, 13, 15, 16, 17, 18, 19} /\ step' = IF step = 19 THEN 0 ELSE step + 1
  BY <1>2, <1>3, <1>4 DEF MdnsDowns
<1>6. MdnsUp'
  BY <1>1, <1>2, <1>3, <1>4 DEF MdnsUp, MdnsDowns, Services!GoesDown
<1> QED
  BY <1>5, <1>6

StdinRun ==
  << BringsUp("nvs"), BringsUp("netif"), BringsUp("loop"), BringsUp("net"), BringsUp("ps"),
     Does("ask"), BringsUp("stack"), BringsUp("setup"), BringsUp("descriptors"),
     BringsUp("started"), Does("operate"), TakesDown("stack"), TakesDown("net"),
     TakesDown("loop"), TakesDown("netif"), TakesDown("nvs") >>

LEMMA StdinRunIs ==
  IsStdin => Services!Run = StdinRun
  BY StdinTcpMasterRun, SlaveRunsLikeMaster DEF IsStdin, StdinRun, Services!Run, Services!Tcp

StdinUps(k, s) ==
  (k = 1 /\ s = "nvs") \/ (k = 2 /\ s = "netif") \/ (k = 3 /\ s = "loop") \/
  (k = 4 /\ s = "net") \/ (k = 5 /\ s = "ps") \/ (k = 7 /\ s = "stack") \/
  (k = 8 /\ s = "setup") \/ (k = 9 /\ s = "descriptors") \/ (k = 10 /\ s = "started")

StdinDowns(k, s) ==
  (k = 12 /\ s = "stack") \/ (k = 13 /\ s = "net") \/ (k = 14 /\ s = "loop") \/
  (k = 15 /\ s = "netif") \/ (k = 16 /\ s = "nvs")

StdinDoes(k, s) ==
  (k = 6 /\ s = "ask") \/ (k = 11 /\ s = "operate")

LEMMA StdinRunLength == Len(StdinRun) = 16
  BY DEF StdinRun

LEMMA StdinSchedule ==
  ASSUME NEW k \in 1 .. 16, NEW s
  PROVE  /\ StdinRun[k] = <<"up", s>> => StdinUps(k, s)
         /\ StdinRun[k] = <<"down", s>> => StdinDowns(k, s)
         /\ StdinRun[k] = <<"do", s>> => StdinDoes(k, s)
<1>1. k = 1 \/ k = 2 \/ k = 3 \/ k = 4 \/ k = 5 \/ k = 6 \/ k = 7 \/ k = 8 \/ k = 9 \/ k = 10 \/
      k = 11 \/ k = 12 \/ k = 13 \/ k = 14 \/ k = 15 \/ k = 16
  OBVIOUS
<1>2. /\ StdinRun[1] = BringsUp("nvs")
      /\ StdinRun[2] = BringsUp("netif")
      /\ StdinRun[3] = BringsUp("loop")
      /\ StdinRun[4] = BringsUp("net")
      /\ StdinRun[5] = BringsUp("ps")
      /\ StdinRun[6] = Does("ask")
      /\ StdinRun[7] = BringsUp("stack")
      /\ StdinRun[8] = BringsUp("setup")
      /\ StdinRun[9] = BringsUp("descriptors")
      /\ StdinRun[10] = BringsUp("started")
      /\ StdinRun[11] = Does("operate")
      /\ StdinRun[12] = TakesDown("stack")
      /\ StdinRun[13] = TakesDown("net")
      /\ StdinRun[14] = TakesDown("loop")
      /\ StdinRun[15] = TakesDown("netif")
      /\ StdinRun[16] = TakesDown("nvs")
  BY DEF StdinRun
<1>3. CASE k = 1
  BY <1>3, <1>2 DEF BringsUp, TakesDown, Does, StdinUps, StdinDowns, StdinDoes
<1>4. CASE k = 2
  BY <1>4, <1>2 DEF BringsUp, TakesDown, Does, StdinUps, StdinDowns, StdinDoes
<1>5. CASE k = 3
  BY <1>5, <1>2 DEF BringsUp, TakesDown, Does, StdinUps, StdinDowns, StdinDoes
<1>6. CASE k = 4
  BY <1>6, <1>2 DEF BringsUp, TakesDown, Does, StdinUps, StdinDowns, StdinDoes
<1>7. CASE k = 5
  BY <1>7, <1>2 DEF BringsUp, TakesDown, Does, StdinUps, StdinDowns, StdinDoes
<1>8. CASE k = 6
  BY <1>8, <1>2 DEF BringsUp, TakesDown, Does, StdinUps, StdinDowns, StdinDoes
<1>9. CASE k = 7
  BY <1>9, <1>2 DEF BringsUp, TakesDown, Does, StdinUps, StdinDowns, StdinDoes
<1>10. CASE k = 8
  BY <1>10, <1>2 DEF BringsUp, TakesDown, Does, StdinUps, StdinDowns, StdinDoes
<1>11. CASE k = 9
  BY <1>11, <1>2 DEF BringsUp, TakesDown, Does, StdinUps, StdinDowns, StdinDoes
<1>12. CASE k = 10
  BY <1>12, <1>2 DEF BringsUp, TakesDown, Does, StdinUps, StdinDowns, StdinDoes
<1>13. CASE k = 11
  BY <1>13, <1>2 DEF BringsUp, TakesDown, Does, StdinUps, StdinDowns, StdinDoes
<1>14. CASE k = 12
  BY <1>14, <1>2 DEF BringsUp, TakesDown, Does, StdinUps, StdinDowns, StdinDoes
<1>15. CASE k = 13
  BY <1>15, <1>2 DEF BringsUp, TakesDown, Does, StdinUps, StdinDowns, StdinDoes
<1>16. CASE k = 14
  BY <1>16, <1>2 DEF BringsUp, TakesDown, Does, StdinUps, StdinDowns, StdinDoes
<1>17. CASE k = 15
  BY <1>17, <1>2 DEF BringsUp, TakesDown, Does, StdinUps, StdinDowns, StdinDoes
<1>18. CASE k = 16
  BY <1>18, <1>2 DEF BringsUp, TakesDown, Does, StdinUps, StdinDowns, StdinDoes
<1> QED
  BY <1>1, <1>3, <1>4, <1>5, <1>6, <1>7, <1>8, <1>9, <1>10, <1>11, <1>12, <1>13, <1>14,
              <1>15, <1>16, <1>17, <1>18

LEMMA StdinAt ==
  ASSUME IsStdin, step \in Nat, NEW s
  PROVE  /\ Len(Services!Run) = 16
         /\ Services!At("up", s) => StdinUps(step + 1, s)
         /\ Services!At("down", s) => StdinDowns(step + 1, s)
         /\ Services!At("do", s) => StdinDoes(step + 1, s)
<1>1. Services!Run = StdinRun /\ Len(StdinRun) = 16
  BY StdinRunIs, StdinRunLength
<1>2. SUFFICES ASSUME step < 16
               PROVE  /\ StdinRun[step + 1] = <<"up", s>> => StdinUps(step + 1, s)
                      /\ StdinRun[step + 1] = <<"down", s>> => StdinDowns(step + 1, s)
                      /\ StdinRun[step + 1] = <<"do", s>> => StdinDoes(step + 1, s)
  BY <1>1 DEF Services!At
<1> QED
  BY <1>2, StdinSchedule

StdinUp ==
  /\ step \in 0 .. 15 /\ up \subseteq {"nvs", "netif", "loop", "net", "ps", "stack", "setup", "descriptors", "started"}
  /\ "nvs" \in up <=> step \in 1 .. 15
  /\ step \in 2 .. 15 => "netif" \in up
  /\ "loop" \in up <=> step \in 3 .. 13
  /\ "net" \in up <=> step \in 4 .. 12
  /\ "ps" \in up <=> step \in 5 .. 12
  /\ "stack" \in up <=> step \in 7 .. 11
  /\ "setup" \in up <=> step \in 8 .. 11
  /\ "descriptors" \in up <=> step \in 9 .. 11
  /\ "started" \in up <=> step \in 10 .. 11

LEMMA StdinBringUp ==
  ASSUME IsStdin, StdinUp, Services!BringUp
  PROVE  StdinUp' /\ step \in {0, 1, 2, 3, 4, 6, 7, 8, 9} /\ step' = IF step = 15 THEN 0 ELSE step + 1
<1>1. PICK s \in {"nvs", "netif", "loop", "mdns", "net", "ps", "stack", "setup", "descriptors",
                   "started", "pins", "mode"} :
           /\ Services!At("up", s) /\ Services!Done
           /\ up' = up \cup {s}
  BY DEF Services!BringUp, Services!Unchecked, Services!Tcp, IsStdin
<1>2. step \in 0 .. 15
  BY DEF StdinUp
<1>3. StdinUps(step + 1, s) /\ Len(Services!Run) = 16
  BY <1>1, <1>2, StdinAt
<1>4. step' = IF step + 1 = 16 THEN 0 ELSE step + 1
  BY <1>1, <1>3 DEF Services!Done
<1>5. step \in {0, 1, 2, 3, 4, 6, 7, 8, 9} /\ step' = IF step = 15 THEN 0 ELSE step + 1
  BY <1>2, <1>3, <1>4 DEF StdinUps
<1>6. StdinUp'
  BY <1>1, <1>2, <1>3, <1>4 DEF StdinUp, StdinUps
<1> QED
  BY <1>5, <1>6

LEMMA StdinTakeDown ==
  ASSUME IsStdin, StdinUp, Services!TakeDown
  PROVE  StdinUp' /\ step \in {11, 12, 13, 14, 15} /\ step' = IF step = 15 THEN 0 ELSE step + 1
<1>1. PICK s \in {"stack", "mdns", "net", "loop", "netif", "nvs"} :
           /\ Services!At("down", s) /\ Services!Done
           /\ up' = up \ Services!GoesDown(s)
  BY DEF Services!TakeDown
<1>2. step \in 0 .. 15
  BY DEF StdinUp
<1>3. StdinDowns(step + 1, s) /\ Len(Services!Run) = 16
  BY <1>1, <1>2, StdinAt
<1>4. step' = IF step + 1 = 16 THEN 0 ELSE step + 1
  BY <1>1, <1>3 DEF Services!Done
<1>5. step \in {11, 12, 13, 14, 15} /\ step' = IF step = 15 THEN 0 ELSE step + 1
  BY <1>2, <1>3, <1>4 DEF StdinDowns
<1>6. StdinUp'
  BY <1>1, <1>2, <1>3, <1>4 DEF StdinUp, StdinDowns, Services!GoesDown
<1> QED
  BY <1>5, <1>6

MasterRun ==
  << BringsUp("stack"), BringsUp("setup"), BringsUp("pins"), BringsUp("started"),
     BringsUp("mode"), BringsUp("descriptors"), Does("operate"), TakesDown("stack") >>

LEMMA MasterRunIs ==
  IsMaster => Services!Run = MasterRun
  BY UartMasterRun DEF IsMaster, MasterRun, Services!Run, Services!Tcp

MasterUps(k, s) ==
  (k = 1 /\ s = "stack") \/ (k = 2 /\ s = "setup") \/ (k = 3 /\ s = "pins") \/
  (k = 4 /\ s = "started") \/ (k = 5 /\ s = "mode") \/ (k = 6 /\ s = "descriptors")

MasterDowns(k, s) ==
  (k = 8 /\ s = "stack")

MasterDoes(k, s) ==
  (k = 7 /\ s = "operate")

LEMMA MasterRunLength == Len(MasterRun) = 8
  BY DEF MasterRun

LEMMA MasterSchedule ==
  ASSUME NEW k \in 1 .. 8, NEW s
  PROVE  /\ MasterRun[k] = <<"up", s>> => MasterUps(k, s)
         /\ MasterRun[k] = <<"down", s>> => MasterDowns(k, s)
         /\ MasterRun[k] = <<"do", s>> => MasterDoes(k, s)
<1>1. k = 1 \/ k = 2 \/ k = 3 \/ k = 4 \/ k = 5 \/ k = 6 \/ k = 7 \/ k = 8
  OBVIOUS
<1>2. /\ MasterRun[1] = BringsUp("stack")
      /\ MasterRun[2] = BringsUp("setup")
      /\ MasterRun[3] = BringsUp("pins")
      /\ MasterRun[4] = BringsUp("started")
      /\ MasterRun[5] = BringsUp("mode")
      /\ MasterRun[6] = BringsUp("descriptors")
      /\ MasterRun[7] = Does("operate")
      /\ MasterRun[8] = TakesDown("stack")
  BY DEF MasterRun
<1>3. CASE k = 1
  BY <1>3, <1>2 DEF BringsUp, TakesDown, Does, MasterUps, MasterDowns, MasterDoes
<1>4. CASE k = 2
  BY <1>4, <1>2 DEF BringsUp, TakesDown, Does, MasterUps, MasterDowns, MasterDoes
<1>5. CASE k = 3
  BY <1>5, <1>2 DEF BringsUp, TakesDown, Does, MasterUps, MasterDowns, MasterDoes
<1>6. CASE k = 4
  BY <1>6, <1>2 DEF BringsUp, TakesDown, Does, MasterUps, MasterDowns, MasterDoes
<1>7. CASE k = 5
  BY <1>7, <1>2 DEF BringsUp, TakesDown, Does, MasterUps, MasterDowns, MasterDoes
<1>8. CASE k = 6
  BY <1>8, <1>2 DEF BringsUp, TakesDown, Does, MasterUps, MasterDowns, MasterDoes
<1>9. CASE k = 7
  BY <1>9, <1>2 DEF BringsUp, TakesDown, Does, MasterUps, MasterDowns, MasterDoes
<1>10. CASE k = 8
  BY <1>10, <1>2 DEF BringsUp, TakesDown, Does, MasterUps, MasterDowns, MasterDoes
<1> QED
  BY <1>1, <1>3, <1>4, <1>5, <1>6, <1>7, <1>8, <1>9, <1>10

LEMMA MasterAt ==
  ASSUME IsMaster, step \in Nat, NEW s
  PROVE  /\ Len(Services!Run) = 8
         /\ Services!At("up", s) => MasterUps(step + 1, s)
         /\ Services!At("down", s) => MasterDowns(step + 1, s)
         /\ Services!At("do", s) => MasterDoes(step + 1, s)
<1>1. Services!Run = MasterRun /\ Len(MasterRun) = 8
  BY MasterRunIs, MasterRunLength
<1>2. SUFFICES ASSUME step < 8
               PROVE  /\ MasterRun[step + 1] = <<"up", s>> => MasterUps(step + 1, s)
                      /\ MasterRun[step + 1] = <<"down", s>> => MasterDowns(step + 1, s)
                      /\ MasterRun[step + 1] = <<"do", s>> => MasterDoes(step + 1, s)
  BY <1>1 DEF Services!At
<1> QED
  BY <1>2, MasterSchedule

MasterUp ==
  /\ step \in 0 .. 7 /\ up \subseteq {"stack", "setup", "pins", "started", "mode", "descriptors"}
  /\ "stack" \in up <=> step \in 1 .. 7
  /\ "setup" \in up <=> step \in 2 .. 7
  /\ "pins" \in up => step \in 3 .. 7
  /\ "started" \in up <=> step \in 4 .. 7
  /\ "mode" \in up <=> step \in 5 .. 7
  /\ "descriptors" \in up <=> step \in 6 .. 7

LEMMA MasterBringUp ==
  ASSUME IsMaster, MasterUp, Services!BringUp
  PROVE  MasterUp' /\ step \in {0, 1, 2, 3, 4, 5} /\ step' = IF step = 7 THEN 0 ELSE step + 1
<1>1. PICK s \in {"nvs", "netif", "loop", "mdns", "net", "ps", "stack", "setup", "descriptors",
                   "started", "pins", "mode"} :
           /\ Services!At("up", s) /\ Services!Done
           /\ up' = up \cup {s} \/ (s = "pins" /\ up' = up)
  BY DEF Services!BringUp, Services!Unchecked, Services!Tcp, IsMaster
<1>2. step \in 0 .. 7
  BY DEF MasterUp
<1>3. MasterUps(step + 1, s) /\ Len(Services!Run) = 8
  BY <1>1, <1>2, MasterAt
<1>4. step' = IF step + 1 = 8 THEN 0 ELSE step + 1
  BY <1>1, <1>3 DEF Services!Done
<1>5. step \in {0, 1, 2, 3, 4, 5} /\ step' = IF step = 7 THEN 0 ELSE step + 1
  BY <1>2, <1>3, <1>4 DEF MasterUps
<1>6. CASE up' = up \cup {s}
  BY <1>6, <1>2, <1>3, <1>4 DEF MasterUp, MasterUps
<1>7. CASE s = "pins" /\ up' = up
  BY <1>7, <1>2, <1>3, <1>4 DEF MasterUp, MasterUps
<1> QED
  BY <1>1, <1>6, <1>7, <1>5

LEMMA MasterTakeDown ==
  ASSUME IsMaster, MasterUp, Services!TakeDown
  PROVE  MasterUp' /\ step \in {7} /\ step' = IF step = 7 THEN 0 ELSE step + 1
<1>1. PICK s \in {"stack", "mdns", "net", "loop", "netif", "nvs"} :
           /\ Services!At("down", s) /\ Services!Done
           /\ up' = up \ Services!GoesDown(s)
  BY DEF Services!TakeDown
<1>2. step \in 0 .. 7
  BY DEF MasterUp
<1>3. MasterDowns(step + 1, s) /\ Len(Services!Run) = 8
  BY <1>1, <1>2, MasterAt
<1>4. step' = IF step + 1 = 8 THEN 0 ELSE step + 1
  BY <1>1, <1>3 DEF Services!Done
<1>5. step \in {7} /\ step' = IF step = 7 THEN 0 ELSE step + 1
  BY <1>2, <1>3, <1>4 DEF MasterDowns
<1>6. MasterUp'
  BY <1>1, <1>2, <1>3, <1>4 DEF MasterUp, MasterDowns, Services!GoesDown
<1> QED
  BY <1>5, <1>6

SlaveRun ==
  << BringsUp("stack"), BringsUp("setup"), BringsUp("descriptors"), BringsUp("started"),
     BringsUp("pins"), BringsUp("mode"), Does("operate"), TakesDown("stack") >>

LEMMA SlaveRunIs ==
  IsSlave => Services!Run = SlaveRun
  BY UartSlaveRun DEF IsSlave, SlaveRun, Services!Run, Services!Tcp

SlaveUps(k, s) ==
  (k = 1 /\ s = "stack") \/ (k = 2 /\ s = "setup") \/ (k = 3 /\ s = "descriptors") \/
  (k = 4 /\ s = "started") \/ (k = 5 /\ s = "pins") \/ (k = 6 /\ s = "mode")

SlaveDowns(k, s) ==
  (k = 8 /\ s = "stack")

SlaveDoes(k, s) ==
  (k = 7 /\ s = "operate")

LEMMA SlaveRunLength == Len(SlaveRun) = 8
  BY DEF SlaveRun

LEMMA SlaveSchedule ==
  ASSUME NEW k \in 1 .. 8, NEW s
  PROVE  /\ SlaveRun[k] = <<"up", s>> => SlaveUps(k, s)
         /\ SlaveRun[k] = <<"down", s>> => SlaveDowns(k, s)
         /\ SlaveRun[k] = <<"do", s>> => SlaveDoes(k, s)
<1>1. k = 1 \/ k = 2 \/ k = 3 \/ k = 4 \/ k = 5 \/ k = 6 \/ k = 7 \/ k = 8
  OBVIOUS
<1>2. /\ SlaveRun[1] = BringsUp("stack")
      /\ SlaveRun[2] = BringsUp("setup")
      /\ SlaveRun[3] = BringsUp("descriptors")
      /\ SlaveRun[4] = BringsUp("started")
      /\ SlaveRun[5] = BringsUp("pins")
      /\ SlaveRun[6] = BringsUp("mode")
      /\ SlaveRun[7] = Does("operate")
      /\ SlaveRun[8] = TakesDown("stack")
  BY DEF SlaveRun
<1>3. CASE k = 1
  BY <1>3, <1>2 DEF BringsUp, TakesDown, Does, SlaveUps, SlaveDowns, SlaveDoes
<1>4. CASE k = 2
  BY <1>4, <1>2 DEF BringsUp, TakesDown, Does, SlaveUps, SlaveDowns, SlaveDoes
<1>5. CASE k = 3
  BY <1>5, <1>2 DEF BringsUp, TakesDown, Does, SlaveUps, SlaveDowns, SlaveDoes
<1>6. CASE k = 4
  BY <1>6, <1>2 DEF BringsUp, TakesDown, Does, SlaveUps, SlaveDowns, SlaveDoes
<1>7. CASE k = 5
  BY <1>7, <1>2 DEF BringsUp, TakesDown, Does, SlaveUps, SlaveDowns, SlaveDoes
<1>8. CASE k = 6
  BY <1>8, <1>2 DEF BringsUp, TakesDown, Does, SlaveUps, SlaveDowns, SlaveDoes
<1>9. CASE k = 7
  BY <1>9, <1>2 DEF BringsUp, TakesDown, Does, SlaveUps, SlaveDowns, SlaveDoes
<1>10. CASE k = 8
  BY <1>10, <1>2 DEF BringsUp, TakesDown, Does, SlaveUps, SlaveDowns, SlaveDoes
<1> QED
  BY <1>1, <1>3, <1>4, <1>5, <1>6, <1>7, <1>8, <1>9, <1>10

LEMMA SlaveAt ==
  ASSUME IsSlave, step \in Nat, NEW s
  PROVE  /\ Len(Services!Run) = 8
         /\ Services!At("up", s) => SlaveUps(step + 1, s)
         /\ Services!At("down", s) => SlaveDowns(step + 1, s)
         /\ Services!At("do", s) => SlaveDoes(step + 1, s)
<1>1. Services!Run = SlaveRun /\ Len(SlaveRun) = 8
  BY SlaveRunIs, SlaveRunLength
<1>2. SUFFICES ASSUME step < 8
               PROVE  /\ SlaveRun[step + 1] = <<"up", s>> => SlaveUps(step + 1, s)
                      /\ SlaveRun[step + 1] = <<"down", s>> => SlaveDowns(step + 1, s)
                      /\ SlaveRun[step + 1] = <<"do", s>> => SlaveDoes(step + 1, s)
  BY <1>1 DEF Services!At
<1> QED
  BY <1>2, SlaveSchedule

SlaveUp ==
  /\ step \in 0 .. 7 /\ up \subseteq {"stack", "setup", "descriptors", "started", "pins", "mode"}
  /\ "stack" \in up <=> step \in 1 .. 7
  /\ "setup" \in up <=> step \in 2 .. 7
  /\ "descriptors" \in up <=> step \in 3 .. 7
  /\ "started" \in up <=> step \in 4 .. 7
  /\ "pins" \in up <=> step \in 5 .. 7
  /\ "mode" \in up <=> step \in 6 .. 7

LEMMA SlaveBringUp ==
  ASSUME IsSlave, SlaveUp, Services!BringUp
  PROVE  SlaveUp' /\ step \in {0, 1, 2, 3, 4, 5} /\ step' = IF step = 7 THEN 0 ELSE step + 1
<1>1. PICK s \in {"nvs", "netif", "loop", "mdns", "net", "ps", "stack", "setup", "descriptors",
                   "started", "pins", "mode"} :
           /\ Services!At("up", s) /\ Services!Done
           /\ up' = up \cup {s}
  BY DEF Services!BringUp, Services!Unchecked, Services!Tcp, IsSlave
<1>2. step \in 0 .. 7
  BY DEF SlaveUp
<1>3. SlaveUps(step + 1, s) /\ Len(Services!Run) = 8
  BY <1>1, <1>2, SlaveAt
<1>4. step' = IF step + 1 = 8 THEN 0 ELSE step + 1
  BY <1>1, <1>3 DEF Services!Done
<1>5. step \in {0, 1, 2, 3, 4, 5} /\ step' = IF step = 7 THEN 0 ELSE step + 1
  BY <1>2, <1>3, <1>4 DEF SlaveUps
<1>6. SlaveUp'
  BY <1>1, <1>2, <1>3, <1>4 DEF SlaveUp, SlaveUps
<1> QED
  BY <1>5, <1>6

LEMMA SlaveTakeDown ==
  ASSUME IsSlave, SlaveUp, Services!TakeDown
  PROVE  SlaveUp' /\ step \in {7} /\ step' = IF step = 7 THEN 0 ELSE step + 1
<1>1. PICK s \in {"stack", "mdns", "net", "loop", "netif", "nvs"} :
           /\ Services!At("down", s) /\ Services!Done
           /\ up' = up \ Services!GoesDown(s)
  BY DEF Services!TakeDown
<1>2. step \in 0 .. 7
  BY DEF SlaveUp
<1>3. SlaveDowns(step + 1, s) /\ Len(Services!Run) = 8
  BY <1>1, <1>2, SlaveAt
<1>4. step' = IF step + 1 = 8 THEN 0 ELSE step + 1
  BY <1>1, <1>3 DEF Services!Done
<1>5. step \in {7} /\ step' = IF step = 7 THEN 0 ELSE step + 1
  BY <1>2, <1>3, <1>4 DEF SlaveDowns
<1>6. SlaveUp'
  BY <1>1, <1>2, <1>3, <1>4 DEF SlaveUp, SlaveDowns, Services!GoesDown
<1> QED
  BY <1>5, <1>6

-----------------------------------------------------------------------------
(* The table of addresses, and the whole invariant.                        *)
ServicesTypes ==
  /\ program \in Services!Tcp \cup {"uart_master", "uart_slave"} /\ resolver \in {"mdns", "stdin"}
  /\ table \in [1 .. Slaves + 1 -> -1 .. MaxRuns] /\ table[Slaves + 1] = 0
  /\ tries \in 0 .. Queries - 1 /\ early \in BOOLEAN /\ announced \subseteq 1 .. Slaves
  /\ runs \in 0 .. MaxRuns /\ (step # 0 => runs >= 1)

(* A run that resolves begins and ends with an empty table, and between    *)
(* the query and the end of the list has found every address itself.       *)
MdnsTable ==
  /\ step = 0 \/ step >= 15 => \A d \in 1 .. Slaves : table[d] = 0
  /\ step \in 1 .. 6 => \A d \in 1 .. Slaves : table[d] = 0 \/ table[d] = runs
  /\ step \in 7 .. 14 => \A d \in 1 .. Slaves : table[d] = runs

(* Addresses from the terminal stay from run to run.                       *)
StdinTable ==
  /\ ~early => \A d \in 1 .. Slaves : table[d] # 0
  /\ step >= 6 => early \/ \A d \in 1 .. Slaves : table[d] > 0

ServicesInv ==
  /\ ServicesTypes
  /\ IsMdns => MdnsUp /\ MdnsTable
  /\ IsStdin => StdinUp /\ StdinTable
  /\ IsMaster => MasterUp
  /\ IsSlave => SlaveUp

(* A run is of one kind, and keeps it.                                     *)
LEMMA OneKind ==
  ASSUME ServicesTypes
  PROVE  /\ IsMdns \/ IsStdin \/ IsMaster \/ IsSlave
         /\ IsMdns => ~IsStdin /\ ~IsMaster /\ ~IsSlave
         /\ IsStdin => ~IsMdns /\ ~IsMaster /\ ~IsSlave
         /\ IsMaster => ~IsStdin /\ ~IsMdns /\ ~IsSlave
         /\ IsSlave => ~IsStdin /\ ~IsMaster /\ ~IsMdns
  BY DEF ServicesTypes, IsMdns, IsStdin, IsMaster, IsSlave, Services!Tcp

LEMMA StepInRun ==
  ASSUME ServicesInv
  PROVE  step \in Nat /\ Len(Services!Run) \in Nat /\ step < Len(Services!Run)
<1>1. CASE IsMdns
  <2>1. step \in 0 .. 19
    BY <1>1 DEF ServicesInv, MdnsUp
  <2>2. Services!Run = MdnsRun /\ Len(MdnsRun) = 20
    BY <1>1, MdnsRunIs, MdnsRunLength
  <2> QED
    BY <2>1, <2>2
<1>2. CASE IsStdin
  <2>1. step \in 0 .. 15
    BY <1>2 DEF ServicesInv, StdinUp
  <2>2. Services!Run = StdinRun /\ Len(StdinRun) = 16
    BY <1>2, StdinRunIs, StdinRunLength
  <2> QED
    BY <2>1, <2>2
<1>3. CASE IsMaster
  <2>1. step \in 0 .. 7
    BY <1>3 DEF ServicesInv, MasterUp
  <2>2. Services!Run = MasterRun /\ Len(MasterRun) = 8
    BY <1>3, MasterRunIs, MasterRunLength
  <2> QED
    BY <2>1, <2>2
<1>4. CASE IsSlave
  <2>1. step \in 0 .. 7
    BY <1>4 DEF ServicesInv, SlaveUp
  <2>2. Services!Run = SlaveRun /\ Len(SlaveRun) = 8
    BY <1>4, SlaveRunIs, SlaveRunLength
  <2> QED
    BY <2>1, <2>2
<1> QED
  BY <1>1, <1>2, <1>3, <1>4, OneKind DEF ServicesInv

LEMMA ServicesBegin == Services!Init => ServicesInv
<1> SUFFICES ASSUME Services!Init PROVE ServicesInv
  OBVIOUS
<1> USE RunsAssumption DEF Services!CountsOK
<1>1. /\ step = 0 /\ up = {} /\ tries = 0 /\ early = FALSE /\ announced \subseteq 1 .. Slaves
      /\ runs = 0 /\ program \in Services!Tcp \cup {"uart_master", "uart_slave"}
      /\ resolver \in {"mdns", "stdin"}
  BY DEF Services!Init, Services!Device
<1>2. table = [d \in 1 .. Slaves + 1 |-> IF resolver = "stdin" /\ d \in 1 .. Slaves THEN -1 ELSE 0]
  BY DEF Services!Init, Services!EmptyTable, Services!FromStdin, Services!Device
<1>3. table \in [1 .. Slaves + 1 -> -1 .. MaxRuns] /\ table[Slaves + 1] = 0
  BY <1>1, <1>2
<1>4. \A d \in 1 .. Slaves : table[d] = IF resolver = "stdin" THEN -1 ELSE 0
  BY <1>1, <1>2
<1>5. ServicesTypes
  <2>1. tries \in 0 .. Queries - 1
    BY <1>1
  <2>2. runs \in 0 .. MaxRuns /\ (step # 0 => runs >= 1)
    BY <1>1
  <2>3. early \in BOOLEAN
    BY <1>1
  <2> QED
    BY <1>1, <2>1, <2>2, <2>3, <1>3 DEF ServicesTypes
<1>6. IsMdns => MdnsUp /\ MdnsTable
  BY <1>1, <1>4 DEF IsMdns, MdnsUp, MdnsTable
<1>7. IsStdin => StdinUp /\ StdinTable
  BY <1>1, <1>4 DEF IsStdin, StdinUp, StdinTable
<1>8. MasterUp /\ SlaveUp
  BY <1>1 DEF MasterUp, SlaveUp
<1> QED
  BY <1>5, <1>6, <1>7, <1>8 DEF ServicesInv

(* A program that aborts is where it began.                                *)
LEMMA AbortBegins ==
  ASSUME ServicesInv, Services!Abort
  PROVE  ServicesInv'
<1> USE RunsAssumption DEF Services!CountsOK
<1>1. /\ step' = 0 /\ up' = {} /\ tries' = 0 /\ early' = FALSE /\ announced' \subseteq 1 .. Slaves
      /\ runs' \in 0 .. MaxRuns /\ program' \in Services!Tcp \cup {"uart_master", "uart_slave"}
      /\ resolver' \in {"mdns", "stdin"}
  BY DEF Services!Abort, ServicesInv, ServicesTypes
<1>2. table' = [d \in 1 .. Slaves + 1 |-> IF resolver' = "stdin" /\ d \in 1 .. Slaves THEN -1 ELSE 0]
  BY DEF Services!Abort, Services!EmptyTable, Services!FromStdin, Services!Device
<1>3. table' \in [1 .. Slaves + 1 -> -1 .. MaxRuns] /\ table'[Slaves + 1] = 0
  BY <1>1, <1>2
<1>4. \A d \in 1 .. Slaves : table'[d] = IF resolver' = "stdin" THEN -1 ELSE 0
  BY <1>1, <1>2
<1>5. ServicesTypes'
  <2>1. tries' \in 0 .. Queries - 1
    BY <1>1
  <2>2. runs' \in 0 .. MaxRuns /\ (step' # 0 => runs' >= 1)
    BY <1>1
  <2>3. early' \in BOOLEAN
    BY <1>1
  <2> QED
    BY <1>1, <2>1, <2>2, <2>3, <1>3 DEF ServicesTypes, Services!Tcp
<1>6. IsMdns' => MdnsUp' /\ MdnsTable'
  BY <1>1, <1>4 DEF IsMdns, MdnsUp, MdnsTable
<1>7. IsStdin' => StdinUp' /\ StdinTable'
  BY <1>1, <1>4 DEF IsStdin, StdinUp, StdinTable
<1>8. MasterUp' /\ SlaveUp'
  BY <1>1 DEF MasterUp, SlaveUp
<1> QED
  BY <1>5, <1>6, <1>7, <1>8 DEF ServicesInv

LEMMA KindStays ==
  ASSUME UNCHANGED <<program, resolver>>
  PROVE  /\ IsMdns' = IsMdns /\ IsStdin' = IsStdin
         /\ IsMaster' = IsMaster /\ IsSlave' = IsSlave
  BY DEF IsMdns, IsStdin, IsMaster, IsSlave, Services!Tcp

(* The table after a query, and after the list was freed.                  *)
LEMMA ResolvedIs ==
  ASSUME ServicesTypes, NEW found, found = {} \/ found = announced, runs >= 1
  PROVE  /\ Services!Resolved(found) \in [1 .. Slaves + 1 -> -1 .. MaxRuns]
         /\ Services!Resolved(found)[Slaves + 1] = 0
         /\ \A d \in 1 .. Slaves :
              Services!Resolved(found)[d] = IF table[d] = 0 /\ d \in found THEN runs ELSE table[d]
<1>1. /\ table \in [1 .. Slaves + 1 -> -1 .. MaxRuns] /\ table[Slaves + 1] = 0
      /\ runs \in -1 .. MaxRuns /\ Slaves \in Nat
  BY RunsAssumption DEF ServicesTypes, Services!CountsOK
<1>2. Slaves + 1 \notin found /\ Slaves + 1 \in 1 .. Slaves + 1
  BY <1>1 DEF ServicesTypes
<1>3. Services!Resolved(found)
        = [d \in 1 .. Slaves + 1 |-> IF table[d] = 0 /\ d \in found THEN runs ELSE table[d]]
  BY <1>1 DEF Services!Resolved
<1>4. \A d \in 1 .. Slaves + 1 :
        Services!Resolved(found)[d] = IF table[d] = 0 /\ d \in found THEN runs ELSE table[d]
  BY <1>3
<1>5. \A d \in 1 .. Slaves + 1 : table[d] \in -1 .. MaxRuns
  BY <1>1
<1>6. Services!Resolved(found) \in [1 .. Slaves + 1 -> -1 .. MaxRuns]
  BY <1>1, <1>3, <1>5
<1>7. Services!Resolved(found)[Slaves + 1] = 0
  BY <1>1, <1>2, <1>4
<1>8. \A d \in 1 .. Slaves : d \in 1 .. Slaves + 1
  BY <1>1
<1> QED
  BY <1>4, <1>6, <1>7, <1>8

LEMMA AskedIs ==
  ASSUME ServicesTypes, NEW last \in Int, runs >= 1
  PROVE  /\ Services!Asked(last) \in [1 .. Slaves + 1 -> -1 .. MaxRuns]
         /\ Services!Asked(last)[Slaves + 1] = 0
         /\ \A d \in 1 .. Slaves : Services!Asked(last)[d] =
              IF table[d] # -1 \/ d > last + 1 THEN table[d] ELSE IF d <= last THEN runs ELSE 0
<1>1. /\ table \in [1 .. Slaves + 1 -> -1 .. MaxRuns] /\ table[Slaves + 1] = 0
      /\ runs \in -1 .. MaxRuns /\ Slaves \in Nat /\ Slaves + 1 \in 1 .. Slaves + 1 /\ 0 \in -1 .. MaxRuns
  BY RunsAssumption DEF ServicesTypes, Services!CountsOK
<1>2. Services!Asked(last)
        = [d \in 1 .. Slaves + 1 |->
             IF table[d] # -1 \/ d > last + 1 THEN table[d] ELSE IF d <= last THEN runs ELSE 0]
  BY <1>1 DEF Services!Asked, Services!FromStdin
<1>3. \A d \in 1 .. Slaves + 1 : Services!Asked(last)[d] =
        IF table[d] # -1 \/ d > last + 1 THEN table[d] ELSE IF d <= last THEN runs ELSE 0
  BY <1>2
<1>4. \A d \in 1 .. Slaves + 1 : table[d] \in -1 .. MaxRuns
  BY <1>1
<1>5. Services!Asked(last) \in [1 .. Slaves + 1 -> -1 .. MaxRuns]
  BY <1>1, <1>2, <1>4
<1>6. Services!Asked(last)[Slaves + 1] = 0
  BY <1>1, <1>3
<1>7. \A d \in 1 .. Slaves : d \in 1 .. Slaves + 1
  BY <1>1
<1> QED
  BY <1>3, <1>5, <1>6, <1>7

(* Where the input has not ended early the first NULL is the last entry.   *)
LEMMA FirstIsLast ==
  ASSUME ServicesTypes, \A d \in 1 .. Slaves : table[d] # 0
  PROVE  Services!FirstUnset = Slaves + 1
<1>1. Slaves \in Nat /\ table \in [1 .. Slaves + 1 -> -1 .. MaxRuns] /\ table[Slaves + 1] = 0
  BY RunsAssumption DEF ServicesTypes, Services!CountsOK
<1>2. Len(table) = Slaves + 1
  BY <1>1
<1>3. {i \in 1 .. Len(table) : table[i] = 0} = {Slaves + 1}
  BY <1>1, <1>2
<1>4. Services!Min({Slaves + 1}) = Slaves + 1
  BY <1>1 DEF Services!Min
<1> QED
  BY <1>3, <1>4 DEF Services!FirstUnset, Services!SelectInSeq

LEMMA FreedIs ==
  ASSUME ServicesTypes, \A d \in 1 .. Slaves : table[d] # 0, Services!DestroyList
  PROVE  /\ table' \in [1 .. Slaves + 1 -> -1 .. MaxRuns] /\ table'[Slaves + 1] = 0
         /\ \A d \in 1 .. Slaves : table'[d] = 0
<1>1. /\ Slaves \in Nat /\ table \in [1 .. Slaves + 1 -> -1 .. MaxRuns] /\ table[Slaves + 1] = 0
      /\ Slaves + 1 \in 1 .. Slaves + 1 /\ 0 \in -1 .. MaxRuns
  BY RunsAssumption DEF ServicesTypes, Services!CountsOK
<1>2. table' = [d \in 1 .. Slaves + 1 |-> IF \A e \in 1 .. d : table[e] # 0 THEN 0 ELSE table[d]]
  BY <1>1 DEF Services!DestroyList
<1>3. ASSUME NEW d \in 1 .. Slaves PROVE \A e \in 1 .. d : table[e] # 0
  <2>1. 1 .. d \subseteq 1 .. Slaves
    BY <1>1
  <2> QED
    BY <2>1
<1> QED
  BY <1>1, <1>2, <1>3

-----------------------------------------------------------------------------
(* Each action keeps the invariant.                                        *)
LEMMA BringUpKeeps ==
  ASSUME ServicesInv, Services!BringUp
  PROVE  ServicesInv'
<1>1. /\ UNCHANGED <<program, resolver, table, tries, early, announced>>
      /\ runs' = (IF step = 0 THEN runs + 1 ELSE runs) /\ runs' <= MaxRuns
  BY DEF Services!BringUp, Services!Begin
<1>2. step \in Nat
  BY StepInRun
<1>3. /\ IsMdns' = IsMdns /\ IsStdin' = IsStdin
      /\ IsMaster' = IsMaster /\ IsSlave' = IsSlave
  BY <1>1, KindStays
<1>4. runs' \in 0 .. MaxRuns /\ runs' >= 1
  BY <1>1, <1>2, RunsAssumption DEF Services!CountsOK, ServicesInv, ServicesTypes
<1>5. ServicesTypes'
  BY <1>1, <1>4 DEF ServicesInv, ServicesTypes, Services!Tcp
<1>6. ASSUME IsMdns PROVE MdnsUp' /\ MdnsTable'
  <2>1. MdnsUp' /\ step \in {0, 1, 2, 3, 4, 5, 8, 9, 10, 11} /\ step' = step + 1
    BY <1>6, MdnsBringUp DEF ServicesInv
  <2>2. MdnsTable'
    BY <1>1, <1>6, <2>1 DEF ServicesInv, MdnsTable
  <2> QED
    BY <2>1, <2>2
<1>7. ASSUME IsStdin PROVE StdinUp' /\ StdinTable'
  <2>1. StdinUp' /\ step \in {0, 1, 2, 3, 4, 6, 7, 8, 9} /\ step' = step + 1
    BY <1>7, StdinBringUp DEF ServicesInv
  <2>2. StdinTable'
    BY <1>1, <1>7, <2>1 DEF ServicesInv, StdinTable
  <2> QED
    BY <2>1, <2>2
<1>8. ASSUME IsMaster PROVE MasterUp'
  BY <1>8, MasterBringUp DEF ServicesInv
<1>9. ASSUME IsSlave PROVE SlaveUp'
  BY <1>9, SlaveBringUp DEF ServicesInv
<1> QED
  BY <1>3, <1>5, <1>6, <1>7, <1>8, <1>9 DEF ServicesInv

LEMMA TakeDownKeeps ==
  ASSUME ServicesInv, Services!TakeDown
  PROVE  ServicesInv'
<1>1. UNCHANGED <<program, resolver, table, tries, early, announced, runs>>
  BY DEF Services!TakeDown
<1>2. step \in Nat
  BY StepInRun
<1>3. /\ IsMdns' = IsMdns /\ IsStdin' = IsStdin
      /\ IsMaster' = IsMaster /\ IsSlave' = IsSlave
  BY <1>1, KindStays
<1>4. ASSUME IsMdns PROVE MdnsUp' /\ MdnsTable' /\ step # 0
  <2>1. MdnsUp' /\ step \in {7, 13, 15, 16, 17, 18, 19} /\ step' = IF step = 19 THEN 0 ELSE step + 1
    BY <1>4, MdnsTakeDown DEF ServicesInv
  <2>2. MdnsTable'
    BY <1>1, <1>4, <2>1 DEF ServicesInv, MdnsTable
  <2> QED
    BY <2>1, <2>2
<1>5. ASSUME IsStdin PROVE StdinUp' /\ StdinTable' /\ step # 0
  <2>1. StdinUp' /\ step \in {11, 12, 13, 14, 15} /\ step' = IF step = 15 THEN 0 ELSE step + 1
    BY <1>5, StdinTakeDown DEF ServicesInv
  <2>2. StdinTable'
    BY <1>1, <1>5, <2>1 DEF ServicesInv, StdinTable
  <2> QED
    BY <2>1, <2>2
<1>6. ASSUME IsMaster PROVE MasterUp' /\ step # 0
  BY <1>6, MasterTakeDown DEF ServicesInv
<1>7. ASSUME IsSlave PROVE SlaveUp' /\ step # 0
  BY <1>7, SlaveTakeDown DEF ServicesInv
<1>8. runs \in 0 .. MaxRuns /\ runs >= 1
  BY <1>4, <1>5, <1>6, <1>7, OneKind DEF ServicesInv, ServicesTypes
<1>9. ServicesTypes'
  BY <1>1, <1>8 DEF ServicesInv, ServicesTypes, Services!Tcp
<1> QED
  BY <1>3, <1>9, <1>4, <1>5, <1>6, <1>7 DEF ServicesInv

(* Only the runs that resolve query, and only at one place.                *)
LEMMA DoesWhere ==
  ASSUME ServicesInv
  PROVE  /\ Services!At("do", "query") => IsMdns /\ step = 6 /\ Len(Services!Run) = 20
         /\ Services!At("do", "destroy_list") => IsMdns /\ step = 14 /\ Len(Services!Run) = 20
         /\ Services!At("do", "ask") => IsStdin /\ step = 5 /\ Len(Services!Run) = 16
         /\ Services!At("do", "operate") =>
              /\ IsMdns => step = 12 /\ Len(Services!Run) = 20
              /\ IsStdin => step = 10 /\ Len(Services!Run) = 16
              /\ IsMaster \/ IsSlave => step = 6 /\ Len(Services!Run) = 8
<1>1. step \in Nat
  BY StepInRun
<1>2. ASSUME IsMdns
      PROVE  /\ Len(Services!Run) = 20 /\ ~Services!At("do", "ask")
             /\ Services!At("do", "query") => step = 6
             /\ Services!At("do", "destroy_list") => step = 14
             /\ Services!At("do", "operate") => step = 12
  <2>1. \A s : Services!At("do", s) => MdnsDoes(step + 1, s)
    BY <1>1, <1>2, MdnsAt
  <2>2. Len(Services!Run) = 20
    BY <1>2, MdnsRunIs, MdnsRunLength
  <2> QED
    BY <1>1, <2>1, <2>2 DEF MdnsDoes
<1>3. ASSUME IsStdin
      PROVE  /\ Len(Services!Run) = 16 /\ ~Services!At("do", "query") /\ ~Services!At("do", "destroy_list")
             /\ Services!At("do", "ask") => step = 5
             /\ Services!At("do", "operate") => step = 10
  <2>1. \A s : Services!At("do", s) => StdinDoes(step + 1, s)
    BY <1>1, <1>3, StdinAt
  <2>2. Len(Services!Run) = 16
    BY <1>3, StdinRunIs, StdinRunLength
  <2> QED
    BY <1>1, <2>1, <2>2 DEF StdinDoes
<1>4. ASSUME IsMaster
      PROVE  /\ Len(Services!Run) = 8 /\ ~Services!At("do", "query") /\ ~Services!At("do", "destroy_list")
             /\ ~Services!At("do", "ask") /\ (Services!At("do", "operate") => step = 6)
  <2>1. \A s : Services!At("do", s) => MasterDoes(step + 1, s)
    BY <1>1, <1>4, MasterAt
  <2>2. Len(Services!Run) = 8
    BY <1>4, MasterRunIs, MasterRunLength
  <2> QED
    BY <1>1, <2>1, <2>2 DEF MasterDoes
<1>5. ASSUME IsSlave
      PROVE  /\ Len(Services!Run) = 8 /\ ~Services!At("do", "query") /\ ~Services!At("do", "destroy_list")
             /\ ~Services!At("do", "ask") /\ (Services!At("do", "operate") => step = 6)
  <2>1. \A s : Services!At("do", s) => SlaveDoes(step + 1, s)
    BY <1>1, <1>5, SlaveAt
  <2>2. Len(Services!Run) = 8
    BY <1>5, SlaveRunIs, SlaveRunLength
  <2> QED
    BY <1>1, <2>1, <2>2 DEF SlaveDoes
<1> QED
  BY <1>2, <1>3, <1>4, <1>5, OneKind DEF ServicesInv

LEMMA QueryKeeps ==
  ASSUME ServicesInv, Services!Query
  PROVE  ServicesInv'
<1>1. IsMdns /\ step = 6 /\ Len(Services!Run) = 20
  BY DoesWhere DEF Services!Query
<1>2. UNCHANGED <<program, resolver, up, early, announced, runs>>
  BY DEF Services!Query
<1>3. PICK found \in {{}, announced} :
        /\ table' = Services!Resolved(found)
        /\ IF Services!Count(found) = Services!Device
             THEN Services!Done /\ tries' = 0
             ELSE tries' = tries + 1 /\ tries' < Queries /\ UNCHANGED step
  BY DEF Services!Query
<1>4. IsMdns' /\ ~IsStdin' /\ ~IsMaster' /\ ~IsSlave'
  BY <1>1, <1>2, KindStays, OneKind DEF ServicesInv
<1>5. runs >= 1 /\ ServicesTypes /\ MdnsUp /\ MdnsTable
  BY <1>1 DEF ServicesInv, ServicesTypes
<1>6. /\ table' \in [1 .. Slaves + 1 -> -1 .. MaxRuns] /\ table'[Slaves + 1] = 0
      /\ \A d \in 1 .. Slaves : table'[d] = IF table[d] = 0 /\ d \in found THEN runs ELSE table[d]
  BY <1>3, <1>5, ResolvedIs
<1>7. tries' \in 0 .. Queries - 1
  BY <1>3, <1>5, RunsAssumption DEF ServicesTypes, Services!CountsOK
<1>8. ServicesTypes'
  BY <1>2, <1>5, <1>6, <1>7 DEF ServicesTypes, Services!Tcp
<1>9. \A d \in 1 .. Slaves : table'[d] = 0 \/ table'[d] = runs
  BY <1>1, <1>5, <1>6 DEF MdnsTable
<1>10. CASE Services!Count(found) = Services!Device
  <2>1. step' = 7
    BY <1>1, <1>3, <1>10 DEF Services!Done
  <2>2. \A d \in 1 .. Slaves : table'[d] # 0
    BY <1>3, <1>10 DEF Services!Count, Services!Device
  <2>3. MdnsTable'
    BY <1>2, <1>9, <2>1, <2>2 DEF MdnsTable
  <2>4. MdnsUp'
    BY <1>1, <1>2, <1>5, <2>1 DEF MdnsUp
  <2> QED
    BY <1>4, <1>8, <2>3, <2>4 DEF ServicesInv
<1>11. CASE Services!Count(found) # Services!Device
  <2>1. step' = 6
    BY <1>1, <1>3, <1>11
  <2>2. MdnsTable'
    BY <1>2, <1>9, <2>1 DEF MdnsTable
  <2>3. MdnsUp'
    BY <1>1, <1>2, <1>5, <2>1 DEF MdnsUp
  <2> QED
    BY <1>4, <1>8, <2>2, <2>3 DEF ServicesInv
<1> QED
  BY <1>10, <1>11

LEMMA AskKeeps ==
  ASSUME ServicesInv, Services!Ask
  PROVE  ServicesInv'
<1>1. IsStdin /\ step = 5 /\ Len(Services!Run) = 16
  BY DoesWhere DEF Services!Ask
<1>2. UNCHANGED <<program, resolver, up, tries, announced, runs>> /\ step' = 6
  BY <1>1 DEF Services!Ask, Services!Done
<1>3. PICK last \in 0 .. Services!FirstUnset - 1 :
        table' = Services!Asked(last) /\ early' = (early \/ last < Slaves)
  BY DEF Services!Ask
<1>4. IsStdin' /\ ~IsMdns' /\ ~IsMaster' /\ ~IsSlave'
  BY <1>1, <1>2, KindStays, OneKind DEF ServicesInv
<1>5. runs >= 1 /\ ServicesTypes /\ StdinUp /\ StdinTable
  BY <1>1 DEF ServicesInv, ServicesTypes
<1>6. /\ table' \in [1 .. Slaves + 1 -> -1 .. MaxRuns] /\ table'[Slaves + 1] = 0
      /\ \A d \in 1 .. Slaves : table'[d] =
           IF table[d] # -1 \/ d > last + 1 THEN table[d] ELSE IF d <= last THEN runs ELSE 0
  BY <1>3, <1>5, AskedIs
<1>7. early' \in BOOLEAN
  BY <1>3
<1>8. ServicesTypes'
  BY <1>2, <1>5, <1>6, <1>7 DEF ServicesTypes, Services!Tcp
<1>9. ASSUME ~early' PROVE \A d \in 1 .. Slaves : table'[d] > 0
  <2>1. ~early /\ ~(last < Slaves)
    BY <1>3, <1>9, Zenon
  <2>2. ~early /\ Slaves <= last
    BY <2>1, RunsAssumption DEF Services!CountsOK
  <2>3. ASSUME NEW d \in 1 .. Slaves PROVE table'[d] > 0
    <3>1. table[d] # 0
      BY <1>5, <2>2 DEF StdinTable
    <3>2. d <= last /\ d \in 1 .. Slaves + 1
      BY <2>2, RunsAssumption DEF Services!CountsOK
    <3>3. table[d] # 0 /\ d <= last /\ table[d] \in -1 .. MaxRuns
      BY <1>5, <3>1, <3>2 DEF ServicesTypes
    <3>4. table'[d] = IF table[d] # -1 \/ d > last + 1 THEN table[d] ELSE IF d <= last THEN runs ELSE 0
      BY <1>6
    <3>5. runs \in 0 .. MaxRuns /\ runs >= 1
      BY <1>5 DEF ServicesTypes
    <3>6. ~(d > last + 1)
      BY <3>3, RunsAssumption DEF Services!CountsOK
    <3>7. CASE table[d] = -1
      BY <3>3, <3>4, <3>5, <3>6, <3>7
    <3>8. CASE table[d] # -1
      BY <3>3, <3>4, <3>8
    <3> QED
      BY <3>7, <3>8
  <2> QED
    BY <2>3
<1>10. StdinTable'
  BY <1>7, <1>9 DEF StdinTable
<1>11. StdinUp'
  BY <1>1, <1>2, <1>5 DEF StdinUp
<1> QED
  BY <1>4, <1>8, <1>10, <1>11 DEF ServicesInv

LEMMA OperateKeeps ==
  ASSUME ServicesInv, Services!Operate
  PROVE  ServicesInv'
<1>1. UNCHANGED <<program, resolver, up, table, tries, early, announced, runs>> /\ Services!Done
  BY DEF Services!Operate
<1>2. /\ IsMdns => step = 12 /\ Len(Services!Run) = 20
      /\ IsStdin => step = 10 /\ Len(Services!Run) = 16
      /\ IsMaster \/ IsSlave => step = 6 /\ Len(Services!Run) = 8
  BY DoesWhere DEF Services!Operate, Services!Operating
<1>3. /\ IsMdns' = IsMdns /\ IsStdin' = IsStdin
      /\ IsMaster' = IsMaster /\ IsSlave' = IsSlave
  BY <1>1, KindStays
<1>4. runs >= 1
  BY <1>2, OneKind DEF ServicesInv, ServicesTypes
<1>5. ServicesTypes'
  BY <1>1, <1>4 DEF ServicesInv, ServicesTypes, Services!Tcp
<1>6. ASSUME IsMdns PROVE MdnsUp' /\ MdnsTable'
  <2>1. step = 12 /\ step' = 13
    BY <1>1, <1>2, <1>6 DEF Services!Done
  <2> QED
    BY <1>1, <1>6, <2>1 DEF ServicesInv, MdnsUp, MdnsTable
<1>7. ASSUME IsStdin PROVE StdinUp' /\ StdinTable'
  <2>1. step = 10 /\ step' = 11
    BY <1>1, <1>2, <1>7 DEF Services!Done
  <2> QED
    BY <1>1, <1>7, <2>1 DEF ServicesInv, StdinUp, StdinTable
<1>8. ASSUME IsMaster PROVE MasterUp'
  <2>1. step = 6 /\ step' = 7
    BY <1>1, <1>2, <1>8 DEF Services!Done
  <2> QED
    BY <1>1, <1>8, <2>1 DEF ServicesInv, MasterUp
<1>9. ASSUME IsSlave PROVE SlaveUp'
  <2>1. step = 6 /\ step' = 7
    BY <1>1, <1>2, <1>9 DEF Services!Done
  <2> QED
    BY <1>1, <1>9, <2>1 DEF ServicesInv, SlaveUp
<1> QED
  BY <1>3, <1>5, <1>6, <1>7, <1>8, <1>9 DEF ServicesInv

LEMMA DestroyListKeeps ==
  ASSUME ServicesInv, Services!DestroyList
  PROVE  ServicesInv'
<1>1. IsMdns /\ step = 14 /\ Len(Services!Run) = 20
  BY DoesWhere DEF Services!DestroyList
<1>2. UNCHANGED <<program, resolver, up, tries, early, announced, runs>> /\ step' = 15
  BY <1>1 DEF Services!DestroyList, Services!Done
<1>3. IsMdns' /\ ~IsStdin' /\ ~IsMaster' /\ ~IsSlave'
  BY <1>1, <1>2, KindStays, OneKind DEF ServicesInv
<1>4. runs >= 1 /\ ServicesTypes /\ MdnsUp /\ MdnsTable
  BY <1>1 DEF ServicesInv, ServicesTypes
<1>5. \A d \in 1 .. Slaves : table[d] # 0
  BY <1>1, <1>4 DEF MdnsTable
<1>6. /\ table' \in [1 .. Slaves + 1 -> -1 .. MaxRuns] /\ table'[Slaves + 1] = 0
      /\ \A d \in 1 .. Slaves : table'[d] = 0
  BY <1>4, <1>5, FreedIs
<1>7. ServicesTypes'
  BY <1>2, <1>4, <1>6 DEF ServicesTypes, Services!Tcp
<1>8. MdnsUp' /\ MdnsTable'
  BY <1>1, <1>2, <1>4, <1>6 DEF MdnsUp, MdnsTable
<1> QED
  BY <1>3, <1>7, <1>8 DEF ServicesInv

LEMMA AnnounceKeeps ==
  ASSUME ServicesInv, UNCHANGED <<program, resolver, step, up, table, tries, early, runs>>,
         announced' \subseteq 1 .. Slaves
  PROVE  ServicesInv'
<1>1. ServicesTypes'
  BY DEF ServicesInv, ServicesTypes, Services!Tcp
<1>2. (IsMdns' <=> IsMdns) /\ (IsStdin' <=> IsStdin) /\ (IsMaster' <=> IsMaster) /\ (IsSlave' <=> IsSlave)
  BY KindStays DEF ServicesInv
<1>3. (MdnsUp' <=> MdnsUp) /\ (MdnsTable' <=> MdnsTable)
  BY DEF MdnsUp, MdnsTable
<1>4. (StdinUp' <=> StdinUp) /\ (StdinTable' <=> StdinTable)
  BY DEF StdinUp, StdinTable
<1>5. (MasterUp' <=> MasterUp) /\ (SlaveUp' <=> SlaveUp)
  BY DEF MasterUp, SlaveUp
<1> QED
  BY <1>1, <1>2, <1>3, <1>4, <1>5 DEF ServicesInv

LEMMA ServicesStep ==
  ASSUME ServicesInv, [Services!Next]_Services!vars
  PROVE  ServicesInv'
<1>1. CASE Services!BringUp
  BY <1>1, BringUpKeeps
<1>2. CASE Services!TakeDown
  BY <1>2, TakeDownKeeps
<1>3. CASE Services!Fails
  BY <1>3, AbortBegins DEF Services!Fails
<1>4. CASE Services!Query
  BY <1>4, QueryKeeps
<1>5. CASE Services!Ask
  BY <1>5, AskKeeps
<1>6. CASE Services!Operate
  BY <1>6, OperateKeeps
<1>7. CASE Services!DestroyList
  BY <1>7, DestroyListKeeps
<1>8. CASE Services!Announce
  <2>1. announced' \subseteq 1 .. Slaves
    BY <1>8 DEF Services!Announce, Services!SymDiff, Services!Device, ServicesInv, ServicesTypes
  <2> QED
    BY <1>8, <2>1, AnnounceKeeps DEF Services!Announce
<1>9. CASE UNCHANGED Services!vars
  <2>1. announced' \subseteq 1 .. Slaves
    BY <1>9 DEF Services!vars, ServicesInv, ServicesTypes
  <2> QED
    BY <1>9, <2>1, AnnounceKeeps DEF Services!vars
<1> QED
  BY <1>1, <1>2, <1>3, <1>4, <1>5, <1>6, <1>7, <1>8, <1>9 DEF Services!Next

LEMMA ServicesInvGives ==
  ASSUME ServicesInv
  PROVE  Services!TypeOK /\ ServicesHold
<1>1. Services!TypeOK
  BY StepInRun DEF ServicesInv, ServicesTypes, Services!TypeOK, Services!FromStdin, Services!Device
<1>2. Services!Operating => /\ IsMdns => step = 12
                            /\ IsStdin => step = 10
                            /\ IsMaster \/ IsSlave => step = 6
  BY DoesWhere DEF Services!Operating
<1>3. ASSUME IsMdns PROVE ServicesHold
  <2>1. MdnsUp /\ MdnsTable /\ program \in Services!Tcp /\ resolver = "mdns"
    BY <1>3 DEF ServicesInv, IsMdns
  <2>2. Services!ServicesNest
    BY <1>2, <1>3, <2>1 DEF MdnsUp, Services!ServicesNest, Services!Tcp
  <2>3. Services!SlavesAreKnown
    BY <1>2, <1>3, <2>1 DEF MdnsTable, Services!SlavesAreKnown, Services!Device
  <2> QED
    BY <2>2, <2>3 DEF ServicesHold, Services!ServicesHold
<1>4. ASSUME IsStdin PROVE ServicesHold
  <2>1. StdinUp /\ StdinTable /\ program \in Services!Tcp /\ resolver # "mdns"
    BY <1>4 DEF ServicesInv, IsStdin
  <2>2. Services!ServicesNest
    BY <1>2, <1>4, <2>1 DEF StdinUp, Services!ServicesNest, Services!Tcp
  <2>3. Services!SlavesAreKnown
    BY <1>2, <1>4, <2>1 DEF StdinTable, Services!SlavesAreKnown, Services!Device
  <2> QED
    BY <2>2, <2>3 DEF ServicesHold, Services!ServicesHold
<1>5. ASSUME IsMaster PROVE ServicesHold
  BY <1>2, <1>5 DEF ServicesInv, IsMaster, MasterUp, ServicesHold, Services!ServicesHold,
     Services!ServicesNest, Services!SlavesAreKnown, Services!Tcp
<1>6. ASSUME IsSlave PROVE ServicesHold
  BY <1>2, <1>6 DEF ServicesInv, IsSlave, SlaveUp, ServicesHold, Services!ServicesHold,
     Services!ServicesNest, Services!SlavesAreKnown, Services!Tcp
<1> QED
  BY <1>1, <1>3, <1>4, <1>5, <1>6, OneKind DEF ServicesInv

(* Services of a Modbus program nest, and it operates on slaves it knows,  *)
(* whatever steps fail and whoever comes and goes.                         *)
THEOREM ServicesAreSound == Services!Spec => [](Services!TypeOK /\ ServicesHold)
<1>1. Services!Init => ServicesInv
  BY ServicesBegin
<1>2. ServicesInv /\ [Services!Next]_Services!vars => ServicesInv'
  BY ServicesStep
<1>3. ServicesInv => Services!TypeOK /\ ServicesHold
  BY ServicesInvGives
<1> QED
  BY <1>1, <1>2, <1>3, PTL DEF Services!Spec
=============================================================================
