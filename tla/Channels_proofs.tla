---------------------------- MODULE Channels_proofs ----------------------------
(***************************************************************************)
(* Theorems about Channels, for every size of a buffer, every length of a  *)
(* read or write, every number of bytes and callbacks, every address and   *)
(* prefix length, every set of callers of hostByName and of names.         *)
(***************************************************************************)
EXTENDS Channels, FiniteSetTheorems, SequenceTheorems, WellFoundedInduction, TLAPS

-----------------------------------------------------------------------------
(* Dns: the tasks that resolve a name.                                     *)

(* What releasing the waiters of a bit does to one caller.                 *)
LEMMA ReleasedType ==
  ASSUME at_dns \in [Callers -> Resolver!Labels], NEW b
  PROVE  Resolver!Released(b) \in [Callers -> Resolver!Labels]
  BY DEF Resolver!Released, Resolver!Labels

LEMMA NextTypeOK == Resolver!TypeOK /\ [Resolver!Next]_(Resolver!vars) => Resolver!TypeOK'
<1> SUFFICES ASSUME Resolver!TypeOK, [Resolver!Next]_(Resolver!vars) PROVE Resolver!TypeOK'
  OBVIOUS
<1> USE DEF Resolver!TypeOK, Resolver!Goes
<1>1. ASSUME NEW c \in Callers, Resolver!Call(c) PROVE Resolver!TypeOK'
  BY <1>1 DEF Resolver!Call, Resolver!Labels
<1>2. ASSUME NEW c \in Callers, Resolver!HostByName(c) PROVE Resolver!TypeOK'
  <2>1. CASE Resolver!IdleTimeout(c)
    BY <2>1 DEF Resolver!IdleTimeout, Resolver!Labels
  <2>2. CASE Resolver!ClearBoth(c)
    BY <2>2 DEF Resolver!ClearBoth, Resolver!Labels
  <2>3. CASE Resolver!Ask(c)
    <3>0. [who |-> c, name |-> name[c], live |-> TRUE] \in Resolver!Request
      BY DEF Resolver!Request
    <3>1. requests' \subseteq Resolver!Request
      BY <2>3, <3>0 DEF Resolver!Ask
    <3>2. aResult' \in [Callers -> Names \cup {NoAddress}]
      BY <2>3 DEF Resolver!Ask
    <3>3. at_dns' \in [Callers -> Resolver!Labels]
      BY <2>3 DEF Resolver!Ask, Resolver!Labels
    <3> QED
      BY <2>3, <3>1, <3>2, <3>3 DEF Resolver!Ask
  <2>4. CASE Resolver!BeginWait(c)
    BY <2>4 DEF Resolver!BeginWait, Resolver!Labels
  <2>5. CASE Resolver!DoneTimeout(c)
    BY <2>5 DEF Resolver!DoneTimeout, Resolver!Labels
  <2>6. CASE Resolver!ClearDone(c)
    BY <2>6 DEF Resolver!ClearDone, Resolver!Labels
  <2>7. CASE Resolver!Return(c)
    <3>1. requests' \subseteq Resolver!Request
      BY ZenonT(60), <2>7 DEF Resolver!Return, Resolver!Request
    <3>2. at_dns' \in [Callers -> Resolver!Labels]
      BY <2>7, ReleasedType DEF Resolver!Return, Resolver!Labels
    <3> QED
      BY <2>7, <3>1, <3>2 DEF Resolver!Return
  <2> QED
    BY <1>2, <2>1, <2>2, <2>3, <2>4, <2>5, <2>6, <2>7 DEF Resolver!HostByName
<1>3. ASSUME NEW r \in Resolver!Request, Resolver!Found(r) PROVE Resolver!TypeOK'
  BY <1>3 DEF Resolver!Found, Resolver!Request
<1>4. CASE Resolver!Done
  BY <1>4, ReleasedType DEF Resolver!Done
<1>5. CASE UNCHANGED Resolver!vars
  BY <1>5 DEF Resolver!vars
<1> QED
  BY <1>1, <1>2, <1>3, <1>4, <1>5 DEF Resolver!Next, Resolver!Lwip

(* Every variable has its type in every reachable state.                   *)
THEOREM TypeCorrect == Resolver!Spec => []Resolver!TypeOK
<1>1. Resolver!Init => Resolver!TypeOK
  BY DEF Resolver!Init, Resolver!TypeOK, Resolver!Labels, Resolver!Request
<1> QED
  BY <1>1, NextTypeOK, PTL DEF Resolver!Spec

-----------------------------------------------------------------------------
(* IDLE is never lost: whoever clears it is inside until it sets it.       *)
THEOREM IdleIsSet == Resolver!Spec => []Resolver!IdleAtRest
<1>1. Resolver!Init => Resolver!IdleAtRest
  BY DEF Resolver!Init, Resolver!IdleAtRest
<1>2. Resolver!TypeOK /\ Resolver!IdleAtRest /\ [Resolver!Next]_(Resolver!vars)
     => Resolver!IdleAtRest'
  <2> SUFFICES ASSUME Resolver!TypeOK, Resolver!IdleAtRest,
                      [Resolver!Next]_(Resolver!vars) PROVE Resolver!IdleAtRest'
    OBVIOUS
  <2> USE DEF Resolver!IdleAtRest, Resolver!Inside, Resolver!TypeOK, Resolver!Goes
  <2>1. ASSUME NEW c \in Callers, Resolver!Call(c) PROVE Resolver!IdleAtRest'
    BY <2>1 DEF Resolver!Call
  <2>2. ASSUME NEW c \in Callers, Resolver!IdleTimeout(c) \/ Resolver!ClearBoth(c)
               \/ Resolver!Ask(c) \/ Resolver!BeginWait(c) \/ Resolver!DoneTimeout(c)
               \/ Resolver!ClearDone(c)
        PROVE  Resolver!IdleAtRest'
    <3>1. at_dns'[c] = "clear" \/ Resolver!Inside(c)'
      BY <2>2 DEF Resolver!IdleTimeout, Resolver!ClearBoth, Resolver!Ask, Resolver!BeginWait,
                  Resolver!DoneTimeout, Resolver!ClearDone
    <3> QED
      BY <3>1
  <2>3. ASSUME NEW c \in Callers, Resolver!Return(c) PROVE Resolver!IdleAtRest'
    BY <2>3 DEF Resolver!Return
  <2>4. ASSUME NEW r \in Resolver!Request, Resolver!Found(r) PROVE Resolver!IdleAtRest'
    BY <2>4 DEF Resolver!Found
  <2>5. CASE Resolver!Done
    BY <2>5 DEF Resolver!Done, Resolver!Released
  <2>6. CASE UNCHANGED Resolver!vars
    BY <2>6 DEF Resolver!vars
  <2> QED
    BY <2>1, <2>2, <2>3, <2>4, <2>5, <2>6 DEF Resolver!Next, Resolver!Lwip, Resolver!HostByName
<1> QED
  BY <1>1, <1>2, TypeCorrect, PTL DEF Resolver!Spec

(* A caller waits for IDLE only while another is on its way to set it.     *)
THEOREM WaitsHaveReason == Resolver!Spec => []Resolver!WaitHasReason
<1>1. Resolver!Init => Resolver!WaitHasReason
  BY DEF Resolver!Init, Resolver!WaitHasReason
<1>2. Resolver!TypeOK /\ Resolver!IdleAtRest /\ Resolver!WaitHasReason
     /\ [Resolver!Next]_(Resolver!vars) => Resolver!WaitHasReason'
  <2> SUFFICES ASSUME Resolver!TypeOK, Resolver!IdleAtRest, Resolver!WaitHasReason,
                      [Resolver!Next]_(Resolver!vars),
                      NEW w \in Callers, at_dns'[w] = "await_idle"
               PROVE  \E d \in Callers \ {w} : Resolver!Inside(d)' \/ at_dns'[d] = "clear"
    BY DEF Resolver!WaitHasReason
  <2> USE DEF Resolver!WaitHasReason, Resolver!Inside, Resolver!TypeOK, Resolver!Goes
  <2>1. ASSUME NEW c \in Callers, Resolver!Call(c)
        PROVE  \E d \in Callers \ {w} : Resolver!Inside(d)' \/ at_dns'[d] = "clear"
    <3>1. CASE w = c
      <4>1. "IDLE" \notin dnsBits
        BY <2>1, <3>1 DEF Resolver!Call
      <4>2. PICK d \in Callers : Resolver!Inside(d) \/ at_dns[d] = "clear"
        BY <4>1 DEF Resolver!IdleAtRest
      <4> QED
        BY <2>1, <3>1, <4>2 DEF Resolver!Call
    <3>2. CASE w # c
      BY <2>1, <3>2 DEF Resolver!Call
    <3> QED
      BY <3>1, <3>2
  <2>2. ASSUME NEW c \in Callers, Resolver!IdleTimeout(c) \/ Resolver!ClearBoth(c)
               \/ Resolver!Ask(c) \/ Resolver!BeginWait(c) \/ Resolver!DoneTimeout(c)
               \/ Resolver!ClearDone(c)
        PROVE  \E d \in Callers \ {w} : Resolver!Inside(d)' \/ at_dns'[d] = "clear"
    <3>1. (at_dns'[c] = "clear" \/ Resolver!Inside(c)')
         /\ \A d \in Callers \ {c} : at_dns'[d] = at_dns[d]
      BY <2>2 DEF Resolver!IdleTimeout, Resolver!ClearBoth, Resolver!Ask, Resolver!BeginWait,
                  Resolver!DoneTimeout, Resolver!ClearDone
    <3> QED
      BY <3>1
  <2>3. ASSUME NEW c \in Callers, Resolver!Return(c)
        PROVE  \E d \in Callers \ {w} : Resolver!Inside(d)' \/ at_dns'[d] = "clear"
    BY <2>3 DEF Resolver!Return, Resolver!Released
  <2>4. ASSUME NEW r \in Resolver!Request, Resolver!Found(r)
        PROVE  \E d \in Callers \ {w} : Resolver!Inside(d)' \/ at_dns'[d] = "clear"
    BY <2>4 DEF Resolver!Found
  <2>5. ASSUME Resolver!Done
        PROVE  \E d \in Callers \ {w} : Resolver!Inside(d)' \/ at_dns'[d] = "clear"
    BY <2>5 DEF Resolver!Done, Resolver!Released
  <2>6. ASSUME UNCHANGED Resolver!vars
        PROVE  \E d \in Callers \ {w} : Resolver!Inside(d)' \/ at_dns'[d] = "clear"
    BY <2>6 DEF Resolver!vars
  <2> QED
    BY <2>1, <2>2, <2>3, <2>4, <2>5, <2>6 DEF Resolver!Next, Resolver!Lwip, Resolver!HostByName
<1> QED
  BY <1>1, <1>2, TypeCorrect, IdleIsSet, PTL DEF Resolver!Spec

-----------------------------------------------------------------------------
(* As long as nobody overlapped: one caller is inside at most, the         *)
(* requests that are open are its own, for the name it asks for, and it    *)
(* waits for them; an answer on its way is to it; and DONE is set only     *)
(* while it is about to clear it.                                          *)
OneInside == \A c, d \in Callers : Resolver!Inside(c) /\ Resolver!Inside(d) => c = d

Asking(c) == at_dns[c] \in {"asked", "await_done"}

RequestsAreOpen ==
  \A r \in requests : r.live /\ Asking(r.who) /\ r.name = name[r.who]

AnswerIsAwaited ==
  answering => requests = {} /\ "DONE" \notin dnsBits /\ \E c \in Callers : Asking(c)

DoneIsFresh ==
  "DONE" \in dnsBits =>
    requests = {} /\ \E c \in Callers : at_dns[c] \in {"asked", "clear_done"}

OneRequest == \A r, q \in requests : r = q

ResultsFit == \A c \in Callers : aResult[c] \in {NoAddress, name[c]}

Alone == OneInside /\ RequestsAreOpen /\ AnswerIsAwaited /\ DoneIsFresh /\ OneRequest /\ ResultsFit

AloneInv == ~ overlap => Alone

LEMMA AloneStep == Resolver!TypeOK /\ AloneInv /\ [Resolver!Next]_(Resolver!vars) => AloneInv'
<1> SUFFICES ASSUME Resolver!TypeOK, AloneInv, [Resolver!Next]_(Resolver!vars),
                    ~ overlap' PROVE Alone'
  BY DEF AloneInv
<1>0. ~ overlap
  BY DEF Resolver!Next, Resolver!Lwip, Resolver!HostByName, Resolver!Call, Resolver!IdleTimeout,
         Resolver!ClearBoth, Resolver!Ask, Resolver!BeginWait, Resolver!DoneTimeout,
         Resolver!ClearDone,
         Resolver!Return, Resolver!Found, Resolver!Done, Resolver!vars, Resolver!TypeOK
<1>00. Alone
  BY <1>0 DEF AloneInv
<1> USE <1>00 DEF Resolver!TypeOK, Resolver!Goes, Resolver!Inside, Asking, Alone
<1>1. ASSUME NEW c \in Callers, Resolver!Call(c) PROVE Alone'
  <2>1. OneInside' /\ AnswerIsAwaited' /\ DoneIsFresh' /\ OneRequest'
    BY <1>1 DEF Resolver!Call, OneInside, AnswerIsAwaited, DoneIsFresh, OneRequest
  <2>2. RequestsAreOpen'
    BY <1>1 DEF Resolver!Call, RequestsAreOpen, Resolver!Request
  <2>3. ResultsFit'
    BY <1>1 DEF Resolver!Call, ResultsFit
  <2> QED
    BY <2>1, <2>2, <2>3
<1>2. ASSUME NEW c \in Callers, Resolver!IdleTimeout(c) PROVE Alone'
  BY <1>2 DEF Resolver!IdleTimeout, OneInside, RequestsAreOpen, Resolver!Request,
              AnswerIsAwaited, DoneIsFresh, OneRequest, ResultsFit
<1>3. ASSUME NEW c \in Callers, Resolver!ClearBoth(c) PROVE Alone'
  <2>1. \A d \in Callers : ~ Resolver!Inside(d)
    BY <1>3 DEF Resolver!ClearBoth
  <2>2. requests = {} /\ ~ answering
    BY <2>1 DEF RequestsAreOpen, AnswerIsAwaited, Resolver!Request
  <2> QED
    BY <1>3, <2>1, <2>2 DEF Resolver!ClearBoth, OneInside, RequestsAreOpen, AnswerIsAwaited,
                            DoneIsFresh, OneRequest, ResultsFit
<1>4. ASSUME NEW c \in Callers, Resolver!Ask(c) PROVE Alone'
  <2>1. \A d \in Callers : d # c => ~ Resolver!Inside(d)
    BY <1>4 DEF Resolver!Ask, OneInside
  <2>2. requests = {} /\ ~ answering /\ "DONE" \notin dnsBits
    BY <1>4, <2>1 DEF Resolver!Ask, RequestsAreOpen, AnswerIsAwaited, DoneIsFresh, Resolver!Request
  <2>3. OneInside' /\ ResultsFit'
    BY <1>4, <2>1 DEF Resolver!Ask, OneInside, ResultsFit
  <2>4. RequestsAreOpen' /\ OneRequest'
    <3>1. CASE requests' = {}
      BY <3>1 DEF RequestsAreOpen, OneRequest
    <3>2. CASE requests' # {}
      <4> DEFINE mine == [who |-> c, name |-> name[c], live |-> TRUE]
      <4>1. requests' = {mine} /\ at_dns'[c] = "asked" /\ name' = name
        BY <1>4, <2>2, <3>2 DEF Resolver!Ask
      <4>2. mine.who = c /\ mine.name = name[c] /\ mine.live
        OBVIOUS
      <4> HIDE DEF mine
      <4> QED
        BY <4>1, <4>2 DEF RequestsAreOpen, OneRequest
    <3> QED
      BY <3>1, <3>2
  <2>5. AnswerIsAwaited' /\ DoneIsFresh'
    BY <1>4, <2>2 DEF Resolver!Ask, AnswerIsAwaited, DoneIsFresh
  <2> QED
    BY <2>3, <2>4, <2>5
<1>5. ASSUME NEW c \in Callers, Resolver!BeginWait(c) PROVE Alone'
  <2>1. \A d \in Callers : d # c => ~ Resolver!Inside(d)
    BY <1>5 DEF Resolver!BeginWait, OneInside
  <2>2. OneInside' /\ ResultsFit' /\ OneRequest'
    BY <1>5, <2>1 DEF Resolver!BeginWait, OneInside, ResultsFit, OneRequest
  <2>3. CASE "DONE" \in dnsBits
    <3>1. requests = {} /\ ~ answering
      BY <2>3 DEF DoneIsFresh, AnswerIsAwaited
    <3> QED
      BY <1>5, <2>2, <2>3, <3>1 DEF Resolver!BeginWait, RequestsAreOpen, AnswerIsAwaited,
                                    DoneIsFresh
  <2>4. CASE "DONE" \notin dnsBits
    BY <1>5, <2>2, <2>4 DEF Resolver!BeginWait, RequestsAreOpen, AnswerIsAwaited, DoneIsFresh,
                            Resolver!Request
  <2> QED
    BY <2>3, <2>4
<1>6. ASSUME NEW c \in Callers, Resolver!DoneTimeout(c) PROVE Alone'
  <2>1. \A d \in Callers : d # c => ~ Resolver!Inside(d)
    BY <1>6 DEF Resolver!DoneTimeout, OneInside
  <2>2. requests = {} /\ ~ answering /\ "DONE" \notin dnsBits
    BY <1>6, <2>1 DEF Resolver!DoneTimeout, RequestsAreOpen, DoneIsFresh, Resolver!Request
  <2> QED
    BY <1>6, <2>1, <2>2 DEF Resolver!DoneTimeout, OneInside, RequestsAreOpen, AnswerIsAwaited,
                            DoneIsFresh, OneRequest, ResultsFit
<1>7. ASSUME NEW c \in Callers, Resolver!ClearDone(c) \/ Resolver!Return(c) PROVE Alone'
  <2>1. \A d \in Callers : d # c => ~ Resolver!Inside(d)
    BY <1>7 DEF Resolver!ClearDone, Resolver!Return, OneInside
  <2>2. requests = {} /\ ~ answering
    BY <1>7, <2>1 DEF Resolver!ClearDone, Resolver!Return, RequestsAreOpen, AnswerIsAwaited,
                      Resolver!Request
  <2>3. requests' = {} /\ ~ answering'
    BY <1>7, <2>2 DEF Resolver!ClearDone, Resolver!Return
  <2>4. "DONE" \notin dnsBits'
    BY <1>7, <2>1 DEF Resolver!ClearDone, Resolver!Return, DoneIsFresh
  <2>5. OneInside'
    BY <1>7, <2>1 DEF Resolver!ClearDone, Resolver!Return, Resolver!Released, OneInside
  <2>6. ResultsFit'
    BY <1>7 DEF Resolver!ClearDone, Resolver!Return, ResultsFit
  <2> QED
    BY <2>3, <2>4, <2>5, <2>6 DEF RequestsAreOpen, AnswerIsAwaited, DoneIsFresh, OneRequest
<1>8. ASSUME NEW r \in Resolver!Request, Resolver!Found(r) PROVE Alone'
  <2>1. r \in requests /\ r.who \in Callers /\ Asking(r.who) /\ r.name = name[r.who]
    BY <1>8 DEF Resolver!Found, RequestsAreOpen, Resolver!Request
  <2>2. requests' = {} /\ answering' /\ "DONE" \notin dnsBits
    BY <1>8, <2>1 DEF Resolver!Found, OneRequest, DoneIsFresh
  <2>3. ResultsFit'
    BY <1>8, <2>1 DEF Resolver!Found, ResultsFit
  <2> QED
    BY <1>8, <2>1, <2>2, <2>3 DEF Resolver!Found, OneInside, RequestsAreOpen, AnswerIsAwaited,
                                  DoneIsFresh, OneRequest
<1>9. CASE Resolver!Done
  <2>1. PICK c \in Callers : requests = {} /\ Asking(c)
    BY <1>9 DEF Resolver!Done, AnswerIsAwaited
  <2>2. at_dns'[c] \in {"asked", "clear_done"}
    BY <1>9, <2>1 DEF Resolver!Done, Resolver!Released
  <2>3. OneInside'
    BY <1>9 DEF Resolver!Done, Resolver!Released, OneInside
  <2> QED
    BY <1>9, <2>1, <2>2, <2>3 DEF Resolver!Done, RequestsAreOpen, AnswerIsAwaited, DoneIsFresh,
                                  OneRequest, ResultsFit
<1>10. CASE UNCHANGED Resolver!vars
  BY <1>10 DEF Resolver!vars, OneInside, RequestsAreOpen, AnswerIsAwaited, DoneIsFresh,
               OneRequest, ResultsFit
<1> QED
  BY <1>1, <1>2, <1>3, <1>4, <1>5, <1>6, <1>7, <1>8, <1>9, <1>10 DEF Resolver!Next,
                                                                     Resolver!Lwip,
                                                                          Resolver!HostByName

(* Without overlap, results are those of the name asked for and every open *)
(* request belongs to a call that is still waiting for it.                 *)
THEOREM ResultsAreOwn == Resolver!Spec => []ResultIsOwn
<1>1. Resolver!Init => AloneInv
  BY DEF Resolver!Init, AloneInv, Alone, OneInside, Resolver!Inside, RequestsAreOpen,
         AnswerIsAwaited, DoneIsFresh, OneRequest, ResultsFit
<1>2. AloneInv => ResultIsOwn
  BY DEF AloneInv, Alone, RequestsAreOpen, ResultsFit, ResultIsOwn, Resolver!ResultIsOwn
<1> QED
  BY <1>1, <1>2, AloneStep, TypeCorrect, PTL DEF Resolver!Spec

(* For any number of callers, IDLE is never lost nor waited for in vain    *)
(* (hostByName, lines 48-57).                                              *)
THEOREM IdleBit == Resolver!Spec => []IdleIsKept
BY IdleIsSet, WaitsHaveReason, PTL DEF IdleIsKept, Resolver!IdleIsKept

-----------------------------------------------------------------------------
(* TcpStream: the bytes of a connection.                                   *)

(* Ascending numbers: those up to one of them are its beginning.           *)
LEMMA AscendingUpTo ==
  ASSUME NEW w, NEW n \in Nat, NEW a \in 1 .. n,
         \A k \in 1 .. n : w[k] \in Nat,
         \A k, l \in 1 .. n : k < l => w[k] < w[l]
  PROVE  \A x : (\E k \in 1 .. a : w[k] = x) <=> (\E k \in 1 .. n : w[k] = x) /\ x <= w[a]
<1>1. ASSUME NEW k \in 1 .. a PROVE k \in 1 .. n /\ w[k] <= w[a]
  <2>1. k \in 1 .. n /\ (k = a \/ k < a)
    OBVIOUS
  <2> QED
    BY <2>1
<1>2. ASSUME NEW k \in 1 .. n, w[k] <= w[a] PROVE k \in 1 .. a
  <2>1. k \in 1 .. a \/ a < k
    OBVIOUS
  <2>2. ~(a < k)
    BY <1>2
  <2> QED
    BY <2>1, <2>2
<1> QED
  BY <1>1, <1>2

(* Ascending numbers without some in the middle.                           *)
Skips(v, w, a, b, c) ==
  /\ \A k \in 1 .. a + b + c : w[k] \in Nat
  /\ \A k, l \in 1 .. a + b + c : k < l => w[k] < w[l]
  /\ \A k \in 1 .. a : v[k] = w[k]
  /\ \A k \in 1 .. c : v[a + k] = w[a + b + k]

Skipped(v, w, a, b, c) ==
  /\ \A k, l \in 1 .. a + c : k < l => v[k] < v[l]
  /\ \A k \in 1 .. a + c : \A j \in 1 .. b : w[a + j] # v[k]
  /\ \A k \in 1 .. a + c : \E j \in 1 .. a + b + c : w[j] = v[k]
  /\ \A j \in 1 .. a + b + c :
       (\E k \in 1 .. b : w[a + k] = w[j]) \/ (\E k \in 1 .. a + c : v[k] = w[j])

LEMMA AscendingWithout ==
  ASSUME NEW w, NEW v, NEW a \in Nat, NEW b \in Nat, NEW c \in Nat, Skips(v, w, a, b, c)
  PROVE  Skipped(v, w, a, b, c)
<1> USE DEF Skips, Skipped
<1> DEFINE at(k) == IF k <= a THEN k ELSE b + k
<1>1. ASSUME NEW k \in 1 .. a + c
      PROVE  at(k) \in 1 .. a + b + c /\ v[k] = w[at(k)] /\ \A j \in 1 .. b : at(k) # a + j
  <2>1. CASE k <= a
    <3>1. k \in 1 .. a /\ at(k) = k
      BY <2>1
    <3> QED
      BY <3>1
  <2>2. CASE ~(k <= a)
    <3>1. k - a \in 1 .. c /\ a + (k - a) = k /\ a + b + (k - a) = b + k /\ at(k) = b + k
      BY <2>2
    <3>2. v[k] = w[b + k]
      <4>1. v[a + (k - a)] = w[a + b + (k - a)]
        BY <3>1
      <4> QED
        BY <3>1, <4>1
    <3> QED
      BY <3>1, <3>2
  <2> QED
    BY <2>1, <2>2
<1>2. ASSUME NEW k \in 1 .. a + c, NEW l \in 1 .. a + c, k < l PROVE at(k) < at(l)
  BY <1>2
<1>3. ASSUME NEW j \in 1 .. a + b + c, \A k \in 1 .. b : j # a + k
      PROVE  \E k \in 1 .. a + c : at(k) = j
  <2>1. CASE j <= a
    BY <2>1
  <2>2. CASE a + b < j
    <3>1. j - b \in 1 .. a + c /\ ~(j - b <= a) /\ b + (j - b) = j
      BY <2>2
    <3> QED
      BY <3>1
  <2>3. CASE a < j /\ j <= a + b
    <3>1. j - a \in 1 .. b /\ a + (j - a) = j
      BY <2>3
    <3> QED
      BY <1>3, <3>1
  <2> QED
    BY <2>1, <2>2, <2>3
<1> HIDE DEF at
<1>4. \A k, l \in 1 .. a + c : k < l => v[k] < v[l]
  BY <1>1, <1>2
<1>5. ASSUME NEW i \in 1 .. a + b + c, NEW j \in 1 .. a + b + c, i # j PROVE w[i] # w[j]
  <2>1. i < j \/ j < i
    BY <1>5
  <2>2. w[i] \in Nat /\ w[j] \in Nat /\ (w[i] < w[j] \/ w[j] < w[i])
    BY <2>1
  <2> QED
    BY <2>2
<1>6. ASSUME NEW j \in 1 .. b PROVE a + j \in 1 .. a + b + c
  OBVIOUS
<1>7. \A k \in 1 .. a + c : \A j \in 1 .. b : w[a + j] # v[k]
  BY <1>1, <1>5, <1>6
<1>8. \A k \in 1 .. a + c : \E j \in 1 .. a + b + c : w[j] = v[k]
  BY <1>1
<1>9. ASSUME NEW j \in 1 .. a + b + c, ~ \E k \in 1 .. b : w[a + k] = w[j]
      PROVE  \E k \in 1 .. a + c : v[k] = w[j]
  <2>1. PICK k \in 1 .. a + c : at(k) = j
    BY <1>3, <1>9
  <2> QED
    BY <1>1, <2>1
<1> QED
  BY <1>4, <1>7, <1>8, <1>9

(* Ascending numbers, and others behind them.                              *)
LEMMA AscendingOn ==
  ASSUME NEW w, NEW a \in Nat, NEW b \in Nat,
         \A k, l \in 1 .. a : k < l => w[k] < w[l],
         \A k, l \in 1 .. b : k < l => w[a + k] < w[a + l],
         \A k \in 1 .. a : \A l \in 1 .. b : w[k] < w[a + l]
  PROVE  \A k, l \in 1 .. a + b : k < l => w[k] < w[l]
<1> SUFFICES ASSUME NEW k \in 1 .. a + b, NEW l \in 1 .. a + b, k < l PROVE w[k] < w[l]
  OBVIOUS
<1>1. \A i \in 1 .. a + b : i \in 1 .. a \/ (i - a \in 1 .. b /\ a + (i - a) = i)
  OBVIOUS
<1>2. CASE l \in 1 .. a
  <2>1. k \in 1 .. a
    BY <1>2
  <2> QED
    BY <1>2, <2>1
<1>3. CASE k \in 1 .. a /\ l - a \in 1 .. b /\ a + (l - a) = l
  <2>1. w[k] < w[a + (l - a)]
    BY <1>3
  <2> QED
    BY <1>3, <2>1
<1>4. CASE k - a \in 1 .. b /\ a + (k - a) = k /\ l - a \in 1 .. b /\ a + (l - a) = l
  <2>1. k - a < l - a
    OBVIOUS
  <2>2. w[a + (k - a)] < w[a + (l - a)]
    BY <1>4, <2>1
  <2> QED
    BY <1>4, <2>2
<1> QED
  BY <1>1, <1>2, <1>3, <1>4

(* The two parts of a concatenation.                                       *)
LEMMA Joined ==
  ASSUME NEW S, NEW s \in Seq(S), NEW t \in Seq(S)
  PROVE  /\ s \o t \in Seq(S) /\ Len(s \o t) = Len(s) + Len(t) /\ Len(s) \in Nat /\ Len(t) \in Nat
         /\ \A k \in 1 .. Len(s) : (s \o t)[k] = s[k]
         /\ \A k \in 1 .. Len(t) : (s \o t)[Len(s) + k] = t[k]
<1>1. \A k \in 1 .. Len(s) + Len(t) : (s \o t)[k] = IF k <= Len(s) THEN s[k] ELSE t[k - Len(s)]
  BY ConcatProperties
<1>2. \A k \in 1 .. Len(t) : (s \o t)[Len(s) + k] = t[k]
  <2> SUFFICES ASSUME NEW k \in 1 .. Len(t) PROVE (s \o t)[Len(s) + k] = t[k]
    OBVIOUS
  <2>1. Len(s) + k \in 1 .. Len(s) + Len(t) /\ ~(Len(s) + k <= Len(s)) /\ (Len(s) + k) - Len(s) = k
    OBVIOUS
  <2> QED
    BY <1>1, <2>1
<1> QED
  BY <1>1, <1>2, ConcatProperties

(* What InOrder says of a sequence of numbers.                             *)
LEMMA InOrderIs ==
  ASSUME NEW s \in Seq(Nat), NEW B
  PROVE  Stream!InOrder(s, B) <=>
           /\ \A k, l \in 1 .. Len(s) : k < l => s[k] < s[l]
           /\ \A x : x \in B <=> \E k \in 1 .. Len(s) : s[k] = x
<1>1. DOMAIN s = 1 .. Len(s)
  OBVIOUS
<1>2. Stream!ToSet(s) = B <=> \A x : x \in B <=> \E k \in 1 .. Len(s) : s[k] = x
  BY <1>1 DEF Stream!ToSet
<1> QED
  BY <1>1, <1>2 DEF Stream!InOrder

(* A beginning of bytes in order is those up to its last.                  *)
LEMMA BeginningInOrder ==
  ASSUME NEW s \in Seq(Nat), NEW t \in Seq(Nat), NEW n \in Nat, NEW B,
         \A x \in B : x \in 1 .. n, Stream!InOrder(s \o t, B)
  PROVE  \E m \in 0 .. n : Stream!InOrder(s, {x \in B : x <= m})
<1> DEFINE w == s \o t
<1>1. /\ w \in Seq(Nat) /\ Len(w) = Len(s) + Len(t) /\ Len(s) \in Nat /\ Len(t) \in Nat
      /\ \A k \in 1 .. Len(s) : w[k] = s[k]
      /\ \A k \in 1 .. Len(w) : w[k] \in Nat
      /\ \A k, l \in 1 .. Len(w) : k < l => w[k] < w[l]
      /\ \A x : x \in B <=> \E k \in 1 .. Len(w) : w[k] = x
  <2>1. \A k \in 1 .. Len(w) : w[k] \in Nat
    BY Joined, ElementOfSeq
  <2>2. /\ w \in Seq(Nat) /\ Len(w) = Len(s) + Len(t) /\ Len(s) \in Nat /\ Len(t) \in Nat
        /\ \A k \in 1 .. Len(s) : w[k] = s[k]
    BY Joined
  <2>3. Stream!InOrder(w, B)
    OBVIOUS
  <2> HIDE DEF w
  <2>4. /\ \A k, l \in 1 .. Len(w) : k < l => w[k] < w[l]
        /\ \A x : x \in B <=> \E k \in 1 .. Len(w) : w[k] = x
    BY <2>2, <2>3, InOrderIs
  <2> QED
    BY <2>1, <2>2, <2>4
<1> HIDE DEF w
<1>2. \A k \in 1 .. Len(s) : k \in 1 .. Len(w)
  BY <1>1
<1>3. \A k, l \in 1 .. Len(s) : k < l => s[k] < s[l]
  BY <1>1, <1>2
<1>4. CASE Len(s) = 0
  <2>1. ASSUME NEW x PROVE x \in {y \in B : y <= 0} <=> \E k \in 1 .. Len(s) : s[k] = x
    <3>1. 1 .. Len(s) = {} /\ x \notin {y \in B : y <= 0}
      BY <1>4
    <3> QED
      BY <3>1
  <2>2. Stream!InOrder(s, {y \in B : y <= 0})
    BY <1>3, <2>1, InOrderIs
  <2>3. 0 \in 0 .. n
    OBVIOUS
  <2> QED
    BY <2>2, <2>3, Zenon
<1>5. CASE Len(s) # 0
  <2> DEFINE m == w[Len(s)]
  <2>1. Len(s) \in 1 .. Len(w) /\ Len(s) \in 1 .. Len(s) /\ Len(w) \in Nat
    BY <1>1, <1>5
  <2>2. m \in B /\ m \in 0 .. n
    <3>1. m \in B
      BY <1>1, <2>1
    <3> QED
      BY <3>1
  <2>3. \A x : (\E k \in 1 .. Len(s) : w[k] = x) <=> (\E k \in 1 .. Len(w) : w[k] = x) /\ x <= m
    BY <1>1, <2>1, AscendingUpTo
  <2> HIDE DEF m
  <2>4. ASSUME NEW x PROVE x \in {y \in B : y <= m} <=> \E k \in 1 .. Len(s) : s[k] = x
    BY <1>1, <2>3
  <2>5. Stream!InOrder(s, {y \in B : y <= m})
    BY <1>3, <2>4, InOrderIs
  <2> QED
    BY <2>2, <2>5
<1> QED
  BY <1>4, <1>5

(* Bytes in order without some in the middle are in order.                 *)
LEMMA WithoutMiddle ==
  ASSUME NEW s \in Seq(Nat), NEW t \in Seq(Nat), NEW u \in Seq(Nat), NEW B,
         Stream!InOrder(s \o (t \o u), B)
  PROVE  Stream!InOrder(s \o u, B \ Stream!ToSet(t))
<1> DEFINE w == s \o (t \o u)
           v == s \o u
           a == Len(s)
           b == Len(t)
           c == Len(u)
<1>1. /\ t \o u \in Seq(Nat) /\ Len(t \o u) = b + c /\ a \in Nat /\ b \in Nat /\ c \in Nat
      /\ w \in Seq(Nat) /\ Len(w) = a + (b + c) /\ v \in Seq(Nat) /\ Len(v) = a + c
      /\ \A k \in 1 .. a : w[k] = s[k] /\ v[k] = s[k]
      /\ \A k \in 1 .. c : v[a + k] = u[k]
      /\ \A k \in 1 .. b : (t \o u)[k] = t[k]
      /\ \A k \in 1 .. c : (t \o u)[b + k] = u[k]
      /\ \A k \in 1 .. b + c : w[a + k] = (t \o u)[k]
  BY Joined
<1>2. Stream!InOrder(w, B)
  OBVIOUS
<1>3. ASSUME NEW x PROVE x \in Stream!ToSet(t) <=> \E k \in 1 .. b : t[k] = x
  <2>1. DOMAIN t = 1 .. b
    OBVIOUS
  <2> QED
    BY <2>1 DEF Stream!ToSet
<1>4. \A k \in 1 .. Len(w) : w[k] \in Nat
  BY <1>1, ElementOfSeq
<1>5. /\ \A k, l \in 1 .. Len(w) : k < l => w[k] < w[l]
      /\ \A x : x \in B <=> \E k \in 1 .. Len(w) : w[k] = x
  BY <1>1, <1>2, InOrderIs
<1>6. Stream!InOrder(v, B \ Stream!ToSet(t)) <=>
           /\ \A k, l \in 1 .. Len(v) : k < l => v[k] < v[l]
           /\ \A x : x \in B \ Stream!ToSet(t) <=> \E k \in 1 .. Len(v) : v[k] = x
  BY <1>1, InOrderIs
<1>7. SUFFICES Stream!InOrder(v, B \ Stream!ToSet(t))
  OBVIOUS
<1> HIDE DEF w, v, a, b, c
<1>8. Len(w) = a + b + c
  BY <1>1
<1>9. /\ \A k \in 1 .. a : v[k] = w[k]
      /\ \A k \in 1 .. b : w[a + k] = t[k]
      /\ \A k \in 1 .. c : v[a + k] = w[a + b + k]
  <2>1. \A k \in 1 .. b : k \in 1 .. b + c
    BY <1>1
  <2>2. ASSUME NEW k \in 1 .. c PROVE v[a + k] = w[a + b + k]
    <3>0. a \in Nat /\ b \in Nat /\ c \in Nat
      BY <1>1
    <3>1. b + k \in 1 .. b + c /\ a + (b + k) = a + b + k
      BY <3>0
    <3> QED
      BY <1>1, <3>1
  <2> QED
    BY <1>1, <2>1, <2>2
<1>10. Skipped(v, w, a, b, c)
  <2>1. a \in Nat /\ b \in Nat /\ c \in Nat
    BY <1>1
  <2>2. /\ \A k \in 1 .. a + b + c : w[k] \in Nat
        /\ \A k, l \in 1 .. a + b + c : k < l => w[k] < w[l]
    BY <1>4, <1>5, <1>8
  <2>3. Skips(v, w, a, b, c)
    BY <1>9, <2>2 DEF Skips
  <2> QED
    BY <2>1, <2>3, AscendingWithout
<1>11. ASSUME NEW x PROVE x \in B \ Stream!ToSet(t) <=> \E k \in 1 .. Len(v) : v[k] = x
  <2>1. x \in B <=> \E k \in 1 .. a + b + c : w[k] = x
    BY <1>5, <1>8
  <2>2. x \in Stream!ToSet(t) <=> \E k \in 1 .. b : w[a + k] = x
    BY <1>3, <1>9
  <2>3. Len(v) = a + c
    BY <1>1
  <2> QED
    BY <1>10, <2>1, <2>2, <2>3 DEF Skipped
<1> QED
  BY <1>1, <1>6, <1>10, <1>11 DEF Skipped

(* Bytes in order, and greater ones behind them.                           *)
LEMMA AppendInOrder ==
  ASSUME NEW s \in Seq(Nat), NEW t \in Seq(Nat), NEW B, Stream!InOrder(s, B),
         \A k, l \in 1 .. Len(t) : k < l => t[k] < t[l],
         \A k \in 1 .. Len(t) : \A x \in B : x < t[k]
  PROVE  Stream!InOrder(s \o t, B \cup Stream!ToSet(t))
<1> DEFINE w == s \o t
           a == Len(s)
           b == Len(t)
<1>1. /\ w \in Seq(Nat) /\ Len(w) = a + b /\ a \in Nat /\ b \in Nat
      /\ \A k \in 1 .. a : w[k] = s[k]
      /\ \A k \in 1 .. b : w[a + k] = t[k]
  BY Joined
<1>2. /\ \A k, l \in 1 .. a : k < l => s[k] < s[l]
      /\ \A x : x \in B <=> \E k \in 1 .. a : s[k] = x
  BY InOrderIs
<1>3. ASSUME NEW x PROVE x \in Stream!ToSet(t) <=> \E k \in 1 .. b : t[k] = x
  <2>1. DOMAIN t = 1 .. b
    OBVIOUS
  <2> QED
    BY <2>1 DEF Stream!ToSet
<1>4. Stream!InOrder(w, B \cup Stream!ToSet(t)) <=>
           /\ \A k, l \in 1 .. Len(w) : k < l => w[k] < w[l]
           /\ \A x : x \in B \cup Stream!ToSet(t) <=> \E k \in 1 .. Len(w) : w[k] = x
  BY <1>1, InOrderIs
<1>5. /\ \A k, l \in 1 .. b : k < l => t[k] < t[l]
      /\ \A k \in 1 .. b : \A x \in B : x < t[k]
  OBVIOUS
<1> SUFFICES Stream!InOrder(w, B \cup Stream!ToSet(t))
  OBVIOUS
<1> HIDE DEF w, a, b
<1>6. \A k, l \in 1 .. a + b : k < l => w[k] < w[l]
  <2>1. /\ \A k, l \in 1 .. a : k < l => w[k] < w[l]
        /\ \A k, l \in 1 .. b : k < l => w[a + k] < w[a + l]
        /\ \A k \in 1 .. a : \A l \in 1 .. b : w[k] < w[a + l]
    BY <1>1, <1>2, <1>5
  <2> QED
    BY <1>1, <2>1, AscendingOn
<1>7. \A k \in 1 .. a + b : k \in 1 .. a \/ (k - a \in 1 .. b /\ a + (k - a) = k)
  BY <1>1
<1>8. \A k \in 1 .. a : k \in 1 .. a + b
  BY <1>1
<1>9. \A k \in 1 .. b : a + k \in 1 .. a + b
  BY <1>1
<1>10. ASSUME NEW x
       PROVE  x \in B \cup Stream!ToSet(t) <=> \E k \in 1 .. Len(w) : w[k] = x
  <2>1. ASSUME NEW k \in 1 .. a, s[k] = x PROVE \E j \in 1 .. a + b : w[j] = x
    BY <1>1, <1>8, <2>1
  <2>2. ASSUME NEW k \in 1 .. b, t[k] = x PROVE \E j \in 1 .. a + b : w[j] = x
    BY <1>1, <1>9, <2>2
  <2>3. ASSUME NEW k \in 1 .. a + b, w[k] = x
        PROVE  (\E j \in 1 .. a : s[j] = x) \/ \E j \in 1 .. b : t[j] = x
    <3>1. CASE k \in 1 .. a
      BY <1>1, <2>3, <3>1
    <3>2. CASE k - a \in 1 .. b /\ a + (k - a) = k
      BY <1>1, <2>3, <3>2
    <3> QED
      BY <1>7, <3>1, <3>2
  <2> QED
    BY <1>1, <1>2, <1>3, <2>1, <2>2, <2>3
<1> QED
  BY <1>1, <1>4, <1>6, <1>10

-----------------------------------------------------------------------------
StreamKinds ==
  /\ allocated \in BOOLEAN /\ failed \in BOOLEAN /\ open \in BOOLEAN /\ connected \in BOOLEAN
  /\ misled \in BOOLEAN /\ peer \in {"open", "closed", "reset"}
  /\ doing \in {"rest", "fill", "copy", "loop", "flush", "write", "written"}

Rest == SubSeq(held, pos + 1, Len(held))

ReadTypes ==
  /\ held \in Seq(1 .. StreamIn) /\ kernel \in Seq(1 .. StreamIn) /\ got \in Seq(1 .. StreamIn)
  /\ pos \in Nat /\ pos <= Len(held) /\ Len(held) <= Size /\ left \in Nat
  /\ arrived \in Nat /\ arrived <= StreamIn /\ flushed \subseteq 1 .. arrived

(* A read has a socket, and copies from a buffer that holds something.     *)
ReadSteps ==
  /\ doing \in {"fill", "copy", "loop", "flush"} => open
  /\ doing = "copy" => pos < Len(held)

WriteTypes ==
  /\ next \in Nat /\ next >= 1 /\ size \in Nat /\ sent \in Nat /\ sent <= size
  /\ stream \in Int /\ stream >= -1 /\ next + size <= MaxOut + 1 /\ next + size + stream <= MaxOut + 1
  /\ retry \in Nat /\ retry <= Retry
  /\ lost \subseteq 1 .. next - 1 /\ out \in Seq(Nat)

WriteSteps ==
  /\ doing \notin {"write", "written"} => size = 0 /\ sent = 0
  /\ doing = "write" => retry >= 1

StreamInv ==
  /\ StreamKinds /\ ReadTypes /\ ReadSteps /\ WriteTypes /\ WriteSteps /\ StreamIntact

-----------------------------------------------------------------------------
LEMMA StreamSizes ==
  /\ Size \in Nat /\ Chunk \in Nat /\ StreamIn \in Nat /\ MaxOut \in Nat
  /\ Retry \in Nat /\ Retry >= 1 /\ Lengths \subseteq Nat
BY ChannelsAssumption DEF Stream!SizesOK

LEMMA LeastIs ==
  ASSUME NEW a \in Nat, NEW b \in Nat
  PROVE  Stream!Least(a, b) \in Nat /\ Stream!Least(a, b) <= a /\ Stream!Least(a, b) <= b
BY DEF Stream!Least

LEMMA NumbersAreNat == \A s \in Seq(1 .. StreamIn) : s \in Seq(Nat)
<1>1. 1 .. StreamIn \subseteq Nat
  BY StreamSizes
<1> QED
  BY <1>1, SeqMonotonic

(* The parts a sequence falls into.                                        *)
LEMMA CutInTwo ==
  ASSUME NEW S, NEW s \in Seq(S), NEW n \in 0 .. Len(s)
  PROVE  /\ SubSeq(s, 1, n) \in Seq(S) /\ Len(SubSeq(s, 1, n)) = n
         /\ SubSeq(s, n + 1, Len(s)) \in Seq(S) /\ Len(SubSeq(s, n + 1, Len(s))) = Len(s) - n
         /\ SubSeq(s, 1, n) \o SubSeq(s, n + 1, Len(s)) = s
<1>1. Len(s) \in Nat
  OBVIOUS
<1>2. \A i \in 1 .. n : s[i] \in S
  BY ElementOfSeq
<1>3. \A i \in n + 1 .. Len(s) : s[i] \in S
  BY ElementOfSeq
<1>4. SubSeq(s, 1, Len(s)) = s
  BY SubSeqFull
<1>5. SubSeq(s, 1, n) \o SubSeq(s, n + 1, Len(s)) = SubSeq(s, 1, Len(s))
  <2>1. /\ 1 \in 1 .. Len(s) + 1 /\ n \in 1 - 1 .. Len(s) /\ Len(s) \in n .. Len(s)
    BY <1>1
  <2> QED
    BY <2>1, ConcatAdjacentSubSeq
<1>6. SubSeq(s, 1, n) \in Seq(S) /\ Len(SubSeq(s, 1, n)) = n
  BY <1>1, <1>2, SubSeqProperties
<1>7. SubSeq(s, n + 1, Len(s)) \in Seq(S) /\ Len(SubSeq(s, n + 1, Len(s))) = Len(s) - n
  BY <1>1, <1>3, SubSeqProperties
<1> QED
  BY <1>4, <1>5, <1>6, <1>7

(* A part in the middle and what is behind it.                             *)
LEMMA CutBehind ==
  ASSUME NEW S, NEW s \in Seq(S), NEW m \in 0 .. Len(s), NEW n \in 0 .. Len(s), m <= n
  PROVE  /\ SubSeq(s, m + 1, n) \in Seq(S) /\ SubSeq(s, n + 1, Len(s)) \in Seq(S)
         /\ SubSeq(s, m + 1, n) \o SubSeq(s, n + 1, Len(s)) = SubSeq(s, m + 1, Len(s))
<1>1. Len(s) \in Nat
  OBVIOUS
<1>2. \A i \in m + 1 .. n : s[i] \in S
  BY ElementOfSeq
<1>3. \A i \in n + 1 .. Len(s) : s[i] \in S
  BY ElementOfSeq
<1>4. SubSeq(s, m + 1, n) \in Seq(S) /\ SubSeq(s, n + 1, Len(s)) \in Seq(S)
  <2>1. m + 1 \in Int /\ n + 1 \in Int /\ n \in Int /\ Len(s) \in Int
    BY <1>1
  <2>2. \A i \in m + 1 .. n : s[i] \in S
    BY <1>2
  <2> QED
    BY <1>3, <2>1, <2>2, SubSeqProperties
<1>5. m + 1 \in 1 .. Len(s) + 1 /\ n \in m + 1 - 1 .. Len(s) /\ Len(s) \in n .. Len(s)
  BY <1>1
<1>6. SubSeq(s, m + 1, n) \o SubSeq(s, n + 1, Len(s)) = SubSeq(s, m + 1, Len(s))
  <2> DEFINE i == m + 1
  <2>1. i \in 1 .. Len(s) + 1 /\ n \in i - 1 .. Len(s) /\ Len(s) \in n .. Len(s)
    BY <1>5
  <2> HIDE DEF i
  <2>2. SubSeq(s, i, n) \o SubSeq(s, n + 1, Len(s)) = SubSeq(s, i, Len(s))
    BY <2>1, ConcatAdjacentSubSeq
  <2> QED
    BY <2>2 DEF i
<1> QED
  BY <1>4, <1>6

(* Concatenation, kept away from what the provers know of it.              *)
Cat(s, t) == s \o t

LEMMA CatIsASeq == \A S : \A s, t \in Seq(S) : Cat(s, t) \in Seq(S)
BY ConcatProperties DEF Cat

LEMMA CatIsAssociative == \A S : \A s, t, u \in Seq(S) : Cat(Cat(s, t), u) = Cat(s, Cat(t, u))
BY ConcatAssociative DEF Cat

LEMMA Regrouped ==
  ASSUME NEW S, NEW g \in Seq(S), NEW c \in Seq(S), NEW r \in Seq(S), NEW k \in Seq(S),
         NEW b \in Seq(S), NEW l \in Seq(S), Cat(Cat(c, r), k) = Cat(b, l)
  PROVE  Cat(Cat(Cat(g, c), r), k) = Cat(Cat(g, b), l)
<1>1. Cat(c, r) \in Seq(S)
  BY CatIsASeq
<1>2. Cat(Cat(g, c), r) = Cat(g, Cat(c, r))
  BY CatIsAssociative
<1>3. Cat(Cat(g, Cat(c, r)), k) = Cat(g, Cat(Cat(c, r), k))
  BY <1>1, CatIsAssociative
<1>4. Cat(Cat(g, b), l) = Cat(g, Cat(b, l))
  BY CatIsAssociative
<1> QED
  BY <1>2, <1>3, <1>4

(* A sequence behind the rest of another.                                  *)
LEMMA RestOfJoined ==
  ASSUME NEW S, NEW s \in Seq(S), NEW t \in Seq(S), NEW n \in 0 .. Len(s)
  PROVE  SubSeq(s \o t, n + 1, Len(s \o t)) = SubSeq(s, n + 1, Len(s)) \o t
<1> DEFINE w == s \o t
           r == SubSeq(s, n + 1, Len(s))
           a == SubSeq(s, 1, n)
<1>1. /\ w \in Seq(S) /\ Len(w) = Len(s) + Len(t) /\ Len(s) \in Nat /\ Len(t) \in Nat
      /\ n \in 0 .. Len(w)
  BY Joined
<1>2. a \in Seq(S) /\ a \o r = s /\ r \in Seq(S)
  BY CutInTwo
<1>3. r \o t \in Seq(S) /\ a \o (r \o t) = w
  <2>1. Cat(Cat(a, r), t) = Cat(a, Cat(r, t)) /\ Cat(r, t) \in Seq(S)
    <3> HIDE DEF a, r
    <3> QED
      BY <1>2, CatIsAssociative, CatIsASeq
  <2>2. Cat(a, r) = s
    BY <1>2 DEF Cat
  <2>3. Cat(s, t) = Cat(a, Cat(r, t)) /\ Cat(r, t) \in Seq(S)
    BY <2>1, <2>2
  <2> QED
    BY <2>3 DEF Cat
<1>4. /\ SubSeq(w, n + 1, Len(w)) \in Seq(S)
      /\ SubSeq(w, 1, n) \o SubSeq(w, n + 1, Len(w)) = w
  BY <1>1, CutInTwo
<1>5. SubSeq(w, 1, n) = a
  <2>1. CASE n = 0
    <3>1. \A q : SubSeq(q, 1, 0) = <<>>
      BY SubSeqEmpty
    <3> QED
      BY <2>1, <3>1
  <2>2. CASE n # 0
    <3>1. 1 \in 1 .. Len(s) /\ n \in 1 .. Len(s)
      BY <1>1, <2>2
    <3> QED
      BY <3>1, SubSeqOfConcat1
  <2> QED
    BY <2>1, <2>2
<1> HIDE DEF w, r, a
<1>6. SubSeq(w, n + 1, Len(w)) = r \o t
  <2>1. a \o SubSeq(w, n + 1, Len(w)) = a \o (r \o t)
    BY <1>3, <1>4, <1>5
  <2> QED
    BY <1>2, <1>3, <1>4, <2>1, ConcatSimplifications
<1> QED
  BY <1>6 DEF w, r

-----------------------------------------------------------------------------
(* What lwIP has that fits the buffer.                                     *)
LEMMA AvailableIs ==
  ASSUME ReadTypes
  PROVE  /\ Stream!Available \in Seq(1 .. StreamIn)
         /\ \E n \in 0 .. Len(kernel) :
              Stream!Available = SubSeq(kernel, 1, n) /\ n <= Size - Len(Stream!Kept)
<1> DEFINE n == Stream!Least(Len(kernel), Size - Len(Stream!Kept))
<1>1. kernel \in Seq(1 .. StreamIn) /\ Len(kernel) \in Nat /\ Size \in Nat
  BY StreamSizes DEF ReadTypes
<1>2. Len(Stream!Kept) \in Nat /\ Len(Stream!Kept) <= Size
  BY <1>1 DEF ReadTypes, Stream!Kept
<1>3. n \in 0 .. Len(kernel) /\ n <= Size - Len(Stream!Kept)
  BY <1>1, <1>2 DEF Stream!Least
<1>4. Stream!Available = SubSeq(kernel, 1, n)
  BY DEF Stream!Available
<1> HIDE DEF n
<1>5. SubSeq(kernel, 1, n) \in Seq(1 .. StreamIn)
  BY <1>1, <1>3, CutInTwo
<1> QED
  BY <1>3, <1>4, <1>5

(* A refill moves bytes from lwIP to the buffer and changes nothing else.  *)
LEMMA Refilled ==
  ASSUME ReadTypes, NEW taken \in {<<>>, Stream!Available}, Stream!FillBuffer(taken)
  PROVE  /\ held' \in Seq(1 .. StreamIn) /\ kernel' \in Seq(1 .. StreamIn) /\ Len(held') <= Size
         /\ Stream!Start \in Nat /\ Stream!Start <= Len(held')
         /\ Len(held') = Len(Stream!Kept) + Len(taken) /\ Len(taken) \in Nat
         /\ SubSeq(held', Stream!Start + 1, Len(held')) \o kernel' = Rest \o kernel
<1> DEFINE S == 1 .. StreamIn
           K == Stream!Kept
           P == Stream!Start
           R == SubSeq(K, P + 1, Len(K))
<1>1. /\ held \in Seq(S) /\ kernel \in Seq(S) /\ pos \in Nat /\ pos <= Len(held) /\ Len(held) <= Size
      /\ Len(held) \in Nat /\ Len(kernel) \in Nat /\ Size \in Nat
  BY StreamSizes DEF ReadTypes
<1>2. /\ K \in Seq(S) /\ P \in Nat /\ P <= Len(K) /\ Len(K) <= Size /\ Len(K) \in Nat /\ R = Rest
  <2>1. CASE pos = Len(held)
    <3>1. K = <<>> /\ P = 0 /\ Len(K) = 0
      BY <2>1 DEF Stream!Kept, Stream!Start
    <3>2. Rest = <<>>
      <4>1. pos + 1 \in Int /\ Len(held) \in Int /\ Len(held) < pos + 1
        BY <1>1, <2>1
      <4> QED
        BY <4>1, SubSeqEmpty DEF Rest
    <3>3. R = <<>>
      <4>1. P + 1 = 1 /\ \A q : SubSeq(q, 1, 0) = <<>>
        BY <3>1, SubSeqEmpty
      <4> QED
        BY <3>1, <4>1
    <3> QED
      BY <1>1, <3>1, <3>2, <3>3
  <2>2. CASE pos # Len(held)
    BY <1>1, <2>2 DEF Stream!Kept, Stream!Start, Rest
  <2> QED
    BY <2>1, <2>2
<1>3. PICK n \in 0 .. Len(kernel) : taken = SubSeq(kernel, 1, n) /\ n <= Size - Len(K)
  <2>1. CASE taken = <<>>
    <3>1. SubSeq(kernel, 1, 0) = <<>> /\ 0 \in 0 .. Len(kernel) /\ 0 <= Size - Len(K)
      BY <1>1, <1>2, SubSeqEmpty
    <3> QED
      BY <2>1, <3>1
  <2>2. CASE taken = Stream!Available
    BY <2>2, AvailableIs
  <2> QED
    BY <2>1, <2>2
<1>4. /\ taken \in Seq(S) /\ Len(taken) = n /\ SubSeq(kernel, n + 1, Len(kernel)) \in Seq(S)
      /\ taken \o SubSeq(kernel, n + 1, Len(kernel)) = kernel
  BY <1>1, <1>3, CutInTwo
<1>5. held' = K \o taken /\ kernel' = SubSeq(kernel, Len(taken) + 1, Len(kernel))
  BY DEF Stream!FillBuffer
<1>6. kernel' \in Seq(S) /\ taken \o kernel' = kernel
  BY <1>4, <1>5
<1>7. P \in 0 .. Len(K)
  BY <1>2
<1> HIDE DEF S, K, P, R
<1>8. held' \in Seq(S) /\ Len(held') = Len(K) + n
  BY <1>2, <1>4, <1>5, Joined
<1>9. SubSeq(held', P + 1, Len(held')) = R \o taken
  BY <1>2, <1>4, <1>5, <1>7, RestOfJoined DEF R
<1>10. R \in Seq(S)
  BY <1>2, <1>7, CutInTwo DEF R
<1>11. (R \o taken) \o kernel' = R \o kernel
  <2>1. taken \in Seq(S) /\ kernel' \in Seq(S)
    BY <1>4, <1>6
  <2>2. (R \o taken) \o kernel' = R \o (taken \o kernel')
    BY <1>10, <2>1, ConcatAssociative
  <2> QED
    BY <1>6, <2>2
<1>12. SubSeq(held', P + 1, Len(held')) \o kernel' = Rest \o kernel
  BY <1>2, <1>9, <1>11
<1>13. Len(held') <= Size /\ P <= Len(held') /\ Len(taken) \in Nat
  BY <1>1, <1>2, <1>3, <1>4, <1>8
<1> QED
  BY <1>2, <1>4, <1>6, <1>8, <1>12, <1>13 DEF S, K, P

(* Without a refill a read that copies begins where the last one ended.    *)
LEMMA NotRefilled ==
  ASSUME ReadTypes, Stream!NoFill, pos # Len(held)
  PROVE  /\ held' = held /\ kernel' = kernel /\ Stream!Start = pos
         /\ SubSeq(held', Stream!Start + 1, Len(held')) = Rest
BY DEF Stream!NoFill, Stream!Start, Rest

(* A copy moves bytes from the buffer to the caller.                       *)
LEMMA Copied ==
  ASSUME ReadTypes, held' \in Seq(1 .. StreamIn), kernel' \in Seq(1 .. StreamIn), Stream!Start \in Nat,
         NEW n \in Nat, Stream!Start + n <= Len(held'), Stream!Copy(n),
         SubSeq(held', Stream!Start + 1, Len(held')) \o kernel' = Rest \o kernel
  PROVE  /\ got' \in Seq(1 .. StreamIn) /\ pos' = Stream!Start + n /\ pos' \in Nat /\ pos' <= Len(held')
         /\ Stream!Coming' = Stream!Coming
<1> DEFINE S == 1 .. StreamIn
           P == Stream!Start
           c == SubSeq(held', P + 1, P + n)
           r == SubSeq(held', pos' + 1, Len(held'))
           h == SubSeq(held', P + 1, Len(held'))
<1>1. got' = got \o c /\ pos' = P + n
  BY DEF Stream!Copy
<1>2. held' \in Seq(S) /\ kernel' \in Seq(S) /\ got \in Seq(S) /\ kernel \in Seq(S) /\ Len(held') \in Nat
  BY DEF ReadTypes
<1>3. P \in 0 .. Len(held') /\ pos' \in 0 .. Len(held') /\ P <= pos'
  BY <1>1, <1>2
<1>4. c \in Seq(S) /\ r \in Seq(S) /\ c \o r = h
  BY <1>1, <1>2, <1>3, CutBehind
<1>5. Rest \in Seq(S)
  <2>1. held \in Seq(S) /\ pos \in 0 .. Len(held)
    BY DEF ReadTypes
  <2> QED
    BY <2>1, CutInTwo DEF Rest
<1>6. got' \in Seq(S)
  BY <1>1, <1>2, <1>4, Joined
<1>7. /\ Stream!Coming' = (got' \o r) \o kernel'
      /\ Stream!Coming = (got \o Rest) \o kernel
      /\ h \o kernel' = Rest \o kernel
  BY DEF Stream!Coming, Rest
<1>8. Cat(Cat(c, r), kernel') = Cat(Rest, kernel)
  BY <1>4, <1>7 DEF Cat
<1>9. /\ Stream!Coming' = Cat(Cat(Cat(got, c), r), kernel')
      /\ Stream!Coming = Cat(Cat(got, Rest), kernel)
  BY <1>1, <1>7 DEF Cat
<1> HIDE DEF S, P, c, r, h
<1>10. Cat(Cat(Cat(got, c), r), kernel') = Cat(Cat(got, Rest), kernel)
  BY <1>2, <1>4, <1>5, <1>8, Regrouped
<1> QED
  BY <1>1, <1>3, <1>6, <1>9, <1>10 DEF S, P

-----------------------------------------------------------------------------
(* A step that keeps the bytes still to come in order keeps ReadsIntact:   *)
(* what has been read is the beginning of them.                            *)
LEMMA ReadsFollow ==
  ASSUME ReadTypes', open => Stream!InOrder(Stream!Coming, Stream!Came)', open' => open,
         ~open => got' = got /\ arrived' = arrived /\ flushed' = flushed,
         Stream!ReadsIntact
  PROVE  Stream!ReadsIntact'
<1>1. CASE ~open
  BY <1>1 DEF Stream!ReadsIntact, Stream!Came, Stream!InOrder, Stream!ToSet
<1>2. CASE open
  <2> DEFINE t == Cat(Rest, kernel)'
             B == Stream!Came'
  <2>1. /\ held' \in Seq(1 .. StreamIn) /\ kernel' \in Seq(1 .. StreamIn) /\ got' \in Seq(1 .. StreamIn)
        /\ pos' \in 0 .. Len(held') /\ arrived' \in Nat
    BY DEF ReadTypes
  <2>2. Rest' \in Seq(1 .. StreamIn)
    BY <2>1, CutInTwo DEF Rest
  <2>3. t \in Seq(1 .. StreamIn) /\ Cat(Cat(got', Rest'), kernel') = Cat(got', t)
    BY <2>1, <2>2, CatIsASeq, CatIsAssociative
  <2>4. t \in Seq(Nat) /\ got' \in Seq(Nat)
    BY <2>1, <2>3, NumbersAreNat
  <2>5. Stream!Coming' = Cat(Cat(got', Rest'), kernel')
    BY DEF Stream!Coming, Rest, Cat
  <2>6. Stream!Coming' = got' \o t
    <3> HIDE DEF t
    <3> QED
      BY <2>3, <2>5 DEF Cat
  <2>7. Stream!InOrder(Stream!Coming', B)
    BY <1>2 DEF Stream!InOrder, Stream!ToSet
  <2>8. \A x \in B : x \in 1 .. arrived'
    BY DEF Stream!Came
  <2> HIDE DEF t, B
  <2>9. \E m \in 0 .. arrived' : Stream!InOrder(got', {x \in B : x <= m})
    BY <2>1, <2>4, <2>6, <2>7, <2>8, BeginningInOrder
  <2> QED
    BY <2>7, <2>9 DEF Stream!ReadsIntact, Stream!InOrder, Stream!ToSet, B
<1> QED
  BY <1>1, <1>2

ReadKept ==
  /\ ReadTypes' /\ ReadSteps'
  /\ doing' \in {"rest", "fill", "copy", "loop", "flush"}
  /\ open' => open
  /\ Stream!Coming' = Stream!Coming /\ flushed' = flushed /\ (~open => got' = got)

ReadOnly == StreamKinds /\ ReadTypes /\ ReadSteps /\ arrived' = arrived

LEMMA StopsOrHolds ==
  Stream!Stop \/ Stream!Holds => (open' => open) /\ (open' = open \/ ~open')
BY DEF Stream!Stop, Stream!Holds

LEMMA BeginReadStep == ASSUME ReadOnly, Stream!BeginRead PROVE ReadKept
<1> USE DEF ReadOnly, Stream!BeginRead
<1>1. /\ held' = held /\ pos' = pos /\ got' = got /\ kernel' = kernel /\ flushed' = flushed
      /\ open' = open /\ open /\ left' \in Lengths
  BY DEF Stream!Holds
<1>2. ReadTypes'
  BY <1>1, StreamSizes DEF ReadTypes
<1>3. ReadSteps'
  <2>1. Len(held) \in Nat /\ pos \in Nat /\ pos <= Len(held)
    BY DEF ReadTypes
  <2>2. doing' = IF pos = Len(held) THEN "fill" ELSE "copy"
    OBVIOUS
  <2>3. doing' \in {"fill", "copy"} /\ (doing' = "copy" => pos < Len(held))
    BY <2>1, <2>2
  <2> QED
    BY <1>1, <2>3 DEF ReadSteps, ReadTypes
<1>4. Stream!Coming' = Stream!Coming
  BY <1>1 DEF Stream!Coming
<1> QED
  BY <1>1, <1>2, <1>3, <1>4 DEF ReadKept

LEMMA FillStep == ASSUME ReadOnly, Stream!ReadFill PROVE ReadKept
<1> USE DEF ReadOnly, Stream!ReadFill
<1>1. PICK taken \in {<<>>, Stream!Available} :
        /\ Stream!FillBuffer(taken)
        /\ IF taken = <<>> THEN Stream!ReadReturns ELSE Stream!ReadGoes("copy", left)
  OBVIOUS
<1>2. open /\ Stream!Copy(0) /\ flushed' = flushed
  BY DEF ReadSteps
<1>3. /\ held' \in Seq(1 .. StreamIn) /\ kernel' \in Seq(1 .. StreamIn) /\ Len(held') <= Size
      /\ Stream!Start \in Nat /\ Stream!Start <= Len(held')
      /\ Len(held') = Len(Stream!Kept) + Len(taken) /\ Len(taken) \in Nat
      /\ SubSeq(held', Stream!Start + 1, Len(held')) \o kernel' = Rest \o kernel
  BY <1>1, Refilled
<1>4. Stream!Start + 0 = Stream!Start /\ Stream!Start + 0 <= Len(held')
  BY <1>3
<1>5. /\ got' \in Seq(1 .. StreamIn) /\ pos' = Stream!Start + 0 /\ pos' \in Nat /\ pos' <= Len(held')
      /\ Stream!Coming' = Stream!Coming
  BY <1>2, <1>3, <1>4, Copied
<1>6. left' \in Nat /\ (open' => open) /\ doing' \in {"rest", "copy"}
  <2>1. Stream!ReadReturns \/ Stream!ReadGoes("copy", left)
    BY <1>1
  <2>2. left \in Nat
    BY DEF ReadTypes
  <2> HIDE DEF ReadOnly, Stream!ReadFill
  <2> QED
    BY <1>2, <2>1, <2>2 DEF Stream!ReadReturns, Stream!ReadGoes
<1>7. ReadTypes'
  BY <1>2, <1>3, <1>5, <1>6 DEF ReadTypes
<1>8. ASSUME doing' = "copy" PROVE open' /\ pos' < Len(held')
  <2>1. taken # <<>> /\ open' = open
    BY <1>1, <1>8 DEF Stream!ReadReturns, Stream!ReadGoes, Stream!Holds
  <2>2. Len(taken) # 0
    <3>1. taken \in Seq(1 .. StreamIn)
      BY <1>1, <2>1, AvailableIs
    <3> QED
      BY <2>1, <3>1, EmptySeq
  <2>3. Stream!Start <= Len(Stream!Kept) /\ Len(Stream!Kept) \in Nat
    BY DEF ReadTypes, Stream!Start, Stream!Kept
  <2> QED
    BY <1>2, <1>3, <1>5, <2>1, <2>2, <2>3
<1>9. ReadSteps'
  BY <1>6, <1>8 DEF ReadSteps
<1> QED
  BY <1>2, <1>5, <1>6, <1>7, <1>9 DEF ReadKept

LEMMA CopyStep == ASSUME ReadOnly, Stream!ReadCopy PROVE ReadKept
<1> DEFINE a == Len(held) - pos
           missing == left - a
<1>1. open /\ pos < Len(held) /\ pos # Len(held) /\ flushed' = flushed /\ pos \in Nat /\ left \in Nat /\ Len(held) \in Nat
  BY DEF ReadOnly, ReadSteps, ReadTypes, Stream!ReadCopy
<1>2. Stream!Start = pos /\ Stream!Kept = held
  BY <1>1 DEF Stream!Start, Stream!Kept
<1>3. ASSUME NEW n \in Nat, pos + n <= Len(held'), Stream!Copy(n),
             held' \in Seq(1 .. StreamIn), kernel' \in Seq(1 .. StreamIn), Len(held') <= Size,
             SubSeq(held', Stream!Start + 1, Len(held')) \o kernel' = Rest \o kernel,
             doing' \in {"rest", "loop"}, left' \in Nat, open' => open, doing' = "loop" => open'
      PROVE  ReadKept
  <2>1. /\ got' \in Seq(1 .. StreamIn) /\ pos' = Stream!Start + n /\ pos' \in Nat /\ pos' <= Len(held')
        /\ Stream!Coming' = Stream!Coming
    BY <1>1, <1>2, <1>3, Copied DEF ReadOnly
  <2>2. ReadTypes'
    BY <1>1, <1>3, <2>1 DEF ReadTypes, ReadOnly
  <2>3. ReadSteps'
    BY <1>3 DEF ReadSteps
  <2> QED
    BY <1>1, <1>3, <2>1, <2>2, <2>3 DEF ReadKept
<1>4. ASSUME Stream!ReadReturns
      PROVE  doing' \in {"rest", "loop"} /\ left' \in Nat /\ (open' => open) /\ (doing' = "loop" => open')
  BY <1>1, <1>4 DEF Stream!ReadReturns, Stream!StopIfFailed
<1>5. ASSUME Stream!ReadGoes("loop", missing), missing \in Nat
      PROVE  doing' \in {"rest", "loop"} /\ left' \in Nat /\ (open' => open) /\ (doing' = "loop" => open')
  BY <1>1, <1>5 DEF Stream!ReadGoes, Stream!Holds
<1>6. ASSUME Stream!NoFill
      PROVE  /\ held' \in Seq(1 .. StreamIn) /\ kernel' \in Seq(1 .. StreamIn) /\ Len(held') <= Size
             /\ held' = held
             /\ SubSeq(held', Stream!Start + 1, Len(held')) \o kernel' = Rest \o kernel
  <2>1. held' = held /\ kernel' = kernel /\ SubSeq(held', Stream!Start + 1, Len(held')) = Rest
    BY <1>1, <1>6, NotRefilled DEF ReadOnly
  <2> QED
    BY <2>1 DEF ReadOnly, ReadTypes
<1>7. CASE missing <= 0 /\ Stream!NoFill /\ Stream!Copy(left) /\ Stream!ReadReturns
  <2>1. pos + left <= Len(held') /\ left \in Nat
    BY <1>1, <1>6, <1>7
  <2> QED
    BY <1>3, <1>4, <1>6, <1>7, <2>1
<1>8. CASE missing > Size - Len(held) /\ missing > 0 /\ Stream!NoFill /\ Stream!Copy(a) /\ Stream!ReadGoes("loop", missing)
  <2>1. pos + a <= Len(held') /\ a \in Nat /\ missing \in Nat
    BY <1>1, <1>6, <1>8
  <2> QED
    BY <1>3, <1>5, <1>6, <1>8, <2>1
<1>9. ASSUME missing > 0, NEW taken \in {<<>>, Stream!Available}, Stream!FillBuffer(taken),
             IF Len(taken) >= missing THEN Stream!Copy(left) /\ Stream!ReadReturns
                                      ELSE Stream!Copy(a) /\ Stream!ReadGoes("loop", missing)
      PROVE  ReadKept
  <2>1. /\ held' \in Seq(1 .. StreamIn) /\ kernel' \in Seq(1 .. StreamIn) /\ Len(held') <= Size
        /\ Len(held') = Len(held) + Len(taken) /\ Len(taken) \in Nat
        /\ SubSeq(held', Stream!Start + 1, Len(held')) \o kernel' = Rest \o kernel
    BY <1>2, <1>9, Refilled DEF ReadOnly
  <2>2. CASE Len(taken) >= missing
    <3>1. pos + left <= Len(held') /\ left \in Nat
      BY <1>1, <2>1, <2>2
    <3>2. Stream!Copy(left) /\ Stream!ReadReturns
      BY <1>9, <2>2
    <3> QED
      BY <1>3, <1>4, <2>1, <3>1, <3>2
  <2>3. CASE ~(Len(taken) >= missing)
    <3>1. pos + a <= Len(held') /\ a \in Nat /\ missing \in Nat
      BY <1>1, <1>9, <2>1
    <3>2. Stream!Copy(a) /\ Stream!ReadGoes("loop", missing)
      BY <1>9, <2>3
    <3> QED
      BY <1>3, <1>5, <2>1, <3>1, <3>2
  <2> QED
    BY <2>2, <2>3
<1> QED
  BY <1>7, <1>8, <1>9 DEF Stream!ReadCopy

LEMMA LoopStep == ASSUME ReadOnly, Stream!ReadLoop PROVE ReadKept
<1>1. open /\ flushed' = flushed /\ left \in Nat
  BY DEF ReadOnly, ReadSteps, ReadTypes, Stream!ReadLoop
<1>2. PICK taken \in {<<>>, Stream!Available} :
        /\ Stream!FillBuffer(taken)
        /\ LET n == IF taken = <<>> THEN 0 ELSE Stream!Least(Len(held') - Stream!Start, left) IN
           /\ Stream!Copy(n)
           /\ IF taken = <<>> \/ n = left THEN Stream!ReadReturns ELSE Stream!ReadGoes("loop", left - n)
  BY DEF Stream!ReadLoop
<1> DEFINE n == IF taken = <<>> THEN 0 ELSE Stream!Least(Len(held') - Stream!Start, left)
<1>3. /\ held' \in Seq(1 .. StreamIn) /\ kernel' \in Seq(1 .. StreamIn) /\ Len(held') <= Size
      /\ Stream!Start \in Nat /\ Stream!Start <= Len(held')
      /\ SubSeq(held', Stream!Start + 1, Len(held')) \o kernel' = Rest \o kernel
  BY <1>2, Refilled DEF ReadOnly
<1>4. n \in Nat /\ Stream!Start + n <= Len(held') /\ n <= left
  <2>1. Len(held') \in Nat
    BY <1>3
  <2> QED
    BY <1>1, <1>3, <2>1 DEF Stream!Least
<1>5. Stream!Copy(n) /\ (Stream!ReadReturns \/ Stream!ReadGoes("loop", left - n))
  BY <1>2
<1> HIDE DEF n
<1>6. /\ got' \in Seq(1 .. StreamIn) /\ pos' = Stream!Start + n /\ pos' \in Nat /\ pos' <= Len(held')
      /\ Stream!Coming' = Stream!Coming
  BY <1>3, <1>4, <1>5, Copied DEF ReadOnly
<1>7. left' \in Nat /\ (open' => open) /\ doing' \in {"rest", "loop"} /\ (doing' = "loop" => open')
  <2>1. left - n \in Nat
    BY <1>1, <1>4
  <2>2. CASE Stream!ReadReturns
    BY <1>1, <2>2 DEF Stream!ReadReturns
  <2>3. CASE Stream!ReadGoes("loop", left - n)
    BY <1>1, <2>1, <2>3 DEF Stream!ReadGoes, Stream!Holds
  <2> QED
    BY <1>5, <2>2, <2>3
<1>8. ReadTypes'
  BY <1>1, <1>3, <1>6, <1>7 DEF ReadTypes, ReadOnly
<1>9. ReadSteps'
  BY <1>7 DEF ReadSteps
<1> QED
  BY <1>1, <1>6, <1>7, <1>8, <1>9 DEF ReadKept

LEMMA PeekStep == ASSUME ReadOnly, Stream!Peek PROVE ReadKept
<1>1. open /\ flushed' = flushed /\ left' = left /\ doing' = "rest" /\ Stream!Copy(0)
  BY DEF Stream!Peek
<1>2. PICK taken \in {<<>>, Stream!Available} : Stream!FillBuffer(taken)
  BY DEF Stream!Peek
<1>3. /\ held' \in Seq(1 .. StreamIn) /\ kernel' \in Seq(1 .. StreamIn) /\ Len(held') <= Size
      /\ Stream!Start \in Nat /\ Stream!Start <= Len(held')
      /\ SubSeq(held', Stream!Start + 1, Len(held')) \o kernel' = Rest \o kernel
  BY <1>2, Refilled DEF ReadOnly
<1>4. Stream!Start + 0 = Stream!Start /\ Stream!Start + 0 <= Len(held')
  BY <1>3
<1>5. /\ got' \in Seq(1 .. StreamIn) /\ pos' = Stream!Start + 0 /\ pos' \in Nat /\ pos' <= Len(held')
      /\ Stream!Coming' = Stream!Coming
  BY <1>1, <1>3, <1>4, Copied DEF ReadOnly
<1>6. ReadTypes'
  BY <1>1, <1>3, <1>5 DEF ReadTypes, ReadOnly
<1> QED
  BY <1>1, <1>5, <1>6 DEF ReadKept, ReadSteps

(* The steps that touch neither the buffer nor the bytes lwIP holds.       *)
LEMMA BeginFlushStep == ASSUME ReadOnly, Stream!BeginFlush PROVE ReadKept
<1>1. /\ held' = held /\ pos' = pos /\ got' = got /\ kernel' = kernel /\ flushed' = flushed
      /\ open /\ arrived' = arrived
  BY DEF ReadOnly, Stream!BeginFlush
<1>2. (doing' = "rest" /\ left' = left) \/ (doing' = "flush" /\ open' /\ left' = Len(held) - pos + Len(kernel))
  BY DEF ReadOnly, Stream!BeginFlush, Stream!Holds
<1>3. left' \in Nat
  BY <1>2 DEF ReadOnly, ReadTypes
<1>4. ReadTypes'
  BY <1>1, <1>3 DEF ReadOnly, ReadTypes
<1>5. ReadSteps'
  BY <1>2 DEF ReadSteps
<1>6. Stream!Coming' = Stream!Coming
  BY <1>1 DEF Stream!Coming
<1> QED
  BY <1>1, <1>2, <1>4, <1>5, <1>6 DEF ReadKept

LEMMA ConnectedStep == ASSUME ReadOnly, Stream!Connected PROVE ReadKept
<1>1. /\ held' = held /\ pos' = pos /\ got' = got /\ kernel' = kernel /\ flushed' = flushed
      /\ open' = open /\ arrived' = arrived /\ left' = left /\ doing' = "rest"
  BY DEF ReadOnly, Stream!Connected, Stream!rx
<1>2. ReadTypes' /\ ReadSteps'
  BY <1>1 DEF ReadOnly, ReadTypes, ReadSteps
<1>3. Stream!Coming' = Stream!Coming
  BY <1>1 DEF Stream!Coming
<1> QED
  BY <1>1, <1>2, <1>3 DEF ReadKept

(* The end of bytes in order is some of them.                              *)
LEMMA EndInOrder ==
  ASSUME NEW s \in Seq(Nat), NEW t \in Seq(Nat), NEW B, Stream!InOrder(s \o t, B)
  PROVE  Stream!ToSet(t) \subseteq B
<1> DEFINE w == s \o t
<1>1. /\ w \in Seq(Nat) /\ Len(w) = Len(s) + Len(t) /\ Len(s) \in Nat /\ Len(t) \in Nat
      /\ \A k \in 1 .. Len(t) : w[Len(s) + k] = t[k]
  BY Joined
<1>2. Stream!InOrder(w, B)
  OBVIOUS
<1> HIDE DEF w
<1>3. \A x : x \in B <=> \E k \in 1 .. Len(w) : w[k] = x
  BY <1>1, <1>2, InOrderIs
<1>4. DOMAIN t = 1 .. Len(t)
  OBVIOUS
<1>5. ASSUME NEW k \in 1 .. Len(t) PROVE t[k] \in B
  <2>1. Len(s) + k \in 1 .. Len(w)
    BY <1>1
  <2> QED
    BY <1>1, <1>3, <2>1
<1> QED
  BY <1>4, <1>5 DEF Stream!ToSet

LEMMA ComingIs ==
  ASSUME ReadTypes
  PROVE  /\ Rest \in Seq(1 .. StreamIn) /\ Cat(got, Rest) \in Seq(Nat) /\ kernel \in Seq(Nat)
         /\ Stream!Coming = Cat(Cat(got, Rest), kernel)
<1>1. held \in Seq(1 .. StreamIn) /\ got \in Seq(1 .. StreamIn) /\ kernel \in Seq(1 .. StreamIn)
      /\ pos \in 0 .. Len(held)
  BY DEF ReadTypes
<1>2. Rest \in Seq(1 .. StreamIn)
  BY <1>1, CutInTwo DEF Rest
<1>3. Cat(got, Rest) \in Seq(1 .. StreamIn)
  BY <1>1, <1>2, CatIsASeq
<1>4. Stream!Coming = Cat(Cat(got, Rest), kernel)
  BY DEF Stream!Coming, Cat, Rest
<1> QED
  BY <1>1, <1>2, <1>3, <1>4, NumbersAreNat

LEMMA OrderStays ==
  ASSUME Stream!InOrder(Stream!Coming, Stream!Came),
         Stream!Coming' = Stream!Coming, Stream!Came' = Stream!Came
  PROVE  Stream!InOrder(Stream!Coming, Stream!Came)'
<1>1. Stream!InOrder(Stream!Coming', Stream!Came')
  OBVIOUS
<1> QED
  BY <1>1 DEF Stream!InOrder, Stream!ToSet

(* flush() takes bytes from lwIP, behind those it leaves in the buffer.    *)
LEMMA FlushStep ==
  ASSUME ReadOnly, Stream!ReadsIntact, Stream!Flush
  PROVE  /\ ReadTypes' /\ ReadSteps' /\ doing' \in {"rest", "flush"} /\ open /\ Stream!ReadsIntact'
<1>1. /\ held' = held /\ pos' = pos /\ got' = got /\ open /\ arrived' = arrived /\ left \in Nat
      /\ Stream!InOrder(Stream!Coming, Stream!Came)
  BY DEF ReadOnly, ReadSteps, ReadTypes, Stream!Flush, Stream!ReadsIntact
<1> DEFINE n == Stream!Least(Stream!Least(left, Chunk), Len(kernel))
<1>2. n \in 0 .. Len(kernel) /\ n <= left /\ kernel \in Seq(1 .. StreamIn)
  BY <1>1, StreamSizes DEF ReadOnly, ReadTypes, Stream!Least
<1>3. CASE /\ n > 0
           /\ flushed' = flushed \cup Stream!ToSet(SubSeq(kernel, 1, n))
           /\ kernel' = SubSeq(kernel, n + 1, Len(kernel))
           /\ left' = left - n /\ doing' = (IF left = n THEN "rest" ELSE "flush")
           /\ Stream!Holds
  <2> DEFINE t == SubSeq(kernel, 1, n)
             s == Cat(got, Rest)
  <2>1. t \in Seq(1 .. StreamIn) /\ kernel' \in Seq(1 .. StreamIn) /\ t \o kernel' = kernel
    BY <1>2, <1>3, CutInTwo
  <2>2. left' \in Nat /\ doing' \in {"rest", "flush"} /\ (open' => open)
    <3>1. left - n \in Nat
      BY <1>1, <1>2
    <3>2. left' \in Nat
      BY <1>3, <3>1
    <3> HIDE DEF n
    <3> QED
      BY <1>1, <1>3, <3>2
  <2>3. flushed' = flushed \cup Stream!ToSet(t) /\ open' = open
    BY <1>3 DEF Stream!Holds
  <2> HIDE DEF n, t
  <2>4. /\ t \in Seq(Nat) /\ kernel' \in Seq(Nat) /\ s \in Seq(Nat) /\ kernel \in Seq(Nat)
        /\ Stream!Coming = Cat(s, kernel)
    BY <2>1, NumbersAreNat, ComingIs DEF ReadOnly
  <2>5. Stream!Coming' = Cat(s, kernel')
    BY <1>1 DEF Stream!Coming, Cat, Rest
  <2> HIDE DEF s
  <2>6. Stream!InOrder(s \o (t \o kernel'), Stream!Came)
    BY <1>1, <2>1, <2>4 DEF Cat
  <2>7. Stream!InOrder(s \o kernel', Stream!Came \ Stream!ToSet(t))
    BY <2>4, <2>6, WithoutMiddle
  <2>8. Stream!Came' = Stream!Came \ Stream!ToSet(t)
    BY <1>1, <2>3 DEF Stream!Came
  <2>9. Stream!InOrder(Stream!Coming, Stream!Came)'
    <3>1. Stream!InOrder(Stream!Coming', Stream!Came')
      BY <2>5, <2>7, <2>8 DEF Cat
    <3> QED
      BY <3>1 DEF Stream!InOrder, Stream!ToSet
  <2>10. flushed' \subseteq 1 .. arrived'
    <3>1. Stream!InOrder(s \o kernel, Stream!Came)
      BY <1>1, <2>4 DEF Cat
    <3>2. Stream!ToSet(kernel) \subseteq Stream!Came
      BY <2>4, <3>1, EndInOrder
    <3>3. Stream!ToSet(t) \subseteq Stream!ToSet(kernel)
      <4>1. t = SubSeq(kernel, 1, n) /\ Len(t) = n
        BY <1>2, CutInTwo DEF t
      <4>2. \A k \in 1 .. n : t[k] = kernel[k] /\ k \in 1 .. Len(kernel)
        <5>1. \A k \in 1 .. Len(t) : (t \o kernel')[k] = t[k]
          BY <2>1, Joined
        <5> QED
          BY <1>2, <2>1, <4>1, <5>1
      <4>3. DOMAIN t = 1 .. n /\ DOMAIN kernel = 1 .. Len(kernel)
        BY <1>2, <2>1, <4>1
      <4> QED
        BY <4>2, <4>3 DEF Stream!ToSet
    <3>4. Stream!ToSet(t) \subseteq 1 .. arrived
      BY <3>2, <3>3 DEF Stream!Came
    <3> QED
      BY <1>1, <2>3, <3>4 DEF ReadOnly, ReadTypes
  <2>11. ReadTypes'
    BY <1>1, <2>1, <2>2, <2>10 DEF ReadOnly, ReadTypes
  <2>12. ReadSteps'
    BY <1>1, <2>2, <2>3 DEF ReadSteps
  <2>13. Stream!ReadsIntact'
    BY <1>1, <2>2, <2>9, <2>11, ReadsFollow
  <2> QED
    BY <1>1, <2>2, <2>11, <2>12, <2>13
<1>4. CASE UNCHANGED <<flushed, kernel, left, doing>> /\ Stream!Holds
  <2>1. open' = open /\ doing = "flush"
    BY <1>4 DEF Stream!Holds, Stream!Flush
  <2>2. ReadTypes' /\ ReadSteps'
    BY <1>1, <1>4, <2>1 DEF ReadOnly, ReadTypes, ReadSteps
  <2>3. Stream!InOrder(Stream!Coming, Stream!Came)'
    <3>1. Stream!Coming' = Stream!Coming /\ Stream!Came' = Stream!Came
      BY <1>1, <1>4 DEF Stream!Coming, Stream!Came
    <3> QED
      BY <1>1, <3>1, OrderStays
  <2>4. Stream!ReadsIntact'
    BY <1>1, <2>1, <2>2, <2>3, ReadsFollow
  <2> QED
    BY <1>1, <1>4, <2>1, <2>2, <2>4
<1>5. CASE Stream!Stop /\ left' = 0 /\ doing' = "rest" /\ UNCHANGED <<flushed, kernel>>
  <2>1. open' = FALSE
    BY <1>5 DEF Stream!Stop
  <2>2. ReadTypes' /\ ReadSteps'
    BY <1>1, <1>5 DEF ReadOnly, ReadTypes, ReadSteps
  <2>3. Stream!InOrder(Stream!Coming, Stream!Came)'
    <3>1. Stream!Coming' = Stream!Coming /\ Stream!Came' = Stream!Came
      BY <1>1, <1>5 DEF Stream!Coming, Stream!Came
    <3> QED
      BY <1>1, <3>1, OrderStays
  <2>4. Stream!ReadsIntact'
    BY <1>1, <2>1, <2>2, <2>3, ReadsFollow
  <2> QED
    BY <1>1, <1>5, <2>2, <2>4
<1> QED
  BY <1>3, <1>4, <1>5 DEF Stream!Flush

(* A byte of the peer comes behind all the others.                         *)
LEMMA PeerSendsStep ==
  ASSUME ReadTypes, Stream!ReadsIntact, Stream!PeerSends,
         UNCHANGED <<held, pos, got, flushed, left, open>>
  PROVE  ReadTypes' /\ Stream!ReadsIntact'
<1> DEFINE a == arrived + 1
           s == Cat(got, Rest)
           t == <<a>>
<1>1. /\ open /\ arrived' = a /\ kernel' = Append(kernel, a) /\ a \in 1 .. StreamIn /\ a \in Nat
      /\ arrived \in Nat /\ kernel \in Seq(1 .. StreamIn)
      /\ Stream!InOrder(Stream!Coming, Stream!Came)
  BY StreamSizes DEF ReadTypes, Stream!PeerSends, Stream!ReadsIntact
<1>2. t \in Seq(Nat) /\ Len(t) = 1 /\ t[1] = a /\ Stream!ToSet(t) = {a} /\ t \in Seq(1 .. StreamIn)
  <2>1. t \in Seq(Nat) /\ Len(t) = 1 /\ t[1] = a /\ t \in Seq(1 .. StreamIn) /\ DOMAIN t = {1}
    BY <1>1
  <2> QED
    BY <2>1 DEF Stream!ToSet
<1>3. kernel' = Cat(kernel, t) /\ kernel' \in Seq(1 .. StreamIn)
  BY <1>1 DEF Cat
<1> HIDE DEF t
<1>4. ReadTypes'
  <2>1. flushed' \subseteq 1 .. arrived'
    BY <1>1 DEF ReadTypes
  <2> QED
    BY <1>1, <1>3, <2>1 DEF ReadTypes
<1>5. s \in Seq(Nat) /\ kernel \in Seq(Nat) /\ Stream!Coming = Cat(s, kernel)
  BY ComingIs
<1>6. Stream!Coming' = Cat(s, kernel')
  BY DEF Stream!Coming, Cat, Rest
<1> HIDE DEF s
<1>7. Stream!Coming' = Cat(Stream!Coming, t) /\ Stream!Coming \in Seq(Nat)
  BY <1>2, <1>3, <1>5, <1>6, CatIsASeq, CatIsAssociative
<1>8. Stream!InOrder(Stream!Coming \o t, Stream!Came \cup Stream!ToSet(t))
  <2>1. \A k, l \in 1 .. Len(t) : k < l => t[k] < t[l]
    BY <1>2
  <2>2. \A k \in 1 .. Len(t) : \A x \in Stream!Came : x < t[k]
    BY <1>1, <1>2 DEF Stream!Came
  <2> QED
    BY <1>1, <1>2, <1>7, <2>1, <2>2, AppendInOrder
<1>9. Stream!Came' = Stream!Came \cup Stream!ToSet(t)
  <2>1. a \notin flushed /\ 1 .. a = (1 .. arrived) \cup {a}
    BY <1>1 DEF ReadTypes
  <2> HIDE DEF a
  <2>2. flushed' = flushed /\ arrived' = a
    BY <1>1
  <2> QED
    BY <1>2, <2>1, <2>2 DEF Stream!Came
<1>10. Stream!InOrder(Stream!Coming, Stream!Came)'
  <2>1. Stream!InOrder(Stream!Coming', Stream!Came')
    BY <1>7, <1>8, <1>9 DEF Cat
  <2> QED
    BY <2>1 DEF Stream!InOrder, Stream!ToSet
<1> QED
  BY <1>1, <1>4, <1>10, ReadsFollow

-----------------------------------------------------------------------------
(* The steps of a write.                                                   *)
LEMMA FitsBehind ==
  ASSUME NEW a \in Nat, NEW n \in Nat, NEW r \in Int, NEW m \in Nat, n <= m, n + r <= m,
         a + m <= MaxOut + 1
  PROVE  a + n <= MaxOut + 1 /\ a + n + r <= MaxOut + 1
BY StreamSizes

WritePart == WriteTypes /\ WriteSteps /\ Stream!WritesIntact

WriteKept ==
  /\ WriteTypes' /\ WriteSteps' /\ Stream!WritesIntact'
  /\ doing' \in {"rest", "write", "written"} /\ (open' => open)

Sent == (1 .. next + sent - 1) \ lost

LEMMA WritesFollow ==
  ASSUME Stream!WritesIntact, misled' = misled, out' = out, Sent' = Sent
  PROVE  Stream!WritesIntact'
<1>1. misled' \/ Stream!InOrder(out', Sent')
  BY DEF Stream!WritesIntact, Sent
<1> QED
  BY <1>1 DEF Stream!WritesIntact, Sent, Stream!InOrder, Stream!ToSet

(* A write begins with all its tries and nothing sent.                     *)
LEMMA Begun ==
  ASSUME NEW n \in Nat, Stream!BeginWrite(n)
  PROVE  /\ size' = n /\ sent' = 0 /\ open' = open /\ out' = out /\ misled' = misled
         /\ doing' \in {"write", "written"} /\ retry' \in Nat /\ retry' <= Retry /\ (doing' = "write" => retry' >= 1)
BY StreamSizes DEF Stream!BeginWrite, Stream!Holds

LEMMA WriteStep ==
  ASSUME WritePart, doing = "rest", Stream!Write \/ Stream!WriteStream
  PROVE  WriteKept
<1>1. /\ size = 0 /\ sent = 0 /\ next' = next /\ lost' = lost
      /\ next \in Nat /\ next >= 1 /\ lost \subseteq 1 .. next - 1 /\ out \in Seq(Nat)
  BY DEF WritePart, WriteTypes, WriteSteps, Stream!Write, Stream!WriteStream
<1>2. PICK n \in Nat, m \in Nat :
        /\ n <= m /\ next + m <= MaxOut + 1 /\ Stream!BeginWrite(n)
        /\ stream' = -1 \/ stream' = m - n
  <2>1. CASE Stream!Write
    <3>1. PICK n \in Lengths : Stream!MayWrite(n) /\ Stream!BeginWrite(n)
      BY <2>1 DEF Stream!Write
    <3>2. n \in Nat /\ next + n <= MaxOut + 1 /\ stream' = -1
      BY <2>1, <3>1, StreamSizes DEF Stream!Write, Stream!MayWrite
    <3> QED
      BY <3>1, <3>2
  <2>2. CASE Stream!WriteStream
    <3>1. PICK m \in Lengths :
            /\ Stream!MayWrite(m)
            /\ stream' = m - Stream!Least(m, Chunk) /\ Stream!BeginWrite(Stream!Least(m, Chunk))
      BY <2>2 DEF Stream!WriteStream
    <3>2. m \in Nat /\ next + m <= MaxOut + 1
      BY <3>1, StreamSizes DEF Stream!MayWrite
    <3>3. Stream!Least(m, Chunk) \in Nat /\ Stream!Least(m, Chunk) <= m
      BY <3>2, StreamSizes, LeastIs
    <3> QED
      BY <3>1, <3>2, <3>3
  <2> QED
    BY <2>1, <2>2
<1>3. /\ size' = n /\ sent' = 0 /\ open' = open /\ out' = out /\ misled' = misled
      /\ doing' \in {"write", "written"} /\ retry' \in Nat /\ retry' <= Retry /\ (doing' = "write" => retry' >= 1)
  BY <1>2, Begun
<1>4. stream' \in Int /\ stream' >= -1 /\ n + stream' <= m
  <2>1. CASE stream' = -1
    BY <1>2, <2>1
  <2>2. CASE stream' = m - n
    BY <1>2, <2>2
  <2> QED
    BY <1>2, <2>1, <2>2
<1>5. WriteTypes'
  <2>1. next' + size' <= MaxOut + 1 /\ next' + size' + stream' <= MaxOut + 1
    <3>1. size' = n /\ next' = next /\ next \in Nat /\ n <= m /\ next + m <= MaxOut + 1
      BY <1>1, <1>2, <1>3
    <3> QED
      BY <1>4, <3>1, FitsBehind
  <2> QED
    BY <1>1, <1>3, <1>4, <2>1 DEF WriteTypes
<1>6. WriteSteps'
  BY <1>3 DEF WriteSteps
<1>7. Sent' = Sent
  BY <1>1, <1>3 DEF Sent
<1>8. Stream!WritesIntact'
  BY <1>3, <1>7, WritesFollow DEF WritePart
<1> QED
  BY <1>3, <1>5, <1>6, <1>8 DEF WriteKept

(* What send() accepts are the next bytes of the write.                    *)
LEMMA AcceptStep ==
  ASSUME WritePart, doing = "write", Stream!Accept, UNCHANGED <<next, lost, stream, size>>
  PROVE  WriteKept
<1>1. PICK n \in 1 .. size - sent :
        /\ out' = out \o [i \in 1 .. n |-> Stream!SendFrom + i - 1]
        /\ sent' = sent + n
        /\ IF sent + n >= size THEN doing' = "written" /\ retry' = 0
                               ELSE retry' = Retry /\ UNCHANGED doing
        /\ open' = open /\ misled' = misled
  BY DEF Stream!Accept, Stream!Holds
<1>2. /\ next \in Nat /\ next >= 1 /\ size \in Nat /\ sent \in Nat /\ n \in Nat /\ n >= 1 /\ sent + n <= size
      /\ lost \subseteq 1 .. next - 1 /\ out \in Seq(Nat)
      /\ next' = next /\ lost' = lost /\ stream' = stream /\ size' = size
  BY DEF WritePart, WriteTypes
<1>3. doing' \in {"write", "written"} /\ retry' \in Nat /\ retry' <= Retry /\ (doing' = "write" => retry' >= 1)
  <2>1. (doing' = "written" /\ retry' = 0) \/ (retry' = Retry /\ doing' = doing)
    BY <1>1
  <2> QED
    BY <2>1, StreamSizes
<1> DEFINE t == [i \in 1 .. n |-> Stream!SendFrom + i - 1]
           front == next + sent
<1>4. front \in Nat /\ front >= 1
  BY <1>2
<1>5. t = [i \in 1 .. n |-> front + i - 1]
  BY DEF Stream!SendFrom
<1>6. out' = out \o t
  BY <1>1
<1> HIDE DEF t, front
<1>7. /\ t \in Seq(Nat) /\ Len(t) = n /\ DOMAIN t = 1 .. n /\ \A i \in 1 .. n : t[i] = front + i - 1
  <2>1. \A i \in 1 .. n : front + i - 1 \in Nat
    BY <1>2, <1>4
  <2>2. t \in Seq(Nat)
    BY <1>2, <1>5, <2>1, IsASeq
  <2>3. DOMAIN t = 1 .. n /\ \A i \in 1 .. n : t[i] = front + i - 1
    BY <1>5
  <2>4. Len(t) = n
    BY <1>2, <2>2, <2>3
  <2> QED
    BY <2>2, <2>3, <2>4
<1>8. Stream!ToSet(t) = front .. front + n - 1
  <2>1. ASSUME NEW x \in front .. front + n - 1 PROVE x \in Stream!ToSet(t)
    <3>1. x - front + 1 \in 1 .. n /\ front + (x - front + 1) - 1 = x
      BY <1>2, <1>4
    <3>2. t[x - front + 1] = x
      BY <1>7, <3>1
    <3> QED
      BY <1>7, <3>1, <3>2 DEF Stream!ToSet
  <2>2. ASSUME NEW i \in 1 .. n PROVE t[i] \in front .. front + n - 1
    BY <1>2, <1>4, <1>7
  <2> QED
    BY <1>7, <2>1, <2>2 DEF Stream!ToSet
<1>9. Sent' = Sent \cup Stream!ToSet(t)
  <2>1. next' + sent' - 1 = front + n - 1 /\ next + sent - 1 = front - 1
    BY <1>1, <1>2 DEF front
  <2>2. 1 .. front + n - 1 = (1 .. front - 1) \cup (front .. front + n - 1)
    BY <1>2, <1>4
  <2>3. \A x \in front .. front + n - 1 : x \notin lost
    <3>1. front >= next
      BY <1>2 DEF front
    <3> QED
      BY <1>2, <1>4, <3>1
  <2>4. Sent' = (1 .. front + n - 1) \ lost /\ Sent = (1 .. front - 1) \ lost
    BY <1>2, <2>1 DEF Sent
  <2> QED
    BY <1>8, <2>2, <2>3, <2>4
<1>10. Stream!WritesIntact'
  <2>1. CASE misled'
    BY <2>1 DEF Stream!WritesIntact
  <2>2. CASE ~misled'
    <3>1. Stream!InOrder(out, Sent)
      BY <1>1, <2>2 DEF WritePart, Stream!WritesIntact, Sent
    <3>2. \A k, l \in 1 .. Len(t) : k < l => t[k] < t[l]
      BY <1>2, <1>4, <1>7
    <3>3. \A k \in 1 .. Len(t) : \A x \in Sent : x < t[k]
      <4>1. \A x \in Sent : x \in Int /\ x <= front - 1
        BY <1>2 DEF Sent, front
      <4> QED
        BY <1>2, <1>4, <1>7, <4>1
    <3>4. Stream!InOrder(out \o t, Sent \cup Stream!ToSet(t))
      BY <1>2, <1>7, <3>1, <3>2, <3>3, AppendInOrder
    <3>5. Stream!InOrder(out', Sent')
      BY <1>6, <1>9, <3>4
    <3> QED
      BY <3>5 DEF Stream!WritesIntact, Sent, Stream!InOrder, Stream!ToSet
  <2> QED
    BY <2>1, <2>2
<1>11. out' \in Seq(Nat)
  BY <1>2, <1>6, <1>7, Joined
<1>12. WriteTypes'
  <2>1. sent' \in Nat /\ sent' <= size'
    BY <1>1, <1>2
  <2> QED
    BY <1>2, <1>3, <1>11, <2>1 DEF WriteTypes, WritePart
<1>13. WriteSteps'
  BY <1>3 DEF WriteSteps
<1> QED
  BY <1>1, <1>3, <1>10, <1>12, <1>13 DEF WriteKept

LEMMA SendStep ==
  ASSUME WritePart, Stream!Send
  PROVE  WriteKept
<1>1. /\ doing = "write" /\ next' = next /\ lost' = lost /\ stream' = stream /\ size' = size
      /\ retry \in Nat /\ retry >= 1 /\ retry <= Retry
  BY DEF Stream!Send, WritePart, WriteSteps, WriteTypes
<1>2. ASSUME out' = out, misled' = misled, sent' = sent, open' => open, retry' \in Nat, retry' <= Retry,
             doing' \in {"write", "written"}, doing' = "write" => retry' >= 1
      PROVE  WriteKept
  <2>1. WriteTypes'
    BY <1>1, <1>2 DEF WritePart, WriteTypes
  <2>2. WriteSteps'
    BY <1>2 DEF WriteSteps
  <2>3. Sent' = Sent
    BY <1>1, <1>2 DEF Sent
  <2>4. Stream!WritesIntact'
    BY <1>2, <2>3, WritesFollow DEF WritePart
  <2> QED
    BY <1>2, <2>1, <2>2, <2>4 DEF WriteKept
<1>3. CASE Stream!Accept
  BY <1>1, <1>3, AcceptStep
<1>4. CASE Stream!Again
  <2>1. retry' = retry - 1 /\ doing' = (IF retry = 1 THEN "written" ELSE "write")
    BY <1>4 DEF Stream!Again
  <2>2. retry' \in Nat /\ retry' <= Retry /\ (retry # 1 => retry' >= 1)
    BY <1>1, <2>1, StreamSizes
  <2>3. doing' \in {"write", "written"} /\ (doing' = "write" => retry' >= 1)
    BY <2>1, <2>2
  <2> QED
    BY <1>2, <1>4, <2>2, <2>3 DEF Stream!Again, Stream!Holds
<1>5. CASE Stream!SendFails
  <2>1. retry' = 0 /\ doing' = "written" /\ open' = FALSE /\ UNCHANGED <<out, sent, misled>>
    BY <1>5 DEF Stream!SendFails, Stream!Stop
  <2>2. retry' \in Nat /\ retry' <= Retry
    BY <2>1, StreamSizes
  <2> QED
    BY <1>2, <2>1, <2>2
<1>6. CASE Stream!SelectFails
  <2>1. /\ sent' = 0 /\ misled' = (misled \/ sent > 0) /\ retry' = 0 /\ doing' = "written" /\ open' = open
        /\ out' = out
    BY <1>6 DEF Stream!SelectFails, Stream!Holds
  <2>2. WriteTypes'
    BY <1>1, <2>1, StreamSizes DEF WritePart, WriteTypes
  <2>3. WriteSteps'
    BY <2>1 DEF WriteSteps
  <2>4. Stream!WritesIntact'
    <3>1. CASE misled'
      BY <3>1 DEF Stream!WritesIntact
    <3>2. CASE ~misled'
      <4>1. ~(sent > 0) /\ ~misled
        BY <2>1, <3>2
      <4>2. sent = 0
        BY <4>1 DEF WritePart, WriteTypes
      <4>3. Stream!InOrder(out', Sent')
        BY <1>1, <2>1, <4>1, <4>2 DEF WritePart, Stream!WritesIntact, Sent
      <4> QED
        BY <4>3 DEF Stream!WritesIntact, Sent, Stream!InOrder, Stream!ToSet
    <3> QED
      BY <3>1, <3>2
  <2> QED
    BY <2>1, <2>2, <2>3, <2>4 DEF WriteKept
<1> QED
  BY <1>3, <1>4, <1>5, <1>6 DEF Stream!Send

LEMMA WrittenStep ==
  ASSUME WritePart, Stream!Written
  PROVE  WriteKept
<1>1. /\ next \in Nat /\ next >= 1 /\ size \in Nat /\ sent \in Nat /\ sent <= size
      /\ stream \in Int /\ stream >= -1 /\ next + size <= MaxOut + 1 /\ next + size + stream <= MaxOut + 1
      /\ retry \in Nat /\ retry <= Retry
      /\ lost \subseteq 1 .. next - 1 /\ out \in Seq(Nat)
  BY DEF WritePart, WriteTypes
<1>2. CASE stream = -1
  <2>1. /\ next' = next + sent /\ doing' = "rest" /\ size' = 0 /\ sent' = 0 /\ open' = open
        /\ stream' = stream /\ retry' = retry /\ lost' = lost /\ out' = out /\ misled' = misled
    BY <1>2 DEF Stream!Written, Stream!Holds
  <2>2. WriteTypes'
    <3>1. next' \in Nat /\ next' >= 1 /\ next' + size' <= MaxOut + 1 /\ next' + size' + stream' <= MaxOut + 1
      <4>1. next' = next + sent /\ size' = 0 /\ stream' = -1
        BY <1>2, <2>1
      <4>2. next \in Nat /\ next >= 1 /\ sent \in Nat /\ size \in Nat /\ sent <= size /\ next + size <= MaxOut + 1
        BY <1>1
      <4> QED
        BY <4>1, <4>2, StreamSizes
    <3>2. lost' \subseteq 1 .. next' - 1
      BY <1>1, <2>1
    <3>3. sent' \in Nat /\ size' \in Nat /\ sent' <= size'
      BY <2>1
    <3> QED
      BY <1>1, <2>1, <3>1, <3>2, <3>3 DEF WriteTypes
  <2>3. Sent' = Sent
    <3>1. next' + sent' - 1 = next + sent - 1
      BY <1>1, <2>1
    <3> QED
      BY <2>1, <3>1 DEF Sent
  <2>4. Stream!WritesIntact'
    BY <2>1, <2>3, WritesFollow DEF WritePart
  <2> QED
    BY <2>1, <2>2, <2>4 DEF WriteKept, WriteSteps
<1>3. CASE stream # -1
  <2>1. /\ next' = next + size /\ lost' = lost \cup (next + sent .. next + size - 1)
        /\ IF stream > 0
           THEN stream' = stream - Stream!Least(stream, Chunk) /\ Stream!BeginWrite(Stream!Least(stream, Chunk))
           ELSE /\ doing' = "rest" /\ size' = 0 /\ sent' = 0 /\ stream' = -1
                /\ Stream!Holds /\ UNCHANGED <<out, misled, retry>>
    BY <1>3 DEF Stream!Written, Stream!SendFrom
  <2>2. /\ open' = open /\ out' = out /\ misled' = misled /\ sent' = 0 /\ size' \in Nat
        /\ doing' \in {"rest", "write", "written"} /\ retry' \in Nat /\ retry' <= Retry
        /\ (doing' = "write" => retry' >= 1) /\ (doing' = "rest" => size' = 0)
        /\ stream' \in Int /\ stream' >= -1 /\ size' <= stream /\ size' + stream' <= stream
    <3>1. CASE stream > 0
      <4> DEFINE n == Stream!Least(stream, Chunk)
      <4>1. n \in Nat /\ n <= stream /\ stream \in Nat
        <5>1. stream \in Nat /\ Chunk \in Nat
          BY <1>1, <3>1, StreamSizes
        <5> HIDE DEF n
        <5>2. \A x, y \in Nat : Stream!Least(x, y) \in Nat /\ Stream!Least(x, y) <= x
          BY LeastIs
        <5> QED
          BY <5>1, <5>2 DEF n
      <4>2. stream' = stream - n /\ Stream!BeginWrite(n)
        BY <2>1, <3>1
      <4> HIDE DEF n
      <4>3. /\ size' = n /\ sent' = 0 /\ open' = open /\ out' = out /\ misled' = misled
            /\ doing' \in {"write", "written"} /\ retry' \in Nat /\ retry' <= Retry /\ (doing' = "write" => retry' >= 1)
        BY <4>1, <4>2, Begun
      <4>4. stream' \in Int /\ stream' >= -1 /\ size' <= stream /\ size' + stream' <= stream
        BY <4>1, <4>2, <4>3
      <4> QED
        BY <4>1, <4>3, <4>4
    <3>2. CASE ~(stream > 0)
      <4>1. /\ doing' = "rest" /\ size' = 0 /\ sent' = 0 /\ stream' = -1 /\ open' = open
            /\ out' = out /\ misled' = misled /\ retry' = retry
        BY <2>1, <3>2 DEF Stream!Holds
      <4>2. stream >= 0
        BY <1>1, <1>3
      <4>3. stream' \in Int /\ stream' >= -1 /\ size' <= stream /\ size' + stream' <= stream
        BY <1>1, <4>1, <4>2
      <4> QED
        BY <1>1, <4>1, <4>3
    <3> QED
      BY <3>1, <3>2
  <2>3. next' \in Nat /\ next' >= 1 /\ next' + size' <= MaxOut + 1 /\ next' + size' + stream' <= MaxOut + 1
    <3>1. /\ next + size \in Nat /\ next + size >= 1 /\ stream \in Nat
          /\ next + size + stream <= MaxOut + 1
      BY <1>1, <1>3
    <3>2. next' = next + size /\ size' \in Nat /\ stream' \in Int /\ size' <= stream /\ size' + stream' <= stream
      BY <2>1, <2>2
    <3>3. next' \in Nat /\ next' >= 1 /\ next' + stream <= MaxOut + 1
      BY <3>1, <3>2
    <3> QED
      BY <3>1, <3>2, <3>3, FitsBehind
  <2>4. lost' \subseteq 1 .. next' - 1
    <3>1. /\ next \in Nat /\ next >= 1 /\ size \in Nat /\ sent \in Nat /\ lost \subseteq 1 .. next - 1
          /\ next' = next + size /\ lost' = lost \cup (next + sent .. next + size - 1)
      BY <1>1, <2>1
    <3> QED
      BY <3>1
  <2>5. WriteTypes'
    <3>1. next' \in Nat /\ next' >= 1 /\ size' \in Nat /\ sent' \in Nat /\ sent' <= size'
      BY <2>2, <2>3
    <3>2. stream' \in Int /\ stream' >= -1 /\ retry' \in Nat /\ retry' <= Retry
      BY <2>2
    <3>3. out' \in Seq(Nat)
      BY <1>1, <2>2
    <3> QED
      BY <2>3, <2>4, <3>1, <3>2, <3>3 DEF WriteTypes
  <2>6. WriteSteps'
    BY <2>2 DEF WriteSteps
  <2>7. Sent' = Sent
    <3>1. next' + sent' - 1 = next + size - 1
      BY <1>1, <2>1, <2>2
    <3>2. 1 .. next + sent - 1 = (1 .. next + size - 1) \ (next + sent .. next + size - 1)
      BY <1>1
    <3> QED
      BY <2>1, <3>1, <3>2 DEF Sent
  <2>8. Stream!WritesIntact'
    BY <2>2, <2>7, WritesFollow DEF WritePart
  <2> QED
    BY <2>2, <2>5, <2>6, <2>8 DEF WriteKept
<1> QED
  BY <1>2, <1>3

-----------------------------------------------------------------------------
ReadPc == {"rest", "fill", "copy", "loop", "flush"}
WritePc == {"rest", "write", "written"}

LEMMA StreamInit == Stream!Init => StreamInv
<1> SUFFICES ASSUME Stream!Init PROVE StreamInv
  OBVIOUS
<1>1. /\ allocated = FALSE /\ held = <<>> /\ pos = 0 /\ failed = FALSE /\ got = <<>> /\ flushed = {} /\ left = 0
      /\ open = TRUE /\ connected = TRUE /\ peer = "open" /\ arrived = 0 /\ kernel = <<>>
      /\ doing = "rest" /\ size = 0 /\ sent = 0 /\ retry = 0 /\ stream = -1
      /\ next = 1 /\ out = <<>> /\ lost = {} /\ misled = FALSE
  BY DEF Stream!Init
<1>2. StreamKinds
  BY <1>1 DEF StreamKinds
<1>3. ReadTypes /\ ReadSteps
  BY <1>1, StreamSizes DEF ReadTypes, ReadSteps
<1>4. WriteTypes
  <2>1. next + size = 1 /\ next + size + stream = 0 /\ MaxOut + 1 >= 1
    BY <1>1, StreamSizes
  <2>2. stream \in Int /\ stream >= -1
    BY <1>1
  <2> QED
    BY <1>1, <2>1, <2>2, StreamSizes DEF WriteTypes
<1>5. WriteSteps
  BY <1>1 DEF WriteSteps
<1>6. Stream!InOrder(<<>>, {})
  <2>1. <<>> \in Seq(Nat) /\ Len(<<>>) = 0 /\ 1 .. 0 = {}
    OBVIOUS
  <2> QED
    BY <2>1, InOrderIs
<1>7. Stream!Came = {} /\ Stream!Coming = <<>> /\ (1 .. next + sent - 1) \ lost = {}
  <2>1. 1 .. 0 = {} /\ next + sent - 1 = 0
    BY <1>1
  <2>2. SubSeq(held, pos + 1, Len(held)) = <<>>
    BY <1>1, SubSeqEmpty
  <2>3. Stream!Coming = <<>>
    BY <1>1, <2>2 DEF Stream!Coming
  <2> QED
    BY <1>1, <2>1, <2>3 DEF Stream!Came
<1>8. Stream!ReadsIntact
  <2>1. {b \in Stream!Came : b <= 0} = {} /\ 0 \in 0 .. arrived
    BY <1>1, <1>7
  <2> QED
    BY <1>1, <1>6, <1>7, <2>1 DEF Stream!ReadsIntact
<1>9. Stream!WritesIntact
  BY <1>1, <1>6, <1>7 DEF Stream!WritesIntact
<1> QED
  BY <1>2, <1>3, <1>4, <1>5, <1>8, <1>9 DEF StreamInv, StreamIntact, Stream!StreamIntact

(* What a step makes of the flags.                                         *)
LEMMA FlagsFollow ==
  ASSUME StreamKinds, Stream!Next
  PROVE  /\ allocated' \in BOOLEAN /\ failed' \in BOOLEAN /\ open' \in BOOLEAN /\ connected' \in BOOLEAN
         /\ misled' \in BOOLEAN /\ peer' \in {"open", "closed", "reset"}
<1>1. Stream!Stop \/ Stream!Holds => open' \in BOOLEAN /\ connected' \in BOOLEAN
  BY DEF Stream!Stop, Stream!Holds, StreamKinds
<1>2. Stream!StopIfFailed \/ Stream!ReadReturns => Stream!Stop \/ Stream!Holds
  BY DEF Stream!StopIfFailed, Stream!ReadReturns
<1>3. \A l, n : Stream!ReadGoes(l, n) => Stream!Holds
  BY DEF Stream!ReadGoes
<1>4. \A taken : Stream!FillBuffer(taken) => failed' \in BOOLEAN /\ allocated' \in BOOLEAN
  <2>1. ASSUME NEW taken, Stream!FillBuffer(taken) PROVE failed' \in BOOLEAN /\ allocated' \in BOOLEAN
    <3>1. failed' \in BOOLEAN
      BY <2>1 DEF Stream!FillBuffer, StreamKinds
    <3>2. allocated' = (allocated \/ ~failed')
      BY <2>1 DEF Stream!FillBuffer
    <3> QED
      BY <3>1, <3>2, Zenon
  <2> QED
    BY <2>1
<1>5. Stream!NoFill => failed' \in BOOLEAN /\ allocated' \in BOOLEAN
  BY DEF Stream!NoFill, StreamKinds
<1>6. CASE Stream!ReadFill /\ UNCHANGED <<Stream!tx, peer, arrived>>
  <2>1. Stream!Stop \/ Stream!Holds
    BY <1>2, <1>3, <1>6 DEF Stream!ReadFill
  <2>2. failed' \in BOOLEAN /\ allocated' \in BOOLEAN
    BY <1>4, <1>6 DEF Stream!ReadFill
  <2> QED
    BY <1>1, <1>6, <2>1, <2>2 DEF Stream!tx, StreamKinds
<1>7. CASE Stream!ReadCopy /\ UNCHANGED <<Stream!tx, peer, arrived>>
  <2>1. Stream!Stop \/ Stream!Holds
    BY <1>2, <1>3, <1>7 DEF Stream!ReadCopy
  <2>2. failed' \in BOOLEAN /\ allocated' \in BOOLEAN
    BY <1>4, <1>5, <1>7 DEF Stream!ReadCopy
  <2> QED
    BY <1>1, <1>7, <2>1, <2>2 DEF Stream!tx, StreamKinds
<1>8. CASE Stream!ReadLoop /\ UNCHANGED <<Stream!tx, peer, arrived>>
  <2>1. Stream!Stop \/ Stream!Holds
    BY <1>2, <1>3, <1>8 DEF Stream!ReadLoop
  <2>2. failed' \in BOOLEAN /\ allocated' \in BOOLEAN
    BY <1>4, <1>8 DEF Stream!ReadLoop
  <2> QED
    BY <1>1, <1>8, <2>1, <2>2 DEF Stream!tx, StreamKinds
<1>9. CASE Stream!Flush /\ UNCHANGED <<Stream!tx, peer, arrived>>
  BY <1>1, <1>9 DEF Stream!Flush, Stream!tx, StreamKinds
<1>10. CASE Stream!BeginRead /\ UNCHANGED <<Stream!tx, peer, arrived>>
  BY <1>1, <1>10 DEF Stream!BeginRead, Stream!tx, StreamKinds
<1>11. CASE Stream!Peek /\ UNCHANGED <<Stream!tx, peer, arrived>>
  <2>1. failed' \in BOOLEAN /\ allocated' \in BOOLEAN
    BY <1>4, <1>11 DEF Stream!Peek
  <2> QED
    BY <1>1, <1>2, <1>11, <2>1 DEF Stream!Peek, Stream!tx, StreamKinds
<1>12. CASE Stream!BeginFlush /\ UNCHANGED <<Stream!tx, peer, arrived>>
  BY <1>1, <1>2, <1>12 DEF Stream!BeginFlush, Stream!tx, StreamKinds
<1>13. CASE Stream!Connected /\ UNCHANGED <<Stream!tx, peer, arrived>>
  <2>1. connected' \in BOOLEAN
    BY <1>13 DEF Stream!Connected
  <2> QED
    BY <1>13, <2>1 DEF Stream!Connected, Stream!rx, Stream!tx, StreamKinds
<1>14. CASE Stream!Reads /\ UNCHANGED <<Stream!tx, peer, arrived>>
  BY <1>6, <1>7, <1>8, <1>9, <1>10, <1>11, <1>12, <1>13, <1>14 DEF Stream!Reads, Stream!Step
<1>15. CASE (Stream!Write \/ Stream!WriteStream \/ Stream!Writes) /\ UNCHANGED <<Stream!rx, peer, arrived, kernel>>
  <2>1. \A n : Stream!BeginWrite(n) => Stream!Holds /\ misled' = misled
    BY DEF Stream!BeginWrite
  <2>2. CASE Stream!Write \/ Stream!WriteStream
    BY <1>1, <1>15, <2>1, <2>2 DEF Stream!Write, Stream!WriteStream, Stream!rx, StreamKinds
  <2>3. CASE Stream!Send
    <3>1. (Stream!Stop \/ Stream!Holds) /\ (misled' = misled \/ misled' = (misled \/ sent > 0))
      BY <2>3 DEF Stream!Send, Stream!Accept, Stream!Again, Stream!SendFails, Stream!SelectFails
    <3>2. misled' \in BOOLEAN
      <4>1. misled \in BOOLEAN
        BY DEF StreamKinds
      <4> QED
        BY <3>1, <4>1, Zenon
    <3> QED
      BY <1>1, <1>15, <3>1, <3>2 DEF Stream!rx, StreamKinds
  <2>4. CASE Stream!Written
    <3>1. Stream!Holds /\ misled' = misled
      BY <2>1, <2>4 DEF Stream!Written
    <3> QED
      BY <1>1, <1>15, <3>1 DEF Stream!rx, StreamKinds
  <2> QED
    BY <1>15, <2>2, <2>3, <2>4 DEF Stream!Writes
<1>16. CASE (Stream!PeerSends \/ Stream!PeerEnds) /\ UNCHANGED <<Stream!rx, Stream!tx, open, connected, doing>>
  BY <1>16 DEF Stream!PeerSends, Stream!PeerEnds, Stream!rx, Stream!tx, StreamKinds
<1> QED
  BY <1>14, <1>15, <1>16 DEF Stream!Next

LEMMA ReadStays ==
  ASSUME ReadTypes, Stream!ReadsIntact, open' => open,
         UNCHANGED <<held, pos, got, flushed, left, arrived, kernel>>
  PROVE  ReadTypes' /\ Stream!ReadsIntact'
<1>1. ReadTypes'
  BY DEF ReadTypes
<1>2. Stream!Coming' = Stream!Coming /\ Stream!Came' = Stream!Came
  BY DEF Stream!Coming, Stream!Came
<1>3. open => Stream!InOrder(Stream!Coming, Stream!Came)'
  BY <1>2, OrderStays DEF Stream!ReadsIntact
<1> QED
  BY <1>1, <1>3, ReadsFollow

LEMMA WriteStays ==
  ASSUME WriteTypes, WriteSteps, Stream!WritesIntact, UNCHANGED Stream!tx,
         doing' = doing \/ (doing \in ReadPc /\ doing' \in ReadPc)
  PROVE  WriteTypes' /\ WriteSteps' /\ Stream!WritesIntact'
<1>1. /\ next' = next /\ out' = out /\ lost' = lost /\ misled' = misled /\ retry' = retry
      /\ stream' = stream /\ size' = size /\ sent' = sent
  BY DEF Stream!tx
<1>2. WriteTypes' /\ WriteSteps'
  BY <1>1 DEF WriteTypes, WriteSteps, ReadPc
<1>3. Sent' = Sent
  BY <1>1 DEF Sent
<1> QED
  BY <1>1, <1>2, <1>3, WritesFollow

LEMMA StreamStep == StreamInv /\ [Stream!Next]_(Stream!vars) => StreamInv'
<1> SUFFICES ASSUME StreamInv, [Stream!Next]_(Stream!vars) PROVE StreamInv'
  OBVIOUS
<1>1. /\ StreamKinds /\ ReadTypes /\ ReadSteps /\ WriteTypes /\ WriteSteps
      /\ Stream!ReadsIntact /\ Stream!WritesIntact
  BY DEF StreamInv, StreamIntact, Stream!StreamIntact
<1>2. SUFFICES /\ StreamKinds' /\ ReadTypes' /\ ReadSteps' /\ WriteTypes' /\ WriteSteps'
               /\ Stream!ReadsIntact' /\ Stream!WritesIntact'
  BY DEF StreamInv, StreamIntact, Stream!StreamIntact
<1>3. CASE Stream!Reads /\ UNCHANGED <<Stream!tx, peer, arrived>>
  <2>1. ReadOnly
    BY <1>1, <1>3 DEF ReadOnly
  <2>2. /\ ReadTypes' /\ ReadSteps' /\ doing' \in ReadPc /\ Stream!ReadsIntact'
    <3>1. CASE Stream!Flush
      BY <1>1, <2>1, <3>1, FlushStep DEF ReadPc
    <3>2. CASE ~Stream!Flush
      <4>1. ReadKept
        BY <1>3, <2>1, <3>2, FillStep, CopyStep, LoopStep, BeginReadStep, PeekStep, BeginFlushStep, ConnectedStep
           DEF Stream!Reads, Stream!Step
      <4>2. Stream!Came' = Stream!Came
        BY <1>3, <4>1 DEF ReadKept, Stream!Came
      <4>3. open => Stream!InOrder(Stream!Coming, Stream!Came)'
        BY <1>1, <4>1, <4>2, OrderStays DEF ReadKept, Stream!ReadsIntact
      <4>4. Stream!ReadsIntact'
        BY <1>1, <1>3, <4>1, <4>3, ReadsFollow DEF ReadKept
      <4> QED
        BY <4>1, <4>4 DEF ReadKept, ReadPc
    <3> QED
      BY <3>1, <3>2
  <2>3. doing \in ReadPc
    BY <1>3 DEF ReadPc, Stream!Reads, Stream!Step, Stream!ReadFill, Stream!ReadCopy, Stream!ReadLoop, Stream!Flush,
       Stream!BeginRead, Stream!Peek, Stream!BeginFlush, Stream!Connected
  <2>4. WriteTypes' /\ WriteSteps' /\ Stream!WritesIntact'
    BY <1>1, <1>3, <2>2, <2>3, WriteStays
  <2>5. Stream!Next
    BY <1>3 DEF Stream!Next
  <2>6. StreamKinds'
    BY <1>1, <2>2, <2>5, FlagsFollow DEF StreamKinds, ReadPc
  <2> QED
    BY <2>2, <2>4, <2>6
<1>4. CASE (Stream!Write \/ Stream!WriteStream \/ Stream!Writes) /\ UNCHANGED <<Stream!rx, peer, arrived, kernel>>
  <2>1. WritePart
    BY <1>1 DEF WritePart
  <2>2. WriteKept
    <3>1. CASE Stream!Write \/ Stream!WriteStream
      <4>1. doing = "rest"
        BY <3>1 DEF Stream!Write, Stream!WriteStream
      <4> QED
        BY <2>1, <3>1, <4>1, WriteStep
    <3>2. CASE Stream!Writes
      BY <2>1, <3>2, SendStep, WrittenStep DEF Stream!Writes
    <3> QED
      BY <1>4, <3>1, <3>2
  <2>3. UNCHANGED <<held, pos, got, flushed, left, arrived, kernel>>
    BY <1>4 DEF Stream!rx
  <2>4. ReadTypes' /\ Stream!ReadsIntact'
    BY <1>1, <2>2, <2>3, ReadStays DEF WriteKept
  <2>5. ReadSteps'
    BY <2>2 DEF WriteKept, ReadSteps
  <2>6. Stream!Next
    BY <1>4 DEF Stream!Next
  <2>7. StreamKinds'
    BY <1>1, <2>2, <2>6, FlagsFollow DEF StreamKinds, WriteKept
  <2> QED
    BY <2>2, <2>4, <2>5, <2>7 DEF WriteKept
<1>5. CASE (Stream!PeerSends \/ Stream!PeerEnds) /\ UNCHANGED <<Stream!rx, Stream!tx, open, connected, doing>>
  <2>1. UNCHANGED <<held, pos, got, flushed, left, open>> /\ doing' = doing
    BY <1>5 DEF Stream!rx
  <2>2. ReadTypes' /\ Stream!ReadsIntact'
    <3>1. CASE Stream!PeerSends
      BY <1>1, <2>1, <3>1, PeerSendsStep
    <3>2. CASE Stream!PeerEnds
      <4>1. UNCHANGED <<held, pos, got, flushed, left, arrived, kernel>> /\ (open' => open)
        BY <2>1, <3>2 DEF Stream!PeerEnds
      <4> QED
        BY <1>1, <4>1, ReadStays
    <3> QED
      BY <1>5, <3>1, <3>2
  <2>3. ReadSteps'
    BY <1>1, <2>1 DEF ReadSteps
  <2>4. WriteTypes' /\ WriteSteps' /\ Stream!WritesIntact'
    BY <1>1, <1>5, <2>1, WriteStays
  <2>5. Stream!Next
    BY <1>5 DEF Stream!Next
  <2>6. StreamKinds'
    BY <1>1, <2>1, <2>5, FlagsFollow DEF StreamKinds
  <2> QED
    BY <2>2, <2>3, <2>4, <2>6
<1>6. CASE UNCHANGED Stream!vars
  <2>1. /\ UNCHANGED <<held, pos, got, flushed, left, arrived, kernel>> /\ UNCHANGED Stream!tx
        /\ UNCHANGED <<allocated, failed, open, connected, peer, doing, misled>>
    BY <1>6 DEF Stream!vars, Stream!rx, Stream!tx
  <2>2. ReadTypes' /\ Stream!ReadsIntact'
    BY <1>1, <2>1, ReadStays
  <2>3. WriteTypes' /\ WriteSteps' /\ Stream!WritesIntact'
    BY <1>1, <2>1, WriteStays
  <2>4. ReadSteps' /\ StreamKinds'
    BY <1>1, <2>1 DEF ReadSteps, StreamKinds
  <2> QED
    BY <2>2, <2>3, <2>4
<1> QED
  BY <1>3, <1>4, <1>5, <1>6 DEF Stream!Next

LEMMA StreamTypes == StreamInv => Stream!TypeOK
<1> SUFFICES ASSUME StreamInv PROVE Stream!TypeOK
  OBVIOUS
<1>1. /\ {allocated, failed, open, connected, misled} \subseteq BOOLEAN
      /\ peer \in {"open", "closed", "reset"}
      /\ doing \in {"rest", "fill", "copy", "loop", "flush", "write", "written"}
  BY DEF StreamInv, StreamKinds
<1>2. /\ held \in Seq(1 .. StreamIn) /\ Len(held) <= Size /\ pos \in 0 .. Len(held)
      /\ arrived \in 0 .. StreamIn /\ left \in Nat
  BY StreamSizes DEF StreamInv, ReadTypes
<1>3. /\ size \in 0 .. MaxOut /\ sent \in 0 .. size /\ retry \in 0 .. Retry /\ next \in 1 .. MaxOut + 1
  BY StreamSizes DEF StreamInv, WriteTypes
<1>4. stream \in -1 .. MaxOut
  BY StreamSizes DEF StreamInv, WriteTypes
<1> QED
  BY <1>1, <1>2, <1>3, <1>4 DEF Stream!TypeOK

(* Every length, every buffer and every order of calls and arrivals: a     *)
(* connection of WiFiClient delivers the bytes the peer sent, in order and *)
(* once, without those flush() threw away, and sends those the application *)
(* wrote.                                                                  *)
THEOREM StreamHolds == Stream!Spec => [](Stream!TypeOK /\ StreamIntact)
<1>1. StreamInv => Stream!TypeOK /\ StreamIntact
  BY StreamTypes DEF StreamInv
<1> QED
  BY <1>1, StreamInit, StreamStep, PTL DEF Stream!Spec

-----------------------------------------------------------------------------
(* WifiCallbacks: the list of callbacks, and an event on its way along it. *)

LEMMA LessIsOrdered ==
  ASSUME NEW x \in Nat, NEW y \in Nat, y < x
  PROVE  <<y, x>> \in OpToRel(<, Nat)
  BY SMT DEF OpToRel

(* A set of numbers has a least one.                                       *)
LEMMA LeastOf ==
  ASSUME NEW S \in SUBSET Nat, S # {}
  PROVE  \E x \in S : \A y \in S : x <= y
<1>1. PICK x \in S : \A y \in S : ~(<<y, x>> \in OpToRel(<, Nat))
  BY NatLessThanWellFounded, WFMin, Zenon
<1>2. \A y \in S : x <= y
  <2>1. SUFFICES ASSUME NEW y \in S, y < x PROVE FALSE
    OBVIOUS
  <2>2. <<y, x>> \in OpToRel(<, Nat)
    BY <2>1, LessIsOrdered
  <2> QED
    BY <1>1, <2>2
<1> QED
  BY <1>2

(* The places of the entries that are kept: each is where it was or lies   *)
(* before that, and those in front of the first that is gone stay.         *)
Rising(at, n) ==
  /\ \A k \in 1 .. n : at[k] \in Nat \ {0}
  /\ \A j, k \in 1 .. n : j < k => at[j] < at[k]

LEMMA RisingIsBeyond ==
  ASSUME NEW n \in Nat, NEW at, Rising(at, n)
  PROVE  \A k \in 1 .. n : k <= at[k]
<1> DEFINE below == {k \in 1 .. n : at[k] < k}
<1> SUFFICES ASSUME below # {} PROVE FALSE
  BY DEF Rising
<1>1. PICK k \in below : \A j \in below : k <= j
  <2>1. below \in SUBSET Nat
    OBVIOUS
  <2> HIDE DEF below
  <2> QED
    BY <2>1, LeastOf
<1>2. k \in 1 .. n /\ at[k] < k /\ at[k] \in Nat \ {0}
  BY <1>1 DEF Rising
<1>3. k - 1 \in 1 .. n /\ k - 1 < k /\ at[k - 1] \in Nat \ {0}
  <2>1. k - 1 \in 1 .. n /\ k - 1 < k
    BY <1>2
  <2> QED
    BY <2>1 DEF Rising
<1>4. at[k - 1] < at[k]
  BY <1>2, <1>3 DEF Rising
<1>5. k - 1 \in below
  BY <1>2, <1>3, <1>4
<1> QED
  BY <1>1, <1>2, <1>5

Keeps(at, n, m) == \A k \in 1 .. m : \E j \in 1 .. n : at[j] = k

LEMMA RisingIsSame ==
  ASSUME NEW n \in Nat, NEW m \in Nat, NEW at, Rising(at, n), Keeps(at, n, m)
  PROVE  \A k \in 1 .. m : k \in 1 .. n /\ at[k] = k
<1> DEFINE moved == {k \in 1 .. m : ~(k \in 1 .. n /\ at[k] = k)}
<1> SUFFICES ASSUME moved # {} PROVE FALSE
  OBVIOUS
<1>1. PICK k \in moved : \A j \in moved : k <= j
  <2>1. moved \in SUBSET Nat
    OBVIOUS
  <2> HIDE DEF moved
  <2> QED
    BY <2>1, LeastOf
<1>2. k \in 1 .. m
  OBVIOUS
<1>3. PICK j \in 1 .. n : at[j] = k
  BY <1>2 DEF Keeps
<1>4. CASE j < k
  <2>1. j \in 1 .. m /\ ~(k <= j) /\ at[j] # j
    BY <1>2, <1>3, <1>4
  <2>2. j \in moved
    BY <2>1
  <2> QED
    BY <1>1, <2>1, <2>2
<1>5. CASE k < j
  <2>1. k \in 1 .. n
    BY <1>2, <1>5
  <2>2. at[k] < at[j] /\ k <= at[k] /\ at[k] \in Nat
    BY <1>5, <2>1, RisingIsBeyond DEF Rising
  <2> QED
    BY <1>2, <1>3, <2>2
<1>6. CASE k = j
  BY <1>1, <1>3, <1>6
<1> QED
  BY <1>2, <1>3, <1>4, <1>5, <1>6

-----------------------------------------------------------------------------
(* The ids of the list rise; those that have been called rise too, and are *)
(* smaller than those still to come; who is due is in the list, and has    *)
(* been called if the loop has passed it.                                  *)
CallbackEntry == [id : Nat, cb : Handlers, event : Kinds \cup {AnyEvent}]

CallbackTypes ==
  /\ current_id \in Nat /\ 1 <= current_id /\ current_id <= MaxIds + 1 /\ passed \in Nat
  /\ handled \in Kinds \cup {NoEvent} /\ inside \in BOOLEAN /\ shifted \in BOOLEAN
  /\ cbEventList \in Seq(CallbackEntry) /\ called \in Seq(Nat)

IdsRise ==
  /\ \A k, l \in 1 .. Len(cbEventList) : k < l => cbEventList[k].id < cbEventList[l].id
  /\ \A k \in 1 .. Len(cbEventList) : cbEventList[k].id < current_id

CalledRise ==
  /\ \A k, l \in 1 .. Len(called) : k < l => called[k] < called[l]
  /\ \A k \in 1 .. Len(called) : called[k] < current_id
  /\ \A k \in 1 .. Len(called) : \A l \in 1 .. Len(cbEventList) :
       passed < l => called[k] < cbEventList[l].id

DueMatch ==
  /\ \A x \in due : \E k \in 1 .. Len(cbEventList) : cbEventList[k].id = x
  /\ \A k \in 1 .. Len(cbEventList) :
       cbEventList[k].id \in due => cbEventList[k].event \in {handled, AnyEvent}

IsAmong(x, s) == \E j \in 1 .. Len(s) : s[j] = x

DueCalled ==
  ~shifted =>
    /\ passed <= Len(cbEventList)
    /\ \A k \in 1 .. passed : cbEventList[k].id \in due => IsAmong(cbEventList[k].id, called)

CallbackInv == CallbackTypes /\ IdsRise /\ CalledRise /\ DueMatch /\ DueCalled

(* What a list is made of.                                                 *)
LEMMA EntriesAre ==
  ASSUME NEW list \in Seq(CallbackEntry)
  PROVE  /\ Len(list) \in Nat /\ DOMAIN list = 1 .. Len(list)
         /\ \A k \in 1 .. Len(list) : list[k] \in CallbackEntry /\ list[k].id \in Nat
         /\ \A x : x \in Callbacks!Ids(list) <=> \E k \in 1 .. Len(list) : list[k].id = x
<1>1. Len(list) \in Nat /\ DOMAIN list = 1 .. Len(list)
  OBVIOUS
<1>2. \A k \in 1 .. Len(list) : list[k] \in CallbackEntry
  BY ElementOfSeq
<1>3. \A k \in 1 .. Len(list) : list[k].id \in Nat
  BY <1>2 DEF CallbackEntry
<1> QED
  BY <1>1, <1>2, <1>3 DEF Callbacks!Ids

LEMMA CallbackHolds == CallbackInv => Callbacks!TypeOK /\ DispatchIsFair
<1> SUFFICES ASSUME CallbackInv PROVE Callbacks!TypeOK /\ DispatchIsFair
  OBVIOUS
<1> USE DEF CallbackInv
<1>1. Callbacks!TypeOK
  <2>1. MaxIds \in Nat
    BY ChannelsAssumption DEF Callbacks!BoundOK
  <2> QED
    BY <2>1 DEF CallbackTypes, Callbacks!TypeOK
<1>2. DOMAIN called = 1 .. Len(called) /\ Len(cbEventList) \in Nat /\ passed \in Nat
  BY DEF CallbackTypes
<1>3. ASSUME passed >= Len(cbEventList), ~shifted, NEW x \in due
      PROVE  x \in Callbacks!ToSet(called)
  <2>1. PICK k \in 1 .. Len(cbEventList) : cbEventList[k].id = x
    BY DEF DueMatch
  <2>2. k \in 1 .. passed
    BY <1>2, <1>3, <2>1
  <2>3. PICK j \in 1 .. Len(called) : called[j] = x
    BY <1>3, <2>1, <2>2 DEF DueCalled, IsAmong
  <2> QED
    BY <1>2, <2>3 DEF Callbacks!ToSet
<1>4. \A k, l \in DOMAIN called : k < l => called[k] < called[l]
  BY <1>2 DEF CalledRise
<1> QED
  BY <1>1, <1>3, <1>4 DEF DispatchIsFair, Callbacks!DispatchIsFair

LEMMA CallbackInit == Callbacks!Init => CallbackInv
<1> SUFFICES ASSUME Callbacks!Init PROVE CallbackInv
  OBVIOUS
<1> USE DEF Callbacks!Init
<1>1. MaxIds \in Nat
  BY ChannelsAssumption DEF Callbacks!BoundOK
<1>2. cbEventList = <<>> /\ called = <<>> /\ Len(cbEventList) = 0 /\ Len(called) = 0
  OBVIOUS
<1>3. 1 .. 0 = {}
  OBVIOUS
<1>4. CallbackTypes
  <2>1. current_id \in Nat /\ 1 <= current_id /\ current_id <= MaxIds + 1 /\ passed \in Nat
    BY <1>1
  <2>2. cbEventList \in Seq(CallbackEntry) /\ called \in Seq(Nat)
    BY <1>2
  <2> QED
    BY <2>1, <2>2 DEF CallbackTypes
<1>5. IdsRise /\ CalledRise
  BY <1>2, <1>3 DEF IdsRise, CalledRise
<1>6. DueMatch /\ DueCalled
  BY <1>2, <1>3 DEF DueMatch, DueCalled
<1> QED
  BY <1>4, <1>5, <1>6 DEF CallbackInv

-----------------------------------------------------------------------------
(* A callback is registered, behind all others.                            *)
LEMMA OnEventStep ==
  ASSUME CallbackInv, NEW cb \in Handlers, NEW event \in Kinds \cup {AnyEvent},
         Callbacks!OnEvent(cb, event), UNCHANGED <<handled, passed, inside, called>>
  PROVE  CallbackInv'
<1> USE DEF CallbackInv, Callbacks!OnEvent
<1> DEFINE n == Len(cbEventList)
           entry == [id |-> current_id, cb |-> cb, event |-> event]
<1>1. entry \in CallbackEntry /\ entry.id = current_id
  BY DEF CallbackEntry, CallbackTypes
<1>2. /\ cbEventList' \in Seq(CallbackEntry) /\ Len(cbEventList') = n + 1 /\ n \in Nat
      /\ \A k \in 1 .. n : cbEventList'[k] = cbEventList[k]
      /\ cbEventList'[n + 1] = entry
  <2>1. cbEventList \in Seq(CallbackEntry) /\ cbEventList' = Append(cbEventList, entry)
    BY DEF CallbackTypes
  <2> HIDE DEF entry
  <2> QED
    BY <1>1, <2>1, AppendProperties
<1>3. /\ current_id \in Nat /\ current_id' = current_id + 1 /\ current_id <= MaxIds /\ MaxIds \in Nat
      /\ due' = due /\ shifted' = shifted /\ passed \in Nat
  BY ChannelsAssumption DEF CallbackTypes, Callbacks!BoundOK
<1>4. \A k \in 1 .. n : cbEventList[k].id \in Nat /\ cbEventList[k].id < current_id
  BY EntriesAre DEF CallbackTypes, IdsRise
<1> HIDE DEF n, entry
<1>5. \A k \in 1 .. n + 1 : k \in 1 .. n \/ k = n + 1
  BY <1>2
<1>6. CallbackTypes'
  BY <1>2, <1>3 DEF CallbackTypes
<1>7. IdsRise'
  <2>1. \A k \in 1 .. n + 1 : cbEventList'[k].id < current_id'
    BY <1>1, <1>2, <1>3, <1>4, <1>5
  <2>2. \A k, l \in 1 .. n + 1 : k < l => cbEventList'[k].id < cbEventList'[l].id
    <3> SUFFICES ASSUME NEW k \in 1 .. n + 1, NEW l \in 1 .. n + 1, k < l
                 PROVE  cbEventList'[k].id < cbEventList'[l].id
      OBVIOUS
    <3>1. k \in 1 .. n
      BY <1>2
    <3>2. CASE l \in 1 .. n
      BY <1>2, <3>1, <3>2 DEF IdsRise, n
    <3>3. CASE l = n + 1
      BY <1>1, <1>2, <1>4, <3>1, <3>3
    <3> QED
      BY <1>5, <3>2, <3>3
  <2> QED
    BY <1>2, <2>1, <2>2 DEF IdsRise
<1>8. CalledRise'
  <2>1. \A k \in 1 .. Len(called) : called[k] \in Nat /\ called[k] < current_id
    BY ElementOfSeq DEF CallbackTypes, CalledRise
  <2>2. \A k \in 1 .. Len(called) : called[k] < current_id'
    BY <1>3, <2>1
  <2>3. ASSUME NEW k \in 1 .. Len(called), NEW l \in 1 .. n + 1, passed < l
        PROVE  called[k] < cbEventList'[l].id
    <3>1. CASE l \in 1 .. n
      BY <1>2, <2>3, <3>1 DEF CalledRise, n
    <3>2. CASE l = n + 1
      BY <1>1, <1>2, <2>1, <3>2
    <3> QED
      BY <1>5, <3>1, <3>2
  <2> QED
    BY <1>2, <2>2, <2>3 DEF CalledRise
<1>9. DueMatch'
  <2>1. current_id \notin due
    BY <1>4 DEF DueMatch, n
  <2>2. ASSUME NEW x \in due PROVE \E k \in 1 .. n + 1 : cbEventList'[k].id = x
    <3>1. PICK k \in 1 .. n : cbEventList[k].id = x
      BY DEF DueMatch, n
    <3> QED
      BY <1>2, <3>1
  <2>3. ASSUME NEW k \in 1 .. n + 1, cbEventList'[k].id \in due
        PROVE  cbEventList'[k].event \in {handled, AnyEvent}
    <3>1. k \in 1 .. n
      BY <1>1, <1>2, <1>5, <2>1, <2>3
    <3> QED
      BY <1>2, <2>3, <3>1 DEF DueMatch, n
  <2> QED
    BY <1>2, <1>3, <2>2, <2>3 DEF DueMatch
<1>10. DueCalled'
  <2> SUFFICES ASSUME ~shifted
               PROVE  /\ passed <= n + 1
                      /\ \A k \in 1 .. passed : cbEventList'[k].id \in due => IsAmong(cbEventList'[k].id, called)
    BY <1>2, <1>3 DEF DueCalled, IsAmong
  <2>1. passed <= n
    BY DEF DueCalled, n
  <2>2. passed <= n + 1 /\ \A k \in 1 .. passed : k \in 1 .. n
    BY <1>2, <1>3, <2>1
  <2>3. \A k \in 1 .. passed : cbEventList[k].id \in due => IsAmong(cbEventList[k].id, called)
    BY DEF DueCalled
  <2> QED
    BY <1>2, <2>2, <2>3
<1> QED
  BY <1>6, <1>7, <1>8, <1>9, <1>10

(* What an erasure leaves of the list.                                     *)
LEMMA ErasedIs ==
  ASSUME CallbackInv, NEW ids, Callbacks!EraseAll(ids)
  PROVE  \E n \in Nat : \E at :
           /\ Rising(at, n) /\ \A k \in 1 .. n : at[k] \in 1 .. Len(cbEventList)
           /\ cbEventList' \in Seq(CallbackEntry) /\ Len(cbEventList') = n
           /\ \A k \in 1 .. n : cbEventList'[k] = cbEventList[at[k]]
<1>1. PICK n \in 0 .. Len(cbEventList) :
        \E at \in Callbacks!Bijection(1 .. n, Callbacks!Kept(ids)) : Callbacks!Erase(at)
  BY DEF Callbacks!EraseAll
<1>2. PICK at \in Callbacks!Bijection(1 .. n, Callbacks!Kept(ids)) : Callbacks!Erase(at)
  BY <1>1
<1>3. /\ DOMAIN cbEventList = 1 .. Len(cbEventList) /\ Len(cbEventList) \in Nat
      /\ \A k \in 1 .. Len(cbEventList) : cbEventList[k] \in CallbackEntry
  BY EntriesAre DEF CallbackInv, CallbackTypes
<1>4. n \in Nat
  BY <1>3
<1>5. at \in [1 .. n -> 1 .. Len(cbEventList)]
  <2>1. at \in [1 .. n -> Callbacks!Kept(ids)]
    BY <1>2 DEF Callbacks!Bijection, Callbacks!Injection, Callbacks!Surjection
  <2>2. Callbacks!Kept(ids) \subseteq 1 .. Len(cbEventList)
    BY <1>3 DEF Callbacks!Kept
  <2> QED
    BY <2>1, <2>2
<1>6. DOMAIN at = 1 .. n /\ \A k \in 1 .. n : at[k] \in 1 .. Len(cbEventList)
  BY <1>5
<1>7. cbEventList' = [k \in 1 .. n |-> cbEventList[at[k]]]
  BY <1>2, <1>6 DEF Callbacks!Erase
<1>8. cbEventList' \in Seq(CallbackEntry) /\ Len(cbEventList') = n
  <2>1. cbEventList' \in [1 .. n -> CallbackEntry]
    BY <1>3, <1>6, <1>7
  <2> QED
    BY <1>4, <2>1
<1>9. Rising(at, n)
  <2>1. \A k \in 1 .. n : at[k] \in Nat \ {0}
    BY <1>3, <1>6
  <2> QED
    BY <1>2, <1>6, <2>1 DEF Rising, Callbacks!Erase
<1>10. \A k \in 1 .. n : cbEventList'[k] = cbEventList[at[k]]
  BY <1>7
<1> QED
  BY <1>4, <1>6, <1>8, <1>9, <1>10

(* Entries are erased: nobody called comes up again, and unless an entry   *)
(* the loop had passed is gone, all of those are where they were.          *)
LEMMA EraseStep ==
  ASSUME CallbackInv, NEW ids, Callbacks!EraseAll(ids), UNCHANGED <<handled, passed, inside, called>>
  PROVE  CallbackInv'
<1> USE DEF CallbackInv
<1>0. PICK n \in Nat : \E at :
           /\ Rising(at, n) /\ \A k \in 1 .. n : at[k] \in 1 .. Len(cbEventList)
           /\ cbEventList' \in Seq(CallbackEntry) /\ Len(cbEventList') = n
           /\ \A k \in 1 .. n : cbEventList'[k] = cbEventList[at[k]]
  BY ErasedIs
<1>1. PICK at :
           /\ Rising(at, n) /\ \A k \in 1 .. n : at[k] \in 1 .. Len(cbEventList)
           /\ cbEventList' \in Seq(CallbackEntry) /\ Len(cbEventList') = n
           /\ \A k \in 1 .. n : cbEventList'[k] = cbEventList[at[k]]
  BY <1>0
<1>2. /\ current_id' = current_id /\ due' = due \cap Callbacks!Ids(cbEventList')
      /\ shifted' = (shifted \/ \E k \in 1 .. passed : cbEventList[k].id \notin Callbacks!Ids(cbEventList'))
  BY DEF Callbacks!EraseAll
<1>3. \A x : x \in Callbacks!Ids(cbEventList') <=> \E k \in 1 .. n : cbEventList'[k].id = x
  BY <1>1, EntriesAre
<1>4. Len(cbEventList) \in Nat /\ \A k \in 1 .. Len(cbEventList) : cbEventList[k].id \in Nat
  BY EntriesAre DEF CallbackTypes
<1>5. \A k, l \in 1 .. n : k < l => at[k] < at[l]
  BY <1>1 DEF Rising
<1>6. CallbackTypes'
  BY <1>1, <1>2 DEF CallbackTypes
<1>7. IdsRise'
  <2>1. \A k, l \in 1 .. n : k < l => cbEventList'[k].id < cbEventList'[l].id
    BY <1>1, <1>5 DEF IdsRise
  <2>2. \A k \in 1 .. n : cbEventList'[k].id < current_id'
    BY <1>1, <1>2 DEF IdsRise
  <2> QED
    BY <1>1, <2>1, <2>2 DEF IdsRise
<1>8. CalledRise'
  <2>1. ASSUME NEW k \in 1 .. Len(called), NEW l \in 1 .. n, passed < l
        PROVE  called[k] < cbEventList'[l].id
    <3>1. l <= at[l] /\ at[l] \in 1 .. Len(cbEventList) /\ passed \in Nat
      BY <1>1, RisingIsBeyond DEF CallbackTypes
    <3>2. passed < at[l]
      BY <1>4, <2>1, <3>1
    <3> QED
      BY <1>1, <3>1, <3>2 DEF CalledRise
  <2> QED
    BY <1>1, <1>2, <2>1 DEF CalledRise
<1>9. DueMatch'
  <2>1. ASSUME NEW x \in due' PROVE \E k \in 1 .. n : cbEventList'[k].id = x
    BY <1>2, <1>3
  <2>2. ASSUME NEW k \in 1 .. n, cbEventList'[k].id \in due'
        PROVE  cbEventList'[k].event \in {handled, AnyEvent}
    <3>1. at[k] \in 1 .. Len(cbEventList) /\ cbEventList'[k] = cbEventList[at[k]] /\ cbEventList'[k].id \in due
      BY <1>1, <1>2, <2>2
    <3> QED
      BY <3>1 DEF DueMatch
  <2> QED
    BY <1>1, <2>1, <2>2 DEF DueMatch
<1>10. DueCalled'
  <2> SUFFICES ASSUME ~shifted'
               PROVE  /\ passed <= n
                      /\ \A k \in 1 .. passed : cbEventList'[k].id \in due' => IsAmong(cbEventList'[k].id, called)
    BY <1>1 DEF DueCalled, IsAmong
  <2>1. ~shifted /\ \A k \in 1 .. passed : cbEventList[k].id \in Callbacks!Ids(cbEventList')
    BY <1>2 DEF CallbackTypes
  <2>2. passed <= Len(cbEventList) /\ passed \in Nat
    BY <2>1 DEF DueCalled, CallbackTypes
  <2>3. \A k \in 1 .. passed : k \in 1 .. Len(cbEventList)
    BY <1>4, <2>2
  <2>4. ASSUME NEW k \in 1 .. passed PROVE \E j \in 1 .. n : at[j] = k
    <3>1. PICK j \in 1 .. n : cbEventList'[j].id = cbEventList[k].id
      BY <1>3, <2>1
    <3>2. cbEventList[at[j]].id = cbEventList[k].id /\ at[j] \in 1 .. Len(cbEventList)
      BY <1>1, <3>1
    <3>3. k \in 1 .. Len(cbEventList)
      BY <2>3
    <3>4. ~(at[j] < k) /\ ~(k < at[j])
      BY <1>4, <3>2, <3>3 DEF IdsRise
    <3>5. at[j] = k
      BY <1>4, <3>2, <3>3, <3>4
    <3> QED
      BY <3>5
  <2>5. \A k \in 1 .. passed : k \in 1 .. n /\ at[k] = k
    <3>1. n \in Nat /\ passed \in Nat /\ Rising(at, n) /\ Keeps(at, n, passed)
      BY <1>1, <2>2, <2>4 DEF Keeps
    <3> QED
      BY <3>1, RisingIsSame
  <2>6. passed <= n
    BY <2>2, <2>5
  <2>7. \A k \in 1 .. passed : cbEventList'[k] = cbEventList[k]
    BY <1>1, <2>5
  <2>8. \A k \in 1 .. passed : cbEventList[k].id \in due => IsAmong(cbEventList[k].id, called)
    BY <2>1 DEF DueCalled
  <2> QED
    BY <1>2, <2>6, <2>7, <2>8
<1> QED
  BY <1>6, <1>7, <1>8, <1>9, <1>10

-----------------------------------------------------------------------------
(* The loop over the list.                                                 *)
LEMMA DispatchStep == CallbackInv /\ Callbacks!Dispatch => CallbackInv'
<1> SUFFICES ASSUME CallbackInv, Callbacks!Dispatch PROVE CallbackInv'
  OBVIOUS
<1> USE DEF CallbackInv
<1>1. /\ handled' \in Kinds /\ passed' = 0 /\ called' = <<>> /\ shifted' = FALSE
      /\ cbEventList' = cbEventList /\ current_id' = current_id /\ inside' = inside
  BY DEF Callbacks!Dispatch
<1>2. DOMAIN cbEventList = 1 .. Len(cbEventList) /\ Len(cbEventList) \in Nat
      /\ \A k \in 1 .. Len(cbEventList) : cbEventList[k].id \in Nat
  BY EntriesAre DEF CallbackTypes
<1>3. \A x : x \in due' <=> \E k \in 1 .. Len(cbEventList) :
                              cbEventList[k].id = x /\ cbEventList[k].event \in {handled', AnyEvent}
  BY <1>2 DEF Callbacks!Dispatch
<1>4. \A k, l \in 1 .. Len(cbEventList) : cbEventList[k].id = cbEventList[l].id => k = l
  <2> SUFFICES ASSUME NEW k \in 1 .. Len(cbEventList), NEW l \in 1 .. Len(cbEventList),
                      cbEventList[k].id = cbEventList[l].id
               PROVE  k = l
    OBVIOUS
  <2>1. ~(k < l) /\ ~(l < k)
    BY <1>2 DEF IdsRise
  <2> QED
    BY <1>2, <2>1
<1>5. Len(called') = 0 /\ 1 .. 0 = {} /\ called' \in Seq(Nat)
  BY <1>1
<1>6. CallbackTypes'
  BY <1>1, <1>5 DEF CallbackTypes
<1>7. IdsRise' /\ CalledRise'
  BY <1>1, <1>5 DEF IdsRise, CalledRise
<1>8. DueMatch'
  BY <1>1, <1>3, <1>4 DEF DueMatch
<1>9. DueCalled'
  BY <1>1, <1>2, <1>5 DEF DueCalled
<1> QED
  BY <1>6, <1>7, <1>8, <1>9

LEMMA CallNextStep == CallbackInv /\ Callbacks!CallNext => CallbackInv'
<1> SUFFICES ASSUME CallbackInv, Callbacks!CallNext PROVE CallbackInv'
  OBVIOUS
<1> USE DEF CallbackInv
<1> DEFINE here == cbEventList[passed + 1]
           m == Len(called)
<1>1. /\ passed < Len(cbEventList) /\ passed' = passed + 1 /\ cbEventList' = cbEventList
      /\ current_id' = current_id /\ handled' = handled /\ due' = due /\ shifted' = shifted
      /\ ~inside
  BY DEF Callbacks!CallNext
<1>2. /\ Len(cbEventList) \in Nat /\ passed \in Nat /\ m \in Nat
      /\ \A k \in 1 .. Len(cbEventList) : cbEventList[k].id \in Nat
      /\ \A k \in 1 .. m : called[k] \in Nat
  <2>1. \A k \in 1 .. m : called[k] \in Nat
    BY ElementOfSeq DEF CallbackTypes
  <2>2. passed \in Nat /\ m \in Nat
    BY DEF CallbackTypes
  <2> QED
    BY <2>1, <2>2, EntriesAre DEF CallbackTypes
<1>3. passed + 1 \in 1 .. Len(cbEventList) /\ passed < passed + 1
  BY <1>1, <1>2
<1>4. here.id \in Nat /\ here.id < current_id /\ \A k \in 1 .. m : called[k] < here.id
  BY <1>2, <1>3 DEF IdsRise, CalledRise
<1>5. /\ inside' \in BOOLEAN /\ called' \in Seq(Nat)
      /\ \/ Callbacks!Matches(here) /\ called' = Append(called, here.id) /\ Len(called') = m + 1
            /\ called'[m + 1] = here.id /\ \A k \in 1 .. m : called'[k] = called[k]
         \/ ~Callbacks!Matches(here) /\ called' = called
  <2>1. CASE Callbacks!Matches(here)
    <3>1. called' = Append(called, here.id) /\ inside' = TRUE /\ called \in Seq(Nat)
      BY <2>1 DEF Callbacks!CallNext, CallbackTypes
    <3> HIDE DEF here
    <3> QED
      BY <1>4, <2>1, <3>1, AppendProperties
  <2>2. CASE ~Callbacks!Matches(here)
    BY <2>2 DEF Callbacks!CallNext, CallbackTypes
  <2> QED
    BY <2>1, <2>2
<1> HIDE DEF m
<1>6. CallbackTypes'
  BY <1>1, <1>2, <1>5 DEF CallbackTypes
<1>7. IdsRise'
  BY <1>1 DEF IdsRise
<1>8. CalledRise'
  <2>1. ASSUME NEW l \in 1 .. Len(cbEventList), passed' < l
        PROVE  passed < l /\ here.id < cbEventList[l].id
    BY <1>1, <1>2, <1>3, <2>1 DEF IdsRise
  <2>2. CASE called' = called
    BY <1>1, <2>1, <2>2 DEF CalledRise
  <2>3. CASE Len(called') = m + 1 /\ called'[m + 1] = here.id /\ \A k \in 1 .. m : called'[k] = called[k]
    <3>1. \A k \in 1 .. m + 1 : k \in 1 .. m \/ k = m + 1
      BY <1>2
    <3>2. \A k \in 1 .. m + 1 : called'[k] < current_id'
      BY <1>1, <1>4, <2>3, <3>1 DEF CalledRise, m
    <3>3. \A k, l \in 1 .. m + 1 : k < l => called'[k] < called'[l]
      <4> SUFFICES ASSUME NEW k \in 1 .. m + 1, NEW l \in 1 .. m + 1, k < l PROVE called'[k] < called'[l]
        OBVIOUS
      <4>1. k \in 1 .. m
        BY <1>2
      <4>2. CASE l \in 1 .. m
        BY <2>3, <4>1, <4>2 DEF CalledRise, m
      <4>3. CASE l = m + 1
        BY <1>4, <2>3, <4>1, <4>3
      <4> QED
        BY <3>1, <4>2, <4>3
    <3>4. \A k \in 1 .. m + 1 : \A l \in 1 .. Len(cbEventList) :
            passed' < l => called'[k] < cbEventList[l].id
      <4> SUFFICES ASSUME NEW k \in 1 .. m + 1, NEW l \in 1 .. Len(cbEventList), passed' < l
                   PROVE  called'[k] < cbEventList[l].id
        OBVIOUS
      <4>1. CASE k \in 1 .. m
        BY <2>1, <2>3, <4>1 DEF CalledRise, m
      <4>2. CASE k = m + 1
        BY <2>1, <2>3, <4>2
      <4> QED
        BY <3>1, <4>1, <4>2
    <3> QED
      BY <1>1, <2>3, <3>2, <3>3, <3>4 DEF CalledRise
  <2> QED
    BY <1>5, <2>2, <2>3
<1>9. DueMatch'
  BY <1>1 DEF DueMatch
<1>10. DueCalled'
  <2> SUFFICES ASSUME ~shifted
               PROVE  /\ passed + 1 <= Len(cbEventList)
                      /\ \A k \in 1 .. passed + 1 : cbEventList[k].id \in due => IsAmong(cbEventList[k].id, called')
    BY <1>1 DEF DueCalled, IsAmong
  <2>1. \A k \in 1 .. m : k \in 1 .. Len(called') /\ called'[k] = called[k]
    BY <1>2, <1>5 DEF m
  <2>2. ASSUME NEW x, IsAmong(x, called) PROVE IsAmong(x, called')
    BY <2>1, <2>2 DEF IsAmong, m
  <2>3. here.id \in due => IsAmong(here.id, called')
    <3> SUFFICES ASSUME here.id \in due PROVE IsAmong(here.id, called')
      OBVIOUS
    <3>1. Callbacks!Matches(here)
      BY <1>3 DEF DueMatch, Callbacks!Matches
    <3>2. Len(called') = m + 1 /\ called'[m + 1] = here.id /\ m + 1 \in 1 .. m + 1
      BY <1>2, <1>5, <3>1
    <3> QED
      BY <3>2 DEF IsAmong
  <2>4. \A k \in 1 .. passed + 1 : k \in 1 .. passed \/ k = passed + 1
    BY <1>2
  <2>5. \A k \in 1 .. passed : cbEventList[k].id \in due => IsAmong(cbEventList[k].id, called)
    BY DEF DueCalled
  <2>6. passed + 1 <= Len(cbEventList)
    BY <1>1, <1>2
  <2> QED
    BY <2>2, <2>3, <2>4, <2>5, <2>6
<1> QED
  BY <1>6, <1>7, <1>8, <1>9, <1>10

LEMMA EndDispatchStep == CallbackInv /\ Callbacks!EndDispatch => CallbackInv'
<1> SUFFICES ASSUME CallbackInv, Callbacks!EndDispatch PROVE CallbackInv'
  OBVIOUS
<1> USE DEF CallbackInv, Callbacks!EndDispatch
<1>1. Len(called') = 0 /\ 1 .. 0 = {} /\ called' \in Seq(Nat) /\ Len(cbEventList) \in Nat
  BY EntriesAre DEF CallbackTypes
<1>2. CallbackTypes'
  BY <1>1 DEF CallbackTypes
<1>3. IdsRise' /\ CalledRise'
  BY <1>1 DEF IdsRise, CalledRise
<1>4. DueMatch' /\ DueCalled'
  BY <1>1 DEF DueMatch, DueCalled
<1> QED
  BY <1>2, <1>3, <1>4

LEMMA CallbackStep == CallbackInv /\ [Callbacks!Next]_(Callbacks!vars) => CallbackInv'
<1> SUFFICES ASSUME CallbackInv, [Callbacks!Next]_(Callbacks!vars) PROVE CallbackInv'
  OBVIOUS
<1>1. ASSUME Callbacks!Change, UNCHANGED <<handled, passed, inside, called>> PROVE CallbackInv'
  <2>1. ASSUME NEW cb \in Handlers, NEW event \in Kinds \cup {AnyEvent}, Callbacks!OnEvent(cb, event)
        PROVE  CallbackInv'
    BY <1>1, <2>1, OnEventStep
  <2>2. ASSUME NEW ids, Callbacks!EraseAll(ids) PROVE CallbackInv'
    BY <1>1, <2>2, EraseStep
  <2> QED
    BY <1>1, <2>1, <2>2 DEF Callbacks!Change, Callbacks!RemoveEvent, Callbacks!RemoveEventId
<1>2. ASSUME Callbacks!Return \/ UNCHANGED Callbacks!vars PROVE CallbackInv'
  <2>1. /\ cbEventList' = cbEventList /\ current_id' = current_id /\ handled' = handled /\ passed' = passed
        /\ called' = called /\ due' = due /\ shifted' = shifted /\ inside' \in {inside, FALSE}
    BY <1>2 DEF Callbacks!Return, Callbacks!vars
  <2>2. CallbackTypes'
    BY <2>1 DEF CallbackInv, CallbackTypes
  <2> QED
    BY <2>1, <2>2 DEF CallbackInv, IdsRise, CalledRise, DueMatch, DueCalled, IsAmong
<1> QED
  BY <1>1, <1>2, DispatchStep, CallNextStep, EndDispatchStep DEF Callbacks!Next

(* Whatever is registered and removed, by callbacks or by other tasks, and *)
(* for any number of them: an event calls callbacks in the order of their  *)
(* registration and none twice, and unless an entry the loop had passed is *)
(* removed, everyone who stays registered is called.                       *)
THEOREM DispatchHolds == Callbacks!Spec => [](Callbacks!TypeOK /\ DispatchIsFair)
BY CallbackInit, CallbackStep, CallbackHolds, PTL DEF Callbacks!Spec

-----------------------------------------------------------------------------
(* IPv4: what & gives with the mask of every number of bits, and with its  *)
(* complement.                                                             *)
LEMMA Masked ==
  ASSUME NEW x \in 0 .. 255
  PROVE  \A b \in 0 .. 8 :
           /\ Addresses!And(256 - Addresses!Spans[b + 1], x) = x - (x % Addresses!Spans[b + 1])
           /\ Addresses!And(Addresses!Spans[b + 1] - 1, x) = x % Addresses!Spans[b + 1]
<1>1. Addresses!And(0, x) = x - (x % 256) /\ Addresses!And(255, x) = x % 256
  BY DEF Addresses!And, Addresses!Both, Addresses!Bit
<1>2. Addresses!And(128, x) = x - (x % 128) /\ Addresses!And(127, x) = x % 128
  BY DEF Addresses!And, Addresses!Both, Addresses!Bit
<1>3. Addresses!And(192, x) = x - (x % 64) /\ Addresses!And(63, x) = x % 64
  BY DEF Addresses!And, Addresses!Both, Addresses!Bit
<1>4. Addresses!And(224, x) = x - (x % 32) /\ Addresses!And(31, x) = x % 32
  BY DEF Addresses!And, Addresses!Both, Addresses!Bit
<1>5. Addresses!And(240, x) = x - (x % 16) /\ Addresses!And(15, x) = x % 16
  BY DEF Addresses!And, Addresses!Both, Addresses!Bit
<1>6. Addresses!And(248, x) = x - (x % 8) /\ Addresses!And(7, x) = x % 8
  BY DEF Addresses!And, Addresses!Both, Addresses!Bit
<1>7. Addresses!And(252, x) = x - (x % 4) /\ Addresses!And(3, x) = x % 4
  BY DEF Addresses!And, Addresses!Both, Addresses!Bit
<1>8. Addresses!And(254, x) = x - (x % 2) /\ Addresses!And(1, x) = x % 2
  BY DEF Addresses!And, Addresses!Both, Addresses!Bit
<1>9. Addresses!And(255, x) = x - (x % 1) /\ Addresses!And(0, x) = x % 1
  BY DEF Addresses!And, Addresses!Both, Addresses!Bit
<1>10. SUFFICES ASSUME NEW b \in 0 .. 8
       PROVE  /\ Addresses!And(256 - Addresses!Spans[b + 1], x) = x - (x % Addresses!Spans[b + 1])
              /\ Addresses!And(Addresses!Spans[b + 1] - 1, x) = x % Addresses!Spans[b + 1]
  OBVIOUS
<1>11. CASE b = 0
  <2>1. Addresses!Spans[b + 1] = 256
    BY <1>11 DEF Addresses!Spans
  <2>2. 256 - Addresses!Spans[b + 1] = 0 /\ Addresses!Spans[b + 1] - 1 = 255
    BY <2>1
  <2> QED
    BY <1>1, <2>1, <2>2
<1>12. CASE b = 1
  <2>1. Addresses!Spans[b + 1] = 128
    BY <1>12 DEF Addresses!Spans
  <2>2. 256 - Addresses!Spans[b + 1] = 128 /\ Addresses!Spans[b + 1] - 1 = 127
    BY <2>1
  <2> QED
    BY <1>2, <2>1, <2>2
<1>13. CASE b = 2
  <2>1. Addresses!Spans[b + 1] = 64
    BY <1>13 DEF Addresses!Spans
  <2>2. 256 - Addresses!Spans[b + 1] = 192 /\ Addresses!Spans[b + 1] - 1 = 63
    BY <2>1
  <2> QED
    BY <1>3, <2>1, <2>2
<1>14. CASE b = 3
  <2>1. Addresses!Spans[b + 1] = 32
    BY <1>14 DEF Addresses!Spans
  <2>2. 256 - Addresses!Spans[b + 1] = 224 /\ Addresses!Spans[b + 1] - 1 = 31
    BY <2>1
  <2> QED
    BY <1>4, <2>1, <2>2
<1>15. CASE b = 4
  <2>1. Addresses!Spans[b + 1] = 16
    BY <1>15 DEF Addresses!Spans
  <2>2. 256 - Addresses!Spans[b + 1] = 240 /\ Addresses!Spans[b + 1] - 1 = 15
    BY <2>1
  <2> QED
    BY <1>5, <2>1, <2>2
<1>16. CASE b = 5
  <2>1. Addresses!Spans[b + 1] = 8
    BY <1>16 DEF Addresses!Spans
  <2>2. 256 - Addresses!Spans[b + 1] = 248 /\ Addresses!Spans[b + 1] - 1 = 7
    BY <2>1
  <2> QED
    BY <1>6, <2>1, <2>2
<1>17. CASE b = 6
  <2>1. Addresses!Spans[b + 1] = 4
    BY <1>17 DEF Addresses!Spans
  <2>2. 256 - Addresses!Spans[b + 1] = 252 /\ Addresses!Spans[b + 1] - 1 = 3
    BY <2>1
  <2> QED
    BY <1>7, <2>1, <2>2
<1>18. CASE b = 7
  <2>1. Addresses!Spans[b + 1] = 2
    BY <1>18 DEF Addresses!Spans
  <2>2. 256 - Addresses!Spans[b + 1] = 254 /\ Addresses!Spans[b + 1] - 1 = 1
    BY <2>1
  <2> QED
    BY <1>8, <2>1, <2>2
<1>19. CASE b = 8
  <2>1. Addresses!Spans[b + 1] = 1
    BY <1>19 DEF Addresses!Spans
  <2>2. 256 - Addresses!Spans[b + 1] = 255 /\ Addresses!Spans[b + 1] - 1 = 0
    BY <2>1
  <2> QED
    BY <1>9, <2>1, <2>2
<1> QED
  BY <1>11, <1>12, <1>13, <1>14, <1>15, <1>16, <1>17, <1>18, <1>19

LEMMA BitsAre ==
  ASSUME NEW n \in 1 .. 32
  PROVE  /\ \A i \in 1 .. 4 : Addresses!Bits(n, i) \in 0 .. 8
         /\ Addresses!Bits(n, 1) + Addresses!Bits(n, 2) + Addresses!Bits(n, 3) + Addresses!Bits(n, 4) = n
  BY DEF Addresses!Bits

LEMMA SpanIs ==
  ASSUME NEW n \in 1 .. 32, NEW i \in 1 .. 4
  PROVE  Addresses!Span(n, i) \in {256, 128, 64, 32, 16, 8, 4, 2, 1}
<1>1. Addresses!Bits(n, i) \in 0 .. 8
  BY BitsAre
<1> QED
  BY <1>1 DEF Addresses!Span, Addresses!Spans

(* The length of a mask is counted back from its octets.                   *)
LEMMA CidrIs ==
  ASSUME NEW n \in 1 .. 32
  PROVE  Addresses!CalculateSubnetCIDR(Addresses!Mask(n)) = n
<1>1. ASSUME NEW b \in 0 .. 8 PROVE Addresses!CidrOf(256 - Addresses!Spans[b + 1]) = b
  <2>1. CASE b = 0
    <3>1. 256 - Addresses!Spans[b + 1] = 0
      BY <2>1 DEF Addresses!Spans
    <3> QED
      BY <2>1, <3>1 DEF Addresses!CidrOf
  <2>2. CASE b = 1
    <3>1. 256 - Addresses!Spans[b + 1] = 128
      BY <2>2 DEF Addresses!Spans
    <3> QED
      BY <2>2, <3>1 DEF Addresses!CidrOf
  <2>3. CASE b = 2
    <3>1. 256 - Addresses!Spans[b + 1] = 192
      BY <2>3 DEF Addresses!Spans
    <3> QED
      BY <2>3, <3>1 DEF Addresses!CidrOf
  <2>4. CASE b = 3
    <3>1. 256 - Addresses!Spans[b + 1] = 224
      BY <2>4 DEF Addresses!Spans
    <3> QED
      BY <2>4, <3>1 DEF Addresses!CidrOf
  <2>5. CASE b = 4
    <3>1. 256 - Addresses!Spans[b + 1] = 240
      BY <2>5 DEF Addresses!Spans
    <3> QED
      BY <2>5, <3>1 DEF Addresses!CidrOf
  <2>6. CASE b = 5
    <3>1. 256 - Addresses!Spans[b + 1] = 248
      BY <2>6 DEF Addresses!Spans
    <3> QED
      BY <2>6, <3>1 DEF Addresses!CidrOf
  <2>7. CASE b = 6
    <3>1. 256 - Addresses!Spans[b + 1] = 252
      BY <2>7 DEF Addresses!Spans
    <3> QED
      BY <2>7, <3>1 DEF Addresses!CidrOf
  <2>8. CASE b = 7
    <3>1. 256 - Addresses!Spans[b + 1] = 254
      BY <2>8 DEF Addresses!Spans
    <3> QED
      BY <2>8, <3>1 DEF Addresses!CidrOf
  <2>9. CASE b = 8
    <3>1. 256 - Addresses!Spans[b + 1] = 255
      BY <2>9 DEF Addresses!Spans
    <3> QED
      BY <2>9, <3>1 DEF Addresses!CidrOf
  <2> QED
    BY <2>1, <2>2, <2>3, <2>4, <2>5, <2>6, <2>7, <2>8, <2>9
<1>2. \A i \in 1 .. 4 : Addresses!CidrOf(Addresses!Mask(n)[i]) = Addresses!Bits(n, i)
  <2>1. ASSUME NEW i \in 1 .. 4 PROVE Addresses!CidrOf(Addresses!Mask(n)[i]) = Addresses!Bits(n, i)
    <3>1. Addresses!Bits(n, i) \in 0 .. 8
      BY BitsAre
    <3>2. Addresses!Mask(n)[i] = 256 - Addresses!Spans[Addresses!Bits(n, i) + 1]
      BY DEF Addresses!Mask, Addresses!Span
    <3> QED
      BY <1>1, <3>1, <3>2
  <2> QED
    BY <2>1
<1>3. Addresses!CalculateSubnetCIDR(Addresses!Mask(n))
        = Addresses!Bits(n, 1) + Addresses!Bits(n, 2) + Addresses!Bits(n, 3) + Addresses!Bits(n, 4)
  BY <1>2 DEF Addresses!CalculateSubnetCIDR
<1> QED
  BY <1>3, BitsAre

(* Network and broadcast address, computed with the mask, are those of the *)
(* prefix.                                                                 *)
LEMMA NetworkIs ==
  ASSUME NEW n \in 1 .. 32, NEW a \in [1 .. 4 -> 0 .. 255]
  PROVE  /\ Addresses!CalculateNetworkID(a, Addresses!Mask(n)) = Addresses!Network(a, n)
         /\ Addresses!CalculateBroadcast(a, Addresses!Mask(n))
              = [i \in 1 .. 4 |-> Addresses!Network(a, n)[i] + Addresses!Span(n, i) - 1]
<1>1. ASSUME NEW i \in 1 .. 4
      PROVE  /\ Addresses!And(Addresses!Mask(n)[i], a[i]) = a[i] - (a[i] % Addresses!Span(n, i))
             /\ Addresses!Or(255 - Addresses!Mask(n)[i], a[i])
                  = a[i] - (a[i] % Addresses!Span(n, i)) + Addresses!Span(n, i) - 1
  <2>1. a[i] \in 0 .. 255 /\ Addresses!Bits(n, i) \in 0 .. 8
    BY BitsAre
  <2>2. /\ Addresses!And(256 - Addresses!Span(n, i), a[i]) = a[i] - (a[i] % Addresses!Span(n, i))
        /\ Addresses!And(Addresses!Span(n, i) - 1, a[i]) = a[i] % Addresses!Span(n, i)
    BY <2>1, Masked DEF Addresses!Span
  <2>3. Addresses!Span(n, i) \in {256, 128, 64, 32, 16, 8, 4, 2, 1}
    BY SpanIs
  <2>4. Addresses!Mask(n)[i] = 256 - Addresses!Span(n, i)
    BY DEF Addresses!Mask
  <2>5. 255 - Addresses!Mask(n)[i] = Addresses!Span(n, i) - 1
    BY <2>3, <2>4
  <2>6. a[i] % Addresses!Span(n, i) \in Int
    BY <2>1, <2>3
  <2>7. Addresses!Or(255 - Addresses!Mask(n)[i], a[i])
          = (Addresses!Span(n, i) - 1) + a[i] - (a[i] % Addresses!Span(n, i))
    BY <2>2, <2>5 DEF Addresses!Or
  <2> QED
    BY <2>1, <2>2, <2>3, <2>4, <2>6, <2>7
<1>2. Addresses!CalculateNetworkID(a, Addresses!Mask(n)) = Addresses!Network(a, n)
  BY <1>1 DEF Addresses!CalculateNetworkID, Addresses!Network
<1>3. \A i \in 1 .. 4 : Addresses!Network(a, n)[i] = a[i] - (a[i] % Addresses!Span(n, i))
  BY DEF Addresses!Network
<1>4. Addresses!CalculateBroadcast(a, Addresses!Mask(n))
        = [i \in 1 .. 4 |-> Addresses!Network(a, n)[i] + Addresses!Span(n, i) - 1]
  BY <1>1, <1>3 DEF Addresses!CalculateBroadcast
<1> QED
  BY <1>2, <1>4

LEMMA ZeroNetwork ==
  ASSUME NEW n \in 1 .. 32
  PROVE  Addresses!CalculateNetworkID(Addresses!Zero, Addresses!Mask(n)) = Addresses!Zero
<1>1. Addresses!Zero \in [1 .. 4 -> 0 .. 255]
  BY DEF Addresses!Zero
<1>2. \A i \in 1 .. 4 : 0 - (0 % Addresses!Span(n, i)) = 0
  <2> SUFFICES ASSUME NEW i \in 1 .. 4 PROVE 0 - (0 % Addresses!Span(n, i)) = 0
    OBVIOUS
  <2>1. Addresses!Span(n, i) \in {256, 128, 64, 32, 16, 8, 4, 2, 1}
    BY SpanIs
  <2> QED
    BY <2>1
<1>3. Addresses!Network(Addresses!Zero, n) = Addresses!Zero
  BY <1>2 DEF Addresses!Network, Addresses!Zero
<1> QED
  BY <1>1, <1>3, NetworkIs

(* What the interface gives: an address, the mask of its prefix, and a     *)
(* gateway of the same network or none.                                    *)
AddressInv ==
  prefix # 0 =>
    /\ prefix \in Prefixes /\ info.ip \in Given /\ info.netmask = Addresses!Mask(prefix)
    /\ \/ info.gw = Addresses!Zero
       \/ /\ info.gw \in Given
          /\ Addresses!Network(info.gw, prefix) = Addresses!Network(info.ip, prefix)

LEMMA AddressStep ==
  ASSUME AddressInv, [Addresses!Next]_Addresses!vars
  PROVE  AddressInv'
<1>1. CASE UNCHANGED <<info, prefix>>
  BY <1>1 DEF AddressInv
<1>2. CASE prefix' = 0
  BY <1>2 DEF AddressInv
<1>3. CASE Addresses!GotIP
  <2>1. PICK ip \in Given, n \in Prefixes, gw \in Given \cup {Addresses!Zero} :
          /\ gw = Addresses!Zero \/ Addresses!Network(gw, n) = Addresses!Network(ip, n)
          /\ info' = [ip |-> ip, netmask |-> Addresses!Mask(n), gw |-> gw] /\ prefix' = n
    BY <1>3 DEF Addresses!GotIP
  <2>2. info'.ip = ip /\ info'.netmask = Addresses!Mask(n) /\ info'.gw = gw
    BY <2>1
  <2> QED
    BY <2>1, <2>2 DEF AddressInv
<1> QED
  BY <1>1, <1>2, <1>3 DEF Addresses!Next, Addresses!EnableIpV6, Addresses!SetMode, Addresses!LostIP,
     Addresses!vars

LEMMA AddressInvGives == ASSUME AddressInv PROVE AddressesFit
<1>1. ASSUME Addresses!Answers, prefix > 0, prefix # 0
      PROVE  /\ Addresses!SubnetCIDR = prefix
             /\ Addresses!GatewayIP # Addresses!Zero =>
                  Addresses!NetworkID = Addresses!First /\ Addresses!BroadcastIP = Addresses!Last
             /\ Addresses!GatewayIP = Addresses!Zero => Addresses!NetworkID = Addresses!Zero
  <2>1. /\ prefix \in 1 .. 32 /\ info.ip \in [1 .. 4 -> 0 .. 255]
        /\ info.netmask = Addresses!Mask(prefix)
        /\ \/ info.gw = Addresses!Zero
           \/ /\ info.gw \in [1 .. 4 -> 0 .. 255]
              /\ Addresses!Network(info.gw, prefix) = Addresses!Network(info.ip, prefix)
    BY <1>1, ChannelsAssumption DEF AddressInv, Addresses!AddressesOK
  <2>2. Addresses!SubnetCIDR = prefix
    BY <1>1, <2>1, CidrIs DEF Addresses!SubnetCIDR
  <2>3. ASSUME Addresses!GatewayIP # Addresses!Zero
        PROVE  Addresses!NetworkID = Addresses!First /\ Addresses!BroadcastIP = Addresses!Last
    <3>1. /\ info.gw \in [1 .. 4 -> 0 .. 255]
          /\ Addresses!Network(info.gw, prefix) = Addresses!Network(info.ip, prefix)
      BY <1>1, <2>1, <2>3 DEF Addresses!GatewayIP
    <3>2. Addresses!First = Addresses!Network(info.ip, prefix)
      BY <1>1 DEF Addresses!First, Addresses!LocalIP
    <3>3. Addresses!NetworkID = Addresses!First
      BY <1>1, <2>1, <3>1, <3>2, NetworkIs DEF Addresses!NetworkID
    <3>4. Addresses!BroadcastIP
            = [i \in 1 .. 4 |-> Addresses!Network(info.gw, prefix)[i] + Addresses!Span(prefix, i) - 1]
      BY <1>1, <2>1, <3>1, NetworkIs DEF Addresses!BroadcastIP
    <3> QED
      BY <3>1, <3>2, <3>3, <3>4 DEF Addresses!Last
  <2>4. Addresses!GatewayIP = Addresses!Zero => Addresses!NetworkID = Addresses!Zero
    BY <1>1, <2>1, ZeroNetwork DEF Addresses!GatewayIP, Addresses!NetworkID
  <2> QED
    BY <2>2, <2>3, <2>4
<1>2. ASSUME ~Addresses!Answers
      PROVE  /\ {Addresses!LocalIP, Addresses!SubnetMask, Addresses!GatewayIP, Addresses!BroadcastIP,
                 Addresses!NetworkID} = {Addresses!Zero}
             /\ Addresses!SubnetCIDR = 0 /\ ~Addresses!LocalIPv6
  BY <1>2 DEF Addresses!LocalIP, Addresses!SubnetMask, Addresses!GatewayIP, Addresses!BroadcastIP,
     Addresses!NetworkID, Addresses!SubnetCIDR, Addresses!LocalIPv6, Addresses!Answers
<1>3. prefix > 0 => prefix # 0
  OBVIOUS
<1> QED
  BY <1>1, <1>2, <1>3 DEF AddressesFit, Addresses!AddressesFit

(* Network, broadcast address and prefix length that are computed from the *)
(* gateway's address fit that of the station, for every address and mask.  *)
THEOREM AddressesHold == Addresses!Spec => []AddressesFit
<1>1. Addresses!Init => AddressInv
  BY DEF Addresses!Init, AddressInv
<1>2. AddressInv /\ [Addresses!Next]_Addresses!vars => AddressInv'
  BY AddressStep
<1>3. AddressInv => AddressesFit
  BY AddressInvGives
<1> QED
  BY <1>1, <1>2, <1>3, PTL DEF Addresses!Spec
=============================================================================
