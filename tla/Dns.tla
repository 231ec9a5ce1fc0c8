--------------------------------- MODULE Dns ---------------------------------
(***************************************************************************)
(* hostByName of src/Extensions/Network/Protocols/DNS.cpp: the tasks that  *)
(* resolve a name share two bits of one event group.  IDLE is to keep one  *)
(* of them at a time inside, DONE tells it that lwIP has called back.  But *)
(* seeing IDLE set and clearing it are two calls, and the callback is      *)
(* given the address of the caller's variable, not the identity of a call. *)
(***************************************************************************)
EXTENDS Naturals, FiniteSets

CONSTANTS
  Callers,  \* the tasks that call hostByName, each with a variable aResult
  Names,    \* the names they ask for; a name stands for its address too
  Zero,     \* the address 0
  MaxStale  \* bound: requests of a caller that are still open after its call

ConstantsOK == Zero \notin Names /\ MaxStale \in Nat

VARIABLES
  bits,       \* the bits that are set, of the two
  pc,         \* where each caller is in hostByName
  name,       \* the name it asks for
  result,     \* its variable, aResult; the call returns whether it is not 0
  requests,   \* the requests lwIP has open: whose variable, which name, live
  answering,  \* the callback has stored an answer but not yet set DONE
  overlap     \* history: two callers have been inside at once

vars == <<bits, pc, name, result, requests, answering, overlap>>

Request == [who : Callers, name : Names, live : BOOLEAN]

Labels == {"idle", "await_idle", "clear", "ask", "asked", "await_done", "clear_done", "set_idle"}

(* A caller is inside once it has cleared the bits, until it sets IDLE.    *)
Inside(c) == pc[c] \in {"ask", "asked", "await_done", "clear_done", "set_idle"}

(* _start_network_event_task creates the group with IDLE set.              *)
Init ==
  /\ bits = {"IDLE"}
  /\ pc = [c \in Callers |-> "idle"]
  /\ name \in [Callers -> Names] /\ \A c, d \in Callers : name[c] = name[d]
  /\ result = [c \in Callers |-> Zero]
  /\ requests = {}
  /\ answering = FALSE
  /\ overlap = FALSE

-----------------------------------------------------------------------------
Goes(c, from, to) == pc[c] = from /\ pc' = [pc EXCEPT ![c] = to]

Stale(c) == {r \in requests : r.who = c /\ ~ r.live}

CallNoReset(c) ==                  \* fault variant: aResult keeps its old address
  /\ Cardinality(Stale(c)) <= MaxStale
  /\ Goes(c, "idle", IF "IDLE" \in bits THEN "clear" ELSE "await_idle")
  /\ \E n \in Names : name' = [name EXCEPT ![c] = n]
  /\ UNCHANGED <<bits, result, requests, answering, overlap>>

Call(c) ==
  /\ Cardinality(Stale(c)) <= MaxStale
  /\ Goes(c, "idle", IF "IDLE" \in bits THEN "clear" ELSE "await_idle")
  /\ \E n \in Names : name' = [name EXCEPT ![c] = n]
  /\ result' = [result EXCEPT ![c] = Zero]
  /\ UNCHANGED <<bits, requests, answering, overlap>>

(* Setting a bit releases every task that waits for it, for good.          *)
Released(b) ==
  [c \in Callers |-> IF b = "IDLE" /\ pc[c] = "await_idle" THEN "clear"
                     ELSE IF b = "DONE" /\ pc[c] = "await_done" THEN "clear_done"
                     ELSE pc[c]]

(* waitStatusBits(IDLE) gives up after 16 s; its result is ignored.        *)
IdleTimeout(c) ==
  /\ Goes(c, "await_idle", "clear")
  /\ UNCHANGED <<bits, name, result, requests, answering, overlap>>

ClearBoth(c) ==
  /\ Goes(c, "clear", "ask")
  /\ bits' = bits \ {"IDLE", "DONE"}
  /\ overlap' = (overlap \/ \E d \in Callers : Inside(d))
  /\ UNCHANGED <<name, result, requests, answering>>

(* dns_gethostbyname knows the address, refuses, or begins a request.      *)
Ask(c) ==
  /\ pc[c] = "ask"
  /\ \/ /\ Goes(c, "ask", "set_idle")
        /\ result' = [result EXCEPT ![c] = name[c]]
        /\ UNCHANGED requests
     \/ /\ Goes(c, "ask", "set_idle")
        /\ UNCHANGED <<result, requests>>
     \/ /\ Goes(c, "ask", "asked")
        /\ requests' = requests \cup {[who |-> c, name |-> name[c], live |-> TRUE]}
        /\ UNCHANGED result
  /\ UNCHANGED <<bits, name, answering, overlap>>

(* The answer may have come, and DONE been set, before the wait begins.    *)
BeginWait(c) ==
  /\ Goes(c, "asked", IF "DONE" \in bits THEN "clear_done" ELSE "await_done")
  /\ UNCHANGED <<bits, name, result, requests, answering, overlap>>

(* 15 s without DONE.  lwIP gives an answer within 14 s, so the request is *)
(* no longer open: another caller has cleared its DONE.                    *)
DoneTimeout(c) ==
  /\ ~ answering
  /\ \A r \in requests : r.who = c => ~ r.live
  /\ Goes(c, "await_done", "clear_done")
  /\ UNCHANGED <<bits, name, result, requests, answering, overlap>>

ClearDone(c) ==
  /\ Goes(c, "clear_done", "set_idle")
  /\ bits' = bits \ {"DONE"}
  /\ UNCHANGED <<name, result, requests, answering, overlap>>

ReturnIfFound(c) ==                \* fault variant: a failed call does not set IDLE
  /\ pc[c] = "set_idle"
  /\ bits' = IF result[c] # Zero THEN bits \cup {"IDLE"} ELSE bits
  /\ pc' = [(IF result[c] # Zero THEN Released("IDLE") ELSE pc) EXCEPT ![c] = "idle"]
  /\ requests' = {[r EXCEPT !.live = r.live /\ r.who # c] : r \in requests}
  /\ UNCHANGED <<name, result, answering, overlap>>

(* IDLE is set and the call returns.  A request it leaves open is stale.   *)
Return(c) ==
  /\ pc[c] = "set_idle"
  /\ bits' = bits \cup {"IDLE"}
  /\ pc' = [Released("IDLE") EXCEPT ![c] = "idle"]
  /\ requests' = {[r EXCEPT !.live = r.live /\ r.who # c] : r \in requests}
  /\ UNCHANGED <<name, result, answering, overlap>>

-----------------------------------------------------------------------------
(* wifi_dns_found_callback, in the one task of lwIP: the address, if there *)
(* is one, is stored through callback_arg, then DONE is set.               *)
Found(r) ==
  /\ ~ answering /\ r \in requests
  /\ requests' = requests \ {r}
  /\ answering' = TRUE
  /\ \/ result' = [result EXCEPT ![r.who] = r.name]
     \/ UNCHANGED result
  /\ UNCHANGED <<bits, pc, name, overlap>>

Done ==
  /\ answering /\ answering' = FALSE
  /\ bits' = bits \cup {"DONE"}
  /\ pc' = Released("DONE")
  /\ UNCHANGED <<name, result, requests, overlap>>

HostByName(c) ==
  IdleTimeout(c) \/ ClearBoth(c) \/ Ask(c) \/ BeginWait(c) \/ DoneTimeout(c) \/ ClearDone(c) \/ Return(c)

Lwip == Done \/ \E r \in Request : Found(r)

Next == Lwip \/ \E c \in Callers : Call(c) \/ HostByName(c)

Spec == Init /\ [][Next]_vars

-----------------------------------------------------------------------------
TypeOK ==
  /\ bits \subseteq {"IDLE", "DONE"}
  /\ pc \in [Callers -> Labels]
  /\ name \in [Callers -> Names] /\ result \in [Callers -> Names \cup {Zero}]
  /\ requests \subseteq Request
  /\ answering \in BOOLEAN /\ overlap \in BOOLEAN

(* As long as two callers were never inside at once, an address a call     *)
(* returns is that of the name it asked for, and no callback can write to  *)
(* the variable of a call that is over.                                    *)
ResultIsOwn ==
  ~ overlap =>
    /\ \A c \in Callers : result[c] \in {Zero, name[c]}
    /\ \A r \in requests : r.live

(* IDLE is set whenever nobody is inside or about to enter, whatever       *)
(* timed out or overlapped: no call is lost for those that follow.         *)
IdleAtRest ==
  (\A c \in Callers : ~ Inside(c) /\ pc[c] # "clear") => "IDLE" \in bits

(* A caller waits for IDLE only while another is inside or about to enter. *)
WaitHasReason ==
  \A c \in Callers : pc[c] = "await_idle" =>
    \E d \in Callers \ {c} : Inside(d) \/ pc[d] = "clear"

(* The bit does its work as a lock that may be overrun: it is never lost,  *)
(* and nobody waits for it in vain.                                        *)
IdleIsKept == IdleAtRest /\ WaitHasReason

(* Every call returns, if each runs on and ends its waits when they time   *)
(* out, and lwIP answers.                                                  *)
CallReturns == \A c \in Callers : pc[c] # "idle" ~> pc[c] = "idle"
=============================================================================
