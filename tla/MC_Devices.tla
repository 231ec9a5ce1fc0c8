----------------------------- MODULE MC_Devices -----------------------------
(***************************************************************************)
(* For TLC, side by side: the IO driver, a connection over Wi-Fi with IPv6 *)
(* that one task makes and ends, and the example programs.  They share no  *)
(* state, so one of them runs in a behaviour, chosen at its beginning, and *)
(* the others stay as they begin.  The properties of IO and of Programs    *)
(* are stated there; the bounds are in Devices.cfg.                        *)
(***************************************************************************)
EXTENDS IO, Programs

CONSTANT NoNetif

VARIABLES
  running,     \* the one that runs
  callers, net_at, taken, returned, restarting, net_sem, active, netifPtr, live, nextSem, permits,
  most, shutdown, netifs, driver, link, local6, got, handlers, queue, giving, status

netVars == <<callers, net_at, taken, returned, restarting, net_sem, active, netifPtr, live, nextSem,
             permits, most, shutdown, netifs, driver, link, local6, got, handlers, queue, giving, status>>

exampleVars == <<snifferVars, espNowVars, ftmVars, iperfVars, enrollVars>>

Net == INSTANCE NetConnect WITH
  Callers <- {"task"}, Order <- <<"sta">>, IPv6 <- TRUE, OtherUser <- FALSE,
  MaxSems <- 2, MaxEvents <- 2, pc <- callers, at <- net_at, sem <- net_sem, ret <- returned

-----------------------------------------------------------------------------
(* The bounds of the examples.  AccessPoint(name, bssid) is in the air.    *)
AccessPoint(ssid, bssid) == [name |-> ssid, bssid |-> bssid]

NearAps == {AccessPoint("home", "home1"), AccessPoint("lab", "lab1")}

(* The values of -n, which is -1 when it is not given.                     *)
Counts == {-1, 0, 2}

-----------------------------------------------------------------------------
InitOne ==
  /\ running \in {"io", "net", "sniffer", "espnow", "ftm", "iperf", "enroll"}
  /\ Init /\ Net!Init
  /\ Sniff!Init /\ Peers!Init /\ Measure!Init /\ Throughput!Init /\ Enroll!Init
  /\ running # "espnow" => magic = [d \in Senders |-> 1]
  /\ running # "enroll" => en_program = "wps"

ExampleStep ==
  \/ /\ running = "sniffer" /\ Sniff!Next
     /\ UNCHANGED <<espNowVars, ftmVars, iperfVars, enrollVars>>
  \/ /\ running = "espnow" /\ Peers!Next
     /\ UNCHANGED <<snifferVars, ftmVars, iperfVars, enrollVars>>
  \/ /\ running = "ftm" /\ Measure!Next
     /\ UNCHANGED <<snifferVars, espNowVars, iperfVars, enrollVars>>
  \/ /\ running = "iperf" /\ Throughput!Next
     /\ UNCHANGED <<snifferVars, espNowVars, ftmVars, enrollVars>>
  \/ /\ running = "enroll" /\ Enroll!Next
     /\ UNCHANGED <<snifferVars, espNowVars, ftmVars, iperfVars>>

NextOfOne ==
  \/ running = "io" /\ Next /\ UNCHANGED <<netVars, exampleVars, running>>
  \/ running = "net" /\ Net!Next /\ UNCHANGED <<vars, exampleVars, running>>
  \/ ExampleStep /\ UNCHANGED <<vars, netVars, running>>

(* The fairness of IO, NetConnect and Sniffer, for the one that runs.      *)
DevicesSpec ==
  /\ InitOne /\ [][NextOfOne]_<<vars, netVars, exampleVars, running>>
  /\ WF_vars(running = "io" /\ LoopStep)
  /\ WF_netVars(running = "net" /\ Net!Step("task"))
  /\ WF_netVars(running = "net" /\ Net!Dispatch) /\ WF_netVars(running = "net" /\ Net!Give)
  /\ SF_netVars(running = "net" /\ Net!Join("sta"))
  /\ \A k \in {"ip4", "ip6"} : SF_netVars(running = "net" /\ Net!Address("sta", k))
  /\ WF_snifferVars(running = "sniffer" /\ ~crashed /\ Sniff!Console)
  /\ WF_snifferVars(running = "sniffer" /\ ~crashed /\ Sniff!Task)

-----------------------------------------------------------------------------
(* What ESP_OK means: from example_connect an address of this connection,  *)
(* from example_disconnect that nothing of it is left.                     *)
OkIsTrue == Net!OkIsTrue

(* A connect that waits for addresses returns, and a stop of the sniffer   *)
(* that nobody meddles with ends.                                          *)
CallsEnd == Net!ConnectReturns /\ Sniff!StopEnds
=============================================================================
