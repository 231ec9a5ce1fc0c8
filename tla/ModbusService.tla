--------------------------- MODULE ModbusService ----------------------------
(***************************************************************************)
(* A whole run of a Modbus program around the loops that module Modbus     *)
(* models: run_tcp_master and run_tcp_slave (src/Extensions/ModbusTCP.cpp) *)
(* and run_master and run_slave (ModbusUART.cpp) bring services up in      *)
(* order, find the addresses of the slaves, operate, and take the services *)
(* down again.  A step that reports an error aborts the program, which     *)
(* starts anew; a run that returned can be repeated.                       *)
(***************************************************************************)
EXTENDS Integers, Sequences, SequencesExt

CONSTANTS
  Devices,    \* slaves of the parameter table, MB_DEVICE_COUNT - 1
  Queries,    \* mDNS queries a run makes (10)
  MaxRuns     \* bound: runs

CountsOK == Devices \in Nat /\ Queries \in Nat \ {0} /\ MaxRuns \in Nat

VARIABLES
  program,    \* which of the four
  resolver,   \* where addresses come from: CONFIG_MB_MDNS_IP_RESOLVER or .._FROM_STDIN
  pc,         \* steps of the run already done
  up,         \* the services that are up, and the parts of the port that are configured
  table,      \* slave_ip_address_table
  tries,      \* queries of this run
  early,      \* the terminal input ended before all addresses were read, now or in a run before
  announced,  \* the slaves whose mDNS service is in the network
  runs

vars == <<program, resolver, pc, up, table, tries, early, announced, runs>>

Device == 1 .. Devices
Tcp == {"tcp_master", "tcp_slave"}

(* An entry: 0 for NULL, FromStdin, or the run that found the address.  The*)
(* table ends with a NULL.                                                 *)
FromStdin == -1
EmptyTable == [d \in 1 .. Devices + 1 |->
                 IF resolver = "stdin" /\ d \in Device THEN FromStdin ELSE 0]

Up(services) == [i \in DOMAIN services |-> <<"up", services[i]>>]
Down(services) == [i \in DOMAIN services |-> <<"down", services[i]>>]
Do(what) == << <<"do", what>> >>

(* init_services(): as a master, so as a slave.  (netif: esp_netif_init.)  *)
InitServices ==
  Up(<<"nvs", "netif", "loop">>)
  \o (IF resolver = "mdns" THEN Up(<<"mdns">>) ELSE <<>>) \o Up(<<"net", "ps">>)
  \o (IF resolver = "mdns" THEN Do("query") \o Down(<<"mdns">>) ELSE Do("ask"))

(* Fault variant: the list survives the run.                               *)
DestroyServicesOnly ==
  Down(<<"net", "loop", "netif", "nvs">>) \o (IF resolver = "mdns" THEN Down(<<"mdns">>) ELSE <<>>)

DestroyServices ==
  (IF resolver = "mdns" THEN Do("destroy_list") ELSE <<>>)
  \o Down(<<"net", "loop", "netif", "nvs">>)
  \o (IF resolver = "mdns" THEN Down(<<"mdns">>) ELSE <<>>)

(* master_init() and slave_init() of the two transports: a slave describes *)
(* its register areas before it starts.  The UART's master overwrites the  *)
(* result of uart_set_pin with that of the start.                          *)
TcpMasterInit == Up(<<"stack", "setup", "descriptors", "started">>)
TcpSlaveInit == Up(<<"stack", "setup", "descriptors", "started">>)
UartMasterInit == Up(<<"stack", "setup", "pins", "started", "mode", "descriptors">>)
UartSlaveInit == Up(<<"stack", "setup", "descriptors", "started", "pins", "mode">>)

Operation == Do("operate") \o Down(<<"stack">>)

RunTcpMaster == InitServices \o TcpMasterInit \o Operation \o DestroyServices
RunTcpSlave == InitServices \o TcpSlaveInit \o Operation \o DestroyServices

Run == CASE program = "tcp_master" -> RunTcpMaster
         [] program = "tcp_slave" -> RunTcpSlave
         [] program = "uart_master" -> UartMasterInit \o Operation
         [] program = "uart_slave" -> UartSlaveInit \o Operation

Init ==
  /\ program \in Tcp \cup {"uart_master", "uart_slave"} /\ resolver \in {"mdns", "stdin"}
  /\ pc = 0 /\ up = {} /\ table = EmptyTable /\ tries = 0 /\ early = FALSE
  /\ announced \in SUBSET Device /\ runs = 0

-----------------------------------------------------------------------------
At(kind, what) == pc < Len(Run) /\ Run[pc + 1] = <<kind, what>>
Operating == At("do", "operate")

Begin == runs' = (IF pc = 0 THEN runs + 1 ELSE runs) /\ runs' <= MaxRuns
Done == pc' = (IF pc + 1 = Len(Run) THEN 0 ELSE pc + 1)

(* ESP_ERROR_CHECK, or a write to the table, which is constant, that       *)
(* faults: the program starts anew.                                        *)
Abort ==
  /\ pc' = 0 /\ up' = {} /\ table' = EmptyTable /\ early' = FALSE /\ tries' = 0
  /\ UNCHANGED <<program, resolver, announced, runs>>

Unchecked(service) == program = "uart_master" /\ service = "pins"

(* NVS that is full or of an old version is erased and initialised again,  *)
(* and that may fail like every step.                                      *)
BringUp ==
  \E s \in {"nvs", "netif", "loop", "mdns", "net", "ps", "stack", "setup", "descriptors",
            "started", "pins", "mode"} :
    /\ At("up", s) /\ Begin /\ Done
    /\ up' = up \cup {s} \/ (Unchecked(s) /\ UNCHANGED up)
    /\ UNCHANGED <<program, resolver, table, tries, early, announced>>

(* What goes down with a service.  esp_netif_deinit is not supported, and  *)
(* that is accepted.                                                       *)
GoesDown(s) ==
  CASE s = "stack" -> {"stack", "setup", "descriptors", "started", "pins", "mode"}
    [] s = "net" -> {"net", "ps"}
    [] s = "netif" -> {}
    [] OTHER -> {s}

TakeDown ==
  \E s \in {"stack", "mdns", "net", "loop", "netif", "nvs"} :
    /\ At("down", s) /\ Done
    /\ up' = up \ GoesDown(s)
    /\ UNCHANGED <<program, resolver, table, tries, early, announced, runs>>

Fails == pc < Len(Run) /\ (pc = 0 => runs < MaxRuns) /\ Abort

(* master_create_slave_list() keeps what it has and resolves the rest; a   *)
(* query that fails or finds nothing resolves none.                        *)
Resolved(found) ==
  [d \in DOMAIN table |-> IF table[d] = 0 /\ d \in found THEN runs ELSE table[d]]
Count(found) == IF found = {} THEN {} ELSE {d \in Device : Resolved(found)[d] # 0}

Query ==
  /\ At("do", "query")
  /\ \E found \in {{}, announced} :
       /\ table' = Resolved(found)
       /\ IF Count(found) = Device THEN Done /\ tries' = 0
                                   ELSE tries' = tries + 1 /\ tries' < Queries /\ UNCHANGED pc
  /\ UNCHANGED <<program, resolver, up, early, announced, runs>>

(* The terminal sets the entries from a on that ask for one; a line that   *)
(* is no address ends the input and counts, one with the number of another *)
(* entry ends it and does not.                                             *)
Asked(last) ==
  [d \in DOMAIN table |->
     IF table[d] # FromStdin \/ d > last + 1 THEN table[d] ELSE IF d <= last THEN runs ELSE 0]
FirstUnset == SelectInSeq(table, LAMBDA e : e = 0)

Ask ==
  /\ At("do", "ask")
  /\ \E last \in 0 .. FirstUnset - 1, counts \in BOOLEAN :
       /\ last < FirstUnset - 1 => table[last + 1] = FromStdin
       /\ table' = Asked(last)
       /\ early' = (early \/ last < Devices)
       /\ last > 0 \/ (counts /\ FirstUnset > 1)
  /\ Done /\ UNCHANGED <<program, resolver, up, tries, announced, runs>>

Operate ==
  /\ Operating /\ Done
  /\ UNCHANGED <<program, resolver, up, table, tries, early, announced, runs>>

(* The list is freed up to its first NULL.                                 *)
DestroyList ==
  /\ At("do", "destroy_list") /\ Done
  /\ table' = [d \in DOMAIN table |-> IF \A e \in 1 .. d : table[e] # 0 THEN 0 ELSE table[d]]
  /\ UNCHANGED <<program, resolver, up, tries, early, announced, runs>>

(* The slaves come and go.                                                 *)
Announce ==
  /\ \E d \in Device : announced' = SymDiff(announced, {d})
  /\ UNCHANGED <<program, resolver, pc, up, table, tries, early, runs>>

Next == BringUp \/ TakeDown \/ Fails \/ Query \/ Ask \/ Operate \/ DestroyList \/ Announce
Spec == Init /\ [][Next]_vars

-----------------------------------------------------------------------------
TypeOK ==
  /\ pc \in 0 .. Len(Run) /\ table \in [1 .. Devices + 1 -> FromStdin .. MaxRuns]
  /\ tries \in 0 .. Queries - 1 /\ early \in BOOLEAN /\ announced \subseteq Device
  /\ runs \in 0 .. MaxRuns

(* A service stands on those below it, on the way up and on the way down,  *)
(* and a run that returned leaves nothing behind but the network           *)
(* interfaces, so that the next one finds what the first one found.  While *)
(* the loops run the stack is started and described, and its port in the   *)
(* right mode; only the pins of the UART's master may be unset.            *)
ServicesNest ==
  /\ program \in Tcp =>
       /\ up \cap {"stack", "started"} # {} => {"net", "ps"} \subseteq up
       /\ up \cap {"net", "mdns"} # {} => {"nvs", "netif", "loop"} \subseteq up
  /\ pc = 0 => up \subseteq {"netif"}
  /\ Operating =>
       /\ {"stack", "setup", "descriptors", "started"} \subseteq up /\ "mdns" \notin up
       /\ program \notin Tcp => "mode" \in up
       /\ program = "uart_slave" => "pins" \in up

(* A program that operates knows an address of every slave; one that was   *)
(* resolved it found in this run, never in an earlier one.  Terminal input *)
(* that ended early is the exception.                                      *)
SlavesAreKnown ==
  Operating /\ program \in Tcp =>
    \A d \in Device : IF resolver = "mdns" THEN table[d] = runs
                                           ELSE table[d] > 0 \/ early
ServicesHold == ServicesNest /\ SlavesAreKnown
=============================================================================
