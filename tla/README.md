# TLA+ models and proofs for ESP32_System

This directory holds TLA+ specifications of ESP32_System, of the Arduino network library kept with it and of
its larger example programs, the TLC configurations that check them on small instances, and proofs that TLAPS
checks. `PROJECT.json` lists components, runs, hazards, theorems and, under `map`, the source lines each
definition translates.

To check a module: `tlc -config HwBus.cfg HwBus`; to check the proofs about it:
`tlapm HwBus_proofs.tla`.

## 1. The system

ESP32_System is a C++ component for ESP-IDF. A sketch-like `setup()` constructs drivers; each driver
registers its class with a hardware bus, which starts a FreeRTOS task for it; network services bring
up Wi-Fi or Ethernet, resolve names, and run Modbus masters and slaves. Tasks run on two cores and
share memory with almost no locks, which is where the questions below come from.

`src/CMakeLists.txt` compiles `ESP32_System.cpp`, `IO`, `ModbusTCP`, `ModbusUART`, `Network.cpp`,
`wifi/WiFi.cpp` and `stdin_out`. `DNS.cpp`, `WiFiGeneric.cpp`, `IPv4.cpp` and the directory
`wifi/SRC` are code the authors are porting from arduino-esp32 and are not in the build list yet.
They are modelled as the repository has them, edits of the authors included; the components of `wifi/SRC`
are called *library copy* below. The example programs are those the repository keeps under
`esp-idf examples`.

### Components, state, operations

| Component | State | Operations | Meets whom |
|---|---|---|---|
| Hardware bus (`ESP32_System.cpp`) | `Bus`, table of handler classes, count, maximum | `init`, `remove`, `registerType` | drivers call `registerType` in their constructor; it starts their loop task |
| IO driver (`IO.cpp`) | 40 device slots: pin, type, callback | `addDI`, `addAI`, the endless `IO_loop` | `IO_loop` runs on core 0 while the application adds devices and is called back |
| Network connection (`Network.cpp`) | semaphore pointer, active-interface count, netif pointer, registered handlers | `example_connect`, `example_disconnect`, `start`, `stop`, event handlers | called by tasks; handlers run in the event loop's task; `stop` is also a shutdown handler |
| Wi-Fi station and mode core (`WiFiGeneric.cpp`, `WiFiSTA.cpp`) | `lowLevelInitDone`, `_esp_wifi_started`, event queue, status bits, station status, `first_connect`, `_autoReconnect` | `mode`, `enableSTA/AP`, `begin`, `disconnect`, `_eventCallback` | applications and the event task both change the mode; the driver reports through the system event loop |
| DNS client (`DNS.cpp`) | two bits, IDLE and DONE, of the event group | `hostByName`, lwIP's callback | callers of any task, and lwIP's task |
| Modbus TCP / UART (`ModbusTCP.cpp`, `ModbusUART.cpp`) | register areas, master's table, rounds, alarm; services, address table | `master_operation_func`, `slave_operation_func`, the services around them | master, slave task and esp-modbus stack exchange registers, event bits and a queue; mDNS or the terminal give addresses |
| IPv4 (`IPv4.cpp`) | none; reads the station's interface | address, mask, network, broadcast queries | the DHCP client changes the address meanwhile |
| TCP client and server (library copy) | receive buffer, counted socket handles, `_connected` | `connect`, `read`, `peek`, `write`, `flush`, `stop`, copies; `begin`, `available`, `end` | lwIP, the peer, other users of descriptors |
| UDP socket (library copy) | one remote address, two buffers, socket | `begin`, `beginPacket`, `write`, `endPacket`, `parsePacket`, `read`, `stop` | lwIP |
| TLS client, bundle of roots (library copy) | socket, session, certificates, peeked byte; sorted table of roots | `connect`, `read`, `peek`, `available`, `stop`; set, attach, detach, verify | mbedTLS, other users of descriptors, the task that sets a bundle |
| Scans and WiFiMulti (library copy) | SCANNING and DONE bits, result array, count | `scanNetworks`, `scanComplete`, `scanDelete`, `run` | event task stores results |
| Events, access point, SmartConfig, callbacks (library copy) | registrations, event queue, status bits, callback list | start of the event task, `_arduino_event_cb`, `_eventCallback`, `onEvent`, `removeEvent`, SmartConfig | drivers, event loop, event task, callbacks that change their own list |
| Set-up of station and access point (library copy) | `_useStaticIp`, driver configuration, DHCP client and server, lease range | `begin(ssid)`, `begin()`, `config`, `softAPConfig` | application and event task do it at once |
| Packet sniffer example | `snf_rt`, `pcap_cmd_rt` | console commands, sniffer task, packet callback | three tasks |
| ESP-NOW example | send parameters, peers, queue | task, send and receive callbacks | other devices |
| Fine timing measurement and throughput examples | retries, event groups, report and list pointers, running test | console commands, event handlers | console task, event task, driver |
| Enrolment examples: station, WPS, DPP, SmartConfig | retry counter, networks handed over, event group | event handlers, DPP callback, the task that waits | event task, driver, supplicant |
| Wi-Fi wrapper (`wifi/WiFi.cpp`) | none | one driver call each | another user of the driver |
| Host, Ethernet, standard input; provisioning; other examples | a name, nothing, console set-up; the manager's | setter/getter; one call | - |

### What is hard here

- Nothing orders the three stores that publish an IO device and the loop that reads them on another core.
- `registerType` grows and searches a shared table without a lock, and can fail after its first write.
- One counting semaphore stands for several interfaces, is created after the handlers that use it, and is
  deleted before they are gone; restarts may run `stop()` at any time.
- Wi-Fi flags mirror a driver which fails, and events arrive after the state has moved on.
- The event task of Wi-Fi calls the API, which may post to the queue only that task empties.
- Modbus events merge, the informations about them queue, and requests get lost or answered late; a program
  that fails half-way aborts and starts anew.
- hostByName tests and clears a bit in two calls and hands out the address of a local variable.
- A socket's descriptor number belongs to somebody else as soon as it is closed, and copies of a client share
  it. Writes succeed in part. Scans, certificate searches and callback lists are walked while another task
  replaces them.
- Two tasks set the station's network and address step by step, and every step may fail.
- The sniffer is stopped by its own task and by the console; whoever comes second waits for the first.
- One retry counter serves an enrolment and the joins after it, and several networks in turn.

### What makes each component correct

- **Hardware bus**: ids are distinct, nothing already given out changes; every counted class has a task and
  vice versa; the result is 0 exactly for a failure; the table is accessed in bounds; a call ends.
- **IO**: no pin twice; an id names its device for ever; a callback is called only for a complete device,
  with the pin and type it was added with; every device is polled again and again.
- **Network**: ESP_OK means every interface has an address of this connection; a disconnect releases
  everything; the semaphore pointer tells the state; a waiting call ends.
- **Wi-Fi**: flags tell between calls whether the driver is set up and runs; bits and status converge to the link's state; `mode()`
  that returns true has done it; a call returns; a lost station joins again.
- **DNS**: an answer is that of the name asked for; IDLE is never lost; a call returns.
- **Modbus**: the alarm is real; the slave ends by it alone; accesses are not counted twice; the master ends;
  services stand on those below them; a program that operates knows its slaves.
- **TCP, UDP, TLS**: bytes arrive once and in order; a descriptor has one owner; a datagram goes where it was
  begun for; a session, its socket and its certificates live and die together; a root vouches for what it signed.
- **Scans, events, callbacks**: a scan that is marked as running ends; results are as many as their count; the
  strongest usable network is joined; bits tell the interfaces; who stays registered is called.
- **Addresses**: network and broadcast address are those of the prefix; leases lie inside the subnet; a
  station keeps the network and the address it was given.
- **Examples**: a packet is freed once and captured into an open session; sends are chained; a program knows
  its link, its report, its address, and goes on trying to get one; a failure it is told has happened.

## 2. Modules

| Module | Models | Kind |
|---|---|---|
| `ClassRegistry` | what a registry promises: fresh ids appear one at a time and stay | abstract specification |
| `HwBus` | `ESP32_System.cpp`; implements `ClassRegistry` | specification |
| `PinTable` | what the device table promises: whole devices, in order, pins new | abstract specification |
| `IO` | `IO.cpp`; implements `PinTable` | specification |
| `NetConnect`, `MC_NetConnect` | `Network.cpp` | specification, instances |
| `WifiStation` | `WiFiGeneric.cpp` and the station of `WiFiSTA.cpp` | specification |
| `Modbus`, `MC_Modbus` | the loops of both Modbus services: composition of master, stack and slave | specification, instance |
| `ModbusService` | the services around the loops, mDNS and the address table | specification |
| `ModbusRuns` | `ModbusService` under names of its own, so that it can stand beside other modules | instance |
| `Dns` | `DNS.cpp` | specification |
| `IPv4` | `IPv4.cpp` | specification |
| `TcpStream` | `WiFiClient.cpp`: the bytes of one connection | specification |
| `TcpHandles` | `WiFiClient.cpp`, `WiFiServer.cpp`: who owns which descriptor | specification |
| `UdpSocket` | `WiFiUdp.cpp` | specification |
| `TlsClient` | `WiFiClientSecure.cpp`, `ssl_client.cpp` | specification |
| `CrtBundle` | `esp_crt_bundle.c` | specification |
| `WifiScan` | `WiFiScan.cpp`, `WiFiMulti.cpp` | specification |
| `WifiCallbacks` | the callback list of `SRC/WiFi/WiFiGeneric.cpp` and its dispatch | specification |
| `WifiEvents` | the same file's start-up and path of events, `WiFiAP.cpp`, SmartConfig | specification |
| `StationSetup` | `begin` and `config` of `WiFiSTA.cpp` with the address functions of `WiFiGeneric.cpp` | specification |
| `SoftApLease` | `softAPConfig` and its lease range | specification |
| `Sniffer`, `EspNow`, `Ftm`, `Iperf` | four example programs | specifications |
| `Enrollment` | four examples that bring a station into its network | specification |
| `Library` | the parts of the Wi-Fi library with theorems, side by side | composition |
| `Channels` | `TcpStream`, `WifiCallbacks`, `IPv4` and `Dns`, what a program gets from the network, side by side | composition |
| `Programs` | the five modules of example programs, which have theorems, side by side | composition |
| `MC_Devices`, `MC_Parts` | `IO` beside one connection of `NetConnect` and `Programs`; `Library`, `Channels` and `ModbusRuns` | instances |
| `HwBus_proofs`, `IO_proofs`, `WifiStation_proofs`, `Modbus_proofs`, `NetConnect_proofs`, `Channels_proofs`, `Library_proofs`, `Programs_proofs` | theorems (those about `ModbusService` are in `Modbus_proofs`) | proofs |

A definition whose comment says *fault variant* is a plausible mistake in the definition below it. It is part
of no specification; the mutants of `PROJECT.json` put it in the place of the real one to show that a property
notices.

A variable whose comment says *history* records what happened, for the properties; the program has none. The
properties of code that is not synchronised often begin with such a variable (`raced`, `crossed`, `meddled`,
`impatient`, ...): they say what the code keeps as long as the named overlap has not happened, and the comment
at the property says what that overlap breaks. Where it does break something, the hazard in `PROJECT.json` says so too.

### How state and actions correspond to the code

**HwBus.** `Bus`, `count`, `cap`, `table` and `id` are the members of `Hardware` and `t_regHW`. `pc[c]` says where
in `registerType` task `c` is; the steps `Admit`, `Grow`, `Store`, `CreateTask`, `LoadCount`, `StoreCount`, `Scan`
follow lines 126-171, split where another task's step may matter. The increment is a load and a store; a
failing `xTaskCreate` is a choice. `id` starts with any of `StaleIds`, as a registration record is not zeroed.
`status` records how the program left defined behaviour. A constructor registers on whatever `Bus` is: on a null pointer
(`panic`), or on a bus that `remove()` freed, before the call or during it (`UseAfterFree`, `freed`). A handle that
`esp_event_loop_create` failed to write is used all the same (`wild`). A second `remove()` frees the bus again and returns true,
where lines 46-47 speak of an error; the modelled program ends there as `doublefree`.

**IO.** `pin`, `type` and `callback` are the fields of `Devices`; an add performs its three stores in any order, as
nothing fixes one for another core. `IO_loop` is modelled read by read: pin, type, the copy for the
callback, the callback itself. Id 0 is both the first slot and the documented failure (line 114); properties about
ids therefore exclude it.

**NetConnect.** The callers execute `start`, `stop` and the rest call by call; the event loop has a queue, its
handlers run one at a time, and `on_got_ip` reads the semaphore pointer in one step and gives it in another. The
network joins, drops, gives addresses, to this connection's netif, to a foreign one or to one that has been
destroyed. `status` is `panic` after a failed assertion (a null semaphore), `corrupt` after the use of a deleted
object, `reset` after a restart. `wifi_stop` returns early when somebody else has deinitialised the driver
(line 322) and then leaves the netif; `OtherUser` switches that on.

**WifiStation.** `pc[t]` and `op[t]` are where task `t` is and in which function; `Enable`, `Mode`, `InitTest` ...
`Deinit` are the branches of `mode()` and what it calls, with each flag's test and store apart from the driver
call. A driver is `inited` by `esp_wifi_init` and `stored` once `esp_wifi_set_storage` succeeded, which follows when settings
are not to persist; when it fails `lowLevelInitDone` is false though the driver is initialised. `queue` is `_arduino_event_queue`, `posted` the system event loop; `Receive` ... `React` are `_eventCallback`.
The network reports a loss for any reason; "leave" stands for all that are not retried. The status is cleared and then set by two calls, and reads "idle" in between. A disconnection is represented by its
reason. `RestartDhcp` is `set_esp_interface_ip`, by which every `begin()` gives up the address the station has. When
the queue is empty the status is no longer that of a link the driver does not have: a loss handled after the
application switched the radio off is part of `BitsTellLink`.

**Modbus.** `hold`, `coils` are the registers the test uses, in hundredths where the code has floats. The stack serves a
request, sets an event bit and queues an information; the slave waits for bits, takes one information, loads,
checks, stores. The master polls row after row, round after round. ModbusUART has the same loops plus three test
rows, which it also writes.

**ModbusService.** `pc` counts the steps of a run already done; each step is one call of `run_tcp_master`,
`run_tcp_slave`, `run_master` or `run_slave`, `up` the services it leaves running. A failing step aborts, which
resets the chip and forgets everything. `table` holds for each slave the run in which its address was found, or the
mark of terminal input; input that ends early counts an address that was never read.

**Dns.** `bits` are IDLE and DONE; `requests` are what lwIP has open, with the variable each will write to; a request
whose call has returned is no longer `live`.

**IPv4.** Addresses are four octets; `And` and `Or` are the operators of the code, bit by bit, and what they give is
compared with network and broadcast address of the prefix, which are defined by division. The interface gains, changes
and loses its address between queries; a gateway is in the network of the address, or there is none.

**TcpStream, TcpHandles.** Bytes are numbered by their place. `FillBuffer` is the lazy refill of the receive buffer, `Write`,
`Send` and `Written` are the write loop with `select`, `send` and its tries. `TcpHandles` has lwIP's table of descriptors, which gives
out the lowest free number, and the counted handle objects that copies share; connecting waits while others go on.

**UdpSocket, TlsClient.** One action per method. `connect()` of TLS is one step per call that may fail (socket,
non-blocking connect, options, certificates, handshake); `Stop` undoes them in the code's order, and the `memset` that
leaves socket 0 behind is what makes a second stop interesting. Other tasks open and close descriptors in between.

**CrtBundle.** `Search` is one round of the loop, which reads table, count and entry anew; `Set`, `Attach` and `Detach`
are another task's. Division is the code's, toward zero.

**WifiScan, WifiCallbacks, WifiEvents.** The application starts a scan, stamps it, clears and sets the bits in separate
steps; the event task's handler does likewise. `WiFiMulti::run` looks at the results one by one (`Consider`), while
scans and deletions of others go on, and keeps the best so far. The callback loop holds an index into a list that callbacks and
other tasks change; `Kept` is what the loop of `removeEvent` leaves, every second one of neighbours that match. Events pass two queues; a copy that finds no memory or room is lost. A start of the event task
that failed is tried again, and registers its handlers again.

**StationSetup, SoftApLease.** One step per driver call of `begin`, `config` and `set_esp_interface_ip`, for an
application and for the event task. Lease ranges are computed on the last octet as the code does.

**Sniffer.** The console and the sniffer's task walk through start and stop step by step (`pc` of either); the driver's
callback copies a packet into the queue if it runs. `sniffer_stop` is the same steps (`StopSteps`) in
whichever task calls it.

**EspNow, Ftm, Iperf.** Devices with their task, queue and callbacks and the air between; console commands, event
handlers and the driver, with the event group waited for. In `Iperf` a command waits in steps, because an event is
handled between clearing `reconnect` and disconnecting.

**Enrollment.** `program` tells which of the four examples runs. `Handle` is one run of its event handler, which is atomic
for the task that waits: it shares the event group only, and who unregisters a handler waits until it does not run. The
retry counter serves enrolments and joins, or every network that WPS hands over. Driver and supplicant (`World`) end a
join, give an address, lose the link, and end an enrolment at will; the DPP callback runs in the supplicant. WPS may have
the loss of its own link reported before its success, which takes a try away (`early`).

## 3. Runs

All runs finish in minutes; each cfg, or the MC module it names, states its bounds.

| Run | Instance | Shows |
|---|---|---|
| `hwbus` | 1 task, 3 classes, 2 buses, maximum 2, stale ids 0 and 1 | `TableIsSound` (ids differ, the table is accessed in bounds), `TableMatchesLoops`, `ZeroMeansNotRunning`, refinement of `ClassRegistry`, calls end. Three classes exceed the maximum; two buses let registrations meet a bus that was replaced, or find a null pointer or a freed bus, which end the program (`panic`, `freed`). |
| `devices` | IO: 1 adder, 2 pins, 2 callbacks, 2 slots. Network: Wi-Fi, IPv6, 1 task, 2 connects, 2 queued events. Examples: below | `DevicesAreSound` (no pin twice, ids name their device), `PanicOnlyDuringAdd`, refinement of `PinTable`, every device polled; `OkIsTrue` (addresses after a connect, nothing left after a disconnect), and `CallsEnd`: a connect that waits returns. Two slots: a first, a last, and a full table. Two connects: events of the first reach the second. One property for the sniffer and one for the other examples; `CallsEnd` again: a stop ends. |
| `net_two` | Wi-Fi and Ethernet, 2 tasks (symmetric), another driver user | `GuardTellsState` under every overlap of connect, disconnect and restart, and `NoSemaphoreOnlyInTransit`: a handler misses its semaphore only around the calls. |
| `wifi` | 1 application and the event task, queue of 2, 2 calls, 2 network events, 1 driver failure | `BitsTellLink`, `StatusTellsAddress`, `FlagsTellDriver`, `TrueMeansMode`, `CallReturns`, `LossIsRetried`. The first loss takes the `first_connect` branch, the second the automatic one; the queue fills. |
| `modbus` | 3 rows, 2 rounds, queue of 2, lossy, 1 late request, 1 reset by another host | `InfoFollowsEvent`, `CountsAccesses`, `AlarmIsSound` (the slave ends by the alarm, and the alarm is real), `MasterEnds`. Two rounds reach both exits of the slave's loop. |
| `parts` | thirteen parts, below | the parts' properties, `TypesOK` for all of them, and `CallsEnd`. |

`MC_Devices` and `MC_Parts` put modules side by side that share no state. Which part runs is chosen at the beginning
(`running`) and the others stay at their initial state, so that a run's states are the sum of the parts' and not their
product. The properties, which have theorems in terms of each part's own specification, hold at rest and are stated
without `running`; only `TypesOK` names it. (A part with several initial states is given one of them while another runs.)
`OkIsTrue` of `MC_Devices` is that of `NetConnect` for the connection it names, which `OkHolds` proves.

| Part of `parts` | Instance | Property |
|---|---|---|
| `stream` | buffer and chunks of 1 and 2, 3 bytes in, 2 out, 2 tries | `StreamIntact`, `CallsEnd` |
| `clients` | 2 clients, a server, 3 descriptors | `SocketsAreOwned`: one owner each, connected ones are not forgotten |
| `tls` | 2 descriptors, 2 bytes | `TlsIsSound`: socket, session and certificates belong together, bytes stay in order |
| `bundle` | 9 bundles of up to 3 roots, 5 issuers, 2 keys | `TlsIsSound`: an undisturbed verdict is right and reads are in bounds; `CallsEnd` |
| `udp` | 2 hosts and a group, packets of 2, 3 bytes | `DatagramIntact` |
| `scan` | 3 results, 2 scans, limit of the count at 3 | `WifiIsSound`: a marked scan ends, results are as many as counted; `BestIsJoined` |
| `callbacks` | 2 functions, 3 registrations | `DispatchIsFair` |
| `events` | 2 clients, queue of 2, 4 changes, 1 fault | `EventsTellWorld` |
| `addresses` | 5 addresses that share none to three octets, 9 prefixes around multiples of 8 | `AddressesFit` |
| `leases` | 5 own octets, 4 masks | `WifiIsSound`: leases inside the subnet |
| `setup` | 2 networks, 1 static address | `WifiIsSound`: network and address are those given |
| `services` | 2 slaves, 2 queries, 3 runs, both resolvers, all programs | `ServicesHold` |
| `resolver` | 2 tasks, 2 names, 1 stale request each | `ResultIsOwn`; `IdleIsKept`: IDLE at rest, nobody waits without reason; `CallsEnd`: `hostByName` returns |

| Example of `devices` | Instance | Property |
|---|---|---|
| `sniffer` | 3 arguments, queue of 1, 3 packets, 2 starts | `SnifferIsSound`, `CallsEnd` |
| `espnow` | 2 devices, magics 1 and 2 (the code takes them from `esp_random`), 2 sends, queues of 2 | `ExamplesAreSound`: sends are chained, the larger number sends |
| `ftm` | 2 access points, 2 commands, 2 attempts, 1 event of the driver's own | `ExamplesAreSound`: bits, report, list and password are those of the present link |
| `iperf` | 4 commands, 2 losses | `ExamplesAreSound`: the bit tells the address, a station goes on trying, a test lasts an interval |
| `enroll` | 3 networks of WPS, 2 retries | `ExamplesAreSound`: a station tries until its tries are used up, a failure that is told happened, the end of SmartConfig is noticed, no bit is set in a deleted group |

The bounds are the smallest at which the interesting case happens: a buffer or queue that is full and one that is
not, a descriptor that is reused while an old owner remembers it, a table searched in more than one round, a count one
past its limit, a second command while the first one's events are still queued. Counts that the code limits (a queue of
32, 1436 bytes, 128 networks) are constants of the modules, so that the limit is met at 2 or 3.

Six runs end in a violation: the code does something else than a comment or a document says.

| Run | Property | What happens |
|---|---|---|
| `hwbus_removed` | `RemovedBusIsUnused` | `remove()` deletes the bus and leaves `Bus` pointing at it; the constructor of a driver created later registers there without a check, against `ESP32_System.cpp:40-44`, "removes Bus pointer". |
| `hwbus_destroy` | `LoopsHaveTheirClass` | `~class_IO` is empty and the bus cannot withdraw a class: the loop task outlives its object, against `ESP32_System.h:218-221`. |
| `io_null` | `CallbackNeverNull` | `IO_loop` sees pin and type of a device before its callback is stored and calls null. |
| `net_wait` | `OkMeansAddresses` | With both interfaces, two addresses of one of them end the wait for both. |
| `wifi_expire` | `ExpiryIsRetried` | After AUTH_EXPIRE the status still reads WL_CONNECTED, so the `begin()` that is to reconnect skips `esp_wifi_connect`. |
| `modbus_lag` | `EveryAccessCounts` | Accesses between two waits merge into one event, one information is taken, and the count lags for good. |

Deadlock checking is off where the system may really stop: every class constructed, a failed assertion, a slave that
waits for a master that has ended, a closed socket, or all bounded events used up.

### Fairness

Fairness is only what FreeRTOS and finite timeouts give: a task that is ready, and is never starved by priorities,
runs (weak fairness of a task's steps), so a call that was begun goes on. Nobody is obliged to begin a call.

- `HwBus`, `WifiStation`: weak fairness of each task's steps; in the latter also of event loop and event task. The
  network is not fair: `LossIsRetried` says that the station *tries* again.
- `IO`: weak fairness of `IO_loop`; callbacks are assumed to return.
- `Dns`: both waits have a timeout (16 s, 15 s), so they end; lwIP is not obliged to answer. `MC_Parts` states the fairness
  of each call's steps, in terms of `Resolver`, the instance in `Channels`.
- `Modbus`: master, stack and slave run; a request of the master ends with its response timeout. `Lossy` decides
  what may be lost; no message is assumed to arrive.
- `NetConnect`: the one assumption about the world. `example_connect` waits for ever by design, so its return
  depends on the network: an interface that asks again and again is in the end let in and given an address
  (strong fairness of `Join` and `Address`).
- `TcpStream`, `CrtBundle`: weak fairness of the task whose call has begun. In `MC_Parts` one condition, `CallGoesOn`,
  stands for both, as only one of the parts runs; `CallsEnd` is likewise their two leads-to in one. The peer of a
  connection need do nothing: a write ends because its tries do.
- `Sniffer`: weak fairness of the console, once a command has begun, and of the sniffer's task.
- The other modules state safety only, and no fairness.

Time itself is abstracted: a timeout may occur whenever its wait is possible.

## 4. Proofs

The theorems hold for every value of the constants that satisfies the modules' assumptions. The argument is
always an inductive invariant, type correctness included; one lemma per group of actions shows that a step keeps it.

| Theorem | States | Inductive invariant and why |
|---|---|---|
| `HwBus_proofs!TypeCorrect` | `TypeOK` | inductive as it stands; a call in progress has a bus and a class |
| `HwBus_proofs!ReturnValues` | `ZeroMeansNotRunning`, any number of racing tasks | `CallInv`: the loop of a class whose registration goes on runs exactly if the call has passed `xTaskCreate`; a class has at most one call |
| `HwBus_proofs!IdsAreUnique` | `UniqueIds`, one task | `BusInv`: counted cells are filled and different, and the candidate id differs from all ids of cells already searched - the search restarts after a hit, and a failed registration's cell lies just behind the count |
| `HwBus_proofs!TableAccessIsSafe` | `InsideTable`, one task | the same; capacity is at least the count, plus one from growing until counting |
| `HwBus_proofs!SoundTable` | `TableIsSound`, one task | the two above |
| `HwBus_proofs!LoopsAreCounted` | `TableMatchesLoops`, one task | `LoopInv`: a class that no call is registering has a loop task exactly if it is in a counted cell; each step either leaves the cells alone or adds one class to one bus (`RegisteringStep`) |
| `HwBus_proofs!RegistryImplemented` | `ImplementsRegistry`, one task | `RegistryInv`, all of the above: the one step that counts a class maps to the registry's, with an id nobody has; every other step to a stutter |
| `IO_proofs!TypeCorrect` | `TypeOK` | inductive |
| `IO_proofs!NullCallsAreRaces` | `PanicOnlyDuringAdd`, any number of tasks | `NullInv`: a slot with a type and a null callback is one that some add has still to store the callback into, and `IO_loop` calls only for slots with a type |
| `IO_proofs!ReturnedIdsAreDevices` | `IdNamesDevice`, any number of tasks | `StoredInv`: what an adder has stored in its slot is never taken back, whoever else writes there |
| `IO_proofs!NoPinTwice` | `PinsUnique`, one task | `UniqueInv`: the pin being added is in no slot already compared, nor elsewhere once the add has passed the comparison |
| `IO_proofs!SoundDevices` | `DevicesAreSound`, one task | the two above |
| `IO_proofs!PinTableImplemented` | `ImplementsPinTable`, one task | `TableInv`: what is stored so far of a slot is what its add was asked for, and what `IO_loop` has read is in the slot for good; so a slot becomes a device with the last of its stores, whichever that is |
| `NetConnect_proofs!TypeCorrect` | `TypeOK` | inductive, with the count of addresses bounded by the interfaces |
| `NetConnect_proofs!GuardIsTrue` | `GuardTellsState`, any number of tasks | `OwnInv`, `SemInv`, `ShutdownInv`: each place of `start` and `stop` says which interfaces, handlers and semaphore there are, at most one task is at each of them, and registrations of the shutdown handler are as many as semaphores; nothing of it is said once a restart has begun, and then nobody rests |
| `NetConnect_proofs!NullOnlyInTransit` | `NoSemaphoreOnlyInTransit`, any number of tasks | the same: handlers without a semaphore mean that somebody is between the two |
| `NetConnect_proofs!NothingIsLeft` | `DisconnectReleases`, any number of tasks, nobody else stopping the driver | `ReleaseInv`: netifs and the pointer belong to places not yet taken down |
| `NetConnect_proofs!OkIsConnected` | `OkMeansAddresses`, one interface, one task | `EventInv`, `GiveInv`, `CallerInv`: a wanted address in the queue, a semaphore given or taken all stand for an address since the driver was started, as a destroyed netif leaves only orphaned events |
| `NetConnect_proofs!OkHolds` | `OkIsTrue`, one interface, one task, nobody else stopping the driver | the two above |
| `WifiStation_proofs!TypeCorrect` | `TypeOK` and the queue's bound | inductive, one frame lemma for all steps of `mode()` |
| `WifiStation_proofs!FlagsAreDrivers` | `FlagsTellDriver`, any number of applications | `FlagInv`: without overlap at most one task is inside, and for every place in `mode()` `lowLevelInitDone` differs from "initialised and its storage set", and `_esp_wifi_started` from "runs", in exactly the way `FlagsAt` lists |
| `WifiStation_proofs!TrueIsMode` | `TrueMeansMode`, any number of applications | `PathInv`: for every place in `mode()` how far the driver has got towards the mode asked for, and that it is initialised with its storage set before it is started; only a path that went all the way returns true |
| `WifiStation_proofs!BitsAreLink` | `BitsTellLink`, any number of applications, any queue | `LinkInv`: the bits *as the reports still under way will leave them* tell the driver's state at every moment. Reports are posted, queued, handled or in the middle of being handled, so the last of them that speaks of a bit decides (`WillSay`); `TaskInv` keeps the one report that is taken for another apart |
| `WifiStation_proofs!StatusIsAddress` | `StatusTellsAddress`, likewise | the same, for the status |
| `Modbus_proofs!TypeCorrect` | `TypeOK` | inductive, with numeric bounds |
| `Modbus_proofs!EndIsAlarmed` | `EndsWithAlarm`, the first half of `AlarmIsSound` | `EndInv`: a counter at its limit implies the coil is raised, as the increment that took it there passed the threshold |
| `Modbus_proofs!AlarmIsTrue` | `AlarmIsSound`, `MaxVal` at most 10000 | `AnswerInv`: the master has at most one request open, and every value on its way to the master that would raise the alarm was read when the coil was raised |
| `Modbus_proofs!NothingCountsTwice` | `CountsAccesses` | `CountInv`: the counter is its start and a number of steps, and that number with the accesses still to be counted is at most the number of accesses asked for, request by request |
| `Modbus_proofs!EventsAreInformed` | `InfoFollowsEvent` | `OwedIsQueued`: there are never more events pending than informations queued or about to be |
| `Modbus_proofs!ServicesAreSound` | `TypeOK`, `ServicesHold` of `ModbusService`, any slaves, queries and runs | `ServicesInv`: for every step of each of the four programs, exactly which services are up (`MdnsUp`, `StdinUp`, `MasterUp`, `SlaveUp`), and, in the master's runs, which rows of the address table are filled and since when (`MdnsTable`, `StdinTable`): a round of queries leaves no row of a slave empty, or the run begins anew |
| `Channels_proofs!TypeCorrect` | `TypeOK` of `Dns`, any callers and names (so for the next four) | inductive |
| `Channels_proofs!IdleIsSet` | `IdleAtRest` | inductive as it stands, with the types: only who is about to enter clears IDLE, and leaving sets it |
| `Channels_proofs!WaitsHaveReason` | `WaitHasReason` | inductive with `IdleAtRest`: setting IDLE releases every waiter, so who still waits has somebody inside |
| `Channels_proofs!IdleBit` | `IdleIsKept` | the two above |
| `Channels_proofs!ResultsAreOwn` | `ResultIsOwn` | `AloneInv`: until calls overlap, one caller is inside and at most one request is open, its own |
| `Library_proofs!DescriptorsHaveOneOwner` | `TypeOK`, `SocketsAreOwned` of `TcpHandles`, any number of clients and sockets | `HandlesInv`: every descriptor somebody has is open, any two owners have different ones, and a handle that no client holds has none; a new handle exists as there is one more than clients |
| `Library_proofs!SessionsAreSound` | `TypeOK`, `TlsIsSound` of `TlsClient` | `TlsInv`: for every place in `connect()`, which socket, session and certificates are there (`SocketInv`, `SessionInv`, `MemoryInv`), and what was read, peeked at and is pending are the numbers up to what arrived (`BytesInv`) |
| `Library_proofs!SearchIsRight` | `TypeOK`, `VerdictIsRight`, `ReadsAreSafe` of `CrtBundle`, bundles of any length | `SearchInv`: every entry with the issuer's name lies between `start` and `end`, so that a search that ends with nothing has found that there is none, and the entry that is checked is one of them |
| `Library_proofs!TlsHolds` | `TlsIsSound`, a client and its bundle | the two above |
| `Library_proofs!DatagramsAreIntact` | `TypeOK`, `DatagramIntact` of `UdpSocket`, buffers of any size | `DatagramIntact` is inductive with `UdpInv`, the types of buffers and addresses |
| `Library_proofs!ScansEndAndFit` | `TypeOK`, `RunningScanEnds`, `ResultsFit` of `WifiScan` | `ScanRunInv`: the bit is set or about to be only while something of the scan is still to come; `ScanFitInv`: of the scan of an application that waits there is one of scan, report and handling, and the array is as long as the count where it has to be; `ScansCounted` bounds reports by scans |
| `Library_proofs!BestHolds` | `BestIsJoined`, any networks, lists and scans that find fewer than twice what an `int8_t` holds | `ChoiceInv`: from the report to the choice nothing of the scan is outstanding, so that nobody touches the results, and `BestSoFar`: what is kept is the first of the strongest usable ones among those considered. `SmallCounts`: a count that the `int8_t` holds as no negative number is that number, so that all of them are considered |
| `Library_proofs!SetupTypeCorrect` | `TypeOK` of `StationSetup` | inductive |
| `Library_proofs!SetupHolds` | `SetupIsSound` of `StationSetup`, any networks and addresses | `AddressInv` and `NetworkInv`: for every place in a call, how far address and DHCP client, or network and link, have got; both say nothing once two tasks were in the same functions, and until then only one is |
| `Library_proofs!RunningServerFits` | `TypeOK`, `LeasesFit` of `SoftApLease`, every octet | `LeaseInv`: the range suits the octets the interface has whenever the server runs or is about to; `RangeFits` is the arithmetic of the range in `uint8_t` |
| `Library_proofs!EventsHold` | `TypeOK`, `EventsTellWorld` of `WifiEvents`, any clients, queue and starts | `BitsInv`: for each bit, the last event in the system's loop that sets or clears it tells the interface; if none is there that has still to be copied, the last in the library's queue; if none is there, the bit (`TellsBit`, with a lemma each for posting, copying, dropping and handling). A client that leaves counts only when none is left (`Left`), as the handler asks then. `AckInv`: while a session waits for its acknowledgement none is on its way |
| `Library_proofs!WifiHolds` | `WifiIsSound`, a scan, a set-up and an access point | `ScansEndAndFit`, `SetupHolds`, `RunningServerFits` |
| `Channels_proofs!StreamHolds` | `TypeOK`, `StreamIntact` of `TcpStream`, any buffer, chunk, lengths and tries | `StreamInv`: the property, the types, and what each place in a read says of the buffer. `ReadsFollow` is the step of a read: the sequence of bytes read, buffered and held by lwIP is only regrouped by a refill (`Refilled`) and a copy (`Copied`). `WithoutMiddle`, `AppendInOrder` and `BeginningInOrder` say what cutting, appending and stopping do to bytes in order |
| `Channels_proofs!DispatchHolds` | `TypeOK`, `DispatchIsFair` of `WifiCallbacks`, any number of callbacks | `CallbackInv`: ids rise along the list, those called are smaller than those to come, and who is due and behind the loop has been called. `RisingIsBeyond`, `RisingIsSame`: an erasure moves entries only to the front, and those before the first gap not at all |
| `Channels_proofs!AddressesHold` | `AddressesFit` of `IPv4`, any addresses and prefixes of 1 to 32 bits | `AddressInv`: what the interface gives belongs together. `Masked`: `&` with an octet of b leading ones takes the remainder by the span of the other bits away, and the same of its complement; `CidrIs`, `NetworkIs` add that up over the octets, so that the gateway's network is the address's |
| `Programs_proofs!SnifferHolds` | `TypeOK`, `SnifferIsSound` of `Sniffer`, any arguments, queue and packets | `PhaseInv`: where the console is tells where the sniffer's task is and which of flag, queue, semaphore and session there are, until a second stop meddles; `HeapInv` and `PayloadInv` count the payloads place by place |
| `Programs_proofs!EspNowHolds` | `TypeOK`, `SendsAreChained`, `LargerSends` of `EspNow`, any number of devices and any magics | `AllChained`: exactly one frame of the kind a device sends is in its queue, on the air or with the driver; frames are counted by `Cardinality` of the places they are at, and `NumberAppend`, `NumberTail` say what a queue operation does to the count |
| `Programs_proofs!FtmHolds` | `TypeOK`, `FtmIsSound` of `Ftm`, any access points and attempts | `FtmInv`: the last event that waits and speaks of the link, the access point or the measurement tells its state (`FtmLinkInv`, `FtmApInv`, `FtmSessionInv`); list and password by place in the command (`FtmListInv`, `FtmPassInv`) |
| `Programs_proofs!IperfHolds` | `TypeOK`, `IperfIsSound` of `Iperf`, any commands and losses | `IperfEventInv`: the last event that waits tells whether there is an address, and without one the bits do, except inside a disconnect; `IperfTryInv`: a wanted station keeps `reconnect` but within a command, and one that is down has a loss still to be handled |
| `Programs_proofs!EnrollmentHolds` | `TypeOK`, `EnrollmentIsSound` of `Enrollment`, each program, any networks and retries | `EnrollInv`, one part per program (`StationInv`, `DppInv`, `WpsInv`, `SmartInv`): the counter is the failures of what it counts now, and a station that neither joins nor enrols has used up its tries or has an event to be handled |
| `Programs_proofs!ExamplesHold` | `ExamplesAreSound`, the four programs | the four above |

Assumptions: `HwBus` assumes `MaxClasses` natural and nothing else of size; `IO` at least one slot; `Modbus` a queue of
two or more; `WifiStation` a queue of one or more and an event task that is not an application; `NetConnect` finitely many
tasks. What holds for one task or one interface only says so as a hypothesis of its theorem (`OneCaller`, `OneAdder`,
`OneConnection`); the races and the second interface that break it are in sections 2 and 3. `AlarmIsTrue` needs
`LimitsAreHigh`: the limits of the master's rows, 1000 and 10000 hundredths, lie above what the slave answers before its
counter has passed `MaxVal` (the code's is 10, 1000 hundredths). `BestHolds` has as hypothesis that a scan finds fewer than
256 networks: 256 of them would be the count 0 in the `int8_t` of `run()`, and the strongest would not be looked at.
`Library` assumes of its parts finitely many clients (`BoundsOK`), natural sizes (`SizesOK`), a UDP buffer of a byte or more and port 0
to be nobody's (`PacketsOK`), that a scan finds a sequence of networks with
strengths above `INT_MIN` and that a narrow count holds one or more (`NearbyOK`), a natural
number of clients and places in the queue (`ClientsOK`), octets (`OctetsOK`), and `BundlesAreSorted`: the
script that writes a bundle sorts it by name (comment at `esp_crt_bundle.c:154`). `Channels` assumes natural sizes and
lengths, one try or more (`SizesOK`), a natural bound (`BoundOK`), addresses of four octets with prefixes of 1 to 32
bits (`AddressesOK`), and that no name has the address 0 (`ConstantsOK`); `ModbusRuns` natural numbers of slaves, queries and runs (`CountsOK`). `Programs` assumes: integer arguments, a
queue length and numbers of packets that are natural (`NumbersOK`); devices that differ from the broadcast address,
natural magics and a count of one or more (`DevicesOK`); finitely many access points and one attempt or more (`ApsOK`);
natural seconds and a default interval of one or more (`TimesOK`); one network of WPS or more and natural retries
(`RetriesOK`). TLC evaluates all of it in `parts` and `devices`.

Types: every module's `TypeOK` is proved, with the theorem of its part where it is a part of a run; `TypesOK`, which
puts those of `parts` together for TLC, has no theorem of its own. Those of the examples are only proved. `IPv4` has no state but its inputs.

Only checked by TLC: all liveness, which TLAPS cannot prove (`CallReturns`, `EveryDeviceIsPolled`, `LossIsRetried`,
`MasterEnds`, `CallsEnd`). No module uses a RECURSIVE operator or `Bitwise`.

## 5. What is not modelled, and why

- **Hardware**: `Hardware::handler` and `Hardware::loop`, which nothing calls; the second, unused event loop of a class.
- **Network**: `get_addr_from_stdin` is terminal input.
- **Wi-Fi core**: `reconnect()`, and power, antenna and sleep settings, single calls into the driver. In `WifiStation`
  reports are forwarded in order, as the event loop does, and nothing is lost; losses for memory are in `WifiEvents`.
  The two minutes' timer behind LOST_IP is taken to be slower than the forwarding of events. Enterprise `begin` and
  `waitForConnectResult` of the library copy.
- **Modbus**: register values other than the counter and the coils do not influence control. `param_lock` is left out
  of the slave's steps because the stack does not take it.
- **TCP and UDP**: socket options, and addresses that are read from lwIP and returned.
- **TLS**: mbedTLS's cryptography; `verify_ssl_fingerprint` and `verify_ssl_dn`, functions of a certificate's text; the
  pre-shared key and the PEM loaders.
- **Provisioning**: one call that hands everything to the provisioning manager of the IDF, whose state it is.
- **Examples**: file systems, JTAG tracing, argument parsing, printing; the iperf component is not in the repository.
  NVS and QR codes of the enrolment examples. Other examples and sketches are a set-up and calls of what is modelled
  elsewhere.
- **Host, Ethernet, standard input**: nothing to decide.
- Levels of pins, contents of packets, formatting and logging appear nowhere.

## 6. Plan

The order was chosen so that what every program of this system uses comes first: the bus and the IO driver, then the network,
then the services, then the library and the examples that stand on it.

1. Done: all modules of section 2 and the theorems of section 4.
2. Next modules: `reconnect()` and `waitForConnectResult` with the status they poll; a composition of `ModbusService` with
   `NetConnect`, whose disconnect the end of a program calls.
