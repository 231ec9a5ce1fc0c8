------------------------------ MODULE WifiScan ------------------------------
(***************************************************************************)
(* Scans: WiFiScan.cpp, and WiFiMulti.cpp, which joins the best network it *)
(* knows (src/Extensions/Network/wifi/SRC/WiFi).  The application starts a *)
(* scan and marks it as running afterwards; the event task, which handles  *)
(* the driver's report, marks it as done.  Neither knows which scan of the *)
(* driver the other one speaks of.                                         *)
(***************************************************************************)
EXTENDS Integers, Sequences

CONSTANTS
  Nearby,       \* what a scan may find: sequences of [ssid, rssi, open]
  Lists,       \* APlist: sequences of [ssid, pass]
  NoSsid,      \* null
  Low,         \* INT_MIN
  Half,        \* the number of networks that int8_t cannot hold (128)
  MaxScans     \* bound: scans the driver starts

NearbyOK ==
  /\ MaxScans \in Nat /\ Half \in Nat \ {0} /\ Low \in Int
  /\ \A n \in Nearby : Len(n) \in Nat /\ \A i \in 1 .. Len(n) : n[i].rssi \in Int /\ n[i].rssi > Low

VARIABLES
  SCANNING, DONE,  \* the bits
  started,     \* _scanStarted is not 0
  count,       \* _scanCount
  result,      \* _scanResult, <<>> for null
  driver,      \* the driver scans
  found,       \* what it has found, until that is fetched
  events,      \* its reports not yet handled
  handler,     \* where _scanDone() is
  app,         \* where the application is
  async,       \* _scanAsync
  multi,       \* the call is one of WiFiMulti::run()
  scanResult, index, best,   \* of run(): the answer of the scan, i, and bestNetwork with its strength
  APlist,
  link,        \* the network the station has joined
  scans,       \* counts the driver's scans
  raced,       \* history: a scan was reported before it was marked as running
  impatient,   \* history: results were deleted, or given up, before the report
  leaked       \* history: an array was lost

bits == <<SCANNING, DONE>>
results == <<count, result, leaked>>
choosing == <<scanResult, index, best>>
vars == <<bits, started, results, driver, found, events, handler, app, async,
          multi, choosing, APlist, link, scans, raced, impatient>>

NoBest == [ssid |-> NoSsid, rssi |-> Low]

Init ==
  /\ SCANNING = FALSE /\ DONE = FALSE /\ started = FALSE /\ count = 0 /\ result = <<>>
  /\ driver = FALSE /\ found = <<>> /\ events = 0 /\ handler = "rest" /\ app = "rest"
  /\ async = FALSE /\ multi = FALSE /\ APlist \in Lists /\ link = NoSsid /\ scans = 0
  /\ raced = FALSE /\ impatient = FALSE /\ leaked = FALSE
  /\ scanResult = 0 /\ index = 0 /\ best = NoBest

(* A scan whose end has not been marked by DONE.                           *)
Outstanding == driver \/ events > 0 \/ handler \in {"alloc", "fetch", "stop", "done"}

-----------------------------------------------------------------------------
(* scanNetworks(), also from run().                                        *)
Goes(from, to) == app = from /\ app' = to
Returns == IF multi THEN "choose" ELSE "rest"

ScanNetworks ==
  /\ Goes("scan", IF SCANNING THEN "rest" ELSE "clear")
  /\ UNCHANGED <<bits, started, results, driver, found, events, multi, link, scans, raced, impatient>>

(* scanDelete(): the bit, then the array.                                  *)
ClearDone ==
  /\ Goes("clear", "delete") \/ Goes("clear_only", "delete_only")
  /\ DONE' = FALSE /\ impatient' = (impatient \/ Outstanding)
  /\ UNCHANGED <<SCANNING, started, results, driver, found, events, multi, link, scans, raced>>

Delete ==
  /\ Goes("delete", "start") \/ Goes("delete_only", IF multi THEN "begin" ELSE "rest")
  /\ result' = <<>> /\ count' = IF result = <<>> THEN count ELSE 0
  /\ impatient' = (impatient \/ Outstanding)
  /\ UNCHANGED <<bits, started, leaked, driver, found, events, multi, link, scans, raced>>

Start ==
  /\ \/ Goes("start", "stamp") /\ ~driver /\ scans < MaxScans
        /\ driver' = TRUE /\ found' = <<>> /\ scans' = scans + 1
     \/ Goes("start", IF multi THEN "again" ELSE "rest") /\ UNCHANGED <<driver, found, scans>>
  /\ UNCHANGED <<bits, started, results, events, multi, link, raced, impatient>>

Stamp ==
  /\ Goes("stamp", "clear_bit") /\ started' = TRUE
  /\ UNCHANGED <<bits, results, driver, found, events, multi, link, scans, raced, impatient>>

ClearBit ==
  /\ Goes("clear_bit", "set_bit") /\ DONE' = FALSE
  /\ UNCHANGED <<SCANNING, started, results, driver, found, events, multi, link, scans, raced, impatient>>

SetBit ==
  /\ Goes("set_bit", IF async THEN "rest" ELSE "wait") /\ SCANNING' = TRUE
  /\ UNCHANGED <<DONE, started, results, driver, found, events, multi, link, scans, raced, impatient>>

(* The wait for DONE, at most 10 s.                                        *)
Wait ==
  /\ \/ DONE /\ Goes("wait", Returns) /\ UNCHANGED impatient
     \/ ~DONE /\ Goes("wait", IF multi THEN "again" ELSE "rest") /\ impatient' = TRUE
  /\ UNCHANGED <<bits, started, results, driver, found, events, multi, link, scans, raced>>

(* scanComplete() with its timeout; its other answers change nothing.      *)
ScanComplete ==
  /\ app = "rest" /\ started /\ UNCHANGED app
  /\ SCANNING' = FALSE /\ impatient' = (impatient \/ Outstanding)
  /\ UNCHANGED <<DONE, started, results, driver, found, events, multi, link, scans, raced>>

Call(a) ==
  /\ Goes("rest", a)
  /\ UNCHANGED <<bits, started, results, driver, found, events, scans, raced, impatient>>

-----------------------------------------------------------------------------
(* WiFiMulti::run().  A network that is known is kept, another is left.    *)
Knows(ssid) == \E i \in 1 .. Len(APlist) : APlist[i].ssid = ssid

Run ==
  /\ Call("scan") /\ ~(link # NoSsid /\ Knows(link)) /\ link' = NoSsid
  /\ multi' = TRUE /\ async' = FALSE

(* Only the last entry of a name counts, and it needs a password unless    *)
(* the network is open.                                                    *)
LastEntry(ssid) == CHOOSE i \in 1 .. Len(APlist) :
  APlist[i].ssid = ssid /\ \A j \in i + 1 .. Len(APlist) : APlist[j].ssid # ssid
Usable(n) == Knows(n.ssid) /\ (n.open \/ APlist[LastEntry(n.ssid)].pass)

BetterOrSame(n) ==                      \* fault variant: >= for >
  IF n.rssi >= best.rssi /\ Usable(n) THEN [ssid |-> n.ssid, rssi |-> n.rssi] ELSE best

Better(n) ==
  IF n.rssi > best.rssi /\ Usable(n) THEN [ssid |-> n.ssid, rssi |-> n.rssi] ELSE best

(* The count is held in an int8_t: -1 is a running scan, and every other   *)
(* negative number a failed one.                                           *)
Int8(n) == ((n + Half) % (2 * Half)) - Half

Analyse ==
  /\ Goes("choose", IF Int8(count) = -1 THEN "rest" ELSE IF Int8(count) < 0 THEN "again" ELSE "consider")
  /\ scanResult' = Int8(count) /\ index' = 0 /\ best' = NoBest
  /\ UNCHANGED <<bits, started, results, driver, found, events, multi, link, scans, raced, impatient>>

(* getNetworkInfo() refuses an index from the count on.  (Records beyond   *)
(* the array, see ResultsFit, are left out.)                               *)
Readable(i) == i <= count /\ i <= Len(result)

Consider ==
  /\ Goes("consider", "consider") /\ index < scanResult
  /\ index' = index + 1 /\ UNCHANGED scanResult
  /\ best' = IF Readable(index') THEN Better(result[index']) ELSE best
  /\ UNCHANGED <<bits, started, results, driver, found, events, multi, link, scans, raced, impatient>>

Chosen ==
  /\ Goes("consider", "clear_only") /\ index >= scanResult
  /\ UNCHANGED <<bits, started, results, driver, found, events, multi, link, scans, raced, impatient>>

(* begin() with what was chosen: it is joined, or it is not.               *)
Join ==
  /\ Goes("begin", "rest") /\ link' \in {best.ssid, NoSsid}
  /\ scanResult' = 0 /\ index' = 0 /\ best' = NoBest
  /\ UNCHANGED <<bits, started, results, driver, found, events, multi, scans, raced, impatient>>

(* After a failure run() disconnects and starts a scan it does not wait    *)
(* for; the next run() finds it running.                                   *)
Again ==
  /\ Goes("again", "scan") /\ link' = NoSsid
  /\ UNCHANGED <<bits, started, results, driver, found, events, scans, raced, impatient>>

Scanning ==
  \/ UNCHANGED <<async, multi>>
     /\ (ScanNetworks \/ ClearDone \/ Delete \/ Start \/ Stamp \/ ClearBit \/ SetBit
         \/ Wait \/ ScanComplete \/ Chosen)
  \/ Again /\ async' = TRUE /\ multi' = FALSE
  \/ Call("scan") /\ UNCHANGED link /\ async' \in BOOLEAN /\ multi' = FALSE
  \/ Call("clear_only") /\ UNCHANGED <<link, async>> /\ multi' = FALSE
  \/ Run

Application ==
  /\ \/ Scanning /\ UNCHANGED choosing
     \/ (Analyse \/ Consider \/ Join) /\ UNCHANGED <<async, multi>>
  /\ UNCHANGED <<handler, APlist>>

-----------------------------------------------------------------------------
(* _scanDone() in the event task.                                          *)
Handles(from, to) == handler = from /\ handler' = to

Count ==
  /\ Handles("rest", "alloc") /\ events > 0 /\ events' = events - 1
  /\ count' = Len(found)
  /\ raced' = (raced \/ app \in {"stamp", "clear_bit", "set_bit"})
  /\ UNCHANGED <<bits, started, result, leaked, found>>

Alloc ==
  /\ IF count = 0 THEN Handles("alloc", "stop") /\ UNCHANGED <<result, leaked>>
     ELSE /\ Handles("alloc", "fetch") /\ leaked' = (leaked \/ result # <<>>)
          /\ result' = [i \in 1 .. count |-> [ssid |-> NoSsid, rssi |-> Low, open |-> FALSE]]
  /\ UNCHANGED <<bits, started, count, events, found, raced>>

(* As many records as there are and fit; it fails without an array.        *)
Fetch ==
  /\ Handles("fetch", "stop")
  /\ \/ /\ result # <<>>
        /\ count' = IF Len(found) < count THEN Len(found) ELSE count
        /\ result' = [i \in DOMAIN result |-> IF i <= count' THEN found[i] ELSE result[i]]
        /\ found' = <<>>
     \/ count' = 0 /\ UNCHANGED <<result, found>>
  /\ UNCHANGED <<bits, started, leaked, events, raced>>

Stop ==
  /\ Handles("stop", "done") /\ started' = FALSE
  /\ UNCHANGED <<bits, results, events, found, raced>>

SetDone ==
  /\ Handles("done", "clear") /\ DONE' = TRUE
  /\ UNCHANGED <<SCANNING, started, results, events, found, raced>>

(* Fault variant: the bit stays.                                           *)
ClearScanningNever ==
  /\ Handles("clear", "rest")
  /\ raced' = (raced \/ app \in {"stamp", "clear_bit", "set_bit"})
  /\ UNCHANGED <<bits, started, results, events, found>>

ClearScanning ==
  /\ Handles("clear", "rest") /\ SCANNING' = FALSE
  /\ raced' = (raced \/ app \in {"stamp", "clear_bit", "set_bit"})
  /\ UNCHANGED <<DONE, started, results, events, found>>

ScanDone ==
  /\ Count \/ Alloc \/ Fetch \/ Stop \/ SetDone \/ ClearScanning
  /\ UNCHANGED <<driver, app, async, multi, choosing, APlist, link, scans, impatient>>

Driver ==
  /\ driver /\ driver' = FALSE /\ found' \in Nearby /\ events' = events + 1
  /\ UNCHANGED <<bits, started, results, handler, app, async, multi, choosing, APlist, link, scans,
                 raced, impatient>>

Next == Application \/ ScanDone \/ Driver

Spec == Init /\ [][Next]_vars

-----------------------------------------------------------------------------
TypeOK ==
  /\ {SCANNING, DONE, started, driver, async, multi, raced, impatient, leaked} \subseteq BOOLEAN
  /\ count \in Nat /\ events \in 0 .. MaxScans /\ scans \in 0 .. MaxScans
  /\ scanResult \in Int /\ index \in Nat

Starting == app \in {"stamp", "clear_bit", "set_bit"}

(* A scan marked as running comes to an end: it is being marked, or the    *)
(* driver still scans, or its report is still to be handled.  Otherwise    *)
(* every later scanNetworks() would answer WIFI_SCAN_RUNNING.              *)
RunningScanEnds == SCANNING /\ ~raced => driver \/ events > 0 \/ handler # "rest"

(* An application that waits for the report never has fewer networks than  *)
(* it is told, and no array is lost.                                       *)
ResultsFit ==
  ~impatient /\ ~raced =>
    /\ ~leaked
    /\ result # <<>> => count <= Len(result)
    /\ DONE => count = Len(result) \/ count = 0

(* Of the scanned networks it has a usable entry for, run() chooses the    *)
(* strongest, the first of several.                                        *)
Usables == {i \in 1 .. Len(result) : Readable(i) /\ Usable(result[i])}

IsFirstOfStrongest(i, among) ==
  \A j \in among : result[j].rssi < result[i].rssi \/ (result[j].rssi = result[i].rssi /\ i <= j)

BestIsJoined ==
  [][app = "consider" /\ app' = "clear_only" /\ ~impatient =>
       IF Usables = {} THEN best.ssid = NoSsid
       ELSE \E i \in Usables : best.ssid = result[i].ssid /\ IsFirstOfStrongest(i, Usables)]_vars
=============================================================================
