----------------------------- MODULE TcpStream -----------------------------
(***************************************************************************)
(* The bytes of one connection of WiFiClient                               *)
(* (src/Extensions/Network/wifi/SRC/WiFi/WiFiClient.cpp): the receive      *)
(* buffer with its lazy refills, the write loop with its retries, flush,   *)
(* and the calls that drop the connection when the socket reports an       *)
(* error.  One task uses the client; the peer and lwIP act in between.     *)
(* Bytes are numbered, so that a byte tells its place in its stream.       *)
(***************************************************************************)
EXTENDS Integers, Sequences, SequencesExt

CONSTANTS
  Size,        \* of the receive buffer (1436)
  Lengths,     \* the lengths the application reads and writes
  Chunk,       \* what flush() and write(Stream&) take at once (1024, 1360)
  Retry,       \* WIFI_CLIENT_MAX_WRITE_RETRY (10)
  MaxIn,       \* bound: bytes the peer sends
  MaxOut       \* bound: bytes the application writes

SizesOK ==
  /\ {Size, Chunk, MaxIn, MaxOut} \subseteq Nat /\ Retry \in Nat \ {0} /\ Lengths \subseteq Nat

VARIABLES
  allocated, held, pos,  \* WiFiClientRxBuffer: its buffer exists, the filled part of it,
              \* how much of that has been read
  failed,     \* its _failed
  open,       \* the client has its socket handle and its receive buffer
  connected,  \* _connected
  peer,       \* the other end: "open", "closed" (FIN sent) or "reset"
  arrived,    \* how many bytes it has sent
  kernel,     \* those of them that lwIP still holds
  pc,         \* where the task is
  left,       \* bytes the call has still to read or to flush
  size, sent, \* of a write: its length, totalBytesSent
  retry,      \* its tries left
  stream,     \* bytes a stream has behind the chunk being written, -1 without a stream
  got,        \* history: bytes read, in order
  flushed,    \* history: bytes thrown away by flush()
  next,       \* the first byte the application has not written
  out,        \* history: bytes lwIP accepted, in order
  lost,       \* history: bytes taken from a stream and never sent
  misled      \* history: a failing select() made write return 0 for bytes it had sent

rx == <<allocated, held, pos, failed, got, flushed, left>>
tx == <<next, out, lost, misled, retry, stream, size, sent>>
vars == <<rx, tx, open, connected, peer, arrived, kernel, pc>>

Init ==
  /\ allocated = FALSE /\ held = <<>> /\ pos = 0 /\ failed = FALSE /\ got = <<>> /\ flushed = {} /\ left = 0
  /\ open = TRUE /\ connected = TRUE /\ peer = "open" /\ arrived = 0 /\ kernel = <<>>
  /\ pc = "rest" /\ size = 0 /\ sent = 0 /\ retry = 0 /\ stream = -1
  /\ next = 1 /\ out = <<>> /\ lost = {} /\ misled = FALSE

-----------------------------------------------------------------------------
Least(a, b) == IF a < b THEN a ELSE b

Stop == open' = FALSE /\ connected' = FALSE
Holds == UNCHANGED <<open, connected>>

(* read(), peek() and available() of the client stop it when the buffer    *)
(* has failed.                                                             *)
StopIfFailed == IF failed' THEN Stop ELSE Holds

(* fillBuffer() begins at 0 again when everything buffered has been read,  *)
(* and asks only for what FIONREAD says is there.  It fails when there is  *)
(* no memory for the buffer, or the ioctl or the recv of a reset           *)
(* connection does.                                                        *)
Kept == IF pos = Len(held) THEN <<>> ELSE held
Start == IF pos = Len(held) THEN 0 ELSE pos
Available == SubSeq(kernel, 1, Least(Len(kernel), Size - Len(Kept)))

FillBuffer(taken) ==
  /\ \/ taken = Available /\ UNCHANGED failed
     \/ taken = <<>> /\ failed' = TRUE /\ (peer = "reset" \/ ~allocated)
  /\ allocated' = (allocated \/ ~failed')
  /\ held' = Kept \o taken
  /\ kernel' = SubSeq(kernel, Len(taken) + 1, Len(kernel))

NoFill == UNCHANGED <<allocated, held, failed, kernel>>

(* Copy n bytes of the buffer to the caller.                               *)
Copy(n) == got' = got \o SubSeq(held', Start + 1, Start + n) /\ pos' = Start + n

ReadReturns == pc' = "rest" /\ left' = 0 /\ StopIfFailed
ReadGoes(label, n) == pc' = label /\ left' = n /\ Holds

BeginRead ==
  /\ pc = "rest" /\ open
  /\ \E n \in Lengths : left' = n
  /\ pc' = (IF pos = Len(held) THEN "fill" ELSE "copy")
  /\ Holds /\ UNCHANGED <<allocated, held, pos, failed, got, flushed, kernel>>

ReadFill ==
  /\ pc = "fill"
  /\ \E taken \in {<<>>, Available} :
       /\ FillBuffer(taken)
       /\ IF taken = <<>> THEN ReadReturns ELSE ReadGoes("copy", left)
  /\ Copy(0) /\ UNCHANGED flushed

(* All of it is buffered; or the free end of the buffer can hold what      *)
(* misses, and a fill brings all of it; or else only what was buffered     *)
(* before the fill is copied, and the rest is read in a loop.              *)
ReadCopy ==
  /\ pc = "copy"
  /\ LET a == Len(held) - pos
         missing == left - a
     IN \/ missing <= 0 /\ NoFill /\ Copy(left) /\ ReadReturns
        \/ /\ missing > 0 /\ missing <= Size - Len(held)
           /\ \E taken \in {<<>>, Available} :
                /\ FillBuffer(taken)
                /\ IF Len(taken) >= missing THEN Copy(left) /\ ReadReturns
                                            ELSE Copy(a) /\ ReadGoes("loop", missing)
        \/ missing > Size - Len(held) /\ missing > 0 /\ NoFill /\ Copy(a) /\ ReadGoes("loop", missing)
  /\ UNCHANGED flushed

ReadLoop ==
  /\ pc = "loop"
  /\ \E taken \in {<<>>, Available} :
       /\ FillBuffer(taken)
       /\ LET n == IF taken = <<>> THEN 0 ELSE Least(Len(held') - Start, left) IN
          /\ Copy(n)
          /\ IF taken = <<>> \/ n = left THEN ReadReturns ELSE ReadGoes("loop", left - n)
  /\ UNCHANGED flushed

Peek ==
  /\ pc = "rest" /\ open /\ pos = Len(held)
  /\ \E taken \in {<<>>, Available} : FillBuffer(taken)
  /\ Copy(0) /\ StopIfFailed /\ UNCHANGED <<flushed, left, pc>>

(* available() asks for what is buffered and what lwIP holds; flush() takes*)
(* that many bytes from lwIP.  recv() answers 0 once the peer has closed.  *)
BeginFlush ==
  /\ pc = "rest" /\ open
  /\ \/ /\ peer = "reset" /\ failed' = TRUE /\ StopIfFailed /\ UNCHANGED <<pc, left>>
     \/ /\ Len(held) - pos + Len(kernel) > 0 /\ pc' = "flush"
        /\ left' = Len(held) - pos + Len(kernel)
        /\ Holds /\ UNCHANGED failed
  /\ UNCHANGED <<allocated, held, pos, got, flushed, kernel>>

Flush ==
  /\ pc = "flush"
  /\ LET n == Least(Least(left, Chunk), Len(kernel)) IN
     \/ /\ n > 0
        /\ flushed' = flushed \cup ToSet(SubSeq(kernel, 1, n))
        /\ kernel' = SubSeq(kernel, n + 1, Len(kernel))
        /\ left' = left - n /\ pc' = (IF left = n THEN "rest" ELSE "flush")
        /\ Holds
     \/ /\ n = 0 /\ peer = "closed"
        /\ Holds /\ UNCHANGED <<flushed, kernel, left, pc>>
     \/ /\ n = 0 /\ peer # "closed"
        /\ Stop /\ left' = 0 /\ pc' = "rest" /\ UNCHANGED <<flushed, kernel>>
  /\ UNCHANGED <<allocated, held, pos, failed, got>>

(* connected() reads errno after a recv() of no bytes; when bytes are      *)
(* waiting that is the errno of an earlier call.                           *)
Connected ==
  /\ pc = "rest" /\ connected
  /\ connected' \in IF kernel # <<>> THEN BOOLEAN ELSE {peer = "open"}
  /\ UNCHANGED <<rx, open, kernel, pc>>

-----------------------------------------------------------------------------
(* write(): n bytes from the byte `next` on.                               *)
BeginWrite(n) ==
  /\ size' = n /\ sent' = 0
  /\ IF connected /\ open THEN pc' = "write" /\ retry' = Retry
                          ELSE pc' = "written" /\ retry' = 0
  /\ Holds /\ UNCHANGED <<out, misled>>

MayWrite(n) == next + n <= MaxOut + 1 /\ Len(out) + n <= MaxOut

Write ==
  /\ pc = "rest" /\ stream' = -1
  /\ \E n \in Lengths : MayWrite(n) /\ BeginWrite(n)
  /\ UNCHANGED <<next, lost>>

WriteStream ==
  /\ pc = "rest"
  /\ \E n \in Lengths :
       /\ MayWrite(n)
       /\ stream' = n - Least(n, Chunk) /\ BeginWrite(Least(n, Chunk))
  /\ UNCHANGED <<next, lost>>

SendFromStart == next                \* fault variant: buf stays at its beginning

SendFrom == next + sent

(* select() and then send(); both of them may fail, and the socket may not *)
(* be ready in time.  Progress gives all the tries back.                   *)
Accept ==
  \E n \in 1 .. size - sent :
    /\ peer # "reset"
    /\ out' = out \o [i \in 1 .. n |-> SendFrom + i - 1]
    /\ sent' = sent + n
    /\ IF sent + n >= size THEN pc' = "written" /\ retry' = 0
                           ELSE retry' = Retry /\ UNCHANGED pc
    /\ Holds /\ UNCHANGED misled

(* Fault variant: all tries are given back without progress.               *)
AgainForever ==
  /\ retry' = (IF retry = 1 THEN Retry ELSE retry - 1)
  /\ Holds /\ UNCHANGED <<out, sent, misled, pc>>

Again ==
  /\ retry' = retry - 1 /\ pc' = (IF retry = 1 THEN "written" ELSE "write")
  /\ Holds /\ UNCHANGED <<out, sent, misled>>

SendFails ==
  /\ peer # "open" /\ Stop
  /\ retry' = 0 /\ pc' = "written" /\ UNCHANGED <<out, sent, misled>>

SelectFails ==
  /\ sent' = 0 /\ misled' = (misled \/ sent > 0)
  /\ retry' = 0 /\ pc' = "written" /\ Holds /\ UNCHANGED out

Send ==
  /\ pc = "write"
  /\ Accept \/ Again \/ SendFails \/ SelectFails
  /\ UNCHANGED <<next, lost, stream, size>>

(* The caller of write(buf, size) goes on behind the bytes it was told are *)
(* sent; write(Stream&) goes on with the next chunk, whatever was sent.    *)
Written ==
  /\ pc = "written"
  /\ IF stream = -1
     THEN /\ next' = next + sent /\ pc' = "rest"
          /\ size' = 0 /\ sent' = 0 /\ Holds /\ UNCHANGED <<stream, retry, lost, out, misled>>
     ELSE /\ next' = next + size /\ lost' = lost \cup (SendFrom .. next + size - 1)
          /\ IF stream > 0
             THEN stream' = stream - Least(stream, Chunk) /\ BeginWrite(Least(stream, Chunk))
             ELSE /\ pc' = "rest" /\ size' = 0 /\ sent' = 0 /\ stream' = -1
                  /\ Holds /\ UNCHANGED <<out, misled, retry>>

-----------------------------------------------------------------------------
PeerSends ==
  /\ peer = "open" /\ arrived < MaxIn /\ open
  /\ arrived' = arrived + 1 /\ kernel' = Append(kernel, arrived + 1)
  /\ UNCHANGED peer

PeerEnds == peer = "open" /\ peer' \in {"closed", "reset"} /\ UNCHANGED <<arrived, kernel>>

Step == ReadFill \/ ReadCopy \/ ReadLoop \/ Flush
Reads == Step \/ BeginRead \/ Peek \/ BeginFlush \/ Connected
Writes == Send \/ Written

Goes == (Step /\ UNCHANGED <<tx, peer, arrived>>) \/ (Writes /\ UNCHANGED <<rx, peer, arrived, kernel>>)

Next ==
  \/ Reads /\ UNCHANGED <<tx, peer, arrived>>
  \/ (Write \/ WriteStream \/ Writes) /\ UNCHANGED <<rx, peer, arrived, kernel>>
  \/ (PeerSends \/ PeerEnds) /\ UNCHANGED <<rx, tx, open, connected, pc>>

(* A call that has begun goes on; the peer need not do anything.           *)
Spec == Init /\ [][Next]_vars /\ WF_vars(Goes)

-----------------------------------------------------------------------------
TypeOK ==
  /\ held \in Seq(1 .. MaxIn) /\ Len(held) <= Size /\ pos \in 0 .. Len(held)
  /\ {allocated, failed, open, connected, misled} \subseteq BOOLEAN
  /\ peer \in {"open", "closed", "reset"} /\ arrived \in 0 .. MaxIn
  /\ pc \in {"rest", "fill", "copy", "loop", "flush", "write", "written"}
  /\ left \in Nat /\ size \in 0 .. MaxOut /\ sent \in 0 .. size
  /\ retry \in 0 .. Retry /\ stream \in -1 .. MaxOut /\ next \in 1 .. MaxOut + 1

(* The bytes of the set, each once and in order.                           *)
InOrder(s, bytes) ==
  /\ \A k, l \in DOMAIN s : k < l => s[k] < s[l]
  /\ ToSet(s) = bytes

Came == (1 .. arrived) \ flushed
Coming == got \o SubSeq(held, pos + 1, Len(held)) \o kernel

(* What the application has read, followed by what is buffered and what    *)
(* lwIP holds, is what the peer sent without what flush() threw away: the  *)
(* refills lose, repeat and reorder no byte, wherever they interrupt a     *)
(* read.  A stopped client has read a beginning of it.                     *)
ReadsIntact ==
  /\ \E m \in 0 .. arrived : InOrder(got, {b \in Came : b <= m})
  /\ open => InOrder(Coming, Came)

(* What lwIP accepted is what the application wrote, in order and once, if *)
(* it goes on behind the bytes it was told are sent.  The bytes missing    *)
(* are those of a stream whose chunk was not sent as a whole.  A select()  *)
(* that fails after progress is the exception: write() then returns 0.     *)
WritesIntact == ~misled => InOrder(out, (1 .. next + sent - 1) \ lost)

(* Reading and writing keep both streams as they are.                      *)
StreamIntact == ReadsIntact /\ WritesIntact

(* A read or a write ends, whatever the peer does: the tries of a write    *)
(* are given back only for progress, and a read waits for nothing.         *)
InIo == pc \in {"fill", "copy", "loop", "write", "written"}
IoEnds == InIo ~> pc = "rest"
=============================================================================
