------------------------------ MODULE Websock ------------------------------
(***************************************************************************)
(* The console's socket (app/static/novnc/core/websock.js): a receive      *)
(* queue that is compacted, grown and reset in place, and a send queue     *)
(* that is flushed when it is full.  Bytes are written as their number:    *)
(* the n-th byte received, or pushed, is n; 0 is a byte never written.     *)
(***************************************************************************)
EXTENDS Integers, Sequences, FiniteSets

CONSTANTS InitialRQ,    \* first size of the receive queue (4 MiB)
          GrowLimit,    \* MAX_RQ_GROW_SIZE (40 MiB)
          Headroom,     \* room a new buffer has, in multiples of its content (8)
          SQSize,       \* size of the send queue (10 KiB)
          IntSizes,     \* bytes of a fixed-size push (1, 2, 4)
          MaxMsg,       \* bound: bytes in a message received
          MaxArrived,   \* bound: bytes received
          MaxPushed     \* bound: bytes pushed

ASSUME RQAssumption ==
    /\ InitialRQ \in Nat \ {0} /\ GrowLimit \in Nat /\ InitialRQ <= GrowLimit
    /\ Headroom \in Nat \ {0, 1} /\ MaxMsg \in Nat /\ MaxArrived \in Nat
ASSUME SQAssumption ==
    /\ SQSize \in Nat \ {0} /\ IntSizes \subseteq 1..SQSize /\ MaxPushed \in Nat

VARIABLES
    readyState,         \* of the channel
    listening,          \* onmessage is _recvMessage, until close()
    rQ, rQi, rQlen,     \* receive queue, next byte to read, next place to write
    rQbufferSize,       \* the size the code believes rQ to have
    arrived, gap,       \* bytes received; some did not fit
    sQ, sQlen,          \* send queue
    wire,               \* bytes given to the channel
    pushed,             \* bytes pushed
    oversize            \* sQpushBytes was given more than the queue had room for

recvVars == <<rQ, rQi, rQlen, rQbufferSize, arrived, gap>>
sendVars == <<sQ, sQlen, wire, pushed, oversize>>
chanVars == <<readyState, listening>>
wsVars == <<chanVars, recvVars, sendVars>>

Larger(a, b) == IF a > b THEN a ELSE b
Smaller(a, b) == IF a < b THEN a ELSE b
Buffer(n) == [k \in 0..(n - 1) |-> 0]
Capacity(buf) == Cardinality(DOMAIN buf)

WsInit == /\ readyState = "unused" /\ listening = FALSE
          /\ rQ = Buffer(InitialRQ) /\ rQi = 0 /\ rQlen = 0
          /\ rQbufferSize = InitialRQ /\ arrived = 0 /\ gap = FALSE
          /\ sQ = Buffer(SQSize) /\ sQlen = 0 /\ wire = <<>>
          /\ pushed = 0 /\ oversize = FALSE
-----------------------------------------------------------------------------
(* The channel. *)

Attach == /\ readyState = "unused"
          /\ readyState' = "connecting" /\ listening' = TRUE
          /\ UNCHANGED <<recvVars, sendVars>>

ChannelMoves(from, to) ==
    /\ readyState \in from
    /\ readyState' = to
    /\ UNCHANGED <<listening, recvVars, sendVars>>

Opened == ChannelMoves({"connecting"}, "open")
PeerCloses == ChannelMoves({"connecting", "open"}, "closing")
Closed == ChannelMoves({"closing"}, "closed")

(* A close of our own also stops listening, whatever state the channel is in. *)
Close == /\ readyState # "unused" /\ listening
         /\ readyState' = IF readyState \in {"connecting", "open"} THEN "closing"
                          ELSE readyState
         /\ listening' = FALSE
         /\ UNCHANGED <<recvVars, sendVars>>
-----------------------------------------------------------------------------
(* The receive queue. *)

Unread == rQlen - rQi

(* Write the n bytes of a message behind the `at' bytes in `buf'. *)
Written(buf, at, n) ==
    [k \in DOMAIN buf |-> IF k \in at..(at + n - 1) THEN arrived + (k - at) + 1 ELSE buf[k]]

(* _expandCompactRQ: the size it settles on, and the buffer with what is   *)
(* unread moved to the start, copied into a new buffer or within the old.  *)
(* A queue compacted in place is less than half full, so a message that    *)
(* passes finds room even if the size is wrong.                            *)
Resize(fit) == rQbufferSize < (Unread + fit) * Headroom
WantedSize(fit) == IF Resize(fit) THEN Larger(2 * rQbufferSize, (Unread + fit) * Headroom)
                   ELSE rQbufferSize

NewSize(fit) == Smaller(WantedSize(fit), GrowLimit)
Fits(fit) == WantedSize(fit) <= GrowLimit \/ NewSize(fit) - Unread >= fit
(* Variant: the copy starts at the start of the queue, not at what is unread. *)
CompactedFromStart(fit) ==
    IF Resize(fit)
    THEN [k \in 0..(NewSize(fit) - 1) |-> IF k < Unread THEN rQ[k] ELSE 0]
    ELSE rQ

Compacted(fit) ==
    IF Resize(fit)
    THEN [k \in 0..(NewSize(fit) - 1) |-> IF k < Unread THEN rQ[rQi + k] ELSE 0]
    ELSE [k \in DOMAIN rQ |-> IF k < Unread THEN rQ[rQi + k] ELSE rQ[k]]

(* A message of n bytes that finds room behind what is there; a queue read *)
(* to its end starts again at 0.                                           *)
Start == IF rQlen = rQi THEN 0 ELSE rQi
End == IF rQlen = rQi THEN 0 ELSE rQlen

CanReceive(n) == /\ listening /\ readyState \in {"open", "closing"}
                 /\ arrived + n <= MaxArrived

RecvInPlace(n) ==
    /\ CanReceive(n)
    /\ n <= rQbufferSize - End
    /\ End + n <= Capacity(rQ)
    /\ rQ' = Written(rQ, End, n)
    /\ rQi' = Start /\ rQlen' = End + n
    /\ arrived' = arrived + n
    /\ UNCHANGED <<rQbufferSize, gap, chanVars, sendVars>>

RecvExpanded(n) ==
    /\ CanReceive(n)
    /\ n > rQbufferSize - End
    /\ Fits(n)
    /\ rQ' = Written(Compacted(n), Unread, n)
    /\ rQi' = 0 /\ rQlen' = Unread + n
    /\ rQbufferSize' = NewSize(n)
    /\ arrived' = arrived + n
    /\ UNCHANGED <<gap, chanVars, sendVars>>

(* The message does not fit: _expandCompactRQ throws after it has changed  *)
(* the size and before it has changed the buffer, or set() finds a buffer  *)
(* shorter than the size says.  onmessage ends, the socket stays open.     *)
RecvLost(n) ==
    /\ CanReceive(n)
    /\ gap' = TRUE
    /\ arrived' = arrived + n
    /\ \/ /\ n <= rQbufferSize - End
          /\ End + n > Capacity(rQ)
          /\ rQi' = Start /\ rQlen' = End
          /\ UNCHANGED <<rQ, rQbufferSize>>
       \/ /\ n > rQbufferSize - End
          /\ ~Fits(n)
          /\ rQi' = Start /\ rQlen' = End
          /\ rQbufferSize' = NewSize(n)
          /\ UNCHANGED rQ
    /\ UNCHANGED <<chanVars, sendVars>>

(* rQwait(num, goback): too few bytes put the reader back. *)
Short(i, num) == rQlen - i < num
AfterWait(i, num, goback) == IF Short(i, num) THEN i - goback ELSE i

(* A reader takes a head, learns from it how long the message is, and      *)
(* either takes the rest or goes back to the head (rQwait, rQshift,        *)
(* rQskipBytes and their kin).                                             *)
ReadFrame(head, body) ==
    /\ ~Short(rQi, head)
    /\ LET i == rQi + head
           j == AfterWait(i, body, head)
       IN rQi' = IF Short(i, body) THEN j ELSE j + body
    /\ UNCHANGED <<rQ, rQlen, rQbufferSize, arrived, gap, chanVars, sendVars>>
-----------------------------------------------------------------------------
(* The send queue. *)

(* Variant: a flush sends the whole queue, used or not. *)
ContentsWhole(buf, n) == [k \in 1..SQSize |-> buf[k - 1]]

Contents(buf, n) == [k \in 1..n |-> buf[k - 1]]

(* flush and _sQensureSpace on a queue [buf, len, out]. *)
Flushed(q) == IF q.len > 0 /\ readyState = "open"
              THEN [buf |-> q.buf, len |-> 0, out |-> q.out \o Contents(q.buf, q.len)]
              ELSE q
EnsureSpace(q, n) == IF SQSize - q.len < n THEN Flushed(q) ELSE q

SendQueue == [buf |-> sQ, len |-> sQlen, out |-> wire]

PutQueue(q) == sQ' = q.buf /\ sQlen' = q.len /\ wire' = q.out

(* Bytes first..first+n-1 of what is pushed, written at the end of the queue. *)
Put(q, first, n) ==
    [k \in DOMAIN q.buf |-> IF k \in q.len..(q.len + n - 1) THEN first + (k - q.len)
                            ELSE q.buf[k]]

CanPush(n) == readyState \in {"open", "closing", "closed"} /\ pushed + n <= MaxPushed

(* sQpush8, sQpush16, sQpush32.  Writes behind the end of the queue, which *)
(* a channel that is no longer open leads to, are ignored.                 *)
PushInt(n) ==
    /\ CanPush(n)
    /\ LET q == EnsureSpace(SendQueue, n)
       IN PutQueue([q EXCEPT !.buf = Put(q, pushed + 1, n), !.len = @ + n])
    /\ pushed' = pushed + n
    /\ UNCHANGED <<oversize, chanVars, recvVars>>

(* sQpushBytes: chunks of what there is room for.  subarray's second       *)
(* argument is an end, and the code passes a length: from the second chunk *)
(* on fewer bytes are copied than are counted, or none.                    *)
Chunk(q, offset, n) == Smaller(SQSize - q.len, n - offset)
Copied(offset, chunk) == Larger(chunk - offset, 0)

PushChunk(q, offset, n) ==
    LET c == Chunk(q, offset, n)
    IN [q EXCEPT !.buf = Put(q, pushed + 1 + offset, Copied(offset, c)), !.len = @ + c]

PushChunks(queue, n) ==
    LET push[offset \in Nat, q \in [buf: [0..(SQSize - 1) -> Nat], len: Nat, out: Seq(Nat)]] ==
            IF offset >= n THEN q
            ELSE LET r == EnsureSpace(q, 1)
                 IN push[offset + Chunk(r, offset, n), PushChunk(r, offset, n)]
    IN push[0, queue]

(* What fits behind the queue is one chunk.  The loop does not end when    *)
(* the queue is full and cannot be flushed.                                *)
PushBytes(n) ==
    LET q    == EnsureSpace(SendQueue, 1)
        fits == n <= SQSize - q.len
    IN /\ CanPush(n)
       /\ readyState = "open" \/ fits
       /\ PutQueue(IF fits THEN PushChunk(q, 0, n) ELSE PushChunks(q, n))
       /\ pushed' = pushed + n
       /\ oversize' = (oversize \/ ~fits)
       /\ UNCHANGED <<chanVars, recvVars>>

Flush == /\ sQlen > 0 /\ readyState = "open"
         /\ PutQueue(Flushed(SendQueue))
         /\ UNCHANGED <<pushed, oversize, chanVars, recvVars>>
-----------------------------------------------------------------------------
Receive == \E n \in 0..MaxMsg : RecvInPlace(n) \/ RecvExpanded(n) \/ RecvLost(n)
Read == \E head \in 1..GrowLimit, body \in 0..GrowLimit : ReadFrame(head, body)
Push == \/ \E n \in IntSizes : PushInt(n)
        \/ \E n \in 1..MaxPushed : PushBytes(n)
Channel == Attach \/ Opened \/ PeerCloses \/ Closed \/ Close

WsNext == Channel \/ Receive \/ Read \/ Push \/ Flush

WsSpec == WsInit /\ [][WsNext]_wsVars
-----------------------------------------------------------------------------
(* Every variable has its type and the indices stay inside the queue, even *)
(* after an error has left its size wrong.                                 *)
WsTypeOK ==
    /\ readyState \in {"unused", "connecting", "open", "closing", "closed"}
    /\ listening \in BOOLEAN /\ gap \in BOOLEAN /\ oversize \in BOOLEAN
    /\ rQbufferSize \in 1..GrowLimit
    /\ \E n \in 1..GrowLimit : rQ \in [0..(n - 1) -> Nat]
    /\ rQi \in Nat /\ rQlen \in Nat /\ rQi <= rQlen /\ rQlen <= Capacity(rQ)
    /\ arrived \in Nat /\ pushed \in Nat /\ sQlen \in Nat
    /\ sQ \in [0..(SQSize - 1) -> Nat] /\ wire \in Seq(Nat)

(* The receive queue is a byte stream: resetting, compacting and growing   *)
(* it in place neither reorders, repeats nor drops what is unread, and a   *)
(* message is refused only when the queue may not grow any more.           *)
Stream == INSTANCE ByteStream
            WITH Limit <- GrowLimit,
                 unread <- [k \in 1..Unread |-> rQ[rQi + k - 1]]
ImplementsStream == Stream!StreamSpec

(* The server is sent what was pushed, in that order and without holes, as *)
(* long as no single sQpushBytes is longer than the room in the queue:     *)
(* what it sends then is the queue's stale content.                        *)
SentAsPushed == ~oversize => \A k \in 1..Len(wire) : wire[k] = k
=============================================================================
