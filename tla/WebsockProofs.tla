---------------------------- MODULE WebsockProofs ----------------------------
(***************************************************************************)
(* Websock, proved for queues, messages and pushes of any size: the send   *)
(* queue sends what was pushed, and the receive queue implements the byte  *)
(* stream of ByteStream, also after an error has left its size wrong.      *)
(***************************************************************************)
EXTENDS Websock, FiniteSetTheorems, SequenceTheorems, TLAPS

-----------------------------------------------------------------------------
(* What is queued is what follows the bytes already sent; a channel that   *)
(* is not open yet has nothing queued, and one that is open has room for   *)
(* all of it.  Behind the queue of a closed channel anything may be        *)
(* counted: it never sends again.                                          *)
Queued ==
    /\ sQ \in [0..(SQSize - 1) -> Nat] /\ sQlen \in Nat /\ wire \in Seq(Nat)
    /\ pushed = Len(wire) + sQlen
    /\ readyState \in {"unused", "connecting"} => sQlen = 0
    /\ readyState = "open" => sQlen <= SQSize
    /\ \A k \in 0..(SQSize - 1) : k < sQlen => sQ[k] = Len(wire) + 1 + k
    /\ \A k \in 1..Len(wire) : wire[k] = k

SendInv ==
    /\ readyState \in {"unused", "connecting", "open", "closing", "closed"}
    /\ oversize \in BOOLEAN
    /\ ~oversize => Queued

(* A queue [buf, len, out] in order after a total of n bytes. *)
InOrder(q, n) ==
    /\ q = [buf |-> q.buf, len |-> q.len, out |-> q.out]
    /\ q.buf \in [0..(SQSize - 1) -> Nat] /\ q.len \in Nat /\ q.out \in Seq(Nat)
    /\ n = Len(q.out) + q.len
    /\ \A k \in 0..(SQSize - 1) : k < q.len => q.buf[k] = Len(q.out) + 1 + k
    /\ \A k \in 1..Len(q.out) : q.out[k] = k

LEMMA QueueInOrder ==
    ASSUME SendInv, ~oversize
    PROVE  /\ InOrder(SendQueue, pushed)
           /\ readyState = "open" => SendQueue.len <= SQSize
BY DEF SendInv, Queued, SendQueue, InOrder

LEMMA FlushedInOrder ==
    ASSUME NEW q, NEW n, InOrder(q, n), readyState = "open" => q.len <= SQSize
    PROVE  /\ InOrder(Flushed(q), n)
           /\ Flushed(q).len <= q.len
           /\ readyState = "open" => Flushed(q).len = 0
<1>1. CASE q.len > 0 /\ readyState = "open"
  <2> DEFINE c == Contents(q.buf, q.len)
  <2>1. q.len \in Nat /\ q.len <= SQSize /\ SQSize \in Nat /\ q.out \in Seq(Nat)
    BY <1>1, SQAssumption DEF InOrder
  <2>2. c \in [1..q.len -> Nat] /\ \A k \in 1..q.len : c[k] = Len(q.out) + k
    <3>1. \A k \in 1..q.len : k - 1 \in 0..(SQSize - 1) /\ k - 1 < q.len
      BY <2>1
    <3>2. \A k \in 1..q.len : q.buf[k - 1] \in Nat /\ q.buf[k - 1] = Len(q.out) + 1 + (k - 1)
      BY <3>1 DEF InOrder
    <3>. QED BY <2>1, <3>2 DEF Contents
  <2>. HIDE DEF c
  <2>3. c \in Seq(Nat) /\ Len(c) = q.len
    BY <2>1, <2>2
  <2>4. /\ q.out \o c \in Seq(Nat) /\ Len(q.out \o c) = Len(q.out) + q.len
        /\ \A k \in 1..Len(q.out \o c) : (q.out \o c)[k] = k
    <3>1. /\ q.out \o c \in Seq(Nat) /\ Len(q.out \o c) = Len(q.out) + Len(c)
          /\ \A k \in 1..Len(q.out) + Len(c) :
                (q.out \o c)[k] = IF k <= Len(q.out) THEN q.out[k] ELSE c[k - Len(q.out)]
      BY <2>1, <2>3, ConcatProperties, Zenon
    <3>2. Len(q.out) \in Nat /\ \A k \in 1..Len(q.out) : q.out[k] = k
      BY <2>1 DEF InOrder
    <3>3. ASSUME NEW k \in 1..Len(q.out) + q.len PROVE (q.out \o c)[k] = k
      <4>1. CASE k <= Len(q.out)
        BY <2>1, <2>3, <3>1, <3>2, <4>1
      <4>2. CASE ~(k <= Len(q.out))
        <5>1. k - Len(q.out) \in 1..q.len
          BY <2>1, <3>2, <4>2
        <5>. QED BY <2>1, <2>2, <2>3, <3>1, <3>2, <4>2, <5>1
      <4>. QED BY <4>1, <4>2
    <3>. QED BY <2>3, <3>1, <3>3
  <2>5. Flushed(q) = [buf |-> q.buf, len |-> 0, out |-> q.out \o c]
    BY <1>1 DEF Flushed, c
  <2>. QED BY <2>1, <2>4, <2>5 DEF InOrder
<1>2. CASE ~(q.len > 0 /\ readyState = "open")
  <2>1. Flushed(q) = q /\ q.len \in Nat
    BY <1>2 DEF Flushed, InOrder
  <2>. QED BY <1>2, <2>1
<1>. QED BY <1>1, <1>2

LEMMA EnsuredInOrder ==
    ASSUME NEW q, NEW n, NEW b \in Nat, InOrder(q, n), readyState = "open" => q.len <= SQSize
    PROVE  /\ InOrder(EnsureSpace(q, b), n)
           /\ readyState = "open" /\ b <= SQSize => EnsureSpace(q, b).len + b <= SQSize
<1>1. SQSize \in Nat /\ q.len \in Nat
  BY SQAssumption DEF InOrder
<1>. QED BY <1>1, FlushedInOrder DEF EnsureSpace

LEMMA Extended ==
    ASSUME NEW q, NEW n, InOrder(q, n), NEW x, NEW b
    PROVE  [q EXCEPT !.buf = x, !.len = @ + b] = [buf |-> x, len |-> q.len + b, out |-> q.out]
<1>1. PICK buf, len, out : q = [buf |-> buf, len |-> len, out |-> out]
  BY DEF InOrder
<1> DEFINE one == [q EXCEPT !.buf = x]
           two == [one EXCEPT !.len = @ + b]
<1>2. one = [buf |-> x, len |-> len, out |-> out] /\ q.len = len /\ q.out = out
  BY <1>1
<1>. HIDE DEF one
<1>3. two = [buf |-> x, len |-> q.len + b, out |-> q.out]
  BY <1>2
<1>. QED BY <1>3 DEF one, two

(* b bytes written behind the queue, those that do not fit only counted. *)
LEMMA PutInOrder ==
    ASSUME NEW q, NEW n \in Nat, NEW b \in Nat, InOrder(q, n)
    PROVE  InOrder([buf |-> Put(q, n + 1, b), len |-> q.len + b, out |-> q.out], n + b)
<1> DEFINE new == Put(q, n + 1, b)
<1>1. q.len \in Nat /\ Len(q.out) \in Nat /\ n = Len(q.out) + q.len /\ SQSize \in Nat
  BY SQAssumption DEF InOrder
<1>2. /\ DOMAIN q.buf = 0..(SQSize - 1)
      /\ \A k \in 0..(SQSize - 1) : q.buf[k] \in Nat
  BY DEF InOrder
<1>3. new \in [0..(SQSize - 1) -> Nat]
  BY <1>1, <1>2 DEF Put
<1>4. \A k \in 0..(SQSize - 1) : k < q.len + b => new[k] = Len(q.out) + 1 + k
  <2>. SUFFICES ASSUME NEW k \in 0..(SQSize - 1), k < q.len + b
                PROVE  new[k] = Len(q.out) + 1 + k
    OBVIOUS
  <2>1. CASE k < q.len
    <3>1. new[k] = q.buf[k]
      BY <1>1, <1>2, <2>1 DEF Put
    <3>. QED BY <2>1, <3>1 DEF InOrder
  <2>2. CASE ~(k < q.len)
    <3>1. k \in q.len..(q.len + b - 1)
      BY <1>1, <2>2
    <3>2. new[k] = (n + 1) + (k - q.len)
      BY <1>2, <3>1 DEF Put
    <3>. QED BY <1>1, <3>2
  <2>. QED BY <2>1, <2>2
<1>. HIDE DEF new
<1>5. InOrder([buf |-> new, len |-> q.len + b, out |-> q.out], n + b)
  BY <1>1, <1>3, <1>4 DEF InOrder
<1>. QED BY <1>5 DEF new

LEMMA PutQueueInOrder ==
    ASSUME NEW q, InOrder(q, pushed'), PutQueue(q), UNCHANGED readyState,
           readyState \in {"open", "closing", "closed"},
           readyState = "open" => q.len <= SQSize
    PROVE  Queued'
BY DEF PutQueue, InOrder, Queued

LEMMA SendInvInit == WsInit => SendInv
<1>. SUFFICES ASSUME WsInit PROVE SendInv
  OBVIOUS
<1>1. sQ \in [0..(SQSize - 1) -> Nat] /\ wire = <<>> /\ sQlen = 0 /\ pushed = 0
  BY DEF WsInit, Buffer
<1>2. Queued
  BY <1>1, SQAssumption DEF Queued
<1>. QED BY <1>2 DEF WsInit, SendInv

LEMMA PushIntSends ==
    ASSUME SendInv, NEW n \in IntSizes, PushInt(n)
    PROVE  SendInv'
<1>1. /\ n \in Nat /\ n <= SQSize /\ SQSize \in Nat
      /\ readyState \in {"open", "closing", "closed"} /\ UNCHANGED <<oversize, readyState>>
  BY SQAssumption DEF PushInt, CanPush, chanVars
<1>2. CASE ~oversize
  <2> DEFINE q == EnsureSpace(SendQueue, n)
  <2>1. InOrder(q, pushed) /\ (readyState = "open" => q.len + n <= SQSize) /\ pushed \in Nat
    <3>1. InOrder(SendQueue, pushed) /\ (readyState = "open" => SendQueue.len <= SQSize)
      BY <1>2, QueueInOrder
    <3>. HIDE DEF q
    <3>2. InOrder(q, pushed) /\ (readyState = "open" /\ n <= SQSize => q.len + n <= SQSize)
      BY <1>1, <3>1, EnsuredInOrder DEF q
    <3>3. pushed \in Nat
      BY <1>2 DEF SendInv, Queued
    <3>. QED BY <1>1, <3>2, <3>3
  <2>2. PutQueue([q EXCEPT !.buf = Put(q, pushed + 1, n), !.len = @ + n]) /\ pushed' = pushed + n
    BY DEF PushInt
  <2>. HIDE DEF q
  <2>3. [q EXCEPT !.buf = Put(q, pushed + 1, n), !.len = @ + n]
            = [buf |-> Put(q, pushed + 1, n), len |-> q.len + n, out |-> q.out]
    BY <2>1, Extended
  <2>4. Queued'
    BY <1>1, <2>1, <2>2, <2>3, PutInOrder, PutQueueInOrder
  <2>. QED BY <1>1, <2>4 DEF SendInv
<1>3. CASE oversize
  BY <1>1, <1>3 DEF SendInv
<1>. QED BY <1>2, <1>3

LEMMA PushBytesSends ==
    ASSUME SendInv, NEW n \in 1..MaxPushed, PushBytes(n)
    PROVE  SendInv'
<1>1. /\ n \in Nat /\ SQSize \in Nat \ {0}
      /\ readyState \in {"open", "closing", "closed"} /\ UNCHANGED readyState
  BY SQAssumption DEF PushBytes, CanPush, chanVars
<1>2. CASE ~oversize'
  <2> DEFINE q == EnsureSpace(SendQueue, 1)
  <2>1. /\ ~oversize /\ UNCHANGED oversize /\ n <= SQSize - q.len
        /\ PutQueue(PushChunk(q, 0, n)) /\ pushed' = pushed + n
    BY <1>2 DEF PushBytes, SendInv
  <2>2. InOrder(q, pushed) /\ pushed \in Nat
    <3>1. InOrder(SendQueue, pushed) /\ (readyState = "open" => SendQueue.len <= SQSize)
      BY <2>1, QueueInOrder
    <3>. HIDE DEF q
    <3>2. InOrder(q, pushed)
      BY <3>1, EnsuredInOrder DEF q
    <3>3. pushed \in Nat
      BY <2>1 DEF SendInv, Queued
    <3>. QED BY <3>2, <3>3
  <2>3. q.len \in Nat /\ Chunk(q, 0, n) = n /\ Copied(0, n) = n
    BY <1>1, <2>1, <2>2 DEF InOrder, Chunk, Copied, Smaller, Larger
  <2>. HIDE DEF q
  <2>4. PushChunk(q, 0, n) = [ buf |-> Put(q, pushed + 1 + 0, Copied(0, Chunk(q, 0, n))),
                               len |-> q.len + Chunk(q, 0, n), out |-> q.out ]
    BY <2>2, Extended DEF PushChunk
  <2>5. PushChunk(q, 0, n) = [buf |-> Put(q, pushed + 1, n), len |-> q.len + n, out |-> q.out]
    <3>1. pushed + 1 + 0 = pushed + 1
      BY <2>2
    <3>. QED BY <2>3, <2>4, <3>1
  <2>6. q.len + n <= SQSize
    BY <1>1, <2>1, <2>3
  <2>7. Queued'
    BY <1>1, <2>1, <2>2, <2>5, <2>6, PutInOrder, PutQueueInOrder
  <2>. QED BY <1>1, <2>1, <2>7 DEF SendInv
<1>3. CASE oversize'
  BY <1>1, <1>3 DEF SendInv
<1>. QED BY <1>2, <1>3

LEMMA NextSends ==
    ASSUME SendInv, [WsNext]_wsVars
    PROVE  SendInv'
<1>1. CASE Channel
  <2>1. UNCHANGED <<sQ, sQlen, wire, pushed, oversize>>
    BY <1>1 DEF Channel, Attach, ChannelMoves, Opened, PeerCloses, Closed, Close, sendVars
  <2>2. /\ readyState' \in {"unused", "connecting", "open", "closing", "closed"}
        /\ readyState' \in {"unused", "connecting"} => readyState \in {"unused", "connecting"}
        /\ readyState' = "open" => readyState \in {"connecting", "open"}
    BY <1>1 DEF Channel, Attach, ChannelMoves, Opened, PeerCloses, Closed, Close, SendInv
  <2>3. Queued => Queued'
    BY <2>1, <2>2, SQAssumption DEF Queued
  <2>. QED BY <2>1, <2>2, <2>3 DEF SendInv
<1>2. CASE Receive \/ Read \/ UNCHANGED wsVars
  BY <1>2 DEF Receive, RecvInPlace, RecvExpanded, RecvLost, Read, ReadFrame, wsVars, chanVars,
              sendVars, SendInv, Queued
<1>3. CASE Push
  BY <1>3, PushIntSends, PushBytesSends DEF Push
<1>4. CASE Flush
  <2>1. /\ readyState = "open" /\ UNCHANGED <<pushed, oversize, readyState>>
        /\ PutQueue(Flushed(SendQueue))
    BY <1>4 DEF Flush, chanVars
  <2>2. CASE ~oversize
    <3>1. InOrder(SendQueue, pushed) /\ SendQueue.len <= SQSize
      BY <2>1, <2>2, QueueInOrder
    <3>2. InOrder(Flushed(SendQueue), pushed) /\ Flushed(SendQueue).len = 0
      BY <2>1, <3>1, FlushedInOrder
    <3>3. Queued'
      BY <2>1, <3>2, SQAssumption, PutQueueInOrder
    <3>. QED BY <2>1, <3>3 DEF SendInv
  <2>3. CASE oversize
    BY <2>1, <2>3 DEF SendInv
  <2>. QED BY <2>2, <2>3
<1>. QED BY <1>1, <1>2, <1>3, <1>4 DEF WsNext

(* As long as no push has been longer than the room there was, the server  *)
(* is sent what was pushed, in that order, without holes or repetitions,   *)
(* whenever the queue is flushed and whenever the channel closes.          *)
THEOREM SentAsPushedAlways == WsSpec => []SentAsPushed
<1>1. SendInv => SentAsPushed
  BY DEF SendInv, Queued, SentAsPushed
<1>2. SendInv /\ [WsNext]_wsVars => SendInv'
  BY NextSends
<1>. QED BY <1>1, <1>2, SendInvInit, PTL DEF WsSpec
-----------------------------------------------------------------------------
(* The receive queue.  Its size is what the code believes it to be, except *)
(* after an expansion that failed: then the code believes in the limit.    *)
RecvInv ==
    /\ Capacity(rQ) \in 1..GrowLimit
    /\ rQ \in [0..(Capacity(rQ) - 1) -> Nat]
    /\ rQi \in Nat /\ rQlen \in Nat /\ rQi <= rQlen /\ rQlen <= Capacity(rQ)
    /\ rQbufferSize = Capacity(rQ) \/ (gap /\ rQbufferSize = GrowLimit)
    /\ arrived \in Nat

Size(cap) == 0..(cap - 1)

LEMMA CapacityOf ==
    ASSUME NEW n \in Nat, NEW buf, DOMAIN buf = Size(n)
    PROVE  Capacity(buf) = n
BY FS_Interval DEF Capacity, Size

(* What is unread, in a buffer from place i up to place j. *)
Window(buf, i, j) == [k \in 1..(j - i) |-> buf[i + k - 1]]

LEMMA FunSeq ==
    ASSUME NEW n \in Nat, NEW s \in [1..n -> Nat]
    PROVE  s \in Seq(Nat) /\ Len(s) = n
OBVIOUS

LEMMA WindowIs ==
    ASSUME NEW cap \in Nat, NEW buf \in [Size(cap) -> Nat],
           NEW i \in Nat, NEW j \in Nat, i <= j, j <= cap
    PROVE  Window(buf, i, j) \in Seq(Nat) /\ Len(Window(buf, i, j)) = j - i
<1>1. \A k \in 1..(j - i) : i + k - 1 \in Size(cap)
  BY DEF Size
<1>2. \A k \in 1..(j - i) : buf[i + k - 1] \in Nat
  BY <1>1
<1>3. Window(buf, i, j) \in [1..(j - i) -> Nat]
  BY <1>2 DEF Window
<1>4. j - i \in Nat
  OBVIOUS
<1>. QED BY <1>3, <1>4, FunSeq

LEMMA SameSeq ==
    ASSUME NEW s \in Seq(Nat), NEW t \in Seq(Nat), Len(s) = Len(t),
           \A k \in 1..Len(s) : s[k] = t[k]
    PROVE  s = t
BY SeqEqual

(* Taking from the front. *)
Rest(s, n) == SubSeq(s, n + 1, Len(s))

LEMMA WindowTaken ==
    ASSUME NEW cap \in Nat, NEW buf \in [Size(cap) -> Nat],
           NEW i \in Nat, NEW j \in Nat, NEW n \in Nat, i <= j, j <= cap, n <= j - i
    PROVE  Window(buf, i + n, j) = Rest(Window(buf, i, j), n)
<1> DEFINE s == Window(buf, i, j)
           t == Window(buf, i + n, j)
<1>1. s \in Seq(Nat) /\ Len(s) = j - i /\ \A k \in 1..(j - i) : s[k] = buf[i + k - 1]
  <2>1. s \in Seq(Nat) /\ Len(s) = j - i
    BY WindowIs
  <2>2. \A k \in 1..(j - i) : s[k] = buf[i + k - 1]
    BY DEF Window
  <2>. QED BY <2>1, <2>2
<1>2. i + n \in Nat /\ i + n <= j
  OBVIOUS
<1>3. /\ t \in Seq(Nat) /\ Len(t) = j - (i + n)
      /\ \A k \in 1..(j - (i + n)) : t[k] = buf[i + n + k - 1]
  <2>1. t \in Seq(Nat) /\ Len(t) = j - (i + n)
    BY <1>2, WindowIs
  <2>2. \A k \in 1..(j - (i + n)) : t[k] = buf[i + n + k - 1]
    BY DEF Window
  <2>. QED BY <2>1, <2>2
<1>. HIDE DEF s, t
<1>4. \A k \in 1..(j - (i + n)) : n + k \in 1..(j - i) /\ t[k] = s[n + k]
  <2>. SUFFICES ASSUME NEW k \in 1..(j - (i + n))
                PROVE  n + k \in 1..(j - i) /\ t[k] = s[n + k]
    OBVIOUS
  <2>1. n + k \in 1..(j - i) /\ i + (n + k) - 1 = i + n + k - 1
    OBVIOUS
  <2>. QED BY <1>1, <1>3, <2>1
<1>5. /\ SubSeq(s, n + 1, Len(s)) \in Seq(Nat)
      /\ Len(SubSeq(s, n + 1, Len(s))) = j - (i + n)
      /\ \A k \in 1..(j - (i + n)) : SubSeq(s, n + 1, Len(s))[k] = s[n + k]
  BY <1>1
<1>6. t = SubSeq(s, n + 1, Len(s))
  BY <1>3, <1>4, <1>5, SameSeq
<1>. QED BY <1>6 DEF s, t, Rest

(* Adding the next n bytes at the end: the window grows by exactly them,   *)
(* if what was unread is where it was or at the start of the new buffer.   *)
Message(n) == [k \in 1..n |-> arrived + k]

LEMMA WindowGrown ==
    ASSUME NEW s \in Seq(Nat), arrived \in Nat, NEW n \in Nat,
           NEW cap \in Nat, NEW buf \in [Size(cap) -> Nat],
           NEW i \in Nat, i + Len(s) + n <= cap,
           \A k \in 1..Len(s) : buf[i + k - 1] = s[k]
    PROVE  /\ Written(buf, i + Len(s), n) \in [Size(cap) -> Nat]
           /\ Window(Written(buf, i + Len(s), n), i, i + Len(s) + n) = s \o Message(n)
<1> DEFINE new == Written(buf, i + Len(s), n)
           w   == Window(new, i, i + Len(s) + n)
           m   == Message(n)
<1>1. Len(s) \in Nat
  OBVIOUS
<1>2. /\ new \in [Size(cap) -> Nat]
      /\ \A k \in Size(cap) : k < i + Len(s) => new[k] = buf[k]
      /\ \A k \in Size(cap) : k \in (i + Len(s))..(i + Len(s) + n - 1) =>
             new[k] = arrived + (k - (i + Len(s))) + 1
  BY <1>1 DEF Written, Size
<1>. HIDE DEF new
<1>3. /\ w \in Seq(Nat) /\ Len(w) = Len(s) + n
      /\ \A k \in 1..(Len(s) + n) : w[k] = new[i + k - 1] /\ i + k - 1 \in Size(cap)
  <2>1. i + Len(s) + n \in Nat /\ i <= i + Len(s) + n /\ i + Len(s) + n - i = Len(s) + n
    BY <1>1
  <2>2. w \in Seq(Nat) /\ Len(w) = i + Len(s) + n - i
    BY <1>2, <2>1, WindowIs
  <2>3. \A k \in 1..(i + Len(s) + n - i) : w[k] = new[i + k - 1]
    BY DEF Window
  <2>4. \A k \in 1..(Len(s) + n) : i + k - 1 \in Size(cap)
    BY <1>1 DEF Size
  <2>. QED BY <2>1, <2>2, <2>3, <2>4
<1>4. m \in Seq(Nat) /\ Len(m) = n /\ \A k \in 1..n : m[k] = arrived + k
  BY DEF Message
<1>. HIDE DEF w, m
<1>5. /\ s \o m \in Seq(Nat) /\ Len(s \o m) = Len(s) + Len(m)
      /\ \A k \in 1..Len(s) + Len(m) :
            (s \o m)[k] = IF k <= Len(s) THEN s[k] ELSE m[k - Len(s)]
  BY <1>4, ConcatProperties, Zenon
<1>6. ASSUME NEW k \in 1..(Len(s) + n) PROVE w[k] = (s \o m)[k]
  <2>1. CASE k <= Len(s)
    <3>1. i + k - 1 \in Size(cap) /\ i + k - 1 < i + Len(s) /\ k \in 1..Len(s)
      BY <1>1, <1>3, <2>1
    <3>2. w[k] = buf[i + k - 1]
      BY <1>2, <1>3, <3>1
    <3>. QED BY <1>4, <1>5, <2>1, <3>1, <3>2
  <2>2. CASE ~(k <= Len(s))
    <3>1. i + k - 1 \in (i + Len(s))..(i + Len(s) + n - 1) /\ k - Len(s) \in 1..n
      BY <1>1, <2>2
    <3>2. w[k] = arrived + ((i + k - 1) - (i + Len(s))) + 1
      BY <1>2, <1>3, <3>1
    <3>3. w[k] = arrived + (k - Len(s))
      BY <1>1, <3>2
    <3>. QED BY <1>4, <1>5, <2>2, <3>1, <3>3
  <2>. QED BY <2>1, <2>2
<1>7. w = s \o m
  BY <1>3, <1>4, <1>5, <1>6, SameSeq
<1>. QED BY <1>2, <1>7 DEF new, w, m

LEMMA Headway ==
    ASSUME NEW x \in Nat
    PROVE  x * Headroom \in Nat /\ x * Headroom >= 2 * x
<1>1. Headroom \in Nat /\ Headroom >= 2
  BY RQAssumption
<1>2. PICK h \in Nat : Headroom = 2 + h
  BY <1>1
<1>3. x * h \in Nat /\ x * (2 + h) = 2 * x + x * h
  OBVIOUS
<1>. QED BY <1>2, <1>3

UnreadNow == Window(rQ, rQi, rQlen)

(* What every step of the receive queue starts from. *)
LEMMA Indices ==
    ASSUME RecvInv
    PROVE  /\ Capacity(rQ) \in Nat /\ Capacity(rQ) <= GrowLimit /\ Capacity(rQ) >= 1
           /\ GrowLimit \in Nat
           /\ rQi \in Nat /\ rQlen \in Nat /\ rQi <= rQlen /\ rQlen <= Capacity(rQ)
           /\ rQbufferSize \in Nat /\ rQbufferSize >= 1 /\ rQbufferSize <= GrowLimit
           /\ Unread \in Nat /\ Unread = rQlen - rQi /\ Unread <= Capacity(rQ)
           /\ Start \in Nat /\ End \in Nat /\ End <= Capacity(rQ) /\ End = Start + Unread
<1>1. /\ Capacity(rQ) \in Nat /\ Capacity(rQ) <= GrowLimit /\ Capacity(rQ) >= 1
      /\ rQi \in Nat /\ rQlen \in Nat /\ rQi <= rQlen /\ rQlen <= Capacity(rQ)
      /\ GrowLimit \in Nat
  BY RQAssumption DEF RecvInv
<1>2. rQbufferSize \in Nat /\ rQbufferSize >= 1 /\ rQbufferSize <= GrowLimit
  BY <1>1 DEF RecvInv
<1>3. /\ Unread \in Nat /\ Unread = rQlen - rQi /\ Unread <= Capacity(rQ)
      /\ Start \in Nat /\ End \in Nat /\ End <= Capacity(rQ) /\ End = Start + Unread
  BY <1>1 DEF Unread, Start, End
<1>. QED BY <1>1, <1>2, <1>3

LEMMA Buffered ==
    ASSUME RecvInv
    PROVE  rQ \in [Size(Capacity(rQ)) -> Nat] /\ DOMAIN rQ = Size(Capacity(rQ))
BY DEF RecvInv, Size

LEMMA UnreadIs ==
    ASSUME RecvInv
    PROVE  /\ UnreadNow \in Seq(Nat) /\ Len(UnreadNow) = Unread
           /\ \A k \in 1..Unread : UnreadNow[k] = rQ[rQi + k - 1]
<1>1. UnreadNow \in Seq(Nat) /\ Len(UnreadNow) = Unread
  BY Indices, Buffered, WindowIs DEF UnreadNow
<1>2. \A k \in 1..Unread : UnreadNow[k] = rQ[rQi + k - 1]
  BY DEF UnreadNow, Window, Unread
<1>. QED BY <1>1, <1>2

LEMMA RecvInvInit == WsInit => RecvInv /\ UnreadNow = <<>>
<1>. SUFFICES ASSUME WsInit PROVE RecvInv /\ UnreadNow = <<>>
  OBVIOUS
<1>1. InitialRQ \in Nat /\ DOMAIN rQ = Size(InitialRQ)
  BY RQAssumption DEF WsInit, Buffer, Size
<1>2. Capacity(rQ) = InitialRQ
  BY <1>1, CapacityOf
<1>3. rQ \in [0..(InitialRQ - 1) -> Nat]
  BY DEF WsInit, Buffer
<1>4. RecvInv
  BY <1>2, <1>3, RQAssumption DEF WsInit, RecvInv
<1>5. UnreadNow \in Seq(Nat) /\ Len(UnreadNow) = 0
  BY <1>4, UnreadIs DEF WsInit, Unread
<1>. QED BY <1>4, <1>5

(* A message of n bytes has arrived behind what is unread, in a buffer of  *)
(* its own or the old one, from place i on.                                *)
LEMMA Delivered ==
    ASSUME RecvInv, NEW n \in Nat, NEW cap \in Nat, NEW buf \in [Size(cap) -> Nat],
           1 <= cap, cap <= GrowLimit, NEW i \in Nat, i + Unread + n <= cap,
           \A k \in 1..Unread : buf[i + k - 1] = UnreadNow[k],
           rQ' = Written(buf, i + Unread, n), rQi' = i, rQlen' = i + Unread + n,
           arrived' = arrived + n, UNCHANGED gap,
           rQbufferSize' = cap \/ (gap /\ rQbufferSize' = GrowLimit)
    PROVE  RecvInv' /\ Stream!Deliver(n)
<1>1. UnreadNow \in Seq(Nat) /\ Len(UnreadNow) = Unread /\ Unread \in Nat
  BY Indices, UnreadIs
<1>2. arrived \in Nat
  BY DEF RecvInv
<1>3. /\ rQ' \in [Size(cap) -> Nat]
      /\ Window(rQ', i, i + Unread + n) = UnreadNow \o Message(n)
  <2>1. /\ Written(buf, i + Len(UnreadNow), n) \in [Size(cap) -> Nat]
        /\ Window(Written(buf, i + Len(UnreadNow), n), i, i + Len(UnreadNow) + n)
               = UnreadNow \o Message(n)
    <3>1. /\ i + Len(UnreadNow) + n <= cap
          /\ \A k \in 1..Len(UnreadNow) : buf[i + k - 1] = UnreadNow[k]
      BY <1>1
    <3>2. ASSUME NEW s \in Seq(Nat), i + Len(s) + n <= cap,
                 \A k \in 1..Len(s) : buf[i + k - 1] = s[k]
          PROVE  /\ Written(buf, i + Len(s), n) \in [Size(cap) -> Nat]
                 /\ Window(Written(buf, i + Len(s), n), i, i + Len(s) + n) = s \o Message(n)
      BY <1>2, <3>2, WindowGrown
    <3>. QED BY <1>1, <3>1, <3>2
  <2>. QED BY <1>1, <2>1
<1>4. Capacity(rQ') = cap
  BY <1>3, CapacityOf
<1>5. RecvInv'
  <2>1. PICK c : c = Capacity(rQ')
    OBVIOUS
  <2>2. c = cap /\ c \in 1..GrowLimit
    BY <1>4, <2>1, RQAssumption
  <2>3. rQ' \in [0..(c - 1) -> Nat]
    BY <1>3, <2>2 DEF Size
  <2>4. rQi' \in Nat /\ rQlen' \in Nat /\ rQi' <= rQlen' /\ rQlen' <= c
    BY <1>1, <2>2
  <2>5. arrived' \in Nat
    BY <1>2
  <2>6. rQbufferSize' = c \/ (gap' /\ rQbufferSize' = GrowLimit)
    BY <2>2
  <2>. QED BY <2>1, <2>2, <2>3, <2>4, <2>5, <2>6 DEF RecvInv
<1>6. Stream!Deliver(n)
  <2>1. UnreadNow' = UnreadNow \o Message(n)
    BY <1>3 DEF UnreadNow
  <2>. QED BY <2>1 DEF UnreadNow, Window, Unread, Message, Stream!Deliver
<1>. QED BY <1>5, <1>6

LEMMA InPlaceDelivers ==
    ASSUME RecvInv, NEW n \in 0..MaxMsg, RecvInPlace(n)
    PROVE  RecvInv' /\ Stream!Deliver(n)
<1>1. n \in Nat
  BY RQAssumption
<1>2. \A k \in 1..Unread : rQ[Start + k - 1] = UnreadNow[k]
  <2>1. \A k \in 1..Unread : Start = rQi
    BY Indices DEF Start
  <2>. QED BY <2>1, Indices, UnreadIs
<1>3. /\ rQ' = Written(rQ, Start + Unread, n) /\ rQi' = Start /\ rQlen' = Start + Unread + n
      /\ arrived' = arrived + n /\ UNCHANGED gap /\ Start + Unread + n <= Capacity(rQ)
      /\ rQbufferSize' = rQbufferSize
  BY Indices DEF RecvInPlace
<1>4. rQbufferSize' = Capacity(rQ) \/ (gap /\ rQbufferSize' = GrowLimit)
  BY <1>3 DEF RecvInv
<1>5. /\ Capacity(rQ) \in Nat /\ rQ \in [Size(Capacity(rQ)) -> Nat]
      /\ 1 <= Capacity(rQ) /\ Capacity(rQ) <= GrowLimit /\ Start \in Nat
  BY Indices, Buffered
<1>. QED BY <1>1, <1>2, <1>3, <1>4, <1>5, Delivered

(* What is unread, at the start of a buffer with room for n more.          *)
LEMMA ExpandedHasRoom ==
    ASSUME RecvInv, NEW n \in Nat, n > rQbufferSize - End, Fits(n)
    PROVE  \E cap \in Nat :
              /\ 1 <= cap /\ cap <= GrowLimit /\ Unread + n <= cap
              /\ Compacted(n) \in [Size(cap) -> Nat]
              /\ \A k \in 1..Unread : Compacted(n)[k - 1] = UnreadNow[k]
              /\ NewSize(n) = cap \/ (gap /\ NewSize(n) = GrowLimit)
<1>. DEFINE x == Unread + n
<1>1. x \in Nat /\ x * Headroom \in Nat /\ x * Headroom >= 2 * x
  BY Indices, Headway
<1>2. \A k \in 1..Unread : k - 1 < Unread /\ rQi + (k - 1) = rQi + k - 1
  BY Indices
<1>3. \A k \in 0..(Unread - 1) : rQi + k \in Size(Capacity(rQ)) /\ rQ[rQi + k] \in Nat
  <2>1. \A k \in 0..(Unread - 1) : rQi + k \in Size(Capacity(rQ))
    BY Indices DEF Size
  <2>. QED BY <2>1, Indices, Buffered
<1>4. CASE Resize(n)
  <2> DEFINE cap == NewSize(n)
  <2>1. WantedSize(n) = Larger(2 * rQbufferSize, x * Headroom)
    BY <1>4 DEF WantedSize
  <2>2. /\ WantedSize(n) \in Nat /\ WantedSize(n) >= 1 /\ WantedSize(n) >= 2 * x
    BY <1>1, <2>1, Indices DEF Larger
  <2>3. /\ cap \in Nat /\ 1 <= cap /\ cap <= GrowLimit /\ x <= cap
    <3>1. \/ cap = WantedSize(n) /\ WantedSize(n) <= GrowLimit
          \/ cap = GrowLimit
      BY <2>2, Indices DEF NewSize, Smaller
    <3>2. CASE WantedSize(n) <= GrowLimit
      BY <1>1, <2>2, <3>1, <3>2, Indices DEF NewSize, Smaller
    <3>3. CASE cap - Unread >= n
      BY <1>1, <2>2, <3>1, <3>3, Indices
    <3>. QED BY <3>2, <3>3 DEF Fits
  <2>. HIDE DEF cap
  <2>4. Compacted(n) = [k \in Size(cap) |-> IF k < Unread THEN rQ[rQi + k] ELSE 0]
    BY <1>4 DEF Compacted, Size, cap
  <2>5. Compacted(n) \in [Size(cap) -> Nat]
    <3>1. \A k \in Size(cap) : k < Unread => k \in 0..(Unread - 1)
      BY <2>3, Indices DEF Size
    <3>. QED BY <1>3, <2>4, <3>1
  <2>6. \A k \in 1..Unread : Compacted(n)[k - 1] = UnreadNow[k]
    <3>1. \A k \in 1..Unread : k - 1 \in Size(cap)
      BY <1>1, <2>3, Indices DEF Size
    <3>2. \A k \in 1..Unread : Compacted(n)[k - 1] = rQ[rQi + (k - 1)]
      BY <1>2, <2>4, <3>1
    <3>. QED BY <1>2, <3>2, Indices, UnreadIs
  <2>. QED BY <2>3, <2>5, <2>6 DEF cap
<1>5. CASE ~Resize(n)
  <2> DEFINE cap == Capacity(rQ)
  <2>1. NewSize(n) = rQbufferSize /\ x * Headroom <= rQbufferSize
    BY <1>1, <1>5, Indices DEF NewSize, WantedSize, Smaller, Resize
  <2>2. x <= cap
    <3>1. CASE rQbufferSize = cap
      BY <1>1, <2>1, <3>1, Indices
    <3>2. CASE rQbufferSize = GrowLimit
      BY <1>1, <2>1, <3>2, Indices
    <3>. QED BY <3>1, <3>2 DEF RecvInv
  <2>. HIDE DEF cap
  <2>3. Compacted(n) = [k \in Size(cap) |-> IF k < Unread THEN rQ[rQi + k] ELSE rQ[k]]
    BY <1>5, Indices, Buffered DEF Compacted, cap
  <2>4. Compacted(n) \in [Size(cap) -> Nat]
    <3>1. \A k \in Size(cap) : k < Unread => k \in 0..(Unread - 1)
      BY Indices DEF Size, cap
    <3>2. \A k \in Size(cap) : rQ[k] \in Nat
      BY Indices, Buffered DEF cap
    <3>. QED BY <1>3, <2>3, <3>1, <3>2
  <2>5. \A k \in 1..Unread : Compacted(n)[k - 1] = UnreadNow[k]
    <3>1. \A k \in 1..Unread : k - 1 \in Size(cap)
      BY Indices DEF Size, cap
    <3>2. \A k \in 1..Unread : Compacted(n)[k - 1] = rQ[rQi + (k - 1)]
      BY <1>2, <2>3, <3>1
    <3>. QED BY <1>2, <3>2, Indices, UnreadIs
  <2>6. NewSize(n) = cap \/ (gap /\ NewSize(n) = GrowLimit)
    BY <2>1 DEF RecvInv, cap
  <2>7. cap \in Nat /\ 1 <= cap /\ cap <= GrowLimit
    BY Indices DEF cap
  <2>. QED BY <2>2, <2>4, <2>5, <2>6, <2>7
<1>. QED BY <1>4, <1>5

LEMMA ExpandedDelivers ==
    ASSUME RecvInv, NEW n \in 0..MaxMsg, RecvExpanded(n)
    PROVE  RecvInv' /\ Stream!Deliver(n)
<1>1. n \in Nat
  BY RQAssumption
<1>2. PICK cap \in Nat :
         /\ 1 <= cap /\ cap <= GrowLimit /\ Unread + n <= cap
         /\ Compacted(n) \in [Size(cap) -> Nat]
         /\ \A k \in 1..Unread : Compacted(n)[k - 1] = UnreadNow[k]
         /\ NewSize(n) = cap \/ (gap /\ NewSize(n) = GrowLimit)
  BY <1>1, ExpandedHasRoom DEF RecvExpanded
<1> DEFINE buf == Compacted(n)
<1>3. /\ 0 \in Nat /\ 0 + Unread + n <= cap
      /\ \A k \in 1..Unread : buf[0 + k - 1] = UnreadNow[k]
  <2>1. \A k \in 1..Unread : 0 + k - 1 = k - 1
    OBVIOUS
  <2>. QED BY <1>1, <1>2, <2>1, Indices
<1>4. /\ rQ' = Written(buf, 0 + Unread, n) /\ rQi' = 0 /\ rQlen' = 0 + Unread + n
      /\ arrived' = arrived + n /\ UNCHANGED gap
      /\ rQbufferSize' = cap \/ (gap /\ rQbufferSize' = GrowLimit)
  BY <1>2, Indices DEF RecvExpanded
<1>. HIDE DEF buf
<1>5. buf \in [Size(cap) -> Nat] /\ 1 <= cap /\ cap <= GrowLimit
  BY <1>2 DEF buf
<1>. QED BY <1>1, <1>3, <1>4, <1>5, Delivered

LEMMA LostLoses ==
    ASSUME RecvInv, NEW n \in 0..MaxMsg, RecvLost(n)
    PROVE  RecvInv' /\ Stream!Lose(n)
<1>1. n \in Nat
  BY RQAssumption
<1>2. /\ rQ' = rQ /\ rQi' = Start /\ rQlen' = End /\ gap' = TRUE /\ arrived' = arrived + n
      /\ Capacity(rQ') = Capacity(rQ)
  BY DEF RecvLost
<1>3. (gap \/ Unread + n > GrowLimit) /\ (rQbufferSize' = rQbufferSize \/ rQbufferSize' = GrowLimit)
  <2>1. CASE n <= rQbufferSize - End /\ End + n > Capacity(rQ) /\ UNCHANGED rQbufferSize
    <3>1. rQbufferSize = Capacity(rQ) \/ gap
      BY DEF RecvInv
    <3>2. rQbufferSize # Capacity(rQ)
      BY <1>1, <2>1, Indices
    <3>. QED BY <2>1, <3>1, <3>2
  <2>2. CASE ~Fits(n) /\ rQbufferSize' = NewSize(n)
    <3>. DEFINE x == Unread + n
    <3>3. x \in Nat /\ x * Headroom \in Nat
      BY <1>1, Indices, Headway
    <3>4. WantedSize(n) \in Nat
      BY <3>3, Indices DEF WantedSize, Larger
    <3>1. NewSize(n) = GrowLimit /\ ~(NewSize(n) - Unread >= n)
      BY <2>2, <3>4, Indices DEF Fits, NewSize, Smaller
    <3>. QED BY <1>1, <2>2, <3>1, Indices
  <2>. QED BY <2>1, <2>2 DEF RecvLost
<1>4. RecvInv'
  <2>1. rQbufferSize' = Capacity(rQ) \/ rQbufferSize' = GrowLimit
    BY <1>3 DEF RecvInv
  <2>2. /\ Start \in Nat /\ End \in Nat /\ Start <= End /\ End <= Capacity(rQ)
        /\ arrived + n \in Nat
    BY <1>1, Indices DEF RecvInv
  <2>. QED BY <1>2, <2>1, <2>2 DEF RecvInv
<1>5. UnreadNow' = UnreadNow
  <2>1. Unread' = Unread
    BY <1>2, Indices DEF Unread
  <2>2. UnreadNow' \in Seq(Nat) /\ UnreadNow \in Seq(Nat)
        /\ Len(UnreadNow') = Unread /\ Len(UnreadNow) = Unread
    <3>1. Len(UnreadNow') = Unread' /\ UnreadNow' \in Seq(Nat)
      <4>1. Start <= End /\ End <= Capacity(rQ)
        BY Indices
      <4>2. Window(rQ, Start, End) \in Seq(Nat) /\ Len(Window(rQ, Start, End)) = End - Start
        BY <4>1, Indices, Buffered, WindowIs
      <4>. QED BY <1>2, <4>2 DEF UnreadNow, Unread
    <3>. QED BY <2>1, <3>1, Indices, UnreadIs
  <2>3. \A k \in 1..Unread : UnreadNow'[k] = UnreadNow[k]
    <3>1. \A k \in 1..Unread : Start = rQi /\ End = rQlen
      BY Indices DEF Start, End
    <3>2. \A k \in 1..Unread : UnreadNow' = UnreadNow
      BY <1>2, <3>1 DEF UnreadNow
    <3>. QED BY <3>2
  <2>. QED BY <2>2, <2>3, SameSeq
<1>6. gap \/ Len(UnreadNow) + n > GrowLimit
  BY <1>3, Indices, UnreadIs
<1>. QED BY <1>2, <1>4, <1>5, <1>6 DEF UnreadNow, Window, Unread, Stream!Lose

LEMMA ReadTakes ==
    ASSUME RecvInv, NEW head \in 1..GrowLimit, NEW body \in 0..GrowLimit, ReadFrame(head, body)
    PROVE  /\ RecvInv'
           /\ UNCHANGED Stream!svars \/ \E n \in 1..GrowLimit : Stream!Take(n)
<1>1. /\ head \in Nat /\ body \in Nat /\ head >= 1 /\ head <= Unread
      /\ UNCHANGED <<rQ, rQlen, rQbufferSize, arrived, gap>>
  BY Indices DEF ReadFrame, Short
<1>2. CASE Short(rQi + head, body)
  <2>1. rQi' = rQi
    BY <1>1, <1>2, Indices DEF ReadFrame, AfterWait
  <2>. QED BY <1>1, <2>1 DEF RecvInv, Unread, Stream!svars
<1>3. CASE ~Short(rQi + head, body)
  <2> DEFINE n == head + body
  <2>1. n \in 1..GrowLimit /\ n \in Nat /\ n <= rQlen - rQi /\ rQi' = rQi + n
    BY <1>1, <1>3, Indices DEF ReadFrame, AfterWait, Short
  <2>. HIDE DEF n
  <2>2. RecvInv'
    BY <1>1, <2>1, Indices DEF RecvInv
  <2>3. UnreadNow' = Rest(UnreadNow, n) /\ n <= Len(UnreadNow)
    <3>1. Window(rQ, rQi + n, rQlen) = Rest(Window(rQ, rQi, rQlen), n)
      BY <2>1, Indices, Buffered, WindowTaken
    <3>. QED BY <1>1, <2>1, <3>1, Indices, UnreadIs DEF UnreadNow
  <2>4. Stream!Take(n)
    BY <1>1, <2>3 DEF UnreadNow, Rest, Window, Unread, Stream!Take
  <2>. QED BY <2>1, <2>2, <2>4
<1>. QED BY <1>2, <1>3

LEMMA NextStreams ==
    ASSUME RecvInv, [WsNext]_wsVars
    PROVE  RecvInv' /\ [Stream!StreamNext]_Stream!svars
<1>1. CASE Receive
  BY <1>1, InPlaceDelivers, ExpandedDelivers, LostLoses DEF Receive, Stream!StreamNext
<1>2. CASE Read
  BY <1>2, ReadTakes DEF Read, Stream!StreamNext
<1>3. CASE UNCHANGED recvVars
  BY <1>3 DEF recvVars, RecvInv, Unread, Stream!svars
<1>4. Channel \/ Push \/ Flush \/ UNCHANGED wsVars => UNCHANGED recvVars
  BY DEF Channel, Attach, ChannelMoves, Opened, PeerCloses, Closed, Close, Push, PushInt,
         PushBytes, Flush, wsVars
<1>. QED BY <1>1, <1>2, <1>3, <1>4 DEF WsNext

(* The receive queue is a byte stream, for queues and messages of any size *)
(* and after errors too: what is read is what arrived, in that order, with *)
(* nothing repeated, and bytes are dropped only when more than the limit   *)
(* would wait, or after that has happened.                                 *)
THEOREM QueueImplementsStream == WsSpec => ImplementsStream
<1>1. WsInit => RecvInv /\ Stream!StreamInit
  <2>. SUFFICES ASSUME WsInit PROVE RecvInv /\ Stream!StreamInit
    OBVIOUS
  <2>1. RecvInv /\ UnreadNow = <<>>
    BY RecvInvInit
  <2>. QED BY <2>1 DEF WsInit, UnreadNow, Window, Unread, Stream!StreamInit
<1>2. RecvInv /\ [WsNext]_wsVars => RecvInv' /\ [Stream!StreamNext]_Stream!svars
  BY NextStreams
<1>. QED BY <1>1, <1>2, PTL DEF WsSpec, ImplementsStream, Stream!StreamSpec
=============================================================================
