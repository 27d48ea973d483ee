-------------------------- MODULE HandshakeProofs --------------------------
(***************************************************************************)
(* Handshake, proved for any set of server versions, offered schemes and   *)
(* credentials the page may have.  Two inductive invariants: what the page *)
(* has been told in every state of the connection, and that the parser's   *)
(* state, what it has not read and what is on its way are together the     *)
(* start of something the protocol allows to be sent at this point.  The   *)
(* lemmas between them are about streams of cells, and about what each     *)
(* kind of message may open.                                               *)
(***************************************************************************)
EXTENDS Handshake, SequenceTheorems, TLAPS

-----------------------------------------------------------------------------
(* The life of the connection. *)

Told ==
    /\ conn \in ConnStates /\ closeOn \in BOOLEAN
    /\ conn = "connecting" => events = <<>>
    /\ conn = "connected" => events = <<"connect">>
    /\ conn = "disconnecting" => events \in {<<>>, <<"connect">>} /\ asked
    /\ conn = "disconnected" =>
         /\ ~closeOn
         /\ \E e \in {<<>>, <<"connect">>}, r \in {"clean", "unclean"} :
               events = Append(e, r) /\ (e = <<>> /\ r = "clean" => asked)

Connects == /\ conn = "connecting" /\ conn' = "connected"
            /\ events' = Append(events, "connect")
            /\ UNCHANGED <<ws, closeOn, clean, asked>>

(* The parser leaves the connection alone, fails it, or finishes it.       *)
LEMMA MachineLife ==
    ASSUME Machine
    PROVE  UNCHANGED lifeVars \/ Fail \/ Connects
<1>1. CASE InitMsg
  <2>1. Waits \/ Asks \/ XvpAuth \/ ClientInitialisation \/ AuthNone \/ AnswersUnasked
           \/ Answers \/ ArdAuth \/ Ra2neAuth => UNCHANGED lifeVars
    BY DEF Waits, Asks, XvpAuth, ClientInitialisation, AuthNone, AnswersUnasked, Answers,
           ArdAuth, Ra2neAuth, Goes
  <2>2. NegotiateProtocolVersion => UNCHANGED lifeVars \/ Fail
    BY DEF NegotiateProtocolVersion, Goes, Fails
  <2>3. NegotiateSecurity => UNCHANGED lifeVars \/ Fail
    BY DEF NegotiateSecurity, Goes, Fails
  <2>4. SecurityReason \/ UnknownScheme => Fail
    BY DEF SecurityReason, UnknownScheme, Fails
  <2>5. SecurityResult => UNCHANGED lifeVars \/ Fail
    BY DEF SecurityResult, Goes, Fails
  <2>6. VeNCryptAuth => UNCHANGED lifeVars \/ Fail
    BY DEF VeNCryptAuth, FallsThrough, Goes, Fails
  <2>7. TightAuth => UNCHANGED lifeVars \/ Fail
    BY DEF TightAuth, Goes, Fails
  <2>8. NegotiateServerInit => Connects
    BY DEF NegotiateServerInit, Connects
  <2> QED
    BY <1>1, <2>1, <2>2, <2>3, <2>4, <2>5, <2>6, <2>7, <2>8 DEF InitMsg
<1>2. ResumeAuthentication \/ ArdComputed => UNCHANGED lifeVars
  BY DEF ResumeAuthentication, ArdComputed
<1>3. ASSUME Ra2Step
      PROVE  UNCHANGED lifeVars \/ Fail
  <2>1. Ra2Key => UNCHANGED lifeVars \/ Fail
    BY DEF Ra2Key, Continues, Throws
  <2>2. Ra2Random => UNCHANGED lifeVars \/ Fail
    BY DEF Ra2Random, Continues, Throws
  <2>3. Ra2Hash => UNCHANGED lifeVars \/ Fail
    BY DEF Ra2Hash, Continues, Throws
  <2>4. Ra2Subtype => UNCHANGED lifeVars \/ Fail
    BY DEF Ra2Subtype, Throws
  <2>5. Ra2Credentials => UNCHANGED lifeVars \/ Fail
    BY DEF Ra2Credentials, Continues
  <2> QED
    BY <1>3, <2>1, <2>2, <2>3, <2>4, <2>5 DEF Ra2Step
<1> QED
  BY <1>1, <1>2, <1>3 DEF Machine

LEMMA ItIsOver ==
    ASSUME Told, conn # "disconnected", NEW r \in {"clean", "unclean"},
           conn' = "disconnected", events' = Append(events, r), closeOn' = FALSE, asked' = asked,
           r = "clean" /\ events = <<>> => asked
    PROVE  Told'
BY DEF Told, ConnStates

LEMMA ToldNext ==
    ASSUME Told, [HsNext]_hsVars
    PROVE  Told'
<1>1. CASE UNCHANGED lifeVars
  BY <1>1 DEF Told, lifeVars
<1>2. CASE Fail
  <2>1. CASE conn = "disconnected"
    BY <1>2, <2>1 DEF Told, Fail
  <2>2. CASE conn # "disconnected"
    BY <1>2, <2>2, ItIsOver DEF Fail
  <2> QED
    BY <2>1, <2>2
<1>3. CASE Connects
  BY <1>3 DEF Told, Connects, ConnStates
<1>4. CASE Disconnect
  BY <1>4 DEF Told, Disconnect, ConnStates
<1>5. CASE DisconnectTimeout
  BY <1>5, ItIsOver DEF Told, DisconnectTimeout, Ends, Outcome
<1>6. CASE SocketClosed
  <2>1. CASE ~closeOn
    BY <1>6, <2>1 DEF Told, SocketClosed
  <2>2. CASE closeOn
    BY <1>6, <2>2, ItIsOver DEF Told, SocketClosed, Ends, Outcome, ConnStates
  <2> QED
    BY <2>1, <2>2
<1>7. SocketOpen \/ ConnectionLost => UNCHANGED <<conn, closeOn, events, asked>>
  BY DEF SocketOpen, ConnectionLost
<1>8. Deliver \/ SendCredentials \/ ApproveServer \/ UNCHANGED hsVars => UNCHANGED lifeVars
  BY DEF Deliver, SendCredentials, ApproveServer, Continues, hsVars
<1>9. CASE UNCHANGED <<conn, closeOn, events, asked>>
  BY <1>9 DEF Told
<1> QED
  BY <1>1, <1>2, <1>3, <1>4, <1>5, <1>6, <1>7, <1>8, <1>9, MachineLife DEF HsNext

(* The page is told of one connect and one disconnect, in this order, the  *)
(* latter when the connection is over, and of a clean end only if it asked *)
(* for one or was connected (rfb.js:843-938).                              *)
THEOREM EventsAlwaysInOrder == HsSpec => []EventsInOrder
<1>1. HsInit => Told
  BY DEF HsInit, Told, ConnStates
<1>2. Told /\ [HsNext]_hsVars => Told'
  BY ToldNext
<1>3. Told => EventsInOrder
  <2> SUFFICES ASSUME Told
               PROVE  EventsInOrder
    OBVIOUS
  <2>1. CASE events = <<>> /\ conn # "disconnected"
    BY <2>1 DEF EventsInOrder
  <2>2. CASE events = <<"connect">> /\ conn # "disconnected"
    BY <2>2 DEF EventsInOrder
  <2>3. ASSUME NEW e \in {<<>>, <<"connect">>}, NEW r \in {"clean", "unclean"},
               conn = "disconnected", events = Append(e, r), e = <<>> /\ r = "clean" => asked
        PROVE  EventsInOrder
    <3>1. events = e \o <<r>> /\ Len(events) = Len(e) + 1 /\ events[Len(events)] = r
      <4>1. PICK T : T = {"connect"}
        OBVIOUS
      <4>2. <<>> \in Seq(T) /\ \A x \in T : <<x>> \in Seq(T)
        OBVIOUS
      <4>3. e \in Seq(T)
        BY <4>1, <4>2
      <4> QED
        BY <2>3, <4>3
    <3>2. events = <<"clean">> => asked
      <4>1. CASE e = <<>>
        BY <2>3, <3>1, <4>1
      <4>2. CASE e = <<"connect">>
        BY <3>1, <4>2
      <4> QED
        BY <4>1, <4>2
    <3>3. Len(events) > 0 /\ events # <<>>
      BY <2>3, <3>1
    <3>4. (conn = "disconnected") = (events # <<>> /\ events[Len(events)] # "connect")
      BY <2>3, <3>1, <3>3
    <3> QED
      BY <2>3, <3>2, <3>4 DEF EventsInOrder
  <2> QED
    BY <2>1, <2>2, <2>3 DEF Told, ConnStates
<1> QED
  BY <1>1, <1>2, <1>3, PTL DEF HsSpec
-----------------------------------------------------------------------------
(* The stream. *)

Kinds == {"rest", "version", "types", "scheme", "reason", "result", "init", "challenge", "dh",
          "ard", "key", "vencrypt", "ack", "count", "list", "tunnels", "subauths", "random",
          "hash", "subtype"}
Values == Known \cup {"", "3.3", "3.7", "3.8", "0.2", "other", "repeater", "empty", "ok", "failed",
                     "refused", "good", "bad", "notunnel", "names", "password"}
Cell == [k : Kinds, v : Values, n : Nat]

(* What is left of the stream, s, is the start of e, all of it while the   *)
(* socket is open.                                                         *)
Follows(s, e, open) == /\ Len(s) <= Len(e) /\ \A i \in 1..Len(s) : s[i] = e[i]
                       /\ open => Len(s) = Len(e)

LEMMA JoinIs ==
    ASSUME NEW s \in Seq(Cell), NEW t \in Seq(Cell)
    PROVE  /\ s \o t \in Seq(Cell) /\ Len(s \o t) = Len(s) + Len(t)
           /\ Len(s) \in Nat /\ Len(t) \in Nat
           /\ \A i \in 1..Len(s) : (s \o t)[i] = s[i]
           /\ \A i \in 1..Len(t) : (s \o t)[Len(s) + i] = t[i]
BY ConcatProperties

LEMMA JoinTwice ==
    ASSUME NEW s \in Seq(Cell), NEW t \in Seq(Cell), NEW u \in Seq(Cell)
    PROVE  (s \o t) \o u = s \o (t \o u)
OBVIOUS

LEMMA PartIs ==
    ASSUME NEW s \in Seq(Cell), NEW m \in 0..Len(s), NEW n \in m..Len(s),
           NEW t, t = SubSeq(s, m + 1, n)
    PROVE  /\ t \in Seq(Cell) /\ Len(t) = n - m
           /\ \A i \in 1..(n - m) : t[i] = s[m + i]
<1>1. m + 1 \in Int /\ n \in Int /\ \A i \in (m + 1)..n : s[i] \in Cell
  BY ElementOfSeq
<1>2. /\ SubSeq(s, m + 1, n) \in Seq(Cell)
      /\ Len(SubSeq(s, m + 1, n)) = IF m + 1 <= n THEN n - (m + 1) + 1 ELSE 0
      /\ \A i \in 1..(n - (m + 1) + 1) : SubSeq(s, m + 1, n)[i] = s[(m + 1) + i - 1]
  BY <1>1, SubSeqProperties
<1> QED
  BY <1>2

LEMMA FollowsItself ==
    ASSUME NEW s \in Seq(Cell), NEW open
    PROVE  Follows(s, s, open)
BY DEF Follows

LEMMA FollowsNothing ==
    ASSUME NEW s \in Seq(Cell), NEW open, Follows(s, <<>>, open)
    PROVE  s = <<>>
BY DEF Follows

(* A closed socket may be left with less. *)
LEMMA CutOff ==
    ASSUME NEW p \in Seq(Cell), NEW s \in Seq(Cell), NEW e \in Seq(Cell), NEW open,
           Follows(p \o s, e, open)
    PROVE  Follows(p \o <<>>, e, FALSE)
BY DEF Follows

LEMMA Answered ==
    ASSUME NEW p \in Seq(Cell), NEW s \in Seq(Cell), NEW e \in Seq(Cell), NEW r \in Seq(Cell),
           NEW open \in BOOLEAN, Follows(p \o s, e, open)
    PROVE  Follows(p \o (IF open THEN s \o r ELSE s), e \o r, open)
<1>1. CASE open
  <2>1. p \o s = e
    <3>1. p \o s \in Seq(Cell)
      BY JoinIs
    <3> QED
      BY <1>1, <3>1, SeqEqual DEF Follows
  <2>2. p \o (s \o r) = e \o r /\ e \o r \in Seq(Cell)
    <3>1. (p \o s) \o r = p \o (s \o r)
      OBVIOUS
    <3>2. e \o r \in Seq(Cell)
      BY JoinIs
    <3> QED
      BY <2>1, <3>1, <3>2
  <2> QED
    BY <1>1, <2>2, FollowsItself
<1>2. CASE ~open
  BY <1>2 DEF Follows
<1> QED
  BY <1>1, <1>2

LEMMA MsgIs ==
    ASSUME NEW kind \in Kinds, NEW value \in Values, NEW n \in Nat
    PROVE  /\ Msg(kind, value, n) \in Seq(Cell)
           /\ Len(Msg(kind, value, n)) = n + 1
           /\ Msg(kind, value, n)[1] = [k |-> kind, v |-> value, n |-> n]
<1>1. PICK h : h = [k |-> kind, v |-> value, n |-> n]
  OBVIOUS
<1>2. PICK t : t = [i \in 1..n |-> [k |-> "rest", v |-> "", n |-> n - i]]
  OBVIOUS
<1>3. h \in Cell
  BY <1>1 DEF Cell
<1>4. t \in Seq(Cell) /\ Len(t) = n
  <2>1. "rest" \in Kinds /\ "" \in Values
    BY DEF Kinds, Values
  <2>2. ASSUME NEW i \in 1..n
        PROVE  t[i] \in Cell
    <3>1. n - i \in Nat
      OBVIOUS
    <3> QED
      BY <1>2, <2>1, <3>1 DEF Cell
  <2>3. t \in [1..n -> Cell]
    BY <1>2, <2>2
  <2> QED
    BY <2>3
<1>5. Msg(kind, value, n) = <<h>> \o t
  BY <1>1, <1>2 DEF Msg
<1> QED
  BY <1>1, <1>3, <1>4, <1>5

(* Taking the message that is at the start of the stream. *)
LEMMA Reading ==
    ASSUME NEW p \in Seq(Cell), NEW s \in Seq(Cell), NEW rest \in Seq(Cell), NEW open,
           NEW kind \in Kinds, NEW value \in Values, NEW n \in Nat,
           Follows(p \o s, Msg(kind, value, n) \o rest, open),
           p # <<>>
    PROVE  /\ Head(p) = [k |-> kind, v |-> value, n |-> n]
           /\ Len(p) > Head(p).n =>
                Follows(SubSeq(p, Head(p).n + 2, Len(p)) \o s, rest, open)
<1>1. PICK h : h = [k |-> kind, v |-> value, n |-> n]
  OBVIOUS
<1>2. PICK m \in Seq(Cell) : m = Msg(kind, value, n)
  BY MsgIs
<1>3. Len(m) = n + 1 /\ m[1] = h /\ h.n = n
  BY <1>1, <1>2, MsgIs
<1>4. Follows(p \o s, m \o rest, open)
  BY <1>2
<1>5. Head(p) = h
  <2>1. Len(p) >= 1 /\ Head(p) = p[1] /\ (p \o s)[1] = p[1] /\ (m \o rest)[1] = m[1]
    BY <1>3
  <2>2. 1 \in 1..Len(p \o s)
    BY <2>1
  <2> QED
    BY <1>3, <1>4, <2>1, <2>2 DEF Follows
<1>6. ASSUME Len(p) > n
      PROVE  Follows(SubSeq(p, n + 2, Len(p)) \o s, rest, open)
  <2>1. n + 1 \in 0..Len(p) /\ Len(p) \in (n + 1)..Len(p) /\ n + 2 = n + 1 + 1
    BY <1>6
  <2>2. PICK q : q = SubSeq(p, n + 2, Len(p))
    OBVIOUS
  <2>3. /\ q \in Seq(Cell) /\ Len(q) = Len(p) - (n + 1)
        /\ \A i \in 1..(Len(p) - (n + 1)) : q[i] = p[n + 1 + i]
    <3>1. q = SubSeq(p, n + 1 + 1, Len(p))
      BY <2>1, <2>2
    <3> QED
      BY <2>1, <3>1, PartIs
  <2>7. Len(q \o s) = Len(q) + Len(s) /\ Len(p \o s) = Len(p) + Len(s)
        /\ q \o s \in Seq(Cell)
    BY <2>3, JoinIs
  <2>4. ASSUME NEW i \in 1..Len(q \o s)
        PROVE  (q \o s)[i] = (p \o s)[n + 1 + i] /\ n + 1 + i \in 1..Len(p \o s)
    <3>1. /\ Len(q) \in Nat /\ Len(p) \in Nat /\ Len(s) \in Nat /\ i \in Nat
          /\ i >= 1 /\ i <= Len(q) + Len(s) /\ Len(q) = Len(p) - (n + 1)
      BY <2>3, <2>7, LenProperties
    <3>2. PICK j \in Nat : j = n + 1 + i
      BY <3>1
    <3>3. j \in 1..Len(p \o s) /\ (i > Len(q) => j > Len(p) /\ j - Len(p) = i - Len(q))
      BY <2>7, <3>1, <3>2
    <3>4. i <= Len(q) => j <= Len(p) /\ q[i] = p[j]
      BY <2>3, <3>1, <3>2
    <3>5. (q \o s)[i] = IF i <= Len(q) THEN q[i] ELSE s[i - Len(q)]
      BY <2>3, <2>7, <3>1, ConcatProperties
    <3>6. (p \o s)[j] = IF j <= Len(p) THEN p[j] ELSE s[j - Len(p)]
      BY <2>7, <3>1, <3>3, ConcatProperties
    <3>7. (q \o s)[i] = (p \o s)[j]
      <4>1. CASE i <= Len(q)
        BY <3>4, <3>5, <3>6, <4>1
      <4>2. CASE ~(i <= Len(q))
        <5>1. j - Len(p) = i - Len(q) /\ ~(j <= Len(p))
          <6>1. i > Len(q) => ~(j <= Len(p))
            BY <3>1, <3>3
          <6> QED
            BY <3>1, <3>3, <4>2, <6>1
        <5>2. (q \o s)[i] = s[i - Len(q)]
          BY <3>5, <4>2, Zenon
        <5>3. (p \o s)[j] = s[j - Len(p)]
          BY <3>6, <5>1, Zenon
        <5> QED
          BY <5>1, <5>2, <5>3, Zenon
      <4> QED
        BY <4>1, <4>2
    <3> QED
      BY <3>2, <3>3, <3>7
  <2>5. Len(m \o rest) = Len(m) + Len(rest)
        /\ \A i \in 1..Len(rest) : (m \o rest)[Len(m) + i] = rest[i]
    BY JoinIs
  <2>6. Follows(q \o s, rest, open)
    <3>1. Len(q \o s) <= Len(rest) /\ (open => Len(q \o s) = Len(rest))
      BY <1>3, <1>4, <2>3, <2>5, <2>7 DEF Follows
    <3>2. ASSUME NEW i \in 1..Len(q \o s)
          PROVE  (q \o s)[i] = rest[i]
      <4>1. i \in 1..Len(rest)
        BY <3>1, JoinIs
      <4>2. (p \o s)[n + 1 + i] = (m \o rest)[n + 1 + i]
        BY <1>4, <2>4 DEF Follows
      <4> QED
        BY <1>3, <2>4, <2>5, <4>1, <4>2
    <3> QED
      BY <3>1, <3>2 DEF Follows
  <2> QED
    BY <2>2, <2>6
<1> QED
  BY <1>1, <1>3, <1>5, <1>6

(* Delivering moves the cut. *)
LEMMA Delivering ==
    ASSUME NEW p \in Seq(Cell), NEW s \in Seq(Cell), NEW n \in 1..Len(s)
    PROVE  /\ p \o SubSeq(s, 1, n) \in Seq(Cell)
           /\ p \o SubSeq(s, 1, n) # <<>>
           /\ SubSeq(s, n + 1, Len(s)) \in Seq(Cell)
           /\ (p \o SubSeq(s, 1, n)) \o SubSeq(s, n + 1, Len(s)) = p \o s
<1>1. n \in 0..Len(s) /\ 0 \in 0..Len(s) /\ n \in 0..Len(s) /\ Len(s) \in n..Len(s)
  OBVIOUS
<1>2. PICK a : a = SubSeq(s, 1, n)
  OBVIOUS
<1>3. a \in Seq(Cell) /\ Len(a) = n /\ \A i \in 1..n : a[i] = s[i]
  <2>1. a = SubSeq(s, 0 + 1, n)
    BY <1>2
  <2>2. a \in Seq(Cell) /\ Len(a) = n - 0 /\ \A i \in 1..(n - 0) : a[i] = s[0 + i]
    BY <1>1, <2>1, PartIs
  <2> QED
    BY <2>2
<1>8. PICK b : b = SubSeq(s, n + 1, Len(s))
  OBVIOUS
<1>4. b \in Seq(Cell) /\ Len(b) = Len(s) - n /\ \A i \in 1..(Len(s) - n) : b[i] = s[n + i]
  BY <1>1, <1>8, PartIs
<1>5. a \o b = s
  <2>3. Len(s) \in Nat
    BY LenProperties
  <2>4. Len(a \o b) = Len(a) + Len(b) /\ a \o b \in Seq(Cell)
        /\ \A i \in 1..(Len(a) + Len(b)) :
              (a \o b)[i] = IF i <= Len(a) THEN a[i] ELSE b[i - Len(a)]
    BY <1>3, <1>4, ConcatProperties
  <2>1. Len(a \o b) = Len(s) /\ a \o b \in Seq(Cell)
    BY <1>3, <1>4, <2>3, <2>4
  <2>2. ASSUME NEW i \in 1..Len(s)
        PROVE  (a \o b)[i] = s[i]
    <3>1. i \in Nat /\ n \in Nat /\ i <= Len(s) /\ Len(a) + Len(b) = Len(s)
      BY <1>3, <1>4, <2>3
    <3>2. (a \o b)[i] = IF i <= n THEN a[i] ELSE b[i - n]
      BY <1>3, <2>4, <3>1
    <3>3. i > n => i - n \in 1..(Len(s) - n) /\ n + (i - n) = i
      BY <2>3, <3>1
    <3>4. i <= n => i \in 1..n
      BY <3>1
    <3> QED
      BY <1>3, <1>4, <3>1, <3>2, <3>3, <3>4
  <2> QED
    BY <2>1, <2>2, SeqEqual
<1>6. (p \o a) \o b = p \o (a \o b)
  BY <1>3, <1>4, JoinTwice, Zenon
<1>7. p \o a \in Seq(Cell) /\ p \o a # <<>>
  <2>1. Len(p \o a) # 0
    BY <1>3, JoinIs
  <2> QED
    BY <1>3, <2>1, JoinIs, EmptySeq
<1> QED
  BY <1>2, <1>4, <1>5, <1>6, <1>7, <1>8
-----------------------------------------------------------------------------
(* What may come. *)

(* e is a message of this kind, and rest.                                  *)
Begins(e, kind, value, rest) == \E m \in Nat : e = Msg(kind, value, m) \o rest

Lists(e) == \E s \in (Schemes \ {"VeNCrypt"}) \cup {"other"} : e = Msg("list", s, 1)
Counts(e) == e = Msg("count", "empty", 0) \/ \E l : Lists(l) /\ e = Msg("count", "", 0) \o l

(* What the server sends after such a message before it hears of us.       *)
Meant(kind, version, value, rest) ==
    \/ /\ kind \in {"version", "reason", "init", "challenge", "dh", "ard", "vencrypt", "subauths"}
       /\ rest = <<>>
    \/ kind \in {"types", "scheme"} /\ value = "empty" /\ rest \in Reasons
    \/ kind = "types" /\ value # "empty" /\ rest = <<>>
    \/ kind = "scheme" /\ value = "other" /\ rest = <<>>
    \/ kind = "scheme" /\ value \in Schemes /\ rest \in First(value, version)
    \/ kind = "result" /\ value = "ok" /\ rest = <<>>
    \/ /\ kind = "result" /\ value = "failed"
       /\ IF version = "3.8" THEN rest \in Reasons ELSE rest = <<>>
    \/ kind = "ack" /\ value = "refused" /\ rest = <<>>
    \/ kind = "ack" /\ value = "ok" /\ Counts(rest)
    \/ kind = "count" /\ value = "empty" /\ rest = <<>>
    \/ kind = "count" /\ value = "" /\ Lists(rest)
    \/ kind = "list" /\ value # "VeNCrypt" /\ rest = <<>>
    \/ kind = "tunnels" /\ value \in {"notunnel", "other"} /\ rest = <<>>
    \/ kind = "tunnels" /\ value = "" /\ rest \in SubAuths

Opens(e, kind, version) ==
    kind \in Kinds /\ \E value \in Values, rest \in Seq(Cell) :
        Begins(e, kind, value, rest) /\ Meant(kind, version, value, rest)

LEMMA Alone ==
    ASSUME NEW kind \in Kinds, NEW value \in Values, NEW m \in Nat, NEW version,
           Meant(kind, version, value, <<>>)
    PROVE  Opens(Msg(kind, value, m), kind, version)
<1>1. PICK e \in Seq(Cell) : e = Msg(kind, value, m)
  BY MsgIs
<1>2. e = e \o <<>> /\ <<>> \in Seq(Cell)
  OBVIOUS
<1>3. Begins(e, kind, value, <<>>)
  BY <1>1, <1>2 DEF Begins
<1> QED
  BY <1>1, <1>2, <1>3 DEF Opens

LEMMA Along ==
    ASSUME NEW kind \in Kinds, NEW value \in Values, NEW m \in Nat, NEW version,
           NEW rest \in Seq(Cell), Meant(kind, version, value, rest)
    PROVE  Opens(Msg(kind, value, m) \o rest, kind, version)
BY DEF Opens, Begins

LEMMA OpensIsSeq ==
    ASSUME NEW e, NEW kind \in Kinds, NEW version, Opens(e, kind, version)
    PROVE  e \in Seq(Cell)
<1>1. PICK value \in Values, rest \in Seq(Cell), m \in Nat : e = Msg(kind, value, m) \o rest
  BY DEF Opens, Begins
<1>2. PICK g \in Seq(Cell) : g = Msg(kind, value, m)
  BY MsgIs
<1> QED
  BY <1>1, <1>2, JoinIs

LEMMA ReasonsOpen ==
    ASSUME NEW version, NEW e \in Reasons
    PROVE  Opens(e, "reason", version) /\ e \in Seq(Cell)
<1>1. PICK m \in 0..1 : e = Msg("reason", "", m)
  BY DEF Reasons
<1>2. Opens(e, "reason", version)
  <2>1. Meant("reason", version, "", <<>>) /\ "reason" \in Kinds /\ "" \in Values
    BY DEF Meant, Kinds, Values
  <2>2. m \in Nat
    OBVIOUS
  <2> QED
    BY <1>1, <2>1, <2>2, Alone
<1> QED
  BY <1>2, OpensIsSeq DEF Kinds

LEMMA ResultsOpen ==
    ASSUME NEW version, NEW e \in Results(version)
    PROVE  Opens(e, "result", version) /\ e \in Seq(Cell)
<1>1. CASE e = Msg("result", "ok", 1)
  <2>1. Meant("result", version, "ok", <<>>) /\ "result" \in Kinds /\ "ok" \in Values
    BY DEF Meant, Kinds, Values
  <2> QED
    BY <1>1, <2>1, Alone, OpensIsSeq
<1>2. ASSUME NEW r \in IF version = "3.8" THEN Reasons ELSE {<<>>},
             e = Msg("result", "failed", 1) \o r
      PROVE  Opens(e, "result", version)
  <2>1. r \in Seq(Cell)
    BY ReasonsOpen, EmptySeq
  <2>2. IF version = "3.8" THEN r \in Reasons ELSE r = <<>>
    OBVIOUS
  <2>3. Meant("result", version, "failed", r)
    BY <2>2 DEF Meant
  <2> QED
    BY <1>2, <2>1, <2>3, Along DEF Kinds, Values
<1>3. Opens(e, "result", version)
  BY <1>1, <1>2 DEF Results
<1> QED
  BY <1>3, OpensIsSeq DEF Kinds

LEMMA SubAuthsOpen ==
    ASSUME NEW version, NEW e \in SubAuths
    PROVE  Opens(e, "subauths", version) /\ e \in Seq(Cell)
<1>3. \/ e = Msg("subauths", "empty", 0)
      \/ \E v \in {"None", "VNCAuth", "Unix", "other"} : e = Msg("subauths", v, 1)
  BY DEF SubAuths
<1>4. {"None", "VNCAuth", "Unix", "other", "empty"} \subseteq Values
  BY DEF Values, Known, Supported
<1>1. PICK value \in Values, m \in Nat : e = Msg("subauths", value, m)
  BY <1>3, <1>4
<1>2. Opens(e, "subauths", version)
  BY <1>1, Alone DEF Meant, Kinds
<1> QED
  BY <1>2, OpensIsSeq DEF Kinds

LEMMA GreetingOpens ==
    ASSUME NEW version, NEW e \in Greeting \cup {Msg("version", "repeater", 1)}
    PROVE  Opens(e, "version", version) /\ e \in Seq(Cell)
<1>1. PICK value \in Values : e = Msg("version", value, 1)
  BY HsAssumption DEF Greeting, Values
<1>2. Opens(e, "version", version)
  BY <1>1, Alone DEF Meant, Kinds
<1> QED
  BY <1>2, OpensIsSeq DEF Kinds

Opening(scheme) ==
    CASE scheme = "VNCAuth" -> "challenge"
      [] scheme = "ARD" -> "ard"
      [] scheme = "MSLogonII" -> "dh"
      [] scheme = "VeNCrypt" -> "vencrypt"
      [] scheme = "Tight" -> "tunnels"

LEMMA FirstOpens ==
    ASSUME NEW version, NEW scheme \in {"VNCAuth", "ARD", "MSLogonII", "VeNCrypt", "Tight"},
           NEW e \in First(scheme, version)
    PROVE  Opens(e, Opening(scheme), version)
<1>1. CASE scheme = "VNCAuth"
  <2>1. e = Msg("challenge", "", 1)
    BY <1>1 DEF First
  <2> QED
    BY <1>1, <2>1, Alone DEF Meant, Kinds, Values, Opening
<1>2. CASE scheme = "ARD"
  <2>1. e = Msg("ard", "", 1)
    BY <1>2 DEF First
  <2> QED
    BY <1>2, <2>1, Alone DEF Meant, Kinds, Values, Opening
<1>3. CASE scheme = "MSLogonII"
  <2>1. e = Msg("dh", "", 1)
    BY <1>3 DEF First
  <2> QED
    BY <1>3, <2>1, Alone DEF Meant, Kinds, Values, Opening
<1>4. CASE scheme = "VeNCrypt"
  <2>1. PICK value \in {"0.2", "other"} : e = Msg("vencrypt", value, 1)
    BY <1>4 DEF First
  <2> QED
    BY <1>4, <2>1, Alone DEF Meant, Kinds, Values, Opening
<1>5. CASE scheme = "Tight"
  <2>1. \/ \E value \in {"notunnel", "other"} : e = Msg("tunnels", value, 1)
        \/ \E s \in SubAuths : e = Msg("tunnels", "", 0) \o s
    BY <1>5 DEF First
  <2>2. ASSUME NEW value \in {"notunnel", "other"}, e = Msg("tunnels", value, 1)
        PROVE  Opens(e, "tunnels", version)
    BY <2>2, Alone DEF Meant, Kinds, Values
  <2>3. ASSUME NEW s \in SubAuths, e = Msg("tunnels", "", 0) \o s
        PROVE  Opens(e, "tunnels", version)
    <3>1. s \in Seq(Cell) /\ Meant("tunnels", version, "", s)
      BY SubAuthsOpen DEF Meant
    <3> QED
      BY <2>3, <3>1, Along DEF Kinds, Values
  <2> QED
    BY <1>5, <2>1, <2>2, <2>3 DEF Opening
<1> QED
  BY <1>1, <1>2, <1>3, <1>4, <1>5

Quiet(scheme) == scheme \notin {"None", "VNCAuth", "ARD", "MSLogonII", "RA2ne", "VeNCrypt", "Tight"}

LEMMA FirstOfQuiet ==
    ASSUME NEW version, NEW scheme, Quiet(scheme)
    PROVE  First(scheme, version) = {<<>>}
BY DEF First, Quiet

LEMMA FirstIsSeq ==
    ASSUME NEW version, NEW scheme
    PROVE  First(scheme, version) \subseteq Seq(Cell)
<1> SUFFICES ASSUME NEW e \in First(scheme, version)
             PROVE  e \in Seq(Cell)
  OBVIOUS
<1>1. CASE Quiet(scheme)
  <2>1. First(scheme, version) = {<<>>}
    BY <1>1, FirstOfQuiet
  <2> QED
    BY <2>1, EmptySeq
<1>2. CASE scheme = "None"
  BY <1>2, ResultsOpen, EmptySeq DEF First
<1>3. CASE scheme = "RA2ne"
  <2>1. PICK v \in {"good", "bad"} : e = Msg("key", v, 1)
    BY <1>3 DEF First
  <2>2. "key" \in Kinds /\ v \in Values
    BY DEF Kinds, Values
  <2> QED
    BY <2>1, <2>2, MsgIs
<1>4. CASE scheme \in {"VNCAuth", "ARD", "MSLogonII", "VeNCrypt", "Tight"}
  BY <1>4, FirstOpens, OpensIsSeq DEF Opening, Kinds
<1> QED
  BY <1>1, <1>2, <1>3, <1>4 DEF Quiet

LEMMA OffersOpen ==
    ASSUME NEW version, NEW e \in Offers(version)
    PROVE  /\ Opens(e, IF version = "3.3" THEN "scheme" ELSE "types", version)
           /\ e \in Seq(Cell)
<1>1. ASSUME NEW kind \in {"types", "scheme"}, NEW m \in Nat, NEW r \in Reasons,
             e = Msg(kind, "empty", m) \o r
      PROVE  Opens(e, kind, version)
  <2>1. r \in Seq(Cell) /\ Meant(kind, version, "empty", r)
    BY ReasonsOpen DEF Meant
  <2> QED
    BY <1>1, <2>1, Along DEF Kinds, Values
<1>2. CASE version = "3.3"
  <2>1. \/ \E r \in Reasons : e = Msg("scheme", "empty", 1) \o r
        \/ e = Msg("scheme", "other", 1)
        \/ \E s \in Schemes : \E f \in First(s, version) : e = Msg("scheme", s, 1) \o f
    BY <1>2 DEF Offers
  <2>2. ASSUME e = Msg("scheme", "other", 1)
        PROVE  Opens(e, "scheme", version)
    <3>1. Meant("scheme", version, "other", <<>>) /\ "scheme" \in Kinds /\ "other" \in Values
      BY DEF Meant, Kinds, Values
    <3> QED
      BY <2>2, <3>1, Alone
  <2>3. ASSUME NEW s \in Schemes, NEW f \in First(s, version), e = Msg("scheme", s, 1) \o f
        PROVE  Opens(e, "scheme", version)
    <3>1. f \in Seq(Cell) /\ Meant("scheme", version, s, f)
      BY FirstIsSeq DEF Meant
    <3>2. s \in Values /\ "scheme" \in Kinds
      BY HsAssumption DEF Values, Kinds, Known
    <3> QED
      BY <2>3, <3>1, <3>2, Along
  <2>5. ASSUME NEW r \in Reasons, e = Msg("scheme", "empty", 1) \o r
        PROVE  Opens(e, "scheme", version)
    BY <1>1, <2>5
  <2>4. Opens(e, "scheme", version)
    BY <2>1, <2>2, <2>3, <2>5
  <2> QED
    BY <1>2, <2>4, OpensIsSeq DEF Kinds
<1>3. CASE version # "3.3"
  <2>1. \/ \E r \in Reasons : e = Msg("types", "empty", 0) \o r
        \/ \E s \in Schemes \cup {"other"} : e = Msg("types", s, 1)
    BY <1>3 DEF Offers
  <2>2. ASSUME NEW s \in Schemes \cup {"other"}, e = Msg("types", s, 1)
        PROVE  Opens(e, "types", version)
    <3>1. s \in Values /\ "types" \in Kinds /\ s # "empty"
      BY HsAssumption DEF Values, Kinds, Known, Supported
    <3> QED
      BY <2>2, <3>1, Alone DEF Meant
  <2>3. Opens(e, "types", version)
    BY <1>1, <2>1, <2>2
  <2> QED
    BY <1>3, <2>3, OpensIsSeq DEF Kinds
<1> QED
  BY <1>2, <1>3

LEMMA ListsOpen ==
    ASSUME NEW version, NEW e, Lists(e)
    PROVE  Opens(e, "list", version) /\ e \in Seq(Cell)
<1>1. PICK s \in (Schemes \ {"VeNCrypt"}) \cup {"other"} : e = Msg("list", s, 1)
  BY DEF Lists
<1>2. s \in Values /\ "list" \in Kinds /\ s # "VeNCrypt"
  BY HsAssumption DEF Values, Kinds, Known
<1> QED
  BY <1>1, <1>2, Alone, OpensIsSeq DEF Meant

LEMMA CountsOpen ==
    ASSUME NEW version, NEW e, Counts(e)
    PROVE  Opens(e, "count", version) /\ e \in Seq(Cell)
<1>1. CASE e = Msg("count", "empty", 0)
  <2>1. Meant("count", version, "empty", <<>>) /\ "count" \in Kinds /\ "empty" \in Values
    BY DEF Meant, Kinds, Values
  <2> QED
    BY <1>1, <2>1, Alone, OpensIsSeq
<1>2. ASSUME NEW l, Lists(l), e = Msg("count", "", 0) \o l
      PROVE  Opens(e, "count", version)
  <2>1. l \in Seq(Cell) /\ Meant("count", version, "", l)
    BY <1>2, ListsOpen DEF Meant
  <2> QED
    BY <1>2, <2>1, Along DEF Kinds, Values
<1> QED
  BY <1>1, <1>2, OpensIsSeq DEF Counts, Kinds

LEMMA SubTypesOpen ==
    ASSUME NEW version, NEW e \in SubTypes
    PROVE  Opens(e, "ack", version) /\ e \in Seq(Cell)
<1>1. CASE e = Msg("ack", "refused", 0)
  <2>1. Meant("ack", version, "refused", <<>>) /\ "ack" \in Kinds /\ "refused" \in Values
    BY DEF Meant, Kinds, Values
  <2> QED
    BY <1>1, <2>1, Alone, OpensIsSeq
<1>2. ASSUME NEW c, Counts(c), e = Msg("ack", "ok", 0) \o c
      PROVE  Opens(e, "ack", version)
  <2>1. c \in Seq(Cell) /\ Meant("ack", version, "ok", c)
    BY <1>2, CountsOpen DEF Meant
  <2> QED
    BY <1>2, <2>1, Along DEF Kinds, Values
<1>3. CASE e = Msg("ack", "ok", 0) \o Msg("count", "empty", 0)
  BY <1>2, <1>3, OpensIsSeq DEF Counts, Kinds
<1>4. ASSUME NEW s \in (Schemes \ {"VeNCrypt"}) \cup {"other"},
             e = Msg("ack", "ok", 0) \o Msg("count", "", 0) \o Msg("list", s, 1)
      PROVE  Opens(e, "ack", version)
  <2>1. PICK a, c, l : a = Msg("ack", "ok", 0) /\ c = Msg("count", "", 0) /\ l = Msg("list", s, 1)
    OBVIOUS
  <2>2. s \in Values
    BY HsAssumption DEF Values, Known
  <2>3. a \in Seq(Cell) /\ c \in Seq(Cell) /\ l \in Seq(Cell)
    BY <2>1, <2>2, MsgIs DEF Kinds, Values
  <2>4. e = a \o (c \o l)
    <3>1. e = (a \o c) \o l
      BY <1>4, <2>1
    <3> QED
      BY <2>3, <3>1, JoinTwice, Zenon
  <2>5. Lists(l)
    BY <2>1 DEF Lists
  <2>6. Counts(c \o l)
    BY <2>1, <2>5 DEF Counts
  <2> QED
    BY <1>2, <2>1, <2>4, <2>6
<1> QED
  BY <1>1, <1>3, <1>4, OpensIsSeq DEF SubTypes, Kinds
-----------------------------------------------------------------------------
(* The invariant. *)

Early == {"", "ProtocolVersion", "Security"}

NegType == [init : InitStates, version : Values, scheme : Values, vencrypt : 0..3,
            tight : BOOLEAN, ard : {"", "busy", "ready"},
            ra2 : {"", "key", "approve", "random", "hash", "subtype", "names", "password"}]

Typed ==
    /\ rq \in Seq(Cell) /\ inbox \in Seq(Cell) /\ resumes \in Nat
    /\ garbled \in BOOLEAN /\ turn \in {"idle", "loop", "once"}
    /\ neg \in NegType /\ ws \in {"connecting", "open", "closing", "closed"}

(* What the negotiation n has not come to yet, or left behind. *)
Fitting(n) ==
    /\ n.init \in Early => n.scheme = "" /\ n.vencrypt = 0
    /\ n.scheme \in {"", "VeNCrypt"} => ~n.tight
    /\ n.scheme # "ARD" => n.ard = ""
    /\ n.scheme # "RA2ne" => n.ra2 = ""

Passed ==
    /\ Fitting(neg)
    /\ ws = "connecting" => neg.init = ""
    /\ neg.init \in Early => prompt = {} /\ resumes = 0 /\ turn # "once"
    /\ neg.init = "" => rq = <<>> /\ inbox = <<>> /\ turn = "idle"
    /\ neg.init = "Security" /\ turn # "idle" => rq # <<>>
    /\ conn \in {"disconnecting", "disconnected"} => ws \in {"closing", "closed"}

(* What the server may have sent when the negotiation n has come this far. *)
DueAuthentication(n, e) ==
    \/ n.scheme \notin {"VeNCrypt", "Tight", "ARD"} /\ e \in First(n.scheme, n.version)
    \/ n.scheme = "VeNCrypt" /\ n.vencrypt = 0 /\ e \in First("VeNCrypt", n.version)
    \/ n.scheme = "VeNCrypt" /\ n.vencrypt = 1 /\ e \in SubTypes
    \/ n.scheme = "VeNCrypt" /\ n.vencrypt = 2 /\ Counts(e)
    \/ n.scheme = "VeNCrypt" /\ n.vencrypt = 3 /\ Lists(e)
    \/ n.scheme = "Tight" /\ ~n.tight /\ e \in First("Tight", n.version)
    \/ n.scheme = "Tight" /\ n.tight /\ e \in SubAuths
    \/ n.scheme = "ARD" /\ n.ard = "" /\ e \in First("ARD", n.version)
    \/ n.scheme = "ARD" /\ n.ard # "" /\ e = <<>>

Due(n, e) ==
    \/ n.init \in {"", "ClientInitialisation"} /\ e = <<>>
    \/ n.init = "ProtocolVersion" /\ e \in Greeting \cup {Msg("version", "repeater", 1)}
    \/ n.init = "Security" /\ e \in Offers(n.version)
    \/ n.init = "Authentication" /\ DueAuthentication(n, e)
    \/ n.init = "SecurityResult" /\ e \in Results(n.version)
    \/ n.init = "SecurityReason" /\ e \in Reasons
    \/ /\ n.init = "ServerInitialisation"
       /\ e = <<>> \/ \E m \in 1..2 : e = Msg("init", "", m)

(* The server's messages are those that are due, as far as they come.      *)
OnTheWay == \E e \in Seq(Cell) : Due(neg, e) /\ Follows(rq \o inbox, e, ws = "open")
NothingMore == ws # "open" /\ rq = <<>> /\ inbox = <<>>

InStep == neg.scheme # "RA2ne" => ~garbled /\ (OnTheWay \/ NothingMore)

HandshakeInv == Typed /\ Passed /\ InStep

LEMMA DueOpens ==
    ASSUME Typed, NEW e, Due(neg, e), neg.scheme # "RA2ne", Reads # "nothing"
    PROVE  e = <<>> \/ Opens(e, Reads, neg.version)
<1>1. CASE neg.init = "ProtocolVersion"
  BY <1>1, GreetingOpens DEF Due, Reads
<1>2. CASE neg.init = "Security"
  BY <1>2, OffersOpen DEF Due, Reads
<1>3. CASE neg.init = "SecurityResult"
  BY <1>3, ResultsOpen DEF Due, Reads
<1>4. CASE neg.init = "SecurityReason"
  BY <1>4, ReasonsOpen DEF Due, Reads
<1>5. CASE neg.init = "ServerInitialisation"
  <2>1. Meant("init", neg.version, "", <<>>) /\ "init" \in Kinds /\ "" \in Values
    BY DEF Meant, Kinds, Values
  <2>4. \A m \in 1..2 : m \in Nat
    OBVIOUS
  <2>2. e = <<>> \/ \E m \in Nat : e = Msg("init", "", m)
    BY <1>5, <2>4 DEF Due
  <2>3. e = <<>> \/ Opens(e, "init", neg.version)
    BY <2>1, <2>2, Alone
  <2> QED
    BY <1>5, <2>3 DEF Reads
<1>6. CASE neg.init = "Authentication"
  <2>1. Reads = SchemeReads /\ DueAuthentication(neg, e)
    BY <1>6 DEF Due, Reads
  <2>2. CASE neg.scheme = "VNCAuth"
    BY <2>1, <2>2, FirstOpens DEF SchemeReads, DueAuthentication, Opening
  <2>3. CASE neg.scheme = "MSLogonII"
    BY <2>1, <2>3, FirstOpens DEF SchemeReads, DueAuthentication, Opening
  <2>4. CASE neg.scheme = "ARD"
    <3>1. neg.ard # "ready" /\ SchemeReads = "ard"
      BY <2>1, <2>4 DEF SchemeReads
    <3>2. e = <<>> \/ e \in First("ARD", neg.version)
      BY <2>1, <2>4 DEF DueAuthentication
    <3> QED
      BY <2>1, <3>1, <3>2, FirstOpens DEF Opening
  <2>5. CASE neg.scheme = "VeNCrypt"
    <3>1. SchemeReads = VeNCryptReads[neg.vencrypt + 1]
      BY <2>5 DEF SchemeReads
    <3>2. CASE neg.vencrypt = 0
      <4>1. SchemeReads = "vencrypt" /\ e \in First("VeNCrypt", neg.version)
        BY <2>1, <2>5, <3>1, <3>2 DEF VeNCryptReads, DueAuthentication
      <4> QED
        BY <2>1, <4>1, FirstOpens DEF Opening
    <3>3. CASE neg.vencrypt = 1
      <4>1. SchemeReads = "ack" /\ e \in SubTypes
        BY <2>1, <2>5, <3>1, <3>3 DEF VeNCryptReads, DueAuthentication
      <4> QED
        BY <2>1, <4>1, SubTypesOpen
    <3>4. CASE neg.vencrypt = 2
      <4>1. SchemeReads = "count" /\ Counts(e)
        BY <2>1, <2>5, <3>1, <3>4 DEF VeNCryptReads, DueAuthentication
      <4> QED
        BY <2>1, <4>1, CountsOpen
    <3>5. CASE neg.vencrypt = 3
      <4>1. SchemeReads = "list" /\ Lists(e)
        BY <2>1, <2>5, <3>1, <3>5 DEF VeNCryptReads, DueAuthentication
      <4> QED
        BY <2>1, <4>1, ListsOpen
    <3> QED
      BY <2>1, <2>5, <3>2, <3>3, <3>4, <3>5 DEF DueAuthentication
  <2>6. CASE neg.scheme = "Tight"
    <3>1. CASE neg.tight
      BY <2>1, <2>6, <3>1, SubAuthsOpen DEF SchemeReads, DueAuthentication
    <3>2. CASE ~neg.tight
      BY <2>1, <2>6, <3>2, FirstOpens DEF SchemeReads, DueAuthentication, Opening
    <3> QED
      BY <3>1, <3>2
  <2>7. CASE neg.scheme \notin {"VNCAuth", "MSLogonII", "ARD", "VeNCrypt", "Tight"}
    BY <2>1, <2>7 DEF SchemeReads
  <2> QED
    BY <2>2, <2>3, <2>4, <2>5, <2>6, <2>7
<1> QED
  BY <1>1, <1>2, <1>3, <1>4, <1>5, <1>6 DEF Reads, Due

(* What is read is the message that is due. *)
LEMMA Comes ==
    ASSUME Typed, OnTheWay \/ NothingMore, neg.scheme # "RA2ne", Reads # "nothing", rq # <<>>
    PROVE  /\ Head(rq).k = Reads /\ Head(rq).v \in Values
           /\ Whole /\ Read =>
                /\ rq' \in Seq(Cell)
                /\ \E rest \in Seq(Cell) : /\ Meant(Reads, neg.version, Head(rq).v, rest)
                                          /\ Follows(rq' \o inbox, rest, ws = "open")
<1>1. PICK e \in Seq(Cell) : Due(neg, e) /\ Follows(rq \o inbox, e, ws = "open")
  BY DEF OnTheWay, NothingMore
<1>2. e # <<>>
  <2>1. Len(rq) > 0 /\ Len(rq \o inbox) >= Len(rq)
    BY JoinIs DEF Typed
  <2> QED
    BY <1>1, <2>1 DEF Follows
<1>3. PICK value \in Values, rest \in Seq(Cell), n \in Nat :
        Meant(Reads, neg.version, value, rest) /\ e = Msg(Reads, value, n) \o rest
  BY <1>1, <1>2, DueOpens DEF Opens, Begins
<1>4. Reads \in Kinds
  BY <1>1, <1>2, DueOpens DEF Opens
<1>5. /\ Head(rq) = [k |-> Reads, v |-> value, n |-> n]
      /\ Len(rq) > Head(rq).n =>
            Follows(SubSeq(rq, Head(rq).n + 2, Len(rq)) \o inbox, rest, ws = "open")
  BY <1>1, <1>3, <1>4, Reading DEF Typed
<1>6. Head(rq).k = Reads /\ Head(rq).v = value /\ Head(rq).n = n
  BY <1>5
<1>7. ASSUME Whole, Read
      PROVE  rq' \in Seq(Cell) /\ Follows(rq' \o inbox, rest, ws = "open")
  <2>1. Len(rq) > n /\ n + 1 \in 0..Len(rq) /\ Len(rq) \in (n + 1)..Len(rq)
    BY <1>6, <1>7 DEF Whole, Typed
  <2>2. rq' = SubSeq(rq, n + 1 + 1, Len(rq))
    BY <1>6, <1>7 DEF Read
  <2>3. rq' \in Seq(Cell)
    BY <2>1, <2>2, PartIs DEF Typed
  <2> QED
    BY <1>5, <1>6, <1>7, <2>1, <2>3 DEF Read
<1> QED
  BY <1>3, <1>6, <1>7

LEMMA NotOutOfStep ==
    ASSUME HandshakeInv, neg.scheme # "RA2ne", turn # "idle"
    PROVE  ~OutOfStep
<1>1. ASSUME Reads = "types"
      PROVE  rq # <<>>
  <2>1. SchemeReads # "types"
    <3>1. neg.vencrypt + 1 \in 1..4
      <4>1. neg.vencrypt \in 0..3
        BY DEF HandshakeInv, Typed, NegType
      <4> QED
        BY <4>1
    <3>2. VeNCryptReads[neg.vencrypt + 1] # "types"
      BY <3>1 DEF VeNCryptReads
    <3> QED
      BY <3>2 DEF SchemeReads
  <2>3. neg.init = "Security"
    BY <1>1, <2>1 DEF Reads
  <2> QED
    BY <2>3 DEF HandshakeInv, Passed
<1>2. Reads # "nothing" /\ rq # <<>> => Head(rq).k = Reads
  BY Comes DEF HandshakeInv, InStep
<1> QED
  BY <1>1, <1>2 DEF OutOfStep, Whole
-----------------------------------------------------------------------------
(* How a call may end. *)

LEMMA WhatReads ==
    ASSUME Typed
    PROVE  /\ Reads = "version" => neg.init = "ProtocolVersion"
           /\ Reads = "types" => neg.init = "Security" /\ neg.version # "3.3"
           /\ Reads = "scheme" => neg.init = "Security" /\ neg.version = "3.3"
           /\ Reads = "result" => neg.init = "SecurityResult"
           /\ Reads = "reason" => neg.init = "SecurityReason"
           /\ Reads = "init" => neg.init = "ServerInitialisation"
           /\ Reads \in {"challenge", "dh", "ard", "vencrypt", "ack", "count", "list", "tunnels",
                        "subauths"} => neg.init = "Authentication"
           /\ Reads = "challenge" => neg.scheme = "VNCAuth"
           /\ Reads = "dh" => neg.scheme = "MSLogonII"
           /\ Reads = "ard" => neg.scheme = "ARD" /\ neg.ard # "ready"
           /\ Reads = "vencrypt" => neg.scheme = "VeNCrypt" /\ neg.vencrypt = 0
           /\ Reads = "ack" => neg.scheme = "VeNCrypt" /\ neg.vencrypt = 1
           /\ Reads = "count" => neg.scheme = "VeNCrypt" /\ neg.vencrypt = 2
           /\ Reads = "list" => neg.scheme = "VeNCrypt" /\ neg.vencrypt = 3
           /\ Reads = "tunnels" => neg.scheme = "Tight" /\ ~neg.tight
           /\ Reads = "subauths" => neg.scheme = "Tight" /\ neg.tight
<1>1. neg.vencrypt \in 0..3
  BY DEF Typed, NegType
<1>2. PICK w : w = VeNCryptReads[neg.vencrypt + 1]
  OBVIOUS
<1>3. \/ neg.vencrypt = 0 /\ w = "vencrypt"
      \/ neg.vencrypt = 1 /\ w = "ack"
      \/ neg.vencrypt = 2 /\ w = "count"
      \/ neg.vencrypt = 3 /\ w = "list"
  <2>1. neg.vencrypt = 0 \/ neg.vencrypt = 1 \/ neg.vencrypt = 2 \/ neg.vencrypt = 3
    BY <1>1
  <2>2. /\ VeNCryptReads[1] = "vencrypt" /\ VeNCryptReads[2] = "ack"
        /\ VeNCryptReads[3] = "count" /\ VeNCryptReads[4] = "list"
    BY DEF VeNCryptReads
  <2>3. 0 + 1 = 1 /\ 1 + 1 = 2 /\ 2 + 1 = 3 /\ 3 + 1 = 4
    OBVIOUS
  <2>4. neg.vencrypt = 0 => w = "vencrypt"
    BY <1>2, <2>2, <2>3
  <2>5. neg.vencrypt = 1 => w = "ack"
    BY <1>2, <2>2, <2>3
  <2>6. neg.vencrypt = 2 => w = "count"
    BY <1>2, <2>2, <2>3
  <2>7. neg.vencrypt = 3 => w = "list"
    BY <1>2, <2>2, <2>3
  <2> QED
    BY <2>1, <2>4, <2>5, <2>6, <2>7
<1>4. \/ neg.scheme = "VNCAuth" /\ SchemeReads = "challenge"
      \/ neg.scheme = "MSLogonII" /\ SchemeReads = "dh"
      \/ neg.scheme = "ARD" /\ neg.ard # "ready" /\ SchemeReads = "ard"
      \/ neg.scheme = "VeNCrypt" /\ SchemeReads = w
      \/ neg.scheme = "Tight" /\ neg.tight /\ SchemeReads = "subauths"
      \/ neg.scheme = "Tight" /\ ~neg.tight /\ SchemeReads = "tunnels"
      \/ SchemeReads = "nothing"
  BY <1>2 DEF SchemeReads
<1>5. \/ neg.init = "Authentication" /\ Reads = SchemeReads
      \/ neg.init = "ProtocolVersion" /\ Reads = "version"
      \/ neg.init = "Security" /\ neg.version = "3.3" /\ Reads = "scheme"
      \/ neg.init = "Security" /\ neg.version # "3.3" /\ Reads = "types"
      \/ neg.init = "SecurityResult" /\ Reads = "result"
      \/ neg.init = "SecurityReason" /\ Reads = "reason"
      \/ neg.init = "ServerInitialisation" /\ Reads = "init"
      \/ Reads = "nothing"
  BY DEF Reads
<1> QED
  BY <1>3, <1>4, <1>5

LEMMA ReadIs ==
    ASSUME Typed, Whole, Read
    PROVE  rq' \in Seq(Cell) /\ Head(rq).v \in Values
<1>1. rq # <<>> /\ Head(rq) \in Cell
  BY HeadTailProperties DEF Typed, Whole
<1>2. PICK n \in Nat : n = Head(rq).n
  BY <1>1 DEF Cell
<1>3. Len(rq) > n /\ Len(rq) \in Nat
  BY <1>2, LenProperties DEF Typed, Whole
<1>4. n + 1 \in 0..Len(rq) /\ Len(rq) \in (n + 1)..Len(rq) /\ n + 2 = n + 1 + 1
  BY <1>3
<1>5. rq' = SubSeq(rq, n + 1 + 1, Len(rq))
  BY <1>2, <1>4 DEF Read
<1>6. rq' \in Seq(Cell)
  BY <1>4, <1>5, PartIs DEF Typed
<1> QED
  BY <1>1, <1>6 DEF Cell

LEMMA Sent ==
    ASSUME Typed, rq' \in Seq(Cell), NEW R, R \subseteq Seq(Cell), Sends(R)
    PROVE  /\ inbox' \in Seq(Cell)
           /\ \A rest \in Seq(Cell) : Follows(rq' \o inbox, rest, ws = "open") =>
                \E r \in R : Follows(rq' \o inbox', rest \o r, ws = "open")
<1>1. PICK r \in R : inbox' = IF ws = "open" THEN inbox \o r ELSE inbox
  BY DEF Sends
<1>2. r \in Seq(Cell) /\ inbox \in Seq(Cell)
  BY DEF Typed
<1>3. inbox' \in Seq(Cell)
  BY <1>1, <1>2, JoinIs
<1>4. ASSUME NEW rest \in Seq(Cell), Follows(rq' \o inbox, rest, ws = "open")
      PROVE  Follows(rq' \o inbox', rest \o r, ws = "open")
  BY <1>1, <1>2, <1>4, Answered
<1> QED
  BY <1>3, <1>4

(* It goes on to n, and the server to what it replies. *)
Moves(n, R) == /\ neg' = n /\ Sends(R)
               /\ turn' \in {"idle", "loop", "once"}
               /\ UNCHANGED <<lifeVars, askVars>>

LEMMA GoesMoves ==
    ASSUME NEW n, NEW R, NEW more, Goes(n, R, more)
    PROVE  Moves(n, R) /\ turn' \in {"idle", "loop"}
BY DEF Goes, Moves, Returns

(* The parser is past the choice of a scheme. *)
LEMMA MovesKeeps ==
    ASSUME Typed, Passed, turn # "idle", NEW n \in NegType, Fitting(n), n.init \notin Early,
           NEW R, R \subseteq Seq(Cell), Moves(n, R), rq' \in Seq(Cell), garbled' \in BOOLEAN
    PROVE  Typed' /\ Passed'
<1>1. inbox' \in Seq(Cell)
  BY Sent DEF Moves
<1>2. Typed'
  BY <1>1 DEF Typed, Moves, lifeVars, askVars
<1>3. neg.init # "" /\ ws # "connecting"
  BY DEF Passed
<1> QED
  BY <1>2, <1>3 DEF Passed, Moves, lifeVars, askVars, Early

LEMMA MovesOn ==
    ASSUME Typed, NEW n, NEW R, R \subseteq Seq(Cell), Moves(n, R), rq' \in Seq(Cell),
           NEW rest \in Seq(Cell), Follows(rq' \o inbox, rest, ws = "open"),
           \A r \in R : Due(n, rest \o r)
    PROVE  OnTheWay'
<1>1. PICK r \in R : Follows(rq' \o inbox', rest \o r, ws = "open")
  BY Sent DEF Moves
<1>2. rest \o r \in Seq(Cell)
  BY JoinIs
<1> QED
  BY <1>1, <1>2 DEF OnTheWay, Moves, lifeVars

LEMMA FailsKeeps ==
    ASSUME Typed, Passed, turn # "idle", Fail, Returns(FALSE), UNCHANGED <<inbox, neg, askVars>>,
           rq' \in Seq(Cell), garbled' \in BOOLEAN
    PROVE  Typed' /\ Passed' /\ ws' # "open"
<1>1. conn' = "disconnected" /\ ws' \in {"closing", "closed"}
  BY DEF Typed, Passed, Fail, CloseSocket
<1>2. turn' = "idle"
  BY DEF Returns
<1>3. neg.init # ""
  BY DEF Passed
<1> QED
  BY <1>1, <1>2, <1>3 DEF Typed, Passed, askVars

LEMMA Stopped ==
    ASSUME inbox' \in Seq(Cell), rq' \in Seq(Cell), ws' # "open", NEW open,
           Follows(rq' \o inbox', <<>>, open)
    PROVE  NothingMore'
<1>1. rq' \o inbox' \in Seq(Cell)
  BY JoinIs
<1>2. rq' \o inbox' = <<>>
  BY <1>1, FollowsNothing
<1>3. rq' = <<>> /\ inbox' = <<>>
  BY <1>2, ConcatEqualIffEmpty
<1> QED
  BY <1>3 DEF NothingMore

(* The message that was read was all there was.                            *)
LEMMA MovesFrom ==
    ASSUME Typed, NEW n, NEW R, R \subseteq Seq(Cell), Moves(n, R), rq' \in Seq(Cell),
           Follows(rq' \o inbox, <<>>, ws = "open"), \A r \in R : Due(n, r)
    PROVE  OnTheWay'
<1>1. \A r \in R : <<>> \o r = r
  BY ConcatEmptySeq
<1>2. PICK rest \in Seq(Cell) : rest = <<>>
  BY EmptySeq
<1>3. \A r \in R : Due(n, rest \o r)
  BY <1>1, <1>2
<1>4. Follows(rq' \o inbox, rest, ws = "open")
  BY <1>2
<1> QED
  BY <1>3, <1>4, MovesOn

LEMMA MovesWith ==
    ASSUME Typed, NEW n, Moves(n, {<<>>}), rq' \in Seq(Cell),
           NEW rest \in Seq(Cell), Follows(rq' \o inbox, rest, ws = "open"), Due(n, rest)
    PROVE  OnTheWay'
<1>1. PICK R : R = {<<>>}
  OBVIOUS
<1>2. \A r \in R : rest \o r = rest
  BY <1>1, ConcatEmptySeq
<1>3. \A r \in R : Due(n, rest \o r)
  BY <1>2
<1>4. R \subseteq Seq(Cell) /\ Moves(n, R)
  BY <1>1, EmptySeq
<1> QED
  BY <1>3, <1>4, MovesOn

LEMMA MovesNoMore ==
    ASSUME NothingMore, NEW n, NEW R, Moves(n, R), rq' = rq
    PROVE  NothingMore'
BY DEF NothingMore, Moves, Sends, lifeVars

Kept == /\ Typed' /\ Passed'
        /\ neg.scheme # "RA2ne" => neg'.scheme = "RA2ne" \/ OnTheWay' \/ NothingMore'

(* A message is taken, and rest follows it. *)
Takes(kind, rest) == /\ Meant(kind, neg.version, Head(rq).v, rest)
                     /\ Follows(rq' \o inbox, rest, ws = "open")

LEMMA Taken ==
    ASSUME HandshakeInv, NEW kind, kind # "nothing", Input(kind), Read
    PROVE  /\ rq' \in Seq(Cell) /\ Value \in Values /\ Value = Head(rq).v
           /\ Reads = kind /\ Typed /\ Passed
           /\ neg.scheme # "RA2ne" => \E rest \in Seq(Cell) : Takes(kind, rest)
<1>1. Whole /\ Reads = kind /\ Typed /\ rq # <<>>
  BY DEF Input, Whole, HandshakeInv
<1>2. rq' \in Seq(Cell) /\ Value \in Values
  BY <1>1, ReadIs DEF Value
<1>3. neg.scheme # "RA2ne" => \E rest \in Seq(Cell) : Takes(kind, rest)
  BY <1>1, Comes DEF Takes, HandshakeInv, InStep
<1> QED
  BY <1>1, <1>2, <1>3 DEF Value, HandshakeInv

LEMMA TakenAlone ==
    ASSUME HandshakeInv, neg.scheme # "RA2ne", NEW kind,
           kind \in {"version", "reason", "init", "challenge", "dh", "ard", "vencrypt", "list",
                     "subauths"},
           Input(kind), Read
    PROVE  Follows(rq' \o inbox, <<>>, ws = "open")
<1>1. PICK rest \in Seq(Cell) : Takes(kind, rest)
  BY Taken
<1>2. rest = <<>>
  BY <1>1 DEF Takes, Meant
<1> QED
  BY <1>1, <1>2 DEF Takes

LEMMA ProtocolVersionKeeps ==
    ASSUME HandshakeInv, turn # "idle", garbled' \in BOOLEAN, NegotiateProtocolVersion
    PROVE  Kept
<1>1. /\ Input("version") /\ Read /\ neg.init = "ProtocolVersion"
      /\ rq' \in Seq(Cell) /\ Value \in Values /\ Typed /\ Passed
  BY Taken, WhatReads DEF NegotiateProtocolVersion
<1>2. Follows(rq' \o inbox, <<>>, ws = "open") /\ neg.scheme = ""
  <2>1. neg.scheme = ""
    BY <1>1 DEF Passed, Fitting, Early
  <2> QED
    BY <1>1, <2>1, TakenAlone
<1>3. CASE Value = "other"
  <2>1. Fails
    BY <1>3 DEF NegotiateProtocolVersion
  <2>2. Typed' /\ Passed' /\ ws' # "open" /\ inbox' = inbox
    BY <1>1, <2>1, FailsKeeps DEF Fails
  <2>3. NothingMore'
    BY <1>1, <1>2, <2>2, Stopped DEF Typed
  <2> QED
    BY <2>2, <2>3 DEF Kept
<1>4. CASE Value = "repeater"
  <2>1. Goes(neg, Greeting, TRUE)
    BY <1>4 DEF NegotiateProtocolVersion
  <2>2. Moves(neg, Greeting) /\ turn' \in {"idle", "loop"}
    BY <2>1, GoesMoves
  <2>3. Greeting \subseteq Seq(Cell) /\ \A r \in Greeting : Due(neg, r)
    BY <1>1, GreetingOpens DEF Due
  <2>4. OnTheWay'
    BY <1>1, <1>2, <2>2, <2>3, MovesFrom
  <2>5. inbox' \in Seq(Cell)
    BY <1>1, <2>2, <2>3, Sent DEF Moves
  <2>6. Typed' /\ Passed'
    BY <1>1, <2>2, <2>5 DEF Typed, Passed, Moves, lifeVars, askVars
  <2> QED
    BY <2>4, <2>6 DEF Kept
<1>5. CASE Value \notin {"other", "repeater"}
  <2>1. PICK n : n = [neg EXCEPT !.version = Value, !.init = "Security"]
    OBVIOUS
  <2>2. Goes(n, Offers(Value), FALSE)
    BY <1>5, <2>1 DEF NegotiateProtocolVersion
  <2>3. Moves(n, Offers(Value)) /\ turn' = "idle"
    BY <2>2, GoesMoves DEF Goes, Returns
  <2>4. /\ n \in NegType /\ n.init = "Security" /\ n.version = Value /\ n.scheme = neg.scheme
        /\ n.vencrypt = neg.vencrypt /\ n.tight = neg.tight /\ n.ard = neg.ard
        /\ n.ra2 = neg.ra2
    BY <1>1, <2>1 DEF Typed, NegType, InitStates
  <2>5. Offers(Value) \subseteq Seq(Cell) /\ \A r \in Offers(Value) : Due(n, r)
    BY <2>4, OffersOpen DEF Due
  <2>6. OnTheWay'
    BY <1>1, <1>2, <2>3, <2>5, MovesFrom
  <2>7. inbox' \in Seq(Cell)
    BY <1>1, <2>3, <2>5, Sent DEF Moves
  <2>8. Fitting(n)
    BY <1>1, <2>4 DEF Passed, Fitting, Early
  <2>9. neg.init \in Early /\ n.init \in Early
    BY <1>1, <2>4 DEF Early
  <2>10. Typed'
    BY <1>1, <2>3, <2>4, <2>7 DEF Typed, Moves, lifeVars, askVars
  <2>11. Passed'
    BY <1>1, <2>3, <2>4, <2>8, <2>9 DEF Passed, Moves, lifeVars, askVars
  <2> QED
    BY <2>6, <2>10, <2>11 DEF Kept
<1> QED
  BY <1>3, <1>4, <1>5

(* A step past the choice of a scheme, with what it needs. *)
LEMMA Proceeds ==
    ASSUME Typed, Passed, turn # "idle", NEW n \in NegType, Fitting(n), n.init \notin Early,
           NEW R, R \subseteq Seq(Cell), Moves(n, R), rq' \in Seq(Cell), garbled' \in BOOLEAN,
           neg.scheme # "RA2ne" /\ n.scheme # "RA2ne" => OnTheWay' \/ NothingMore'
    PROVE  Kept
BY MovesKeeps DEF Kept, Moves

LEMMA FailsKept ==
    ASSUME HandshakeInv, turn # "idle", garbled' \in BOOLEAN, Fail, Returns(FALSE),
           UNCHANGED <<inbox, neg, askVars>>, rq' \in Seq(Cell),
           neg.scheme # "RA2ne" => Follows(rq' \o inbox, <<>>, ws = "open")
    PROVE  Kept
<1>1. Typed' /\ Passed' /\ ws' # "open"
  BY FailsKeeps DEF HandshakeInv
<1>2. neg.scheme # "RA2ne" => NothingMore'
  BY <1>1, Stopped DEF HandshakeInv, Typed
<1> QED
  BY <1>1, <1>2 DEF Kept

LEMMA SecurityKeeps ==
    ASSUME HandshakeInv, turn # "idle", garbled' \in BOOLEAN, NegotiateSecurity
    PROVE  Kept
<1>1. PICK kind \in {"types", "scheme"} : Input(kind) /\ Read
  BY DEF NegotiateSecurity
<1>2. /\ rq' \in Seq(Cell) /\ Value \in Values /\ Value = Head(rq).v /\ Typed /\ Passed
      /\ neg.init = "Security" /\ (kind = "scheme") = (neg.version = "3.3")
      /\ neg.scheme # "RA2ne" => \E rest \in Seq(Cell) : Takes(kind, rest)
  BY <1>1, Taken, WhatReads
<1>3. neg.scheme = "" /\ neg.vencrypt = 0 /\ ~neg.tight /\ neg.ard = "" /\ neg.ra2 = ""
  BY <1>2 DEF Passed, Fitting, Early
<1>4. PICK rest \in Seq(Cell) : Takes(kind, rest)
  BY <1>2, <1>3
<1>5. /\ Meant(kind, neg.version, Value, rest)
      /\ Follows(rq' \o inbox, rest, ws = "open")
  BY <1>2, <1>4 DEF Takes
<1>6. CASE Value = "empty"
  <2>1. PICK n : n = At("SecurityReason")
    OBVIOUS
  <2>2. Moves(n, {<<>>})
    BY <1>6, <2>1, GoesMoves DEF NegotiateSecurity
  <2>3. /\ n \in NegType /\ n.init = "SecurityReason" /\ Fitting(n)
    BY <1>2, <1>3, <2>1 DEF At, Typed, NegType, InitStates, Fitting, Early
  <2>4. rest \in Reasons
    BY <1>1, <1>5, <1>6, HsAssumption DEF Meant, Supported
  <2>5. Due(n, rest)
    BY <2>3, <2>4 DEF Due
  <2>6. OnTheWay'
    BY <1>2, <1>5, <2>2, <2>5, MovesWith
  <2>7. {<<>>} \subseteq Seq(Cell) /\ n.init \notin Early
    BY <2>3, EmptySeq DEF Early
  <2> QED
    BY <1>2, <2>2, <2>3, <2>6, <2>7, Proceeds
<1>7. CASE Value # "empty" /\ neg.version # "3.3" /\ Value \notin Supported
  <2>1. Fails
    BY <1>7 DEF NegotiateSecurity
  <2>2. rest = <<>>
    BY <1>1, <1>2, <1>5, <1>7 DEF Meant
  <2> QED
    BY <1>2, <1>5, <2>1, <2>2, FailsKept DEF Fails
<1>8. CASE Value # "empty" /\ (neg.version = "3.3" \/ Value \in Supported)
  <2>1. PICK n : n = [neg EXCEPT !.scheme = Value, !.init = "Authentication"]
    OBVIOUS
  <2>2. PICK R : R = IF neg.version = "3.3" THEN {<<>>} ELSE First(Value, neg.version)
    OBVIOUS
  <2>3. Moves(n, R)
    BY <1>8, <2>1, <2>2, GoesMoves DEF NegotiateSecurity
  <2>4. /\ n \in NegType /\ n.init = "Authentication" /\ n.scheme = Value
        /\ n.version = neg.version
        /\ n.vencrypt = 0 /\ ~n.tight /\ n.ard = "" /\ n.ra2 = ""
    BY <1>2, <1>3, <2>1 DEF Typed, NegType, InitStates
  <2>5. \A e \in First(Value, neg.version) : Due(n, e)
    BY <2>4 DEF Due, DueAuthentication
  <2>6. R \subseteq Seq(Cell)
    BY <2>2, FirstIsSeq, EmptySeq
  <2>7. OnTheWay'
    <3>1. CASE neg.version = "3.3"
      <4>1. rest \in First(Value, neg.version)
        <5>1. kind = "scheme"
          BY <1>2, <3>1
        <5>2. CASE Value = "other"
          BY <1>5, <5>1, <5>2, FirstOfQuiet, HsAssumption DEF Meant, Supported, Quiet
        <5>3. CASE Value # "other"
          BY <1>5, <1>8, <5>1, <5>3 DEF Meant
        <5> QED
          BY <5>2, <5>3
      <4> QED
        BY <1>2, <1>5, <2>2, <2>3, <2>5, <3>1, <4>1, MovesWith
    <3>2. CASE neg.version # "3.3"
      <4>1. rest = <<>>
        BY <1>1, <1>2, <1>5, <1>8, <3>2 DEF Meant
      <4> QED
        BY <1>2, <1>5, <2>2, <2>3, <2>5, <2>6, <3>2, <4>1, MovesFrom
    <3> QED
      BY <3>1, <3>2
  <2>8. Fitting(n) /\ n.init \notin Early
    BY <2>4 DEF Fitting, Early
  <2> QED
    BY <1>2, <2>3, <2>4, <2>6, <2>7, <2>8, Proceeds
<1> QED
  BY <1>6, <1>7, <1>8

LEMMA SecurityReasonKeeps ==
    ASSUME HandshakeInv, turn # "idle", garbled' \in BOOLEAN, SecurityReason
    PROVE  Kept
<1>1. Input("reason") /\ Read /\ Fails
  BY DEF SecurityReason
<1> QED
  BY <1>1, Taken, TakenAlone, FailsKept DEF Fails

LEMMA SecurityResultKeeps ==
    ASSUME HandshakeInv, turn # "idle", garbled' \in BOOLEAN, SecurityResult
    PROVE  Kept
<1>1. Input("result") /\ Read
  BY DEF SecurityResult
<1>2. /\ rq' \in Seq(Cell) /\ Value \in Values /\ Value = Head(rq).v /\ Typed /\ Passed
      /\ neg.init = "SecurityResult"
      /\ neg.scheme # "RA2ne" => \E rest \in Seq(Cell) : Takes("result", rest)
  BY <1>1, Taken, WhatReads
<1>3. ASSUME NEW to \in {"ClientInitialisation", "SecurityReason"},
             Goes(At(to), {<<>>}, TRUE),
             \A rest \in Seq(Cell) : Takes("result", rest) =>
                 rest \in IF to = "SecurityReason" THEN Reasons ELSE {<<>>}
      PROVE  Kept
  <2>1. PICK n : n = At(to)
    OBVIOUS
  <2>2. Moves(n, {<<>>})
    BY <1>3, <2>1, GoesMoves
  <2>3. /\ n \in NegType /\ n.init = to /\ n.scheme = neg.scheme /\ n.tight = neg.tight
        /\ n.ard = neg.ard /\ n.ra2 = neg.ra2
    BY <1>2, <2>1 DEF At, Typed, NegType, InitStates
  <2>4. Fitting(n) /\ n.init \notin Early
    BY <1>2, <2>3 DEF Passed, Fitting, Early
  <2>5. ASSUME NEW rest \in Seq(Cell), Takes("result", rest)
        PROVE  OnTheWay'
    <3>1. Due(n, rest)
      BY <1>3, <2>3, <2>5 DEF Due
    <3> QED
      BY <1>2, <2>2, <2>5, <3>1, MovesWith DEF Takes
  <2>6. {<<>>} \subseteq Seq(Cell)
    BY EmptySeq
  <2> QED
    BY <1>2, <2>2, <2>3, <2>4, <2>5, <2>6, Proceeds
<1>4. CASE Value = "ok"
  <2>1. Goes(At("ClientInitialisation"), {<<>>}, TRUE)
    BY <1>4 DEF SecurityResult
  <2>2. \A rest \in Seq(Cell) : Takes("result", rest) => rest = <<>>
    BY <1>2, <1>4 DEF Takes, Meant
  <2> QED
    BY <1>3, <2>1, <2>2
<1>5. CASE Value = "failed" /\ neg.version = "3.8"
  <2>1. Goes(At("SecurityReason"), {<<>>}, TRUE)
    BY <1>5 DEF SecurityResult
  <2>2. \A rest \in Seq(Cell) : Takes("result", rest) => rest \in Reasons
    BY <1>2, <1>5 DEF Takes, Meant
  <2> QED
    BY <1>3, <2>1, <2>2
<1>6. CASE Value # "ok" /\ ~(Value = "failed" /\ neg.version = "3.8")
  <2>1. Fails
    BY <1>6 DEF SecurityResult
  <2>2. \A rest \in Seq(Cell) : Takes("result", rest) => rest = <<>>
    BY <1>2, <1>6 DEF Takes, Meant
  <2>3. neg.scheme # "RA2ne" => Follows(rq' \o inbox, <<>>, ws = "open")
    BY <1>2, <2>2 DEF Takes
  <2> QED
    BY <1>2, <2>1, <2>3, FailsKept DEF Fails
<1> QED
  BY <1>4, <1>5, <1>6

(* A step without reading. *)
LEMMA Unread ==
    ASSUME HandshakeInv, turn # "idle", garbled' \in BOOLEAN, rq' = rq,
           NEW n \in NegType, Fitting(n), n.init \notin Early,
           NEW R, R \subseteq Seq(Cell), Moves(n, R),
           neg.scheme # "RA2ne" /\ n.scheme # "RA2ne" =>
                \A e \in Seq(Cell) : Due(neg, e) => \A r \in R : Due(n, e \o r)
    PROVE  Kept
<1>1. Typed /\ Passed /\ rq' \in Seq(Cell)
  BY DEF HandshakeInv, Typed
<1>2. ASSUME NothingMore
      PROVE  NothingMore'
  BY <1>2, MovesNoMore
<1>3. ASSUME OnTheWay, neg.scheme # "RA2ne", n.scheme # "RA2ne"
      PROVE  OnTheWay'
  <2>1. PICK e \in Seq(Cell) : Due(neg, e) /\ Follows(rq \o inbox, e, ws = "open")
    BY <1>3 DEF OnTheWay
  <2>2. \A r \in R : Due(n, e \o r)
    BY <1>3, <2>1
  <2>3. Follows(rq' \o inbox, e, ws = "open")
    BY <2>1
  <2> QED
    BY <1>1, <2>2, <2>3, MovesOn
<1> QED
  BY <1>1, <1>2, <1>3, Proceeds DEF HandshakeInv, InStep

(* Where nothing is due the answer of the server is all that comes. *)
LEMMA UnreadFromNothing ==
    ASSUME HandshakeInv, turn # "idle", garbled' \in BOOLEAN, rq' = rq,
           NEW n \in NegType, Fitting(n), n.init \notin Early,
           NEW R, R \subseteq Seq(Cell), Moves(n, R),
           \A e : Due(neg, e) => e = <<>>, \A r \in R : Due(n, r)
    PROVE  Kept
<1>1. \A r \in R : <<>> \o r = r
  BY ConcatEmptySeq
<1>2. \A e \in Seq(Cell) : Due(neg, e) => \A r \in R : Due(n, e \o r)
  BY <1>1
<1> QED
  BY <1>2, Unread

LEMMA ClientInitialisationKeeps ==
    ASSUME HandshakeInv, turn # "idle", garbled' \in BOOLEAN, ClientInitialisation
    PROVE  Kept
<1>1. PICK n : n = At("ServerInitialisation")
  OBVIOUS
<1>2. PICK R : R = {Msg("init", "", m) : m \in 1..2}
  OBVIOUS
<1>3. Moves(n, R) /\ neg.init = "ClientInitialisation" /\ rq' = rq
  BY <1>1, <1>2, GoesMoves DEF ClientInitialisation
<1>4. /\ n \in NegType /\ n.init = "ServerInitialisation" /\ n.scheme = neg.scheme
      /\ n.tight = neg.tight /\ n.ard = neg.ard /\ n.ra2 = neg.ra2
  BY <1>1 DEF At, HandshakeInv, Typed, NegType, InitStates
<1>5. Fitting(n) /\ n.init \notin Early
  BY <1>4 DEF HandshakeInv, Passed, Fitting, Early
<1>6. R \subseteq Seq(Cell)
  <2>1. ASSUME NEW m \in 1..2
        PROVE  Msg("init", "", m) \in Seq(Cell)
    <3>1. m \in Nat /\ "init" \in Kinds /\ "" \in Values
      BY DEF Kinds, Values
    <3> QED
      BY <3>1, MsgIs
  <2> QED
    BY <1>2, <2>1
<1>7. \A e : Due(neg, e) => e = <<>>
  BY <1>3 DEF Due
<1>8. \A r \in R : Due(n, r)
  BY <1>2, <1>4 DEF Due
<1> QED
  BY <1>3, <1>4, <1>5, <1>6, <1>7, <1>8, UnreadFromNothing

LEMMA ServerInitKeeps ==
    ASSUME HandshakeInv, turn # "idle", garbled' \in BOOLEAN, NegotiateServerInit
    PROVE  Kept
<1>1. /\ Input("init") /\ Read /\ conn' = "connected" /\ turn' \in {"idle", "loop"}
      /\ UNCHANGED <<ws, inbox, neg, askVars>>
  BY DEF NegotiateServerInit, Returns
<1>2. rq' \in Seq(Cell) /\ Typed /\ Passed /\ neg.init = "ServerInitialisation"
  BY <1>1, Taken, WhatReads
<1>3. Typed' /\ Passed'
  BY <1>1, <1>2 DEF Typed, Passed, askVars, Early
<1>4. ASSUME neg.scheme # "RA2ne"
      PROVE  OnTheWay'
  <2>1. Follows(rq' \o inbox, <<>>, ws = "open")
    BY <1>1, <1>4, TakenAlone
  <2>2. Due(neg', <<>>) /\ <<>> \in Seq(Cell)
    BY <1>1, <1>2 DEF Due
  <2> QED
    BY <1>1, <2>1, <2>2 DEF OnTheWay
<1> QED
  BY <1>3, <1>4 DEF Kept

(* Authentication. *)
LEMMA NothingDue ==
    ASSUME neg.init = "Authentication", Quiet(neg.scheme), NEW e, Due(neg, e)
    PROVE  e = <<>>
<1>1. DueAuthentication(neg, e) /\ neg.scheme \notin {"VeNCrypt", "Tight", "ARD"}
  BY DEF Due, Quiet
<1>2. First(neg.scheme, neg.version) = {<<>>}
  BY FirstOfQuiet
<1> QED
  BY <1>1, <1>2 DEF DueAuthentication

LEMMA UnknownSchemeKeeps ==
    ASSUME HandshakeInv, turn # "idle", garbled' \in BOOLEAN, UnknownScheme
    PROVE  Kept
<1>1. Fails /\ rq' = rq /\ Quiet(neg.scheme) /\ neg.init = "Authentication"
  BY DEF UnknownScheme, Quiet, Known, Supported
<1>2. ASSUME OnTheWay
      PROVE  Follows(rq' \o inbox, <<>>, ws = "open")
  BY <1>1, <1>2, NothingDue DEF OnTheWay
<1>3. ASSUME NothingMore
      PROVE  Follows(rq' \o inbox, <<>>, ws = "open")
  <2>1. rq' \o inbox = <<>> \o <<>>
    BY <1>1, <1>3 DEF NothingMore
  <2>2. <<>> \o <<>> = <<>>
    BY ConcatEmptySeq, EmptySeq
  <2> QED
    BY <1>3, <2>1, <2>2, FollowsItself, EmptySeq
<1> QED
  BY <1>1, <1>2, <1>3, FailsKept DEF Fails, HandshakeInv, Typed, InStep

LEMMA AuthNoneKeeps ==
    ASSUME HandshakeInv, turn # "idle", garbled' \in BOOLEAN, AuthNone
    PROVE  Kept
<1>1. PICK n : n = At(IF neg.version = "3.8" THEN "SecurityResult" ELSE "ClientInitialisation")
  OBVIOUS
<1>2. Moves(n, {<<>>}) /\ neg.init = "Authentication" /\ neg.scheme = "None" /\ rq' = rq
  BY <1>1, GoesMoves DEF AuthNone, InState
<1>3. /\ n \in NegType /\ n.scheme = neg.scheme /\ n.version = neg.version
      /\ n.init = IF neg.version = "3.8" THEN "SecurityResult" ELSE "ClientInitialisation"
      /\ n.tight = neg.tight /\ n.ard = neg.ard /\ n.ra2 = neg.ra2
  BY <1>1 DEF At, HandshakeInv, Typed, NegType, InitStates
<1>4. Fitting(n) /\ n.init \notin Early
  BY <1>3 DEF HandshakeInv, Passed, Fitting, Early
<1>5. ASSUME NEW e \in Seq(Cell), Due(neg, e), NEW r \in {<<>>}
      PROVE  Due(n, e \o r)
  <2>1. e \in First("None", neg.version)
    BY <1>2, <1>5 DEF Due, DueAuthentication
  <2>2. e \in IF neg.version = "3.8" THEN Results(neg.version) ELSE {<<>>}
    BY <2>1 DEF First
  <2>3. e \o r = e
    BY ConcatEmptySeq
  <2> QED
    BY <1>3, <2>2, <2>3 DEF Due
<1>6. {<<>>} \subseteq Seq(Cell)
  BY EmptySeq
<1> QED
  BY <1>2, <1>3, <1>4, <1>5, <1>6, Unread

(* A step that reads. *)
LEMMA ReadProceeds ==
    ASSUME HandshakeInv, turn # "idle", garbled' \in BOOLEAN,
           NEW kind, kind # "nothing", Input(kind), Read,
           NEW n \in NegType, Fitting(n), n.init \notin Early,
           NEW R, R \subseteq Seq(Cell), Moves(n, R),
           neg.scheme # "RA2ne" /\ n.scheme # "RA2ne" =>
                \A rest \in Seq(Cell) : Meant(kind, neg.version, Value, rest) =>
                    \A r \in R : Due(n, rest \o r)
    PROVE  Kept
<1>1. /\ rq' \in Seq(Cell) /\ Typed /\ Passed /\ Value = Head(rq).v
      /\ neg.scheme # "RA2ne" => \E rest \in Seq(Cell) : Takes(kind, rest)
  BY Taken
<1>2. ASSUME neg.scheme # "RA2ne", n.scheme # "RA2ne"
      PROVE  OnTheWay'
  <2>1. PICK rest \in Seq(Cell) : Takes(kind, rest)
    BY <1>1, <1>2
  <2>2. \A r \in R : Due(n, rest \o r)
    BY <1>1, <1>2, <2>1 DEF Takes
  <2> QED
    BY <1>1, <2>1, <2>2, MovesOn DEF Takes
<1> QED
  BY <1>1, <1>2, Proceeds

(* Nothing follows the message, and the server answers. *)
LEMMA ReadAnswered ==
    ASSUME HandshakeInv, turn # "idle", garbled' \in BOOLEAN,
           NEW kind, kind # "nothing", Input(kind), Read,
           \A rest : Meant(kind, neg.version, Value, rest) => rest = <<>>,
           NEW n \in NegType, Fitting(n), n.init \notin Early,
           NEW R, R \subseteq Seq(Cell), Moves(n, R), n.scheme # "RA2ne" => \A r \in R : Due(n, r)
    PROVE  Kept
<1>1. \A r \in R : <<>> \o r = r
  BY ConcatEmptySeq
<1>2. ASSUME n.scheme # "RA2ne", NEW rest \in Seq(Cell), Meant(kind, neg.version, Value, rest),
             NEW r \in R
      PROVE  Due(n, rest \o r)
  <2>1. rest = <<>>
    BY <1>2
  <2> QED
    BY <1>1, <1>2, <2>1
<1> QED
  BY <1>2, ReadProceeds

(* The server has sent what follows already. *)
LEMMA ReadAlong ==
    ASSUME HandshakeInv, turn # "idle", garbled' \in BOOLEAN,
           NEW kind, kind # "nothing", Input(kind), Read,
           NEW n \in NegType, Fitting(n), n.init \notin Early, Moves(n, {<<>>}),
           n.scheme # "RA2ne" =>
              \A rest \in Seq(Cell) : Meant(kind, neg.version, Value, rest) => Due(n, rest)
    PROVE  Kept
<1>1. PICK R : R = {<<>>}
  OBVIOUS
<1>2. R \subseteq Seq(Cell)
  BY <1>1, EmptySeq
<1>3. \A rest \in Seq(Cell) : \A r \in R : rest \o r = rest
  BY <1>1, ConcatEmptySeq
<1>4. n.scheme # "RA2ne" =>
        \A rest \in Seq(Cell) : Meant(kind, neg.version, Value, rest) =>
            \A r \in R : Due(n, rest \o r)
  BY <1>3
<1> QED
  BY <1>1, <1>2, <1>4, ReadProceeds

LEMMA AnswersKeeps ==
    ASSUME HandshakeInv, turn # "idle", garbled' \in BOOLEAN, Answers
    PROVE  Kept
<1>1. PICK kind \in {"challenge", "dh"} : Input(kind) /\ Read
  BY DEF Answers
<1>2. PICK n : n = At("SecurityResult")
  OBVIOUS
<1>3. Moves(n, Results(neg.version))
  BY <1>2, GoesMoves DEF Answers
<1>4. /\ n \in NegType /\ n.init = "SecurityResult" /\ n.scheme = neg.scheme
      /\ n.version = neg.version /\ n.tight = neg.tight /\ n.ard = neg.ard /\ n.ra2 = neg.ra2
  BY <1>2 DEF At, HandshakeInv, Typed, NegType, InitStates
<1>5. Fitting(n) /\ n.init \notin Early
  BY <1>4 DEF HandshakeInv, Passed, Fitting, Early
<1>6. Results(neg.version) \subseteq Seq(Cell) /\ \A r \in Results(neg.version) : Due(n, r)
  BY <1>4, ResultsOpen DEF Due
<1>7. \A rest : Meant(kind, neg.version, Value, rest) => rest = <<>>
  BY DEF Meant
<1> QED
  BY <1>1, <1>3, <1>4, <1>5, <1>6, <1>7, ReadAnswered

LEMMA AnswersUnaskedKeeps ==
    ASSUME HandshakeInv, turn # "idle", garbled' \in BOOLEAN, AnswersUnasked
    PROVE  Kept
<1>1. PICK n : n = At("SecurityResult")
  OBVIOUS
<1>2. /\ Moves(n, Results(neg.version)) /\ rq' = rq
      /\ neg.init = "Authentication" /\ Quiet(neg.scheme)
  BY <1>1, GoesMoves DEF AnswersUnasked, InState, Quiet
<1>3. /\ n \in NegType /\ n.init = "SecurityResult" /\ n.scheme = neg.scheme
      /\ n.version = neg.version /\ n.tight = neg.tight /\ n.ard = neg.ard /\ n.ra2 = neg.ra2
  BY <1>1 DEF At, HandshakeInv, Typed, NegType, InitStates
<1>4. Fitting(n) /\ n.init \notin Early
  BY <1>3 DEF HandshakeInv, Passed, Fitting, Early
<1>5. Results(neg.version) \subseteq Seq(Cell) /\ \A r \in Results(neg.version) : Due(n, r)
  BY <1>3, ResultsOpen DEF Due
<1>6. \A e : Due(neg, e) => e = <<>>
  BY <1>2, NothingDue
<1> QED
  BY <1>2, <1>3, <1>4, <1>5, <1>6, UnreadFromNothing

LEMMA XvpKeeps ==
    ASSUME HandshakeInv, turn # "idle", garbled' \in BOOLEAN, XvpAuth
    PROVE  Kept
<1>1. PICK n : n = [neg EXCEPT !.scheme = "VNCAuth"]
  OBVIOUS
<1>2. /\ Moves(n, First("VNCAuth", neg.version)) /\ rq' = rq
      /\ neg.init = "Authentication" /\ neg.scheme = "XVP"
  BY <1>1 DEF XvpAuth, InState, Moves, HandshakeInv, Typed
<1>3. "VNCAuth" \in Values
  BY DEF Values, Known, Supported
<1>4. /\ n \in NegType /\ n.init = "Authentication" /\ n.scheme = "VNCAuth"
      /\ n.version = neg.version /\ n.tight = neg.tight /\ n.ard = neg.ard /\ n.ra2 = neg.ra2
  BY <1>1, <1>2, <1>3 DEF HandshakeInv, Typed, NegType
<1>5. Fitting(n) /\ n.init \notin Early
  BY <1>2, <1>4 DEF HandshakeInv, Passed, Fitting, Early
<1>6. \A r \in First("VNCAuth", neg.version) : Due(n, r)
  BY <1>4 DEF Due, DueAuthentication
<1>7. \A e : Due(neg, e) => e = <<>>
  BY <1>2, NothingDue DEF Quiet
<1> QED
  BY <1>2, <1>4, <1>5, <1>6, <1>7, FirstIsSeq, UnreadFromNothing

LEMMA VeNCryptKeeps ==
    ASSUME HandshakeInv, turn # "idle", garbled' \in BOOLEAN, VeNCryptAuth
    PROVE  Kept
<1>1. PICK kind \in {"vencrypt", "ack", "count", "list"} :
        /\ Input(kind) /\ Read
        /\ \/ Fails /\ (kind = "ack" => Value # "ok") /\ (kind = "count" => Value = "empty")
           \/ kind = "vencrypt" /\ FallsThrough(SubTypes)
           \/ kind = "ack" /\ Value = "ok" /\ FallsThrough({<<>>})
           \/ kind = "count" /\ Value # "empty" /\ FallsThrough({<<>>})
           \/ /\ kind = "list" /\ Value \in Supported
              /\ Goes([neg EXCEPT !.scheme = Value], First(Value, neg.version), TRUE)
  BY DEF VeNCryptAuth
<1>2. /\ rq' \in Seq(Cell) /\ Value \in Values /\ Value = Head(rq).v /\ Typed /\ Passed
      /\ neg.init = "Authentication" /\ neg.scheme = "VeNCrypt"
      /\ neg.vencrypt = CASE kind = "vencrypt" -> 0 [] kind = "ack" -> 1 [] kind = "count" -> 2
                          [] kind = "list" -> 3
      /\ \E rest \in Seq(Cell) : Takes(kind, rest)
  BY <1>1, Taken, WhatReads
<1>3. CASE Fails /\ (kind = "ack" => Value # "ok") /\ (kind = "count" => Value = "empty")
  <2>1. PICK rest \in Seq(Cell) : Takes(kind, rest)
    BY <1>2
  <2>2. rest = <<>>
    BY <1>2, <1>3, <2>1 DEF Takes, Meant
  <2> QED
    BY <1>2, <1>3, <2>1, <2>2, FailsKept DEF Fails, Takes
<1>4. ASSUME NEW R, FallsThrough(R), kind # "list"
      PROVE  \E n \in NegType : /\ Moves(n, R) /\ Fitting(n) /\ n.init = "Authentication"
                              /\ n.scheme = "VeNCrypt" /\ n.vencrypt = neg.vencrypt + 1
                              /\ n.version = neg.version
  <2>1. PICK n : n = [neg EXCEPT !.vencrypt = @ + 1]
    OBVIOUS
  <2>2. Moves(n, R)
    BY <1>2, <1>4, <2>1 DEF FallsThrough, Moves, Typed
  <2>3. neg.vencrypt + 1 \in 0..3
    BY <1>2, <1>4
  <2>4. /\ n \in NegType /\ n.init = "Authentication" /\ n.scheme = "VeNCrypt"
        /\ n.version = neg.version /\ n.vencrypt = neg.vencrypt + 1
        /\ n.tight = neg.tight /\ n.ard = neg.ard /\ n.ra2 = neg.ra2
    BY <1>2, <2>1, <2>3 DEF Typed, NegType
  <2>5. Fitting(n)
    BY <1>2, <2>4 DEF Passed, Fitting, Early
  <2> QED
    BY <2>2, <2>4, <2>5
<1>5. "Authentication" \notin Early
  BY DEF Early
<1>6. CASE kind = "vencrypt" /\ FallsThrough(SubTypes)
  <2>1. PICK n \in NegType : /\ Moves(n, SubTypes) /\ Fitting(n) /\ n.init = "Authentication"
                             /\ n.scheme = "VeNCrypt" /\ n.vencrypt = neg.vencrypt + 1
                             /\ n.version = neg.version
    BY <1>4, <1>6
  <2>2. n.vencrypt = 1
    BY <1>2, <1>6, <2>1
  <2>3. SubTypes \subseteq Seq(Cell) /\ \A r \in SubTypes : Due(n, r)
    BY <2>1, <2>2, SubTypesOpen DEF Due, DueAuthentication
  <2>4. \A rest : Meant(kind, neg.version, Value, rest) => rest = <<>>
    BY <1>6 DEF Meant
  <2> QED
    BY <1>1, <1>5, <2>1, <2>3, <2>4, ReadAnswered
<1>7. CASE kind = "ack" /\ Value = "ok" /\ FallsThrough({<<>>})
  <2>1. PICK n \in NegType : /\ Moves(n, {<<>>}) /\ Fitting(n) /\ n.init = "Authentication"
                             /\ n.scheme = "VeNCrypt" /\ n.vencrypt = neg.vencrypt + 1
                             /\ n.version = neg.version
    BY <1>4, <1>7
  <2>2. n.vencrypt = 2
    BY <1>2, <1>7, <2>1
  <2>3. \A rest \in Seq(Cell) : Meant(kind, neg.version, Value, rest) => Due(n, rest)
    BY <1>7, <2>1, <2>2 DEF Meant, Due, DueAuthentication
  <2> QED
    BY <1>1, <1>5, <2>1, <2>3, ReadAlong
<1>8. CASE kind = "count" /\ Value # "empty" /\ FallsThrough({<<>>})
  <2>1. PICK n \in NegType : /\ Moves(n, {<<>>}) /\ Fitting(n) /\ n.init = "Authentication"
                             /\ n.scheme = "VeNCrypt" /\ n.vencrypt = neg.vencrypt + 1
                             /\ n.version = neg.version
    BY <1>4, <1>8
  <2>2. n.vencrypt = 3
    BY <1>2, <1>8, <2>1
  <2>3. \A rest \in Seq(Cell) : Meant(kind, neg.version, Value, rest) => Due(n, rest)
    BY <1>8, <2>1, <2>2 DEF Meant, Due, DueAuthentication
  <2> QED
    BY <1>1, <1>5, <2>1, <2>3, ReadAlong
<1>9. CASE /\ kind = "list" /\ Value \in Supported
           /\ Goes([neg EXCEPT !.scheme = Value], First(Value, neg.version), TRUE)
  <2>1. PICK n : n = [neg EXCEPT !.scheme = Value]
    OBVIOUS
  <2>2. Moves(n, First(Value, neg.version))
    BY <1>9, <2>1, GoesMoves
  <2>3. /\ n \in NegType /\ n.init = "Authentication" /\ n.scheme = Value
        /\ n.version = neg.version /\ n.tight = neg.tight /\ n.ard = neg.ard /\ n.ra2 = neg.ra2
    BY <1>2, <2>1 DEF Typed, NegType
  <2>4. Fitting(n)
    BY <1>2, <2>3 DEF Passed, Fitting, Early
  <2>5. Value # "VeNCrypt"
    <3>1. PICK rest \in Seq(Cell) : Takes(kind, rest)
      BY <1>2
    <3> QED
      BY <1>2, <1>9, <3>1 DEF Takes, Meant
  <2>6. ~n.tight /\ n.ard = ""
    BY <1>2, <2>3 DEF Passed, Fitting
  <2>7. \A r \in First(Value, neg.version) : Due(n, r)
    BY <2>3, <2>5, <2>6 DEF Due, DueAuthentication
  <2>8. \A rest : Meant(kind, neg.version, Value, rest) => rest = <<>>
    BY <1>9 DEF Meant
  <2> QED
    BY <1>1, <1>5, <2>2, <2>3, <2>4, <2>7, <2>8, FirstIsSeq, ReadAnswered
<1> QED
  BY <1>1, <1>3, <1>6, <1>7, <1>8, <1>9

LEMMA TightKeeps ==
    ASSUME HandshakeInv, turn # "idle", garbled' \in BOOLEAN, TightAuth
    PROVE  Kept
<1>1. PICK kind \in {"tunnels", "subauths"} :
        /\ Input(kind) /\ Read
        /\ \/ /\ kind = "tunnels" /\ Value = "other" /\ Fail /\ Returns(FALSE)
              /\ neg' = [neg EXCEPT !.tight = TRUE] /\ UNCHANGED <<inbox, askVars>>
           \/ /\ kind = "tunnels" /\ Value = "notunnel"
              /\ Goes([neg EXCEPT !.tight = TRUE], SubAuths, FALSE)
           \/ /\ kind = "tunnels" /\ Value \notin {"other", "notunnel"}
              /\ neg' = [neg EXCEPT !.tight = TRUE]
              /\ UNCHANGED <<inbox, turn, lifeVars, askVars>>
           \/ kind = "subauths" /\ Goes(At("SecurityResult"), Results(neg.version), TRUE)
           \/ /\ kind = "subauths" /\ Value \in {"VNCAuth", "Unix"}
              /\ Goes([neg EXCEPT !.scheme = Value], First(Value, neg.version), TRUE)
           \/ kind = "subauths" /\ Fails
  <2>1. CASE Input("tunnels") /\ Read
    BY <2>1 DEF TightAuth
  <2>2. CASE Input("subauths") /\ Read
    BY <2>2 DEF TightAuth
  <2> QED
    BY <2>1, <2>2 DEF TightAuth
<1>2. /\ rq' \in Seq(Cell) /\ Value \in Values /\ Value = Head(rq).v /\ Typed /\ Passed
      /\ neg.init = "Authentication" /\ neg.scheme = "Tight" /\ neg.ard = "" /\ neg.ra2 = ""
      /\ \E rest \in Seq(Cell) : Takes(kind, rest)
  BY <1>1, Taken, WhatReads DEF Passed, Fitting
<1>3. PICK t : t = [neg EXCEPT !.tight = TRUE]
  OBVIOUS
<1>4. /\ t \in NegType /\ t.init = "Authentication" /\ t.scheme = "Tight" /\ t.tight
      /\ t.version = neg.version /\ t.ard = neg.ard /\ t.ra2 = neg.ra2
  BY <1>2, <1>3 DEF Typed, NegType
<1>5. Fitting(t) /\ t.init \notin Early /\ "Authentication" \notin Early
  BY <1>2, <1>4 DEF Fitting, Early
<1>6. \A r \in SubAuths : Due(t, r)
  BY <1>4 DEF Due, DueAuthentication
<1>7. CASE /\ kind = "tunnels" /\ Value = "other" /\ Fail /\ Returns(FALSE)
           /\ neg' = [neg EXCEPT !.tight = TRUE] /\ UNCHANGED <<inbox, askVars>>
  <2>1. conn' = "disconnected" /\ ws' \in {"closing", "closed"} /\ turn' = "idle"
    BY <1>2, <1>7 DEF Typed, Passed, Fail, CloseSocket, Returns
  <2>2. Typed' /\ Passed'
    BY <1>2, <1>3, <1>4, <1>5, <1>7, <2>1 DEF Typed, Passed, askVars, Early
  <2>3. PICK rest \in Seq(Cell) : Takes(kind, rest)
    BY <1>2
  <2>4. rest = <<>>
    BY <1>2, <1>7, <2>3 DEF Takes, Meant
  <2>5. NothingMore'
    BY <1>2, <1>7, <2>1, <2>3, <2>4, Stopped DEF Takes, Typed
  <2> QED
    BY <2>2, <2>5 DEF Kept
<1>8. CASE /\ kind = "tunnels" /\ Value = "notunnel"
           /\ Goes([neg EXCEPT !.tight = TRUE], SubAuths, FALSE)
  <2>1. Moves(t, SubAuths)
    BY <1>3, <1>8, GoesMoves
  <2>2. \A rest : Meant(kind, neg.version, Value, rest) => rest = <<>>
    BY <1>8 DEF Meant
  <2>3. SubAuths \subseteq Seq(Cell)
    BY SubAuthsOpen
  <2> QED
    BY <1>1, <1>4, <1>5, <1>6, <2>1, <2>2, <2>3, ReadAnswered
<1>9. CASE /\ kind = "tunnels" /\ Value \notin {"other", "notunnel"}
           /\ neg' = [neg EXCEPT !.tight = TRUE]
           /\ UNCHANGED <<inbox, turn, lifeVars, askVars>>
  <2>1. inbox \o <<>> = inbox
    BY <1>2, ConcatEmptySeq DEF Typed
  <2>2. Sends({<<>>})
    BY <1>9, <2>1 DEF Sends
  <2>3. Moves(t, {<<>>})
    BY <1>2, <1>3, <1>9, <2>2 DEF Moves, Typed
  <2>4. \A rest \in Seq(Cell) : Meant(kind, neg.version, Value, rest) => Due(t, rest)
    BY <1>6, <1>9 DEF Meant
  <2> QED
    BY <1>1, <1>4, <1>5, <2>3, <2>4, ReadAlong
<1>10. \A rest : kind = "subauths" /\ Meant(kind, neg.version, Value, rest) => rest = <<>>
  BY DEF Meant
<1>11. CASE kind = "subauths" /\ Goes(At("SecurityResult"), Results(neg.version), TRUE)
  <2>1. PICK n : n = At("SecurityResult")
    OBVIOUS
  <2>2. Moves(n, Results(neg.version))
    BY <1>11, <2>1, GoesMoves
  <2>3. /\ n \in NegType /\ n.init = "SecurityResult" /\ n.scheme = neg.scheme
        /\ n.version = neg.version /\ n.tight = neg.tight /\ n.ard = neg.ard /\ n.ra2 = neg.ra2
    BY <1>2, <2>1 DEF At, Typed, NegType, InitStates
  <2>4. Fitting(n) /\ n.init \notin Early
    BY <1>2, <2>3 DEF Passed, Fitting, Early
  <2>5. Results(neg.version) \subseteq Seq(Cell) /\ \A r \in Results(neg.version) : Due(n, r)
    BY <2>3, ResultsOpen DEF Due
  <2> QED
    BY <1>1, <1>10, <1>11, <2>2, <2>3, <2>4, <2>5, ReadAnswered
<1>12. CASE /\ kind = "subauths" /\ Value \in {"VNCAuth", "Unix"}
            /\ Goes([neg EXCEPT !.scheme = Value], First(Value, neg.version), TRUE)
  <2>1. PICK n : n = [neg EXCEPT !.scheme = Value]
    OBVIOUS
  <2>2. Moves(n, First(Value, neg.version))
    BY <1>12, <2>1, GoesMoves
  <2>3. /\ n \in NegType /\ n.init = "Authentication" /\ n.scheme = Value
        /\ n.version = neg.version /\ n.ard = neg.ard /\ n.ra2 = neg.ra2
    BY <1>2, <2>1 DEF Typed, NegType
  <2>4. Fitting(n)
    BY <1>2, <1>12, <2>3 DEF Fitting, Early
  <2>5. \A r \in First(Value, neg.version) : Due(n, r)
    BY <1>12, <2>3 DEF Due, DueAuthentication
  <2> QED
    BY <1>1, <1>5, <1>10, <1>12, <2>2, <2>3, <2>4, <2>5, FirstIsSeq, ReadAnswered
<1>13. CASE kind = "subauths" /\ Fails
  BY <1>1, <1>2, <1>13, TakenAlone, FailsKept DEF Fails
<1> QED
  BY <1>1, <1>7, <1>8, <1>9, <1>11, <1>12, <1>13

LEMMA ArdKeeps ==
    ASSUME HandshakeInv, turn # "idle", garbled' \in BOOLEAN, ArdAuth
    PROVE  Kept
<1>1. Typed /\ Passed /\ "Authentication" \notin Early
  BY DEF HandshakeInv, Early
<1>2. CASE Input("ard") /\ Read /\ Goes([neg EXCEPT !.ard = "busy"], {<<>>}, FALSE)
  <2>1. PICK n : n = [neg EXCEPT !.ard = "busy"]
    OBVIOUS
  <2>2. Moves(n, {<<>>})
    BY <1>2, <2>1, GoesMoves
  <2>3. neg.init = "Authentication" /\ neg.scheme = "ARD"
    BY <1>1, <1>2, WhatReads DEF Input
  <2>4. /\ n \in NegType /\ n.init = "Authentication" /\ n.scheme = "ARD" /\ n.ard = "busy"
        /\ n.version = neg.version /\ n.tight = neg.tight /\ n.ra2 = neg.ra2
    BY <1>1, <2>1, <2>3 DEF Typed, NegType
  <2>5. Fitting(n)
    BY <1>1, <2>3, <2>4 DEF Passed, Fitting, Early
  <2>6. \A rest \in Seq(Cell) : Meant("ard", neg.version, Value, rest) => Due(n, rest)
    BY <2>4 DEF Meant, Due, DueAuthentication
  <2> QED
    BY <1>1, <1>2, <2>2, <2>4, <2>5, <2>6, ReadAlong
<1>3. CASE /\ InState("ARD") /\ neg.ard = "ready" /\ rq' = rq
           /\ Goes([neg EXCEPT !.ard = "", !.init = "SecurityResult"], Results(neg.version), TRUE)
  <2>1. PICK n : n = [neg EXCEPT !.ard = "", !.init = "SecurityResult"]
    OBVIOUS
  <2>2. Moves(n, Results(neg.version)) /\ rq' = rq
    BY <1>3, <2>1, GoesMoves
  <2>3. /\ n \in NegType /\ n.init = "SecurityResult" /\ n.scheme = neg.scheme /\ n.ard = ""
        /\ n.version = neg.version /\ n.tight = neg.tight /\ n.ra2 = neg.ra2
    BY <1>1, <2>1 DEF Typed, NegType, InitStates
  <2>4. Fitting(n) /\ n.init \notin Early
    BY <1>1, <2>3 DEF Passed, Fitting, Early
  <2>5. Results(neg.version) \subseteq Seq(Cell) /\ \A r \in Results(neg.version) : Due(n, r)
    BY <2>3, ResultsOpen DEF Due
  <2>6. \A e : Due(neg, e) => e = <<>>
    BY <1>3 DEF InState, Due, DueAuthentication
  <2> QED
    BY <2>2, <2>3, <2>4, <2>5, <2>6, UnreadFromNothing
<1> QED
  BY <1>2, <1>3 DEF ArdAuth

LEMMA Ra2neKeeps ==
    ASSUME HandshakeInv, turn # "idle", garbled' \in BOOLEAN, Ra2neAuth
    PROVE  Kept
<1>1. PICK n : n = IF neg.ra2 = "" THEN [neg EXCEPT !.ra2 = "key"] ELSE neg
  OBVIOUS
<1>2. Moves(n, {<<>>}) /\ rq' = rq /\ neg.init = "Authentication" /\ neg.scheme = "RA2ne"
  BY <1>1, GoesMoves DEF Ra2neAuth, InState
<1>3. /\ n \in NegType /\ n.init = "Authentication" /\ n.scheme = "RA2ne"
      /\ n.tight = neg.tight /\ n.ard = neg.ard
  BY <1>1, <1>2 DEF HandshakeInv, Typed, NegType
<1>4. Fitting(n) /\ n.init \notin Early
  BY <1>2, <1>3 DEF HandshakeInv, Passed, Fitting, Early
<1>5. PICK R : R = {<<>>}
  OBVIOUS
<1>6. R \subseteq Seq(Cell)
  BY <1>5, EmptySeq
<1> QED
  BY <1>2, <1>3, <1>4, <1>5, <1>6, Unread

(* Nothing has happened to the stream. *)
LEMMA Waiting ==
    ASSUME HandshakeInv, UNCHANGED <<rq, inbox, neg, ws>>
    PROVE  neg.scheme # "RA2ne" => OnTheWay' \/ NothingMore'
BY DEF HandshakeInv, InStep, OnTheWay, NothingMore

LEMMA WaitsKeeps ==
    ASSUME HandshakeInv, turn # "idle", garbled' \in BOOLEAN, Waits \/ Asks
    PROVE  Kept
<1>1. UNCHANGED <<rq, inbox, neg, ws, conn, resumes>> /\ turn' = "idle"
  BY DEF Waits, Asks, Returns, lifeVars, askVars
<1>2. neg.init \in Early => prompt' = prompt
  BY DEF Waits, Asks, AsksUser, Early, askVars
<1>3. neg.init # "" /\ Typed /\ Passed
  BY DEF HandshakeInv, Passed
<1>4. Typed'
  BY <1>1, <1>3 DEF Typed
<1>5. Passed'
  BY <1>1, <1>2, <1>3 DEF Passed
<1> QED
  BY <1>1, <1>4, <1>5, Waiting DEF Kept

LEMMA InitMsgKeeps ==
    ASSUME HandshakeInv, InitMsg
    PROVE  HandshakeInv'
<1>1. turn # "idle" /\ garbled' \in BOOLEAN
  BY DEF InitMsg, HandshakeInv, Typed
<1>2. Kept
  <2>1. CASE Waits \/ Asks
    BY <1>1, <2>1, WaitsKeeps
  <2>2. CASE NegotiateProtocolVersion
    BY <1>1, <2>2, ProtocolVersionKeeps
  <2>3. CASE NegotiateSecurity
    BY <1>1, <2>3, SecurityKeeps
  <2>4. CASE SecurityReason
    BY <1>1, <2>4, SecurityReasonKeeps
  <2>5. CASE SecurityResult
    BY <1>1, <2>5, SecurityResultKeeps
  <2>6. CASE ClientInitialisation
    BY <1>1, <2>6, ClientInitialisationKeeps
  <2>7. CASE NegotiateServerInit
    BY <1>1, <2>7, ServerInitKeeps
  <2>8. CASE UnknownScheme
    BY <1>1, <2>8, UnknownSchemeKeeps
  <2>9. CASE AuthNone
    BY <1>1, <2>9, AuthNoneKeeps
  <2>10. CASE Answers
    BY <1>1, <2>10, AnswersKeeps
  <2>11. CASE AnswersUnasked
    BY <1>1, <2>11, AnswersUnaskedKeeps
  <2>12. CASE XvpAuth
    BY <1>1, <2>12, XvpKeeps
  <2>13. CASE VeNCryptAuth
    BY <1>1, <2>13, VeNCryptKeeps
  <2>14. CASE TightAuth
    BY <1>1, <2>14, TightKeeps
  <2>15. CASE ArdAuth
    BY <1>1, <2>15, ArdKeeps
  <2>16. CASE Ra2neAuth
    BY <1>1, <2>16, Ra2neKeeps
  <2> QED
    BY <2>1, <2>2, <2>3, <2>4, <2>5, <2>6, <2>7, <2>8, <2>9, <2>10, <2>11, <2>12, <2>13, <2>14,
       <2>15, <2>16 DEF InitMsg
<1>3. ASSUME neg'.scheme # "RA2ne"
      PROVE  neg.scheme # "RA2ne"
  <2>1. CASE neg.scheme = "RA2ne"
    <3>1. neg.init \notin Early
      BY <2>1 DEF HandshakeInv, Passed, Fitting
    <3>2. UNCHANGED neg \/ neg'.scheme = neg.scheme
      <4>1. Waits \/ Asks \/ SecurityReason \/ NegotiateServerInit \/ UnknownScheme => UNCHANGED neg
        BY DEF Waits, Asks, SecurityReason, NegotiateServerInit, UnknownScheme, Fails
      <4>2. /\ ~Input("version") /\ ~Input("types") /\ ~Input("scheme")
            /\ \A k \in {"challenge", "dh", "ard", "vencrypt", "ack", "count", "list", "tunnels",
                        "subauths"} : ~Input(k)
        BY <2>1, <3>1, WhatReads DEF Input, HandshakeInv, Early
      <4>3. ~NegotiateProtocolVersion /\ ~NegotiateSecurity /\ ~Answers /\ ~VeNCryptAuth
            /\ ~TightAuth
        BY <4>2 DEF NegotiateProtocolVersion, NegotiateSecurity, Answers, VeNCryptAuth, TightAuth
      <4>4. ~AuthNone /\ ~AnswersUnasked /\ ~XvpAuth /\ ~ArdAuth
        BY <2>1, <4>2 DEF AuthNone, AnswersUnasked, XvpAuth, ArdAuth, InState
      <4>5. \A i : At(i).scheme = neg.scheme
        BY DEF At, HandshakeInv, Typed, NegType
      <4>6. SecurityResult \/ ClientInitialisation => UNCHANGED neg \/ neg'.scheme = neg.scheme
        BY <4>5 DEF SecurityResult, ClientInitialisation, Goes, Fails
      <4>7. Ra2neAuth => UNCHANGED neg \/ neg'.scheme = neg.scheme
        BY DEF Ra2neAuth, Goes, HandshakeInv, Typed, NegType
      <4> QED
        BY <4>1, <4>3, <4>4, <4>6, <4>7 DEF InitMsg
    <3> QED
      BY <1>3, <2>1, <3>2
  <2>2. CASE neg.scheme # "RA2ne"
    BY <2>2
  <2> QED
    BY <2>1, <2>2
<1>4. neg'.scheme # "RA2ne" => ~garbled' /\ (OnTheWay' \/ NothingMore')
  <2>1. neg.scheme # "RA2ne" => ~OutOfStep /\ ~garbled
    BY <1>1, NotOutOfStep DEF HandshakeInv, InStep
  <2>2. garbled' = (garbled \/ OutOfStep)
    BY DEF InitMsg
  <2> QED
    BY <1>2, <1>3, <2>1, <2>2 DEF Kept
<1> QED
  BY <1>2, <1>4 DEF Kept, HandshakeInv, InStep
-----------------------------------------------------------------------------
(* RA2 goes on aside: its own stream is exempt, its states are not.        *)

LEMMA Aside ==
    ASSUME HandshakeInv, neg.ra2 # ""
    PROVE  /\ Typed /\ Passed /\ neg.scheme = "RA2ne" /\ neg.init \notin Early /\ neg.init # ""
           /\ ws # "connecting"
BY DEF HandshakeInv, Passed, Fitting, Early

RaStates == {[neg EXCEPT !.ra2 = "", !.init = "SecurityResult"]} \cup
            {At2(s) : s \in {"key", "approve", "random", "hash", "subtype", "names", "password"}}

LEMMA RaStatesFit ==
    ASSUME HandshakeInv, neg.ra2 # "", NEW n \in RaStates
    PROVE  n \in NegType /\ Fitting(n) /\ n.init \notin Early /\ n.scheme = "RA2ne"
<1>1. /\ neg.scheme = "RA2ne" /\ neg.init \notin Early /\ Fitting(neg) /\ neg \in NegType
      /\ "SecurityResult" \notin Early
  BY Aside DEF Passed, Typed, Early
<1>2. /\ n \in NegType /\ n.scheme = "RA2ne" /\ n.init \in {neg.init, "SecurityResult"}
      /\ n.tight = neg.tight /\ n.ard = neg.ard
  <2>1. CASE n = [neg EXCEPT !.ra2 = "", !.init = "SecurityResult"]
    BY <1>1, <2>1 DEF NegType, InitStates
  <2>2. ASSUME NEW s \in {"key", "approve", "random", "hash", "subtype", "names", "password"},
               n = [neg EXCEPT !.ra2 = s]
        PROVE  /\ n \in NegType /\ n.scheme = "RA2ne" /\ n.init = neg.init
               /\ n.tight = neg.tight /\ n.ard = neg.ard
    BY <1>1, <2>2 DEF NegType
  <2> QED
    BY <2>1, <2>2 DEF RaStates, At2
<1> QED
  BY <1>1, <1>2 DEF Fitting

LEMMA AsideKeeps ==
    ASSUME HandshakeInv, neg.ra2 # "", neg' \in RaStates, turn' = turn, resumes' = resumes,
           rq' \in Seq(Cell), inbox' \in Seq(Cell), garbled' \in BOOLEAN,
           UNCHANGED lifeVars \/ Fail
    PROVE  HandshakeInv'
<1>1. /\ Typed /\ Passed /\ neg.init # "" /\ ws # "connecting"
  BY Aside
<1>2. neg' \in NegType /\ Fitting(neg') /\ neg'.init \notin Early /\ neg'.scheme = "RA2ne"
  BY RaStatesFit
<1>3. /\ ws' \in {"open", "closing", "closed"}
      /\ conn' \in {"disconnecting", "disconnected"} => ws' \in {"closing", "closed"}
  BY <1>1 DEF lifeVars, Fail, CloseSocket, Typed, Passed
<1>4. Typed'
  BY <1>1, <1>2, <1>3 DEF Typed
<1>5. Passed'
  BY <1>2, <1>3 DEF Passed, Early
<1> QED
  BY <1>2, <1>4, <1>5 DEF HandshakeInv, InStep

LEMMA ThrowsKeeps ==
    ASSUME HandshakeInv, neg.ra2 # "", Throws, turn' = turn, rq' \in Seq(Cell),
           garbled' \in BOOLEAN
    PROVE  HandshakeInv'
<1>1. neg' \in RaStates /\ inbox' = inbox /\ resumes' = resumes
  BY DEF Throws, RaStates, askVars
<1> QED
  BY <1>1, AsideKeeps DEF Throws, HandshakeInv, Typed

LEMMA ContinuesKeeps ==
    ASSUME HandshakeInv, neg.ra2 # "", NEW n \in RaStates, NEW R, R \subseteq Seq(Cell),
           Continues(n, R), turn' = turn, rq' \in Seq(Cell), garbled' \in BOOLEAN
    PROVE  HandshakeInv'
<1>1. inbox' \in Seq(Cell)
  BY Sent DEF Continues, HandshakeInv
<1>2. neg' \in RaStates /\ resumes' = resumes /\ UNCHANGED lifeVars
  BY DEF Continues, askVars
<1> QED
  BY <1>1, <1>2, AsideKeeps

LEMMA RepliesAre ==
    ASSUME NEW kind \in {"random", "hash", "subtype"}, NEW V,
           V \subseteq {"good", "bad", "names", "password", "other"}
    PROVE  {Msg(kind, v, 1) : v \in V} \subseteq Seq(Cell)
<1>1. kind \in Kinds /\ V \subseteq Values
  BY DEF Kinds, Values, Known, Supported
<1>2. ASSUME NEW v \in V
      PROVE  Msg(kind, v, 1) \in Seq(Cell)
  <2>1. v \in Values /\ 1 \in Nat
    BY <1>1
  <2> QED
    BY <1>1, <2>1, MsgIs
<1> QED
  BY <1>2

LEMMA Ra2KeyKeeps ==
    ASSUME HandshakeInv, Ra2Key
    PROVE  HandshakeInv'
<1>1. /\ neg.ra2 # "" /\ turn' = turn /\ garbled' \in BOOLEAN /\ rq' \in Seq(Cell)
  BY ReadIs DEF Ra2Key, Reaches, HandshakeInv, Typed
<1>2. CASE Throws
  BY <1>1, <1>2, ThrowsKeeps
<1>3. CASE Continues(At2("approve"), {<<>>})
  <2>1. PICK n : n = At2("approve")
    OBVIOUS
  <2>2. PICK R : R = {<<>>}
    OBVIOUS
  <2>3. n \in RaStates /\ R \subseteq Seq(Cell) /\ Continues(n, R)
    BY <1>3, <2>1, <2>2, EmptySeq DEF RaStates
  <2> QED
    BY <1>1, <2>3, ContinuesKeeps
<1> QED
  BY <1>2, <1>3 DEF Ra2Key

LEMMA Ra2RandomKeeps ==
    ASSUME HandshakeInv, Ra2Random
    PROVE  HandshakeInv'
<1>1. /\ neg.ra2 # "" /\ turn' = turn /\ garbled' \in BOOLEAN /\ rq' \in Seq(Cell)
  BY ReadIs, EmptySeq DEF Ra2Random, Reaches, HandshakeInv, Typed, Whole
<1>2. CASE Throws
  BY <1>1, <1>2, ThrowsKeeps
<1>3. CASE Continues(At2("hash"), {Msg("hash", v, 1) : v \in {"good", "bad"}})
  <2>1. PICK n : n = At2("hash")
    OBVIOUS
  <2>2. PICK R : R = {Msg("hash", v, 1) : v \in {"good", "bad"}}
    OBVIOUS
  <2>3. n \in RaStates /\ R \subseteq Seq(Cell) /\ Continues(n, R)
    BY <1>3, <2>1, <2>2, RepliesAre DEF RaStates
  <2> QED
    BY <1>1, <2>3, ContinuesKeeps
<1> QED
  BY <1>2, <1>3 DEF Ra2Random

LEMMA Ra2HashKeeps ==
    ASSUME HandshakeInv, Ra2Hash
    PROVE  HandshakeInv'
<1>1. /\ neg.ra2 # "" /\ turn' = turn /\ garbled' \in BOOLEAN /\ rq' \in Seq(Cell)
  BY ReadIs DEF Ra2Hash, Reaches, HandshakeInv, Typed
<1>2. CASE Throws
  BY <1>1, <1>2, ThrowsKeeps
<1>3. CASE Continues(At2("subtype"), {Msg("subtype", v, 1) : v \in {"names", "password", "other"}})
  <2>1. PICK n : n = At2("subtype")
    OBVIOUS
  <2>2. PICK R : R = {Msg("subtype", v, 1) : v \in {"names", "password", "other"}}
    OBVIOUS
  <2>3. n \in RaStates /\ R \subseteq Seq(Cell) /\ Continues(n, R)
    BY <1>3, <2>1, <2>2, RepliesAre DEF RaStates
  <2> QED
    BY <1>1, <2>3, ContinuesKeeps
<1> QED
  BY <1>2, <1>3 DEF Ra2Hash

LEMMA Ra2SubtypeKeeps ==
    ASSUME HandshakeInv, Ra2Subtype
    PROVE  HandshakeInv'
<1>1. /\ neg.ra2 # "" /\ turn' = turn /\ garbled' \in BOOLEAN /\ rq' \in Seq(Cell)
  BY ReadIs DEF Ra2Subtype, Reaches, HandshakeInv, Typed
<1>2. CASE Throws
  BY <1>1, <1>2, ThrowsKeeps
<1>3. CASE Value # "other"
  <2>1. neg' \in {At2("names"), At2("password")} /\ UNCHANGED <<lifeVars, inbox, resumes>>
    BY <1>3 DEF Ra2Subtype
  <2>2. neg' \in RaStates
    BY <2>1 DEF RaStates
  <2> QED
    BY <1>1, <2>1, <2>2, AsideKeeps DEF HandshakeInv, Typed
<1> QED
  BY <1>2, <1>3 DEF Ra2Subtype

LEMMA Ra2CredentialsKeeps ==
    ASSUME HandshakeInv, Ra2Credentials
    PROVE  HandshakeInv'
<1>1. /\ neg.ra2 # "" /\ turn' = turn /\ garbled' \in BOOLEAN /\ rq' \in Seq(Cell)
  BY DEF Ra2Credentials, HandshakeInv, Typed
<1>2. PICK n : n = [neg EXCEPT !.ra2 = "", !.init = "SecurityResult"]
  OBVIOUS
<1>3. PICK R : R = Results(neg.version)
  OBVIOUS
<1>4. n \in RaStates /\ R \subseteq Seq(Cell) /\ Continues(n, R)
  BY <1>2, <1>3, ResultsOpen DEF Ra2Credentials, RaStates
<1> QED
  BY <1>1, <1>4, ContinuesKeeps

LEMMA ApproveServerKeeps ==
    ASSUME HandshakeInv, ApproveServer
    PROVE  HandshakeInv'
<1>1. /\ neg.ra2 # "" /\ turn' = turn /\ garbled' \in BOOLEAN /\ rq' \in Seq(Cell)
  BY DEF ApproveServer, HandshakeInv, Typed
<1>2. PICK n : n = At2("random")
  OBVIOUS
<1>3. PICK R : R = {Msg("random", v, 1) : v \in {"good", "bad"}}
  OBVIOUS
<1>4. n \in RaStates /\ R \subseteq Seq(Cell) /\ Continues(n, R)
  BY <1>2, <1>3, RepliesAre DEF ApproveServer, RaStates
<1> QED
  BY <1>1, <1>4, ContinuesKeeps
-----------------------------------------------------------------------------
(* The timers, the user, the socket. *)

LEMMA UserKeeps ==
    ASSUME HandshakeInv, ResumeAuthentication \/ SendCredentials
    PROVE  HandshakeInv'
<1>1. /\ UNCHANGED <<rq, inbox, neg, conn, ws, garbled>> /\ resumes' \in Nat
      /\ turn' \in {"idle", "loop", "once"} /\ neg.init \notin Early
  <2>1. resumes \in Nat /\ turn \in {"idle", "loop", "once"}
    BY DEF HandshakeInv, Typed
  <2>2. prompt # {} \/ resumes > 0 => neg.init \notin Early
    <3>1. neg.init \in Early => prompt = {} /\ resumes = 0
      BY DEF HandshakeInv, Passed
    <3> QED
      BY <2>1, <3>1
  <2>3. CASE ResumeAuthentication
    BY <2>1, <2>2, <2>3 DEF ResumeAuthentication, lifeVars
  <2>4. CASE SendCredentials
    BY <2>1, <2>2, <2>4 DEF SendCredentials, lifeVars
  <2> QED
    BY <2>3, <2>4
<1>2. Typed'
  BY <1>1 DEF HandshakeInv, Typed
<1>3. Passed'
  BY <1>1 DEF HandshakeInv, Passed, Early
<1> QED
  BY <1>1, <1>2, <1>3, Waiting DEF HandshakeInv, InStep

LEMMA ArdComputedKeeps ==
    ASSUME HandshakeInv, ArdComputed
    PROVE  HandshakeInv'
<1>1. /\ UNCHANGED <<rq, inbox, conn, ws, garbled>> /\ resumes' \in Nat /\ turn' = turn
      /\ Typed /\ Passed /\ neg.ard = "busy"
  BY DEF ArdComputed, lifeVars, HandshakeInv, Typed
<1>2. neg.scheme = "ARD" /\ neg.init \notin Early
  BY <1>1 DEF Passed, Fitting
<1>3. /\ neg' \in NegType /\ neg'.init = neg.init /\ neg'.scheme = "ARD" /\ neg'.ard = "ready"
      /\ neg'.version = neg.version /\ neg'.tight = neg.tight /\ neg'.ra2 = neg.ra2
  BY <1>1, <1>2 DEF ArdComputed, Typed, NegType
<1>4. Typed'
  BY <1>1, <1>3 DEF Typed
<1>5. Passed'
  BY <1>1, <1>2, <1>3 DEF Passed, Fitting, Early
<1>6. \A e : Due(neg, e) => Due(neg', e)
  BY <1>1, <1>2, <1>3 DEF Due, DueAuthentication
<1>7. OnTheWay => OnTheWay'
  BY <1>1, <1>6 DEF OnTheWay
<1>8. NothingMore => NothingMore'
  BY <1>1 DEF NothingMore
<1> QED
  BY <1>1, <1>2, <1>4, <1>5, <1>7, <1>8 DEF HandshakeInv, InStep

LEMMA DeliverKeeps ==
    ASSUME HandshakeInv, Deliver
    PROVE  HandshakeInv'
<1>1. Typed /\ Passed /\ UNCHANGED <<lifeVars, neg, askVars, garbled>> /\ turn' = "loop"
  BY DEF Deliver, HandshakeInv
<1>2. PICK n \in 1..Len(inbox) : /\ rq' = rq \o SubSeq(inbox, 1, n)
                                 /\ inbox' = SubSeq(inbox, n + 1, Len(inbox))
  BY DEF Deliver
<1>3. /\ rq' \in Seq(Cell) /\ inbox' \in Seq(Cell) /\ rq' # <<>>
      /\ rq' \o inbox' = rq \o inbox
  BY <1>1, <1>2, Delivering DEF Typed
<1>4. inbox # <<>> /\ ws = "open"
  BY <1>2 DEF Deliver
<1>5. Typed'
  BY <1>1, <1>3 DEF Typed, lifeVars, askVars
<1>6. Passed'
  BY <1>1, <1>3, <1>4 DEF Passed, lifeVars, askVars
<1>7. OnTheWay => OnTheWay'
  BY <1>1, <1>3 DEF OnTheWay, lifeVars
<1>8. ~NothingMore
  BY <1>4 DEF NothingMore
<1> QED
  BY <1>1, <1>5, <1>6, <1>7, <1>8 DEF HandshakeInv, InStep

LEMMA SocketOpenKeeps ==
    ASSUME HandshakeInv, SocketOpen
    PROVE  HandshakeInv'
<1>1. /\ Typed /\ Passed /\ ws = "connecting" /\ neg.init = "" /\ rq = <<>> /\ neg.scheme = ""
      /\ UNCHANGED <<conn, rq, resumes, prompt, turn, garbled>> /\ ws' = "open"
  BY DEF SocketOpen, HandshakeInv, Passed, Fitting, Early, askVars
<1>2. /\ neg' \in NegType /\ neg'.init = "ProtocolVersion" /\ neg'.scheme = neg.scheme
      /\ neg'.vencrypt = neg.vencrypt /\ neg'.tight = neg.tight /\ neg'.ard = neg.ard
      /\ neg'.ra2 = neg.ra2
  BY <1>1 DEF SocketOpen, Typed, NegType, InitStates
<1>3. inbox' \in Greeting \cup {Msg("version", "repeater", 1)} /\ inbox' \in Seq(Cell)
  BY GreetingOpens DEF SocketOpen
<1>4. Typed'
  BY <1>1, <1>2, <1>3 DEF Typed
<1>5. neg.init \in Early /\ neg'.init \in Early
  BY <1>1, <1>2 DEF Early
<1>6. Fitting(neg')
  BY <1>1, <1>2, <1>5 DEF Passed, Fitting
<1>7. Passed'
  BY <1>1, <1>2, <1>5, <1>6 DEF Passed
<1>8. OnTheWay'
  <2>1. rq' \o inbox' = inbox'
    BY <1>1, <1>3, ConcatEmptySeq
  <2>2. Due(neg', inbox')
    BY <1>2, <1>3 DEF Due
  <2> QED
    BY <1>3, <2>1, <2>2, FollowsItself DEF OnTheWay
<1>9. ~garbled'
  BY <1>1 DEF HandshakeInv, InStep
<1> QED
  BY <1>4, <1>7, <1>8, <1>9 DEF HandshakeInv, InStep

(* The socket is given up; what the parser has is what was due.            *)
LEMMA GivenUp ==
    ASSUME HandshakeInv, UNCHANGED <<rq, garbled, turn, prompt, resumes>>, inbox' \in {inbox, <<>>},
           neg' = neg, ws' \in {"closing", "closed"}
    PROVE  HandshakeInv'
<1>1. Typed /\ Passed
  BY DEF HandshakeInv
<1>2. inbox' \in Seq(Cell)
  BY <1>1, EmptySeq DEF Typed
<1>3. Typed'
  BY <1>1, <1>2 DEF Typed
<1>4. Passed'
  BY <1>1 DEF Passed
<1>5. ASSUME OnTheWay
      PROVE  OnTheWay'
  <2>1. PICK e \in Seq(Cell) : Due(neg, e) /\ Follows(rq \o inbox, e, ws = "open")
    BY <1>5 DEF OnTheWay
  <2>2. Follows(rq \o inbox, e, FALSE)
    BY <2>1 DEF Follows
  <2>3. Follows(rq \o <<>>, e, FALSE)
    BY <1>1, <2>1, CutOff DEF Typed
  <2>4. Follows(rq' \o inbox', e, FALSE)
    BY <2>2, <2>3
  <2>5. Due(neg', e) /\ (ws' = "open") = FALSE
    BY <2>1
  <2>6. Follows(rq' \o inbox', e, ws' = "open")
    BY <2>4 DEF Follows
  <2> QED
    BY <2>5, <2>6 DEF OnTheWay
<1>6. NothingMore => NothingMore'
  BY DEF NothingMore
<1> QED
  BY <1>3, <1>4, <1>5, <1>6 DEF HandshakeInv, InStep

LEMMA SocketKeeps ==
    ASSUME HandshakeInv, SocketClosed \/ ConnectionLost \/ DisconnectTimeout
    PROVE  HandshakeInv'
<1>1. /\ UNCHANGED <<rq, garbled, turn, prompt, resumes, neg>> /\ inbox' \in {inbox, <<>>}
      /\ ws' \in {"closing", "closed"}
  BY DEF SocketClosed, ConnectionLost, DisconnectTimeout, askVars, HandshakeInv, Passed
<1> QED
  BY <1>1, GivenUp

LEMMA DisconnectKeeps ==
    ASSUME HandshakeInv, Disconnect
    PROVE  HandshakeInv'
<1>1. /\ UNCHANGED <<rq, inbox, garbled, turn, prompt, resumes>> /\ ws' \in {"closing", "closed"}
      /\ Typed /\ Passed
  BY DEF Disconnect, CloseSocket, askVars, HandshakeInv, Typed
<1>2. CASE UNCHANGED neg
  BY <1>1, <1>2, GivenUp
<1>3. CASE neg.ra2 # "" /\ neg' = [neg EXCEPT !.ra2 = "", !.init = "SecurityResult"]
  <2>1. neg' \in RaStates
    BY <1>3 DEF RaStates
  <2>2. neg' \in NegType /\ Fitting(neg') /\ neg'.init \notin Early /\ neg'.scheme = "RA2ne"
    BY <1>3, <2>1, RaStatesFit
  <2>3. Typed'
    BY <1>1, <2>2 DEF Typed
  <2>4. Passed'
    BY <1>1, <2>2 DEF Passed, Early
  <2> QED
    BY <2>2, <2>3, <2>4 DEF HandshakeInv, InStep
<1> QED
  BY <1>2, <1>3 DEF Disconnect

LEMMA HandshakeNext ==
    ASSUME HandshakeInv, [HsNext]_hsVars
    PROVE  HandshakeInv'
<1>1. CASE Machine
  <2>1. CASE Ra2Step
    BY <2>1, Ra2KeyKeeps, Ra2RandomKeeps, Ra2HashKeeps, Ra2SubtypeKeeps, Ra2CredentialsKeeps
       DEF Ra2Step
  <2> QED
    BY <1>1, <2>1, InitMsgKeeps, UserKeeps, ArdComputedKeeps DEF Machine
<1>2. CASE UNCHANGED hsVars
  <2>1. UNCHANGED <<rq, inbox, garbled, turn, prompt, resumes, neg, conn, ws>>
    BY <1>2 DEF hsVars, lifeVars, askVars
  <2>2. Typed' /\ Passed'
    BY <2>1 DEF HandshakeInv, Typed, Passed
  <2> QED
    BY <2>1, <2>2, Waiting DEF HandshakeInv, InStep
<1> QED
  BY <1>1, <1>2, DeliverKeeps, SocketOpenKeeps, SocketKeeps, DisconnectKeeps, UserKeeps,
     ApproveServerKeeps DEF HsNext

(* The parser's state, its buffer and what is on its way are together at   *)
(* every moment what the protocol says: the invariant of rfb.js:1313-2147. *)
THEOREM HandshakeInvariant == HsSpec => []HandshakeInv
<1>1. ASSUME HsInit
      PROVE  HandshakeInv
  <2>1. /\ rq = <<>> /\ inbox = <<>> /\ resumes = 0 /\ garbled = FALSE /\ turn = "idle"
        /\ prompt = {} /\ ws = "connecting" /\ conn = "connecting"
        /\ neg = [init |-> "", version |-> "", scheme |-> "", vencrypt |-> 0,
                  tight |-> FALSE, ard |-> "", ra2 |-> ""]
    BY <1>1 DEF HsInit
  <2>2. neg \in NegType /\ neg.init = "" /\ Fitting(neg)
    <3>1. "" \in Values
      BY DEF Values
    <3>2. neg \in NegType
      <4>1. /\ "" \in InitStates /\ 0 \in 0..3 /\ FALSE \in BOOLEAN /\ "" \in {"", "busy", "ready"}
            /\ "" \in {"", "key", "approve", "random", "hash", "subtype", "names", "password"}
        BY DEF InitStates
      <4> QED
        BY <2>1, <3>1, <4>1 DEF NegType
    <3> QED
      BY <2>1, <3>2 DEF Fitting
  <2>3. Typed
    <3>1. rq \in Seq(Cell) /\ inbox \in Seq(Cell)
      BY <2>1, EmptySeq
    <3> QED
      BY <2>1, <2>2, <3>1 DEF Typed
  <2>4. Passed
    BY <2>1, <2>2 DEF Passed
  <2>5. NothingMore
    BY <2>1 DEF NothingMore
  <2> QED
    BY <2>1, <2>3, <2>4, <2>5 DEF HandshakeInv, InStep
<1>2. HandshakeInv /\ [HsNext]_hsVars => HandshakeInv'
  BY HandshakeNext
<1> QED
  BY <1>1, <1>2, PTL DEF HsSpec

(* However the server's messages are cut, whichever of the security types  *)
(* are taken, whatever the user does and whenever the socket goes: a read  *)
(* finds the message the server sent there, RA2's excepted.                *)
THEOREM ReadsAlwaysInStep == HsSpec => []ReadsInStep
<1>1. HandshakeInv => ReadsInStep
  BY DEF HandshakeInv, InStep, ReadsInStep
<1> QED
  BY <1>1, HandshakeInvariant, PTL
=============================================================================
