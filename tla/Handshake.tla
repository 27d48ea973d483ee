----------------------------- MODULE Handshake -----------------------------
(***************************************************************************)
(* The console's connection (app/static/novnc/core/rfb.js, ra2.js): its    *)
(* life from connecting to disconnected, and the RFB handshake, a parser   *)
(* that is called again whenever bytes arrive or the user has answered.    *)
(*                                                                         *)
(* A message of the server is a few cells: its head, which holds what the  *)
(* message says and how many cells are left of it, and those.  The network *)
(* delivers cells in order, in pieces of any size.  The server keeps the   *)
(* protocol: it sends what the client's last message calls for.            *)
(***************************************************************************)
EXTENDS Naturals, Sequences

CONSTANTS Versions,     \* versions servers have
          Schemes,      \* security types servers offer
          FirstCreds    \* what credentials a page may pass to the constructor

VARIABLES
    conn,       \* _rfbConnectionState
    ws,         \* state of the WebSocket
    closeOn,    \* the handler of its `close' is set
    clean,      \* _rfbCleanDisconnect
    events,     \* connect and disconnect events, the latter as clean or unclean
    asked,      \* the user called disconnect()
    inbox,      \* cells on their way from the server
    rq,         \* cells received and not read
    neg,        \* where the negotiation is
    creds,      \* which credentials there are
    prompt,     \* which ones the user is asked for
    resumes,    \* timers of _resumeAuthentication
    turn,       \* what runs: nothing, _handleMessage's loop, or one _initMsg
    garbled     \* something was read that is not what the server sent there

lifeVars == <<conn, ws, closeOn, clean, events, asked>>
askVars == <<creds, prompt, resumes>>
hsVars == <<lifeVars, inbox, rq, neg, askVars, turn, garbled>>

ConnStates == {"connecting", "connected", "disconnecting", "disconnected"}
InitStates == {"", "ProtocolVersion", "Security", "Authentication", "SecurityResult",
               "SecurityReason", "ClientInitialisation", "ServerInitialisation"}
Supported == {"None", "VNCAuth", "RA2ne", "Tight", "VeNCrypt", "XVP", "ARD",
              "MSLogonII", "Plain"}
Credentials == {"username", "password", "target"}

ASSUME HsAssumption == /\ Versions \subseteq {"3.3", "3.7", "3.8"}
                       /\ Schemes \subseteq Supported
                       /\ FirstCreds \subseteq SUBSET Credentials
-----------------------------------------------------------------------------
(* What the server sends. *)

Msg(kind, value, n) ==
    <<[k |-> kind, v |-> value, n |-> n]>> \o [i \in 1..n |-> [k |-> "rest", v |-> "", n |-> n - i]]

Reasons == {Msg("reason", "", n) : n \in 0..1}
Results(version) ==
    {Msg("result", "ok", 1)} \cup
    {Msg("result", "failed", 1) \o r : r \in IF version = "3.8" THEN Reasons ELSE {<<>>}}
SubAuths == {Msg("subauths", "empty", 0)} \cup
            {Msg("subauths", v, 1) : v \in {"None", "VNCAuth", "Unix", "other"}}
Greeting == {Msg("version", v, 1) : v \in Versions \cup {"other"}}

(* To the choice of a security type. *)
First(scheme, version) ==
    CASE scheme = "None" -> IF version = "3.8" THEN Results(version) ELSE {<<>>}
      [] scheme = "VNCAuth" -> {Msg("challenge", "", 1)}
      [] scheme = "ARD" -> {Msg("ard", "", 1)}
      [] scheme = "MSLogonII" -> {Msg("dh", "", 1)}
      [] scheme = "RA2ne" -> {Msg("key", v, 1) : v \in {"good", "bad"}}
      [] scheme = "VeNCrypt" -> {Msg("vencrypt", v, 1) : v \in {"0.2", "other"}}
      [] scheme = "Tight" -> {Msg("tunnels", v, 1) : v \in {"notunnel", "other"}} \cup
                             {Msg("tunnels", "", 0) \o s : s \in SubAuths}
      [] OTHER -> {<<>>}

(* To the client's version. *)
Offers(version) ==
    IF version = "3.3"
    THEN {Msg("scheme", "empty", 1) \o r : r \in Reasons} \cup {Msg("scheme", "other", 1)} \cup
         UNION {{Msg("scheme", s, 1) \o f : f \in First(s, version)} : s \in Schemes}
    ELSE {Msg("types", "empty", 0) \o r : r \in Reasons} \cup
         {Msg("types", s, 1) : s \in Schemes \cup {"other"}}

(* To the client's version of VeNCrypt. *)
SubTypes == {Msg("ack", "refused", 0), Msg("ack", "ok", 0) \o Msg("count", "empty", 0)} \cup
            {Msg("ack", "ok", 0) \o Msg("count", "", 0) \o Msg("list", s, 1) :
                 s \in (Schemes \ {"VeNCrypt"}) \cup {"other"}}
-----------------------------------------------------------------------------
HsInit == /\ conn = "connecting" /\ ws = "connecting" /\ closeOn = TRUE
          /\ clean = TRUE /\ events = <<>> /\ asked = FALSE
          /\ inbox = <<>> /\ rq = <<>> /\ garbled = FALSE
          /\ neg = [init |-> "", version |-> "", scheme |-> "", vencrypt |-> 0,
                    tight |-> FALSE, ard |-> "", ra2 |-> ""]
          /\ creds \in FirstCreds /\ prompt = {} /\ resumes = 0 /\ turn = "idle"
-----------------------------------------------------------------------------
(* The life of the connection: _updateConnectionState, step after step.    *)
(* The disconnect timer runs exactly in `disconnecting'; where it is       *)
(* cleared the handler of `close' is taken off.                            *)

CloseSocket == ws' = IF ws \in {"connecting", "open"} THEN "closing" ELSE ws

(* _fail: at once, without waiting for the socket. *)
Fail == /\ clean' = FALSE
        /\ IF conn = "disconnected"
           THEN UNCHANGED <<conn, ws, closeOn, events>>
           ELSE /\ conn' = "disconnected" /\ closeOn' = FALSE
                /\ events' = Append(events, "unclean")
                /\ CloseSocket
        /\ UNCHANGED asked

(* Variant: the handler of `close' stays, for a timeout as for a failure. *)
EndsListening(report) == /\ conn' = "disconnected" /\ UNCHANGED closeOn
                         /\ events' = Append(events, report)

Ends(report) == /\ conn' = "disconnected" /\ closeOn' = FALSE
                /\ events' = Append(events, report)

Outcome == IF clean THEN "clean" ELSE "unclean"

(* disconnect(): what RA2 waits for is rejected, unless it is computing. *)
Disconnect ==
    /\ turn = "idle" /\ conn \in {"connecting", "connected"}
    /\ conn' = "disconnecting" /\ asked' = TRUE
    /\ CloseSocket
    /\ \/ neg.ra2 # "" /\ neg' = [neg EXCEPT !.ra2 = "", !.init = "SecurityResult"]
       \/ UNCHANGED neg
    /\ UNCHANGED <<closeOn, clean, events, inbox, rq, askVars, turn, garbled>>

DisconnectTimeout ==
    /\ turn = "idle" /\ conn = "disconnecting"
    /\ Ends(Outcome)
    /\ UNCHANGED <<ws, clean, asked, inbox, rq, neg, askVars, turn, garbled>>

SocketOpen ==
    /\ turn = "idle" /\ ws = "connecting"
    /\ ws' = "open"
    /\ neg' = [neg EXCEPT !.init = "ProtocolVersion"]
    /\ inbox' \in Greeting \cup {Msg("version", "repeater", 1)}
    /\ UNCHANGED <<conn, closeOn, clean, events, asked, rq, askVars, turn, garbled>>

(* The server or the network ends the connection; what is on its way is lost. *)
ConnectionLost ==
    /\ turn = "idle" /\ ws \in {"connecting", "open"}
    /\ ws' = "closing" /\ inbox' = <<>>
    /\ UNCHANGED <<conn, closeOn, clean, events, asked, rq, neg, askVars, turn, garbled>>

SocketClosed ==
    /\ turn = "idle" /\ ws = "closing"
    /\ ws' = "closed"
    /\ IF ~closeOn THEN UNCHANGED <<conn, closeOn, clean, events>>
       ELSE IF conn = "connecting"
            THEN clean' = FALSE /\ Ends("unclean")
            ELSE UNCHANGED clean /\ Ends(Outcome)
    /\ UNCHANGED <<asked, inbox, rq, neg, askVars, turn, garbled>>
-----------------------------------------------------------------------------
(* Bytes arrive: _handleMessage.  Once connected they are another parser's. *)
Deliver ==
    /\ turn = "idle" /\ ws = "open" /\ conn = "connecting"
    /\ \E n \in 1..Len(inbox) :
        /\ rq' = rq \o SubSeq(inbox, 1, n)
        /\ inbox' = SubSeq(inbox, n + 1, Len(inbox))
    /\ turn' = "loop"
    /\ UNCHANGED <<lifeVars, neg, askVars, garbled>>

(* Variant: the credentials are kept, and nothing goes on. *)
SendCredentialsOnly ==
    /\ turn = "idle" /\ prompt # {}
    /\ creds' = prompt /\ prompt' = {}
    /\ UNCHANGED <<lifeVars, inbox, rq, neg, resumes, turn, garbled>>

(* The user answers; the handshake goes on in a context of its own. *)
SendCredentials ==
    /\ turn = "idle" /\ prompt # {}
    /\ creds' = prompt /\ prompt' = {} /\ resumes' = resumes + 1
    /\ UNCHANGED <<lifeVars, inbox, rq, neg, turn, garbled>>

ResumeAuthentication ==
    /\ turn = "idle" /\ resumes > 0
    /\ resumes' = resumes - 1 /\ turn' = "once"
    /\ UNCHANGED <<lifeVars, inbox, rq, neg, creds, prompt, garbled>>
-----------------------------------------------------------------------------
(* One call of _initMsg. *)

Whole == rq # <<>> /\ Len(rq) > Head(rq).n
Needs == [XVP |-> Credentials, VNCAuth |-> {"password"}, Plain |-> {"username", "password"},
          Unix |-> {"username", "password"}, ARD |-> {"username", "password"},
          MSLogonII |-> {"username", "password"}]
VeNCryptReads == <<"vencrypt", "ack", "count", "list">>

SchemeReads ==
    CASE neg.scheme = "VNCAuth" -> "challenge"
      [] neg.scheme = "MSLogonII" -> "dh"
      [] neg.scheme = "ARD" /\ neg.ard # "ready" -> "ard"
      [] neg.scheme = "VeNCrypt" -> VeNCryptReads[neg.vencrypt + 1]
      [] neg.scheme = "Tight" -> IF neg.tight THEN "subauths" ELSE "tunnels"
      [] OTHER -> "nothing"

Reads == CASE neg.init = "ProtocolVersion" -> "version"
           [] neg.init = "Security" -> IF neg.version = "3.3" THEN "scheme" ELSE "types"
           [] neg.init = "Authentication" -> SchemeReads
           [] neg.init = "SecurityResult" -> "result"
           [] neg.init = "SecurityReason" -> "reason"
           [] neg.init = "ServerInitialisation" -> "init"
           [] OTHER -> "nothing"

(* The password of a challenge and the names of MS-Logon are wanted when   *)
(* their message is there, the others before anything is read.             *)
AsksUser == /\ neg.init = "Authentication" /\ neg.scheme \in DOMAIN Needs
            /\ ~(Needs[neg.scheme] \subseteq creds)
            /\ neg.scheme \in {"VNCAuth", "MSLogonII"} => Whole

(* A call that returns false ends the loop; one resumed is never in it. *)
Returns(more) == turn' = IF more /\ turn = "loop" THEN "loop" ELSE "idle"
Sends(replies) == \E r \in replies : inbox' = IF ws = "open" THEN inbox \o r ELSE inbox
Read == rq' = SubSeq(rq, Head(rq).n + 2, Len(rq))
Input(kind) == Reads = kind /\ Whole /\ ~AsksUser
Value == Head(rq).v

(* It goes on to state `to', having sent what is answered by `replies'. *)
Goes(to, replies, more) ==
    /\ neg' = to
    /\ Sends(replies) /\ Returns(more)
    /\ UNCHANGED <<lifeVars, askVars>>

Fails == /\ Fail
         /\ Returns(FALSE)
         /\ UNCHANGED <<inbox, neg, askVars>>

At(state) == [neg EXCEPT !.init = state]

(* rQwait finds too little. *)
Waits == /\ Reads # "nothing" /\ ~AsksUser /\ ~Whole
         /\ Returns(FALSE)
         /\ UNCHANGED <<lifeVars, inbox, rq, neg, askVars>>

Asks == /\ AsksUser
        /\ prompt' = Needs[neg.scheme]
        /\ Returns(FALSE)
        /\ UNCHANGED <<lifeVars, inbox, rq, neg, creds, resumes>>

(* Variant: it returns true. *)
NegotiateProtocolVersionGoesOn ==
    /\ Input("version") /\ Read
    /\ CASE Value = "other" -> Fails
         [] Value = "repeater" -> Goes(neg, Greeting, TRUE)
         [] OTHER -> Goes([neg EXCEPT !.version = Value, !.init = "Security"],
                          Offers(Value), TRUE)

(* _negotiateProtocolVersion returns nothing after a version: the loop ends. *)
NegotiateProtocolVersion ==
    /\ Input("version") /\ Read
    /\ CASE Value = "other" -> Fails
         [] Value = "repeater" -> Goes(neg, Greeting, TRUE)
         [] OTHER -> Goes([neg EXCEPT !.version = Value, !.init = "Security"],
                          Offers(Value), FALSE)

NegotiateSecurity ==
    /\ Input("types") \/ Input("scheme")
    /\ Read
    /\ CASE Value = "empty" -> Goes(At("SecurityReason"), {<<>>}, TRUE)
         [] Value # "empty" /\ neg.version # "3.3" /\ Value \notin Supported -> Fails
         [] OTHER -> Goes([neg EXCEPT !.scheme = Value, !.init = "Authentication"],
                          IF neg.version = "3.3" THEN {<<>>} ELSE First(Value, neg.version),
                          TRUE)

SecurityReason == Input("reason") /\ Read /\ Fails

SecurityResult ==
    /\ Input("result") /\ Read
    /\ CASE Value = "ok" -> Goes(At("ClientInitialisation"), {<<>>}, TRUE)
         [] Value = "failed" /\ neg.version = "3.8" -> Goes(At("SecurityReason"), {<<>>}, TRUE)
         [] OTHER -> Fails

ClientInitialisation ==
    /\ neg.init = "ClientInitialisation"
    /\ UNCHANGED rq
    /\ Goes(At("ServerInitialisation"), {Msg("init", "", n) : n \in 1..2}, TRUE)

(* The last message, a name and with Tight a list of capabilities in it. *)
NegotiateServerInit ==
    /\ conn = "connecting" /\ Input("init") /\ Read
    /\ conn' = "connected" /\ events' = Append(events, "connect")
    /\ Returns(TRUE)
    /\ UNCHANGED <<ws, closeOn, clean, asked, inbox, neg, askVars>>

InState(scheme) == neg.init = "Authentication" /\ neg.scheme = scheme

Known == Supported \cup {"Unix"}
UnknownScheme == /\ neg.init = "Authentication" /\ neg.scheme \notin Known
                 /\ Fails /\ UNCHANGED rq
-----------------------------------------------------------------------------
(* The security types. *)

AuthNone ==
    /\ InState("None") /\ UNCHANGED rq
    /\ Goes(At(IF neg.version = "3.8" THEN "SecurityResult" ELSE "ClientInitialisation"),
            {<<>>}, TRUE)

(* Reads the challenge if there is one, and answers for the user. *)
Answers ==
    /\ Input("challenge") \/ Input("dh")
    /\ Read
    /\ Goes(At("SecurityResult"), Results(neg.version), TRUE)

(* Plain and Unix logon answer at once. *)
AnswersUnasked ==
    /\ InState("Plain") \/ InState("Unix")
    /\ ~AsksUser /\ UNCHANGED rq
    /\ Goes(At("SecurityResult"), Results(neg.version), TRUE)

(* XVP sends names, then is VNC authentication, in the same call. *)
XvpAuth ==
    /\ InState("XVP") /\ ~AsksUser
    /\ UNCHANGED <<rq, turn>>
    /\ neg' = [neg EXCEPT !.scheme = "VNCAuth"]
    /\ Sends(First("VNCAuth", neg.version))
    /\ UNCHANGED <<lifeVars, askVars>>

(* Each state of VeNCrypt falls through to the next. *)
FallsThrough(replies) ==
    /\ neg' = [neg EXCEPT !.vencrypt = @ + 1]
    /\ Sends(replies)
    /\ UNCHANGED <<turn, lifeVars, askVars>>

VeNCryptAuth ==
    \/ /\ Input("vencrypt") /\ Read
       /\ IF Value = "0.2" THEN FallsThrough(SubTypes) ELSE Fails
    \/ /\ Input("ack") /\ Read
       /\ IF Value = "ok" THEN FallsThrough({<<>>}) ELSE Fails
    \/ /\ Input("count") /\ Read
       /\ IF Value = "empty" THEN Fails ELSE FallsThrough({<<>>})
    \/ /\ Input("list") /\ Read
       /\ IF Value \in Supported
          THEN Goes([neg EXCEPT !.scheme = Value], First(Value, neg.version), TRUE)
          ELSE Fails

TightAuth ==
    \/ /\ Input("tunnels") /\ Read
       /\ CASE Value = "other" ->
                 /\ Fail /\ Returns(FALSE)
                 /\ neg' = [neg EXCEPT !.tight = TRUE]
                 /\ UNCHANGED <<inbox, askVars>>
            [] Value = "notunnel" -> Goes([neg EXCEPT !.tight = TRUE], SubAuths, FALSE)
            [] OTHER -> /\ neg' = [neg EXCEPT !.tight = TRUE]
                        /\ UNCHANGED <<inbox, turn, lifeVars, askVars>>
    \/ /\ Input("subauths") /\ Read
       /\ CASE Value \in {"empty", "None"} ->
                 Goes(At("SecurityResult"), Results(neg.version), TRUE)
            [] Value \in {"VNCAuth", "Unix"} ->
                 Goes([neg EXCEPT !.scheme = Value], First(Value, neg.version), TRUE)
            [] OTHER -> Fails

(* ARD reads the server's key, computes aside, and resumes to answer. *)
ArdAuth ==
    \/ /\ Input("ard") /\ Read
       /\ Goes([neg EXCEPT !.ard = "busy"], {<<>>}, FALSE)
    \/ /\ InState("ARD") /\ neg.ard = "ready" /\ ~AsksUser /\ UNCHANGED rq
       /\ Goes([neg EXCEPT !.ard = "", !.init = "SecurityResult"], Results(neg.version), TRUE)

ArdComputed ==
    /\ turn = "idle" /\ neg.ard = "busy"
    /\ neg' = [neg EXCEPT !.ard = "ready"] /\ resumes' = resumes + 1
    /\ UNCHANGED <<lifeVars, inbox, rq, creds, prompt, turn, garbled>>

(* RA2 runs aside from the first call on; later calls let it look. *)
Ra2neAuth ==
    /\ InState("RA2ne") /\ UNCHANGED rq
    /\ Goes(IF neg.ra2 = "" THEN [neg EXCEPT !.ra2 = "key"] ELSE neg, {<<>>}, FALSE)

(* Another message is read than the one expected, or nothing is there: the *)
(* count of the security types is read without rQwait.                     *)
OutOfStep == /\ Reads # "nothing" /\ ~AsksUser
             /\ IF rq = <<>> THEN Reads = "types" ELSE Whole /\ Head(rq).k # Reads

InitMsg ==
    /\ turn # "idle"
    /\ garbled' = (garbled \/ OutOfStep)
    /\ \/ Waits \/ Asks
       \/ NegotiateProtocolVersion \/ NegotiateSecurity \/ SecurityReason
       \/ SecurityResult \/ ClientInitialisation \/ NegotiateServerInit
       \/ UnknownScheme \/ AuthNone \/ Answers \/ AnswersUnasked \/ XvpAuth
       \/ VeNCryptAuth \/ TightAuth \/ ArdAuth \/ Ra2neAuth
-----------------------------------------------------------------------------
(* RA2 (ra2.js): a procedure that waits for bytes, the user and the keys.  *)

At2(stage) == [neg EXCEPT !.ra2 = stage]

(* What it threw is reported, and the state set as if it were done. *)
Throws == /\ Fail
          /\ neg' = [neg EXCEPT !.ra2 = "", !.init = "SecurityResult"]
          /\ UNCHANGED <<inbox, askVars>>

Continues(to, replies) == /\ neg' = to /\ Sends(replies)
                          /\ UNCHANGED <<lifeVars, askVars>>

Reaches(stage, kind) == /\ turn = "idle" /\ neg.ra2 = stage
                        /\ rq # <<>> /\ Head(rq).k = kind
                        /\ UNCHANGED turn

Ra2Key ==
    /\ Reaches("key", "key") /\ Whole /\ Read
    /\ IF Value = "good" THEN Continues(At2("approve"), {<<>>}) ELSE Throws
    /\ UNCHANGED garbled

ApproveServer ==
    /\ turn = "idle" /\ neg.ra2 = "approve"
    /\ Continues(At2("random"), {Msg("random", v, 1) : v \in {"good", "bad"}})
    /\ UNCHANGED <<rq, turn, garbled>>

(* Waits for the length of the server's random, then reads all of it. *)
Ra2Random ==
    /\ Reaches("random", "random")
    /\ IF Whole THEN Read ELSE rq' = <<>>
    /\ garbled' = (garbled \/ ~Whole)
    /\ IF Whole /\ Value = "good"
       THEN Continues(At2("hash"), {Msg("hash", v, 1) : v \in {"good", "bad"}})
       ELSE Throws

(* The server sends the subtype after its hash, unasked. *)
Ra2Hash ==
    /\ Reaches("hash", "hash") /\ Whole /\ Read
    /\ IF Value = "good"
       THEN Continues(At2("subtype"), {Msg("subtype", v, 1) : v \in {"names", "password", "other"}})
       ELSE Throws
    /\ UNCHANGED garbled

Ra2Subtype ==
    /\ Reaches("subtype", "subtype") /\ Whole /\ Read
    /\ CASE Value = "other" -> Throws
         [] OTHER ->
              \E types \in {IF Value = "names" THEN Needs.Plain ELSE Needs.VNCAuth} :
                 /\ neg' = At2(IF Value = "names" THEN "names" ELSE "password")
                 /\ prompt' = IF types \subseteq creds THEN prompt ELSE types
                 /\ UNCHANGED <<lifeVars, inbox, creds, resumes>>
    /\ UNCHANGED garbled

Ra2Credentials ==
    /\ turn = "idle" /\ neg.ra2 \in {"names", "password"} /\ resumes = 0
    /\ (IF neg.ra2 = "names" THEN Needs.Plain ELSE Needs.VNCAuth) \subseteq creds
    /\ Continues([neg EXCEPT !.ra2 = "", !.init = "SecurityResult"], Results(neg.version))
    /\ UNCHANGED <<rq, turn, garbled>>

Ra2Step == Ra2Key \/ Ra2Random \/ Ra2Hash \/ Ra2Subtype \/ Ra2Credentials
-----------------------------------------------------------------------------
Machine == InitMsg \/ ResumeAuthentication \/ ArdComputed \/ Ra2Step
HsNext == \/ Machine \/ Deliver
          \/ SocketOpen \/ SocketClosed \/ ConnectionLost \/ DisconnectTimeout
          \/ Disconnect \/ SendCredentials \/ ApproveServer

(* The browser runs what is due, opens sockets, delivers, and reports a    *)
(* connection that was lost.  The socket we close ourselves may never be   *)
(* closed by the other end, the user may never act.                        *)
HsSpec == /\ HsInit /\ [][HsNext]_hsVars
          /\ WF_hsVars(InitMsg) /\ WF_hsVars(ResumeAuthentication)
          /\ WF_hsVars(ArdComputed) /\ WF_hsVars(Ra2Step)
          /\ WF_hsVars(Deliver) /\ WF_hsVars(SocketOpen)
          /\ WF_hsVars(conn # "disconnecting" /\ SocketClosed)
          /\ WF_hsVars(DisconnectTimeout)
-----------------------------------------------------------------------------
(* What everything is, and that few resumptions are due. *)
HsTypeOK ==
    /\ conn \in ConnStates /\ ws \in {"connecting", "open", "closing", "closed"}
    /\ closeOn \in BOOLEAN /\ clean \in BOOLEAN /\ asked \in BOOLEAN
    /\ neg.init \in InitStates /\ neg.vencrypt \in 0..3
    /\ neg.scheme \in Known \cup (IF neg.version \in {"3.7", "3.8"} THEN {""} ELSE {"", "other"})
    /\ prompt \subseteq Credentials /\ creds \subseteq Credentials
    /\ resumes \in 0..2 /\ turn \in {"idle", "loop", "once"}

(* However the network cuts the server's messages, and whichever way the   *)
(* handshake takes, every read finds the message the server sent there:    *)
(* no state is entered whose message does not come, none is read twice or  *)
(* before it has arrived.  RA2's random, whose length only is waited for,  *)
(* is the exception.                                                       *)
ReadsInStep == garbled => neg.scheme = "RA2ne"

(* The page sees at most one connect, then at most one disconnect, and     *)
(* that one exactly when the connection is over.  It is told that the end  *)
(* was clean only if it asked for it or was connected.                     *)
EventsInOrder ==
    /\ \/ events \in {<<>>, <<"connect">>}
       \/ \E e \in {<<>>, <<"connect">>}, r \in {"clean", "unclean"} : events = Append(e, r)
    /\ (conn = "disconnected") = (events # <<>> /\ events[Len(events)] # "connect")
    /\ events = <<"clean">> => asked

(* While it connects, somebody has the turn: the user is asked, the server *)
(* is to be approved, or the handshake comes to an end.  A disconnection   *)
(* ends, whether or not the socket ever closes (rfb.js:910-917).           *)
UserHasTurn == prompt # {} \/ neg.ra2 = "approve"
Settles == /\ (conn = "connecting") ~> (conn # "connecting" \/ UserHasTurn)
           /\ (conn = "disconnecting") ~> (conn = "disconnected")
=============================================================================
