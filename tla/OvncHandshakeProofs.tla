-------------------------- MODULE OvncHandshakeProofs --------------------------
(***************************************************************************)
(* Theorems about OvncHandshake, for every set of versions and security    *)
(* types a server may announce, every name, and every size of the client's *)
(* buffers: client and server stay in step, whatever is lost and whenever. *)
(***************************************************************************)
EXTENDS OvncHandshake, SequenceTheorems, TLAPS

USE MinorsAssumption, TypesAssumption, NameAssumption

(* The server has got as far as at, or had when the connection broke.       *)
Lost == server.pc = "gone" /\ server.left = "vanished"
Up(at) == server.pc = at \/ Lost

(* The fields the server sends.                                             *)
Greeting == Field("version", [major |-> server.major, minor |-> server.minor])
Reason == Field("reason", 0)
Initial == Field("init", [name |-> server.name, format |-> server.format])
Name(n) == Field("name", n)

(* What is under way while the client waits for the server's version.       *)
AtVersion ==
  /\ version = 0 /\ server.version = 0
  /\ toServer = <<>>
  /\ \/ toClient = <<Greeting>> /\ Up("version")
     \/ toClient = <<>> /\ Up("hello")

(* It has replied, and the server has not read the reply yet.               *)
Replied ==
  /\ toServer = <<Field("version", version)>>
  /\ toClient = <<>>
  /\ server.version = 0
  /\ Up("version")

(* The server refused: what is left of the refusal.                         *)
Refused(field) ==
  /\ server.offered = {}
  /\ server.pc = "gone"
  /\ \/ toClient = <<field, Reason>>
     \/ toClient = <<field>> /\ Lost

(* Waiting for the security type of version 3.3.                            *)
AtType ==
  /\ version = 3
  /\ \/ Replied
     \/ /\ toServer = <<>>
        /\ server.version = 3
        /\ \/ toClient = <<>> /\ Lost
           \/ Refused(Field("type", Invalid))
           \/ \E t \in Types : /\ server.offered = {t}
                               /\ toClient = <<Field("type", t)>>
                               /\ Up(IF t = NoAuth THEN "shared" ELSE "auth")

(* Waiting for the security types of versions 3.7 and 3.8.                  *)
AtTypes ==
  /\ version \in {7, 8}
  /\ \/ Replied
     \/ /\ toServer = <<>>
        /\ server.version = version
        /\ \/ toClient = <<>> /\ Lost
           \/ Refused(Field("types", {}))
           \/ /\ server.offered # {}
              /\ toClient = <<Field("types", server.offered)>>
              /\ Up("choice")

(* The security type is agreed on; in 3.7 and 3.8 the server may not have   *)
(* heard of it.                                                             *)
Secured ==
  /\ version \in {3, 7, 8} /\ server.version = version
  /\ security = NoAuth /\ NoAuth \in server.offered

Choice == Field("choice", NoAuth)

(* Waiting for the SecurityResult of version 3.8.                           *)
AtResult ==
  /\ Secured /\ version = 8
  /\ \/ toServer = <<Choice>> /\ toClient = <<>> /\ Up("choice")
     \/ /\ toServer = <<>>
        /\ \/ toClient = <<>> /\ Lost
           \/ toClient = <<Field("result", 0)>> /\ Up("shared")
           \/ /\ server.verdict = "reject" /\ server.pc = "gone"
              /\ \/ toClient = <<Field("result", 1), Reason>>
                 \/ toClient = <<Field("result", 1)>> /\ Lost

(* Waiting for a reason, after a refusal or a bad result.                   *)
AtReason ==
  /\ server.pc = "gone"
  /\ toServer = <<>>
  /\ toClient = <<Reason>> \/ (toClient = <<>> /\ Lost)
  /\ \/ ret = "CONNECTION_REFUSED" /\ server.offered = {}
     \/ /\ ret = "AUTH_FAILED"
        /\ server.version = 8 /\ server.verdict = "reject"

(* In 3.7 a server may have closed without a word.                          *)
Closed == version = 7 /\ server.pc = "gone" /\ server.verdict = "reject"

AtClientInit ==
  /\ Secured
  /\ toClient = <<>>
  /\ \/ toServer = <<>> /\ (Up("shared") \/ Closed)
     \/ toServer = <<Choice>> /\ version = 7 /\ Up("choice")

Shared == Field("shared", 0)

(* Waiting for ServerInit, which the name follows.                          *)
AtInit ==
  /\ Secured
  /\ \/ /\ toClient = <<>>
        /\ \/ toServer = <<Choice, Shared>> /\ version = 7 /\ Up("choice")
           \/ toServer = <<Shared>> /\ (Up("shared") \/ Closed)
     \/ /\ toServer = <<>>
        /\ \/ toClient = <<>> /\ Lost
           \/ toClient = <<Initial>> /\ (Lost \/ server.name = 0) /\ Up("normal")
           \/ /\ toClient = <<Initial, Name(server.name)>>
              /\ server.name > 0
              /\ Up("normal")
           \/ \E k \in 1 .. server.name : toClient = <<Initial, Name(k)>> /\ Lost

(* What is known of the name once its length is.                            *)
Measured ==
  /\ conn_info.length = server.name
  /\ conn_info.truncated = (server.name > NameMax - 1)
  /\ conn_info.format = server.format
  /\ conn_info.unread \in Nat
  /\ \/ conn_info.stored = 0 /\ conn_info.unread = server.name
     \/ /\ conn_info.stored = Min2(server.name, NameMax - 1)
        /\ conn_info.stored > 0

AtName ==
  /\ Secured /\ Measured
  /\ conn_info.unread > 0
  /\ toServer = <<>>
  /\ \/ toClient = <<Name(conn_info.unread)>> /\ Up("normal")
     \/ toClient = <<>> /\ Lost
     \/ \E k \in 1 .. conn_info.unread : toClient = <<Name(k)>> /\ Lost

(* All of ServerInit is read, and nothing else was sent.                    *)
Named ==
  /\ Secured /\ Measured
  /\ conn_info.stored = Min2(server.name, NameMax - 1)
  /\ toClient = <<>>
  /\ Up("normal")

Setup == {<<>>, <<Field("SetPixelFormat", 0)>>, <<Field("SetEncodings", 0)>>,
          <<Field("SetPixelFormat", 0), Field("SetEncodings", 0)>>}

(* A client that failed has sent nothing the server could misread.          *)
AtFailed ==
  /\ Blame
  /\ \/ server.pc = "gone" \/ toServer = <<>>
     \/ server.pc = "normal" /\ toServer \in Setup

InPhase ==
  /\ pc = "version" => AtVersion
  /\ pc = "type" => AtType
  /\ pc = "types" => AtTypes
  /\ pc = "result" => AtResult
  /\ pc = "reason" => AtReason
  /\ pc = "client_init" => AtClientInit
  /\ pc = "init" => AtInit
  /\ pc = "name" => AtName
  /\ pc = "framebuffer" => Named /\ toServer = <<>>
  /\ pc = "initial_messages" => Named /\ toServer = <<>>
  /\ pc = "done" => Named /\ toServer \in Setup
  /\ pc = "failed" => AtFailed

Servers == [pc : {"hello", "version", "choice", "auth", "shared", "normal",
                  "gone"},
            major : Majors, minor : Minors, name : NameLengths,
            format : {"plain", "odd"}, offered : SUBSET Types,
            version : {0, 3, 7, 8}, verdict : {"accept", "reject"},
            left : {"no", "vanished"}]

Typed ==
  /\ TypeOK
  /\ server \in Servers
  /\ config \in [pixel_format : {"none", "plain", "odd"}, encodings : BOOLEAN]
  /\ DOMAIN conn_info = {"length", "stored", "unread", "truncated", "format"}

-----------------------------------------------------------------------------
(* Sequences of at most two fields.                                         *)

LEMMA FieldParts ==
  ASSUME NEW kind, NEW val
  PROVE  Field(kind, val).kind = kind /\ Field(kind, val).val = val
BY DEF Field

LEMMA Reading ==
  ASSUME NEW a, NEW b
  PROVE  /\ Head(<<a>>) = a /\ Tail(<<a>>) = <<>> /\ <<a>> # <<>>
         /\ Head(<<a, b>>) = a /\ Tail(<<a, b>>) = <<b>> /\ <<a, b>> # <<>>
OBVIOUS

LEMMA SameSequence ==
  ASSUME NEW S, NEW s \in Seq(S), NEW t \in Seq(S), Len(s) = Len(t),
         Len(s) <= 2, Len(s) > 0 => s[1] = t[1], Len(s) > 1 => s[2] = t[2]
  PROVE  s = t
<1>1. \A i \in 1 .. Len(s) : s[i] = t[i]
  OBVIOUS
<1> QED
  BY <1>1, SeqEqual

LEMMA Writing ==
  ASSUME NEW a, NEW b
  PROVE  /\ <<>> \o <<>> = <<>>
         /\ <<>> \o <<a>> = <<a>> /\ <<>> \o <<a, b>> = <<a, b>>
         /\ <<a>> \o <<>> = <<a>> /\ <<a>> \o <<b>> = <<a, b>>
<1> DEFINE S == {a, b}  s == <<a>>  t == <<b>>  st == <<a, b>>
<1>1. /\ s \in Seq(S) /\ t \in Seq(S) /\ st \in Seq(S)
      /\ Len(s) = 1 /\ Len(t) = 1 /\ Len(st) = 2
      /\ s[1] = a /\ t[1] = b /\ st[1] = a /\ st[2] = b
  OBVIOUS
<1>2. /\ <<>> \o <<>> = <<>>
      /\ <<>> \o <<a>> = <<a>> /\ <<>> \o <<a, b>> = <<a, b>>
      /\ <<a>> \o <<>> = <<a>>
  OBVIOUS
<1> HIDE DEF S, s, t, st
<1>3. /\ Len(s \o t) = 2 /\ s \o t \in Seq(S)
      /\ (s \o t)[1] = a /\ (s \o t)[2] = b
  <2>1. /\ s \o t \in Seq(S)
        /\ Len(s \o t) = Len(s) + Len(t)
        /\ \A i \in 1 .. Len(s) + Len(t) :
             (s \o t)[i] = IF i <= Len(s) THEN s[i] ELSE t[i - Len(s)]
    BY <1>1, ConcatProperties, ZenonT(40)
  <2>2. 1 \in 1 .. Len(s) + Len(t) /\ 2 \in 1 .. Len(s) + Len(t)
    BY <1>1
  <2> QED
    BY <1>1, <2>1, <2>2
<1>4. s \o t = st
  BY <1>1, <1>3, SameSequence
<1> QED
  BY <1>2, <1>4 DEF s, t, st

(* What a broken connection leaves of one field, or of two.                 *)
LEMMA CutOne ==
  ASSUME NEW a, NEW n \in 0..1
  PROVE  SubSeq(<<a>>, 1, n) = IF n = 0 THEN <<>> ELSE <<a>>
<1> DEFINE s == <<a>>
<1>1. s \in Seq({a}) /\ Len(s) = 1
  OBVIOUS
<1> SUFFICES SubSeq(s, 1, n) = IF n = 0 THEN <<>> ELSE s
  OBVIOUS
<1> HIDE DEF s
<1>2. SubSeq(s, 1, 0) = <<>>
  BY SubSeqEmpty
<1>3. SubSeq(s, 1, 1) = s
  BY <1>1, SubSeqFull
<1>4. n = 0 \/ n = 1
  OBVIOUS
<1> QED
  BY <1>2, <1>3, <1>4

LEMMA CutTwo ==
  ASSUME NEW a, NEW b, NEW n \in 0..2
  PROVE  SubSeq(<<a, b>>, 1, n) = IF n = 0 THEN <<>>
                                  ELSE IF n = 1 THEN <<a>> ELSE <<a, b>>
<1> DEFINE S == {a, b}  s == <<a, b>>  t == <<a>>
<1>1. /\ s \in Seq(S) /\ t \in Seq(S) /\ Len(s) = 2 /\ Len(t) = 1
      /\ s[1] = a /\ s[2] = b /\ t[1] = a /\ a \in S /\ b \in S
  OBVIOUS
<1> SUFFICES SubSeq(s, 1, n) = IF n = 0 THEN <<>> ELSE IF n = 1 THEN t ELSE s
  OBVIOUS
<1> HIDE DEF S, s, t
<1>2. SubSeq(s, 1, 0) = <<>>
  BY SubSeqEmpty
<1>3. SubSeq(s, 1, 2) = s
  BY <1>1, SubSeqFull
<1>4. SubSeq(s, 1, 1) = t
  <2>1. \A i \in 1..1 : s[i] \in S
    BY <1>1
  <2>2. /\ SubSeq(s, 1, 1) \in Seq(S) /\ Len(SubSeq(s, 1, 1)) = 1
        /\ SubSeq(s, 1, 1)[1] = a
    BY <1>1, <2>1, SubSeqProperties
  <2> QED
    BY <1>1, <2>2, SameSequence
<1>5. n = 0 \/ n = 1 \/ n = 2
  OBVIOUS
<1> QED
  BY <1>2, <1>3, <1>4, <1>5

-----------------------------------------------------------------------------
(* The steps of the client.                                                 *)

LEMMA InitHolds == Init => Typed /\ InPhase
BY DEF Init, Typed, TypeOK, Servers, Pcs, Waiting, InPhase, AtVersion, Up,
   Invalid, NoAuth

LEMMA VersionStep ==
  ASSUME Typed, InPhase, NegotiateVersion
  PROVE  Typed' /\ InPhase'
<1> USE DEF NegotiateVersion, Receive
<1>1. /\ toClient = <<Greeting>> /\ Up("version") /\ toServer = <<>>
      /\ server.version = 0 /\ pc = "version" /\ server' = server
  BY DEF InPhase, AtVersion
<1>2. /\ toClient' = <<>>
      /\ Received = [major |-> server.major, minor |-> server.minor]
  BY <1>1, Reading, FieldParts DEF Received, Greeting
<1>3. server \in Servers /\ server.minor \in Nat
  BY DEF Typed, Servers
<1>4. Typed'
  BY <1>2, <1>3 DEF Typed, TypeOK, Failed, SendFails, Losses, Pcs, Waiting,
     Chosen
<1>5. CASE Failed("PROTOCOL") /\ Received.major = Garbled /\ UNCHANGED toServer
  BY <1>1, <1>4, <1>2, <1>5 DEF Failed, InPhase, AtFailed, Blame
<1>6. CASE /\ Failed("VERSION_MISMATCH") /\ Received.major \notin {3, Garbled}
           /\ UNCHANGED toServer
  BY <1>1, <1>4, <1>2, <1>6 DEF Failed, InPhase, AtFailed, Blame
<1>7. CASE SendFails
  BY <1>1, <1>4, <1>7 DEF SendFails, Failed, InPhase, AtFailed, Blame, Up, Lost
<1>8. CASE /\ version' = Chosen(Received.minor)
           /\ Send(<<Field("version", Chosen(Received.minor))>>)
           /\ pc' = IF Chosen(Received.minor) = 3 THEN "type" ELSE "types"
  <2>1. toServer' = <<Field("version", version')>>
    BY <1>1, <1>8, Writing DEF Send
  <2>2. Replied'
    BY <1>1, <1>2, <2>1 DEF Replied, Up, Lost
  <2>3. version' \in {3, 7, 8} /\ (pc' = "type" <=> version' = 3)
    BY <1>8 DEF Chosen
  <2> QED
    BY <1>4, <1>8, <2>2, <2>3 DEF InPhase, AtType, AtTypes
<1> QED
  BY <1>4, <1>5, <1>6, <1>7, <1>8

LEMMA TypeStep ==
  ASSUME Typed, InPhase, NegotiateSecurity33
  PROVE  Typed' /\ InPhase'
<1> USE DEF NegotiateSecurity33, Receive, Invalid, NoAuth
<1>1. /\ pc = "type" /\ AtType /\ toClient # <<>> /\ server' = server
      /\ server \in Servers
  BY DEF InPhase, Typed
<1>2. /\ version = 3 /\ toServer = <<>> /\ server.version = 3
      /\ \/ Refused(Field("type", Invalid))
         \/ \E t \in Types : /\ server.offered = {t}
                             /\ toClient = <<Field("type", t)>>
                             /\ Up(IF t = NoAuth THEN "shared" ELSE "auth")
  BY <1>1 DEF AtType, Replied
<1>3. Typed'
  BY <1>1, <1>2 DEF Typed, TypeOK, Failed, Pcs, Waiting, Losses, AfterSecurity
<1>4. CASE Refused(Field("type", Invalid))
  <2>1. Received = 0
    BY <1>4, Reading, FieldParts DEF Received, Refused
  <2>2. toClient' = <<Reason>> \/ (toClient' = <<>> /\ Lost)
    BY <1>4, Reading, ZenonT(40) DEF Refused
  <2> QED
    BY <1>1, <1>3, <1>2, <1>4, <2>1, <2>2 DEF InPhase, AtReason, Refused, Lost
<1>5. CASE \E t \in Types : /\ server.offered = {t}
                            /\ toClient = <<Field("type", t)>>
                            /\ Up(IF t = NoAuth THEN "shared" ELSE "auth")
  <2>1. PICK t \in Types : /\ server.offered = {t}
                           /\ toClient = <<Field("type", t)>>
                           /\ Up(IF t = NoAuth THEN "shared" ELSE "auth")
    BY <1>5
  <2>2. Received = t /\ toClient' = <<>> /\ t # 0
    BY <2>1, Reading, FieldParts DEF Received
  <2>3. CASE t = NoAuth
    BY <1>1, <1>3, <1>2, <2>1, <2>2, <2>3 DEF InPhase, AtClientInit, Secured, Up,
       Lost, AfterSecurity
  <2>4. CASE t # NoAuth
    BY <1>1, <1>3, <1>2, <2>1, <2>2, <2>4 DEF Failed, InPhase, AtFailed, Blame
  <2> QED
    BY <2>3, <2>4
<1> QED
  BY <1>2, <1>3, <1>4, <1>5

LEMMA TypesStep ==
  ASSUME Typed, InPhase, NegotiateSecurity37
  PROVE  Typed' /\ InPhase'
<1> USE DEF NegotiateSecurity37, Receive, NoAuth
<1>1. /\ pc = "types" /\ AtTypes /\ toClient # <<>> /\ server' = server
      /\ version' = version /\ server \in Servers
  BY DEF InPhase, Typed
<1>2. /\ version \in {7, 8} /\ toServer = <<>> /\ server.version = version
      /\ \/ Refused(Field("types", {}))
         \/ /\ server.offered # {}
            /\ toClient = <<Field("types", server.offered)>>
            /\ Up("choice")
  BY <1>1 DEF AtTypes, Replied
<1>3. Typed'
  BY <1>1, <1>2 DEF Typed, TypeOK, Failed, SendFails, Pcs, Waiting, Losses,
     AfterSecurity
<1>4. CASE Refused(Field("types", {}))
  <2>1. Received = {}
    BY <1>4, Reading, FieldParts DEF Received, Refused
  <2>2. toClient' = <<Reason>> \/ (toClient' = <<>> /\ Lost)
    BY <1>4, Reading, ZenonT(40) DEF Refused
  <2> QED
    BY <1>1, <1>3, <1>2, <1>4, <2>1, <2>2 DEF InPhase, AtReason, Refused, Lost
<1>5. CASE /\ server.offered # {}
           /\ toClient = <<Field("types", server.offered)>>
           /\ Up("choice")
  <2>1. Received = server.offered /\ toClient' = <<>>
    BY <1>5, Reading, FieldParts DEF Received
  <2>2. CASE Failed("NOMEM") /\ NoMemory /\ UNCHANGED toServer
    BY <1>1, <1>3, <1>2, <2>2 DEF Failed, InPhase, AtFailed, Blame
  <2>3. CASE /\ Failed("AUTH_UNSUPPORTED") /\ NoAuth \notin Received
             /\ UNCHANGED toServer
    BY <1>1, <1>3, <1>2, <1>5, <2>1, <2>3 DEF Failed, InPhase, AtFailed, Blame
  <2>4. CASE SendFails
    BY <1>1, <1>3, <1>5, <2>4 DEF SendFails, Failed, InPhase, AtFailed, Blame, Up,
       Lost
  <2>5. CASE /\ Send(<<Choice>>) /\ security' = NoAuth /\ NoAuth \in Received
             /\ pc' = AfterSecurity
    <3>1. toServer' = <<Choice>>
      BY <1>2, <2>5, Writing DEF Send
    <3>2. Secured'
      BY <1>1, <1>2, <2>1, <2>5 DEF Secured
    <3> QED
      BY <1>1, <1>3, <1>2, <1>5, <2>1, <2>5, <3>1, <3>2 DEF InPhase, AtResult,
         AtClientInit, AfterSecurity, Up, Lost, Choice
  <2> QED
    BY <1>5, <2>1, <2>2, <2>3, <2>4, <2>5 DEF Choice
<1> QED
  BY <1>2, <1>3, <1>4, <1>5

LEMMA ReasonStep ==
  ASSUME Typed, InPhase, ReadFailureReason
  PROVE  Typed' /\ InPhase'
<1> USE DEF ReadFailureReason, Receive
<1>1. pc = "reason" /\ AtReason /\ server' = server /\ toServer' = toServer
  BY DEF InPhase
<1>2. Typed'
  BY <1>1 DEF Typed, TypeOK, Failed, Pcs
<1> QED
  BY <1>1, <1>2 DEF Failed, InPhase, AtReason, AtFailed, Blame

LEMMA ResultStep ==
  ASSUME Typed, InPhase, CheckSecurityResult
  PROVE  Typed' /\ InPhase'
<1> USE DEF CheckSecurityResult, Receive
<1>1. /\ pc = "result" /\ AtResult /\ toClient # <<>>
      /\ UNCHANGED <<server, version, security, toServer>>
  BY DEF InPhase
<1>2. Typed'
  BY <1>1 DEF Typed, TypeOK, Pcs, Waiting, Losses
<1>3. CASE toClient = <<Field("result", 0)>> /\ Up("shared")
  <2>1. Received = 0 /\ toClient' = <<>>
    BY <1>3, Reading, FieldParts DEF Received
  <2> QED
    BY <1>1, <1>2, <1>3, <2>1 DEF InPhase, AtResult, AtClientInit, Secured, Up,
       Lost
<1>4. CASE /\ server.verdict = "reject" /\ server.pc = "gone"
           /\ \/ toClient = <<Field("result", 1), Reason>>
              \/ toClient = <<Field("result", 1)>> /\ Lost
  <2>1. Received = 1
    BY <1>4, Reading, FieldParts DEF Received
  <2>3. toClient' = <<Reason>> \/ (toClient' = <<>> /\ Lost)
    <3>1. CASE toClient = <<Field("result", 1), Reason>>
      <4>1. Tail(toClient) = <<Reason>>
        BY <3>1, Reading
      <4> QED
        BY <4>1
    <3>2. CASE toClient = <<Field("result", 1)>> /\ Lost
      <4>1. Tail(toClient) = <<>>
        BY <3>2, Reading
      <4> QED
        BY <3>2, <4>1
    <3> QED
      BY <1>4, <3>1, <3>2
  <2>2. toServer = <<>>
    BY <1>1, <1>4 DEF AtResult
  <2> QED
    BY <1>1, <1>2, <1>4, <2>1, <2>2, <2>3 DEF InPhase, AtResult, AtReason, Secured,
       Lost
<1> QED
  BY <1>1, <1>3, <1>4 DEF AtResult

LEMMA ClientInitStep ==
  ASSUME Typed, InPhase, ClientInit
  PROVE  Typed' /\ InPhase'
<1> USE DEF ClientInit
<1>1. /\ pc = "client_init" /\ AtClientInit
      /\ UNCHANGED <<server, version, security, toClient>>
  BY DEF InPhase
<1>2. Typed'
  BY <1>1 DEF Typed, TypeOK, Pcs, Waiting
<1>3. \/ toServer = <<>> /\ toServer' = <<Shared>>
      \/ toServer = <<Choice>> /\ toServer' = <<Choice, Shared>>
  BY <1>1, Writing DEF AtClientInit, Send, Shared
<1>4. <<>> # <<Choice>>
  OBVIOUS
<1> QED
  BY <1>1, <1>2, <1>3, <1>4 DEF InPhase, AtClientInit, AtInit, Secured, Up,
     Lost, Closed, Shared, Choice

(* What ServerInit and the name are read into.                              *)
LEMMA ServerInitStep ==
  ASSUME Typed, InPhase, ServerInit
  PROVE  Typed' /\ InPhase'
<1> USE DEF ServerInit, Receive
<1>1. /\ pc = "init" /\ AtInit /\ toClient # <<>>
      /\ UNCHANGED <<server, version, security, toServer>>
      /\ server \in Servers /\ server.name \in Nat
  BY DEF InPhase, Typed, Servers
<1>2. /\ Secured /\ toServer = <<>>
      /\ \/ toClient = <<Initial>> /\ (Lost \/ server.name = 0) /\ Up("normal")
         \/ /\ toClient = <<Initial, Name(server.name)>>
            /\ server.name > 0
            /\ Up("normal")
         \/ \E k \in 1 .. server.name : toClient = <<Initial, Name(k)>> /\ Lost
  BY <1>1 DEF AtInit
<1>3. Received = [name |-> server.name, format |-> server.format]
  BY <1>2, Reading, FieldParts DEF Received, Initial
<1>4. conn_info' = [length |-> server.name, stored |-> 0,
                    unread |-> server.name,
                    truncated |-> server.name > NameMax - 1,
                    format |-> server.format]
  BY <1>3
<1>5. Measured' /\ conn_info'.stored = 0 /\ conn_info'.unread = server.name
  BY <1>1, <1>4 DEF Measured
<1>6. pc' = IF server.name > 0 THEN "name" ELSE "framebuffer"
  BY <1>3
<1>7. Typed'
  <2>1. {conn_info'.length, conn_info'.stored, conn_info'.unread} \subseteq Nat
    BY <1>1, <1>4
  <2>2. DOMAIN conn_info' = {"length", "stored", "unread", "truncated", "format"}
    BY <1>4
  <2> QED
    BY <1>1, <1>6, <2>1, <2>2 DEF Typed, TypeOK, Pcs, Waiting, Losses
<1>8. CASE server.name = 0
  <2>1. toClient = <<Initial>> /\ Up("normal")
    BY <1>1, <1>2, <1>8
  <2>2. toClient' = <<>>
    BY <2>1, Reading
  <2>3. Min2(server.name, NameMax - 1) = 0
    BY <1>8 DEF Min2
  <2> QED
    BY <1>1, <1>2, <1>5, <1>6, <1>7, <1>8, <2>1, <2>2, <2>3 DEF InPhase, Named,
       Secured, Up, Lost
<1>9. CASE server.name > 0
  <2>1. \/ toClient' = <<Name(server.name)>> /\ Up("normal")
        \/ toClient' = <<>> /\ Lost
        \/ \E k \in 1 .. server.name : toClient' = <<Name(k)>> /\ Lost
    <3>1. ASSUME NEW n, toClient = <<Initial, Name(n)>>
          PROVE  toClient' = <<Name(n)>>
      BY <3>1, Reading
    <3>2. ASSUME toClient = <<Initial>> PROVE toClient' = <<>>
      BY <3>2, Reading
    <3> QED
      BY <1>1, <1>2, <1>9, <3>1, <3>2
  <2>2. AtName'
    BY <1>1, <1>2, <1>5, <1>9, <2>1 DEF AtName, Secured, Up, Lost, Name, Field
  <2> QED
    BY <1>6, <1>7, <1>9, <2>2 DEF InPhase
<1> QED
  BY <1>1, <1>8, <1>9

LEMMA NameStep ==
  ASSUME Typed, InPhase, ReadName
  PROVE  Typed' /\ InPhase'
<1> USE DEF ReadName
<1>1. /\ pc = "name" /\ AtName /\ toClient # <<>>
      /\ UNCHANGED <<server, version, security, toServer>>
      /\ server \in Servers /\ server.name \in Nat
      /\ conn_info.unread \in Nat /\ conn_info.stored \in Nat
      /\ DOMAIN conn_info = {"length", "stored", "unread", "truncated", "format"}
  BY DEF InPhase, Typed, TypeOK, Servers
<1>2. NextRead \in Nat /\ 1 <= NextRead /\ NextRead <= conn_info.unread
  BY <1>1 DEF NextRead, Min2, AtName
<1>3. PICK n \in 1 .. conn_info.unread :
        /\ toClient = <<Name(n)>>
        /\ (n = conn_info.unread /\ Up("normal")) \/ Lost
  BY <1>1 DEF AtName
<1>4. Received = n /\ Tail(toClient) = <<>> /\ Head(toClient).kind = "name"
  BY <1>3, Reading, FieldParts DEF Received, Name
<1>5. toClient' = IF n = NextRead THEN <<>> ELSE <<Name(n - NextRead)>>
  BY <1>4, Writing DEF Name
<1>6. /\ conn_info'.unread = conn_info.unread - NextRead
      /\ conn_info'.stored = IF conn_info.stored = 0 THEN NextRead
                                                     ELSE conn_info.stored
      /\ conn_info'.length = conn_info.length
      /\ conn_info'.truncated = conn_info.truncated
      /\ conn_info'.format = conn_info.format
      /\ DOMAIN conn_info' = DOMAIN conn_info
  BY <1>1
<1>7. conn_info'.stored = Min2(server.name, NameMax - 1)
  BY <1>1, <1>6 DEF AtName, Measured, NextRead
<1>8. Measured'
  BY <1>1, <1>2, <1>6, <1>7 DEF AtName, Measured
<1>9. n - NextRead \in Int /\ NextRead <= n /\ n \in Nat
  BY <1>2, <1>3, <1>4
<1>10. Typed'
  BY <1>1, <1>2, <1>6 DEF Typed, TypeOK, Pcs, Waiting, Losses, AtName, Measured
<1>11. CASE conn_info.unread = NextRead
  <2>1. n = NextRead /\ toClient' = <<>>
    BY <1>1, <1>2, <1>5, <1>9, <1>11
  <2>2. Up("normal")
    BY <1>3 DEF Up
  <2> QED
    BY <1>1, <1>7, <1>8, <1>10, <1>11, <2>1, <2>2 DEF InPhase, Named, AtName,
       Secured, Up, Lost
<1>12. CASE conn_info.unread # NextRead
  <2>1. \/ toClient' = <<Name(conn_info'.unread)>> /\ Up("normal")
        \/ toClient' = <<>> /\ Lost
        \/ \E k \in 1 .. conn_info'.unread : toClient' = <<Name(k)>> /\ Lost
    <3>1. CASE n = NextRead
      BY <1>1, <1>2, <1>3, <1>5, <1>12, <3>1
    <3>2. CASE n # NextRead
      <4>1. n - NextRead \in 1 .. conn_info'.unread
        BY <1>1, <1>2, <1>3, <1>6, <1>9, <3>2
      <4> QED
        BY <1>3, <1>5, <1>6, <3>2, <4>1
    <3> QED
      BY <3>1, <3>2
  <2>2. conn_info'.unread > 0
    BY <1>1, <1>2, <1>6, <1>12
  <2>3. AtName'
    BY <1>1, <1>8, <2>1, <2>2 DEF AtName, Secured, Up, Lost, Name, Field
  <2> QED
    BY <1>10, <1>12, <2>3 DEF InPhase
<1> QED
  BY <1>11, <1>12

LEMMA FramebufferStep ==
  ASSUME Typed, InPhase, SetUpFramebuffer
  PROVE  Typed' /\ InPhase'
<1> USE DEF SetUpFramebuffer
<1>1. /\ pc = "framebuffer" /\ Named /\ toServer = <<>>
      /\ UNCHANGED <<server, version, toClient, toServer, config, security,
                     conn_info>>
  BY DEF InPhase, Failed
<1>2. Typed'
  BY <1>1 DEF Typed, TypeOK, Pcs, Waiting, Failed, Losses
<1>3. CASE Failed("PROTOCOL") /\ Active = "odd"
  BY <1>1, <1>2, <1>3 DEF Failed, InPhase, AtFailed, Blame, Active, Named,
     Measured
<1>4. CASE Failed("NOMEM") /\ NoMemory
  BY <1>1, <1>2, <1>4 DEF Failed, InPhase, AtFailed, Blame
<1>5. CASE pc' = "initial_messages"
  BY <1>1, <1>2, <1>5 DEF InPhase, Named, Secured, Measured, Up, Lost
<1> QED
  BY <1>3, <1>4, <1>5

LEMMA MessagesStep ==
  ASSUME Typed, InPhase, SendInitialMessages
  PROVE  Typed' /\ InPhase'
<1> USE DEF SendInitialMessages
<1>1. /\ pc = "initial_messages" /\ Named /\ toServer = <<>>
      /\ UNCHANGED <<server, version, toClient, config, security, conn_info>>
  BY DEF InPhase, Failed
<1>2. Typed'
  BY <1>1 DEF Typed, TypeOK, Pcs, Waiting, Failed, Losses
<1>3. toServer' \in Setup
  <2> DEFINE P == Field("SetPixelFormat", 0)  E == Field("SetEncodings", 0)
  <2>1. /\ Optional(config.pixel_format # "none", "SetPixelFormat") \in {<<>>, <<P>>}
        /\ Optional(config.encodings, "SetEncodings") \in {<<>>, <<E>>}
    BY DEF Optional
  <2>2. \A p \in {<<>>, <<P>>}, e \in {<<>>, <<E>>} :
          <<>> \o (p \o e) \in {<<>>, <<P>>, <<E>>, <<P, E>>}
    <3> HIDE DEF P, E
    <3> QED
      BY Writing
  <2>3. \A p \in {<<>>, <<P>>} : <<>> \o p \in {<<>>, <<P>>}
    BY Writing
  <2> QED
    BY <1>1, <2>1, <2>2, <2>3 DEF Send, Setup
<1>4. CASE pc' = "done"
  BY <1>1, <1>2, <1>3, <1>4 DEF InPhase, Named, Secured, Measured, Up, Lost
<1>5. CASE Failed("NOMEM") /\ NoMemory
  BY <1>1, <1>2, <1>3, <1>5 DEF Failed, InPhase, AtFailed, Blame, Named, Up,
     Lost
<1> QED
  BY <1>4, <1>5

LEMMA LostStep ==
  ASSUME Typed, InPhase, ConnectionLost
  PROVE  Typed' /\ InPhase'
<1> USE DEF ConnectionLost
<1>1. /\ pc' = "failed" /\ server.pc = "gone"
      /\ ret' \in Losses \/ (pc = "reason" /\ ret = "AUTH_FAILED" /\ ret' = ret)
      /\ UNCHANGED <<config, security, conn_info, version, toClient, toServer,
                     server>>
  BY DEF Failed
<1>2. Typed'
  BY <1>1 DEF Typed, TypeOK, Pcs
<1>3. CASE pc = "reason"
  <2>1. AtReason /\ toClient = <<>>
    BY <1>3 DEF InPhase
  <2>2. Lost
    BY <2>1, Reading DEF AtReason
  <2> QED
    BY <1>1, <1>2, <2>1, <2>2 DEF InPhase, AtReason, AtFailed, Blame, Lost
<1>4. CASE pc # "reason"
  <2>1. server.left = "vanished" \/ (Closed /\ Secured)
    BY <1>1, <1>4, Reading DEF InPhase, Waiting, AtVersion, AtType, AtTypes,
       AtResult, AtClientInit, AtInit, AtName, Named, Replied, Refused, Up, Lost
  <2>2. server.left = "vanished" \/ (server.version = 7 /\ server.verdict = "reject")
    BY <2>1 DEF Closed, Secured
  <2> QED
    BY <1>1, <1>2, <1>4, <2>2 DEF InPhase, AtFailed, Blame
<1> QED
  BY <1>3, <1>4

-----------------------------------------------------------------------------
(* The steps of the server.                                                 *)

(* Where the client can be while the server is at pc.                       *)
LEMMA WhereIsClient ==
  ASSUME Typed, InPhase
  PROVE  /\ server.pc = "hello" => /\ pc \in {"version", "failed"}
                                   /\ pc = "version" => toClient = <<>>
         /\ server.pc = "version" /\ toServer # <<>>
              => pc \in {"type", "types"} /\ Replied
         /\ server.pc = "choice" /\ toServer # <<>>
              => \/ pc = "result" /\ toServer = <<Choice>>
                 \/ pc = "client_init" /\ toServer = <<Choice>> /\ version = 7
                 \/ pc = "init" /\ toServer = <<Choice, Shared>> /\ version = 7
         /\ server.pc = "shared" /\ toServer # <<>>
              => pc = "init" /\ toServer = <<Shared>>
         /\ server.pc = "normal" /\ toServer # <<>>
              => pc \in {"done", "failed"} /\ toServer \in Setup
<1>1. pc \in Pcs
  BY DEF Typed, TypeOK
<1>2. pc \in {"version", "type", "types", "result", "reason", "client_init",
              "init", "name", "framebuffer", "initial_messages", "done",
              "failed"}
  BY <1>1 DEF Pcs, Waiting
<1>3. ~Lost \/ server.pc = "gone"
  BY DEF Lost
<1> QED
  BY <1>2, <1>3, Reading DEF InPhase, AtVersion, AtType, AtTypes, AtResult,
     AtReason, AtClientInit, AtInit, AtName, Named, AtFailed, Replied, Refused,
     Closed, Up, Lost

LEMMA HelloStep ==
  ASSUME Typed, InPhase, Hello
  PROVE  Typed' /\ InPhase'
<1> USE DEF Hello, client
<1>1. /\ server.pc = "hello" /\ server \in Servers
      /\ server' = [server EXCEPT !.pc = "version"]
      /\ toClient' = <<Greeting>>
  BY DEF Typed, Greeting
<1>2. Typed'
  BY <1>1 DEF Typed, TypeOK, Servers
<1>3. Greeting' = Greeting /\ server'.version = server.version
      /\ server'.pc = "version"
  BY <1>1 DEF Greeting, Servers
<1>4. CASE pc = "version"
  BY <1>1, <1>2, <1>3, <1>4 DEF InPhase, AtVersion, Up
<1>5. CASE pc = "failed"
  BY <1>1, <1>2, <1>5 DEF InPhase, AtFailed, Blame, Servers
<1> QED
  BY <1>1, <1>4, <1>5, WhereIsClient

LEMMA OfferStep ==
  ASSUME Typed, InPhase, Offer
  PROVE  Typed' /\ InPhase'
<1>1. /\ server.pc = "version" /\ toServer # <<>> /\ server \in Servers
      /\ UNCHANGED client /\ toServer' = Tail(toServer)
  BY DEF Offer, TakesField, Typed
<1>2. pc \in {"type", "types"} /\ Replied
  BY <1>1, WhereIsClient
<1>3. /\ toServer = <<Field("version", version)>> /\ toClient = <<>>
      /\ ~Lost
  BY <1>1, <1>2 DEF Replied, Lost
<1>4. toServer' = <<>> /\ Head(toServer).val = version
  BY <1>1, <1>3, Reading, FieldParts
<1>5. /\ pc = "type" => version = 3
      /\ pc = "types" => version \in {7, 8}
  BY DEF InPhase, AtType, AtTypes
<1>6. UNCHANGED <<pc, config, version, security, conn_info, ret>>
  BY <1>1 DEF client
<1>7. CASE /\ version = 3 /\ server.offered = {}
           /\ toClient' = toClient \o <<Field("type", Invalid)>> \o <<Reason>>
           /\ server' = [server EXCEPT !.pc = "gone", !.version = version]
  <2>1. toClient' = <<Field("type", Invalid), Reason>>
    BY <1>3, <1>7, Writing
  <2>2. /\ server' \in Servers /\ server'.offered = {} /\ server'.pc = "gone"
        /\ server'.version = 3
    BY <1>1, <1>7 DEF Servers
  <2>3. Typed'
    BY <1>6, <2>2 DEF Typed, TypeOK, Servers
  <2>4. Refused(Field("type", Invalid))'
    BY <2>1, <2>2 DEF Refused, Reason, Field
  <2> QED
    BY <1>2, <1>4, <1>5, <1>6, <1>7, <2>2, <2>3, <2>4 DEF InPhase, AtType
<1>8. ASSUME NEW t \in server.offered,
             version = 3,
             toClient' = toClient \o <<Field("type", t)>>,
             server' = [server EXCEPT !.version = version,
                          !.pc = IF t = NoAuth THEN "shared" ELSE "auth",
                          !.offered = {t}]
      PROVE  Typed' /\ InPhase'
  <2>1. toClient' = <<Field("type", t)>>
    BY <1>3, <1>8, Writing
  <2>2. t \in Types
    BY <1>1 DEF Servers
  <2>3. /\ server' \in Servers /\ server'.offered = {t}
        /\ server'.pc = (IF t = NoAuth THEN "shared" ELSE "auth")
        /\ server'.version = 3
    BY <1>1, <1>8, <2>2 DEF Servers
  <2>4. Typed'
    BY <1>6, <2>3 DEF Typed, TypeOK, Servers
  <2>5. AtType'
    BY <1>4, <1>6, <1>8, <2>1, <2>2, <2>3 DEF AtType, Up, Field
  <2> QED
    BY <1>2, <1>5, <1>6, <1>8, <2>4, <2>5 DEF InPhase
<1>9. CASE /\ version # 3
           /\ toClient' = toClient \o <<Field("types", server.offered)>>
                \o (IF server.offered = {} THEN <<Reason>> ELSE <<>>)
           /\ server' = [server EXCEPT !.version = version,
                !.pc = IF server.offered = {} THEN "gone" ELSE "choice"]
  <2>1. toClient' = IF server.offered = {}
                    THEN <<Field("types", {}), Reason>>
                    ELSE <<Field("types", server.offered)>>
    BY <1>3, <1>9, Writing
  <2>2. version \in {7, 8}
    BY <1>2, <1>5, <1>9
  <2>3. /\ server' \in Servers /\ server'.offered = server.offered
        /\ server'.pc = (IF server.offered = {} THEN "gone" ELSE "choice")
        /\ server'.version = version
    BY <1>1, <1>9, <2>2 DEF Servers
  <2>4. Typed'
    BY <1>6, <2>3 DEF Typed, TypeOK, Servers
  <2>5. AtTypes'
    BY <1>4, <1>6, <2>1, <2>2, <2>3 DEF AtTypes, Refused, Up, Field, Reason
  <2> QED
    BY <1>2, <1>5, <1>6, <1>9, <2>4, <2>5 DEF InPhase
<1> QED
  BY <1>1, <1>4, <1>7, <1>8, <1>9 DEF Offer, Reason

LEMMA JudgeStep ==
  ASSUME Typed, InPhase, Judge
  PROVE  Typed' /\ InPhase'
<1>1. /\ server.pc = "choice" /\ toServer # <<>> /\ server \in Servers
      /\ toServer' = Tail(toServer)
      /\ UNCHANGED <<pc, config, version, security, conn_info, ret>>
  BY DEF Judge, TakesField, Typed, client
<1>2. /\ \/ pc = "result" /\ toServer = <<Choice>> /\ version = 8
         \/ pc = "client_init" /\ toServer = <<Choice>> /\ version = 7
         \/ pc = "init" /\ toServer = <<Choice, Shared>> /\ version = 7
      /\ Secured /\ toClient = <<>>
  <2>1. ~Lost
    BY <1>1 DEF Lost
  <2> QED
    BY <1>1, <2>1, WhereIsClient, Reading
    DEF InPhase, AtResult, AtClientInit, AtInit, Up, Closed
<1>3. toServer' = IF pc = "init" THEN <<Shared>> ELSE <<>>
  <2>1. Tail(<<Choice>>) = <<>> /\ Tail(<<Choice, Shared>>) = <<Shared>>
    BY Reading
  <2> QED
    BY <1>1, <1>2, <2>1
<1>4. server.version = version
  BY <1>2 DEF Secured
<1>5. CASE /\ server.verdict = "accept"
           /\ server' = [server EXCEPT !.pc = "shared"]
           /\ toClient' = toClient \o (IF server.version = 8
                                       THEN <<Field("result", 0)>> ELSE <<>>)
  <2>1. toClient' = IF version = 8 THEN <<Field("result", 0)>> ELSE <<>>
    BY <1>2, <1>4, <1>5, Writing
  <2>2. /\ server' \in Servers /\ server'.pc = "shared"
        /\ server'.version = server.version /\ server'.offered = server.offered
    BY <1>1, <1>5 DEF Servers
  <2>3. Typed'
    BY <1>1, <2>2 DEF Typed, TypeOK, Servers
  <2>4. Secured'
    BY <1>1, <1>2, <2>2 DEF Secured
  <2>5. CASE pc = "result"
    BY <1>1, <1>2, <1>3, <2>1, <2>2, <2>3, <2>4, <2>5
    DEF InPhase, AtResult, Up, Field, Reason
  <2>6. CASE pc = "client_init"
    BY <1>1, <1>2, <1>3, <2>1, <2>2, <2>3, <2>4, <2>6
    DEF InPhase, AtClientInit, Up
  <2>7. CASE pc = "init"
    <3>1. toClient' = <<>> /\ version' = 7
      BY <1>1, <1>2, <2>1, <2>7
    <3>2. toServer' = <<Shared>>
      BY <1>3, <2>7
    <3>3. Up("shared")'
      BY <2>2 DEF Up
    <3>4. AtInit'
      BY <2>4, <3>1, <3>2, <3>3 DEF AtInit, Shared, Field
    <3> QED
      BY <1>1, <2>3, <2>7, <3>4 DEF InPhase
  <2> QED
    BY <1>2, <2>5, <2>6, <2>7
<1>6. CASE /\ server.verdict = "reject"
           /\ server' = [server EXCEPT !.pc = "gone"]
           /\ toClient' = toClient \o
                (IF server.version = 8 THEN <<Field("result", 1), Reason>>
                                       ELSE <<>>)
  <2>1. toClient' = IF version = 8 THEN <<Field("result", 1), Reason>> ELSE <<>>
    BY <1>2, <1>4, <1>6, Writing
  <2>2. /\ server' \in Servers /\ server'.pc = "gone"
        /\ server'.verdict = "reject"
        /\ server'.version = server.version /\ server'.offered = server.offered
    BY <1>1, <1>6 DEF Servers
  <2>3. Typed'
    BY <1>1, <2>2 DEF Typed, TypeOK, Servers
  <2>4. Secured'
    BY <1>1, <1>2, <2>2 DEF Secured
  <2>5. CASE pc = "result"
    BY <1>1, <1>2, <1>3, <2>1, <2>2, <2>3, <2>4, <2>5
    DEF InPhase, AtResult, Closed, Field, Reason
  <2>6. CASE pc = "client_init"
    BY <1>1, <1>2, <1>3, <2>1, <2>2, <2>3, <2>4, <2>6
    DEF InPhase, AtClientInit, Closed
  <2>7. CASE pc = "init"
    <3>1. toClient' = <<>> /\ version' = 7
      BY <1>1, <1>2, <2>1, <2>7
    <3>2. toServer' = <<Shared>>
      BY <1>3, <2>7
    <3>3. Closed'
      BY <1>6, <2>2, <3>1 DEF Closed
    <3>4. AtInit'
      BY <2>4, <3>1, <3>2, <3>3 DEF AtInit, Shared, Field
    <3> QED
      BY <1>1, <2>3, <2>7, <3>4 DEF InPhase
  <2> QED
    BY <1>2, <2>5, <2>6, <2>7
<1> QED
  BY <1>5, <1>6 DEF Judge, Reason

LEMMA InitializeStep ==
  ASSUME Typed, InPhase, Initialize
  PROVE  Typed' /\ InPhase'
<1>1. /\ server.pc = "shared" /\ toServer # <<>> /\ server \in Servers
      /\ toServer' = Tail(toServer)
      /\ server' = [server EXCEPT !.pc = "normal"]
      /\ UNCHANGED <<pc, config, version, security, conn_info, ret>>
  BY DEF Initialize, TakesField, Typed, client
<1>2. pc = "init" /\ toServer = <<Shared>>
  BY <1>1, WhereIsClient
<1>3. /\ toClient = <<>> /\ Secured /\ toServer' = <<>>
  BY <1>1, <1>2, Reading DEF InPhase, AtInit
<1>4. toClient' = IF server.name = 0 THEN <<Initial>>
                  ELSE <<Initial, Name(server.name)>>
  <2>1. toClient' = toClient \o <<Initial>>
                     \o (IF server.name = 0 THEN <<>> ELSE <<Name(server.name)>>)
    BY DEF Initialize, Initial, Name
  <2> QED
    BY <1>3, <2>1, Writing
<1>5. /\ server' \in Servers /\ server'.pc = "normal"
      /\ server'.version = server.version /\ server'.offered = server.offered
      /\ server'.name = server.name /\ server'.format = server.format
      /\ server.name \in Nat
  BY <1>1 DEF Servers
<1>6. Typed'
  BY <1>1, <1>5 DEF Typed, TypeOK, Servers
<1>7. Secured'
  BY <1>1, <1>3, <1>5 DEF Secured
<1>8. Initial' = Initial /\ Name(server.name)' = Name(server.name)
  BY <1>5 DEF Initial, Name, Field
<1> QED
  BY <1>1, <1>2, <1>3, <1>4, <1>5, <1>6, <1>7, <1>8 DEF InPhase, AtInit, Up

LEMMA ReadMessageStep ==
  ASSUME Typed, InPhase, ReadMessage
  PROVE  Typed' /\ InPhase'
<1>1. /\ server.pc = "normal" /\ toServer # <<>> /\ toServer' = Tail(toServer)
      /\ UNCHANGED <<pc, config, version, security, conn_info, ret, toClient,
                     server>>
  BY DEF ReadMessage, TakesField, client
<1>2. pc \in {"done", "failed"} /\ toServer \in Setup
  BY <1>1, WhereIsClient
<1>3. toServer' \in Setup
  BY <1>1, <1>2, Reading, ZenonT(40) DEF Setup
<1>4. Typed'
  BY <1>1 DEF Typed, TypeOK
<1> QED
  BY <1>1, <1>2, <1>3, <1>4 DEF InPhase, Named, Secured, Measured, Up, Lost,
     AtFailed, Blame

LEMMA SeeCloseStep ==
  ASSUME Typed, InPhase, SeeClose
  PROVE  Typed' /\ InPhase'
<1>1. /\ pc = "failed" /\ server \in Servers
      /\ server' = [server EXCEPT !.pc = "gone"]
      /\ UNCHANGED <<pc, config, version, security, conn_info, ret, toClient,
                     toServer>>
  BY DEF SeeClose, Typed, client
<1>2. Typed'
  BY <1>1 DEF Typed, TypeOK, Servers
<1> QED
  BY <1>1, <1>2 DEF InPhase, AtFailed, Blame, Servers

(* What a broken connection leaves of the fields under way.                 *)
LEMMA NoneLeft ==
  ASSUME Vanish, toClient = <<>>
  PROVE  toClient' = <<>>
<1>1. PICK n \in 0 .. Len(toClient) :
        \/ toClient' = SubSeq(toClient, 1, n)
        \/ n > 0 /\ toClient[n].kind = "name"
  BY DEF Vanish
<1>2. n = 0
  BY <1>1
<1> QED
  BY <1>1, <1>2

LEMMA OneLeft ==
  ASSUME Vanish, NEW a, toClient = <<a>>, a.kind # "name"
  PROVE  toClient' = <<>> \/ toClient' = <<a>>
<1>1. PICK n \in 0 .. Len(toClient) :
        \/ toClient' = SubSeq(toClient, 1, n)
        \/ n > 0 /\ toClient[n].kind = "name"
  BY DEF Vanish
<1>2. n \in 0..1 /\ toClient[1] = a
  BY <1>1
<1> QED
  BY <1>1, <1>2, CutOne

LEMMA TwoLeft ==
  ASSUME Vanish, NEW a, NEW b, toClient = <<a, b>>,
         a.kind # "name", b.kind # "name"
  PROVE  toClient' = <<>> \/ toClient' = <<a>> \/ toClient' = <<a, b>>
<1>1. PICK n \in 0 .. Len(toClient) :
        \/ toClient' = SubSeq(toClient, 1, n)
        \/ n > 0 /\ toClient[n].kind = "name"
  BY DEF Vanish
<1>2. n \in 0..2 /\ toClient[1] = a /\ toClient[2] = b
  BY <1>1
<1>3. ~(n > 0 /\ toClient[n].kind = "name")
  BY <1>2
<1>4. SubSeq(toClient, 1, n) = IF n = 0 THEN <<>> ELSE IF n = 1 THEN <<a>>
                               ELSE <<a, b>>
  BY <1>2, CutTwo
<1> QED
  BY <1>1, <1>3, <1>4

LEMMA Shortened ==
  ASSUME NEW n, NEW k
  PROVE  [Name(n) EXCEPT !.val = k] = Name(k)
BY DEF Name, Field

LEMMA NameLeft ==
  ASSUME Vanish, NEW m \in Nat \ {0}, toClient = <<Name(m)>>
  PROVE  toClient' = <<>> \/ \E k \in 1..m : toClient' = <<Name(k)>>
<1>1. PICK n \in 0 .. Len(toClient) :
        \/ toClient' = SubSeq(toClient, 1, n)
        \/ /\ n > 0
           /\ \E k \in 1 .. toClient[n].val - 1 :
                toClient' = [SubSeq(toClient, 1, n) EXCEPT ![n].val = k]
  BY DEF Vanish
<1>2. n \in 0..1 /\ toClient[1] = Name(m) /\ Name(m).val = m /\ m \in 1..m
  BY <1>1, FieldParts DEF Name
<1>3. SubSeq(toClient, 1, n) = IF n = 0 THEN <<>> ELSE <<Name(m)>>
  BY <1>2, CutOne
<1>4. CASE toClient' = SubSeq(toClient, 1, n)
  <2>1. toClient' = <<>> \/ toClient' = <<Name(m)>>
    BY <1>3, <1>4
  <2> QED
    BY <1>2, <2>1
<1>5. ASSUME n = 1, NEW k \in 1 .. m - 1,
             toClient' = [<<Name(m)>> EXCEPT ![1].val = k]
      PROVE  k \in 1..m /\ toClient' = <<Name(k)>>
  BY <1>5, Shortened
<1>6. CASE toClient' # SubSeq(toClient, 1, n)
  <2>1. n > 0
    BY <1>1, <1>6, Zenon
  <2>2. n = 1
    BY <1>2, <2>1
  <2>3. SubSeq(toClient, 1, n) = <<Name(m)>>
    BY <1>3, <2>2
  <2>4. PICK k \in 1 .. m - 1 : toClient' = [<<Name(m)>> EXCEPT ![1].val = k]
    BY <1>1, <1>2, <1>6, <2>2, <2>3
  <2> QED
    BY <1>5, <2>2, <2>4
<1> QED
  BY <1>4, <1>6

LEMMA InitialLeft ==
  ASSUME Vanish, NEW a, NEW m \in Nat \ {0}, toClient = <<a, Name(m)>>,
         a.kind # "name"
  PROVE  \/ toClient' = <<>> \/ toClient' = <<a>>
         \/ \E k \in 1..m : toClient' = <<a, Name(k)>>
<1>1. PICK n \in 0 .. Len(toClient) :
        \/ toClient' = SubSeq(toClient, 1, n)
        \/ /\ n > 0 /\ toClient[n].kind = "name"
           /\ \E k \in 1 .. toClient[n].val - 1 :
                toClient' = [SubSeq(toClient, 1, n) EXCEPT ![n].val = k]
  BY DEF Vanish
<1>2. /\ n \in 0..2 /\ toClient[1] = a /\ toClient[2] = Name(m)
      /\ Name(m).val = m /\ m \in 1..m
  BY <1>1, FieldParts DEF Name
<1>3. SubSeq(toClient, 1, n) = IF n = 0 THEN <<>> ELSE IF n = 1 THEN <<a>>
                               ELSE <<a, Name(m)>>
  BY <1>2, CutTwo
<1>4. CASE toClient' = SubSeq(toClient, 1, n)
  <2>1. toClient' = <<>> \/ toClient' = <<a>> \/ toClient' = <<a, Name(m)>>
    BY <1>3, <1>4
  <2> QED
    BY <1>2, <2>1
<1>5. ASSUME NEW k \in 1 .. m - 1,
             toClient' = [<<a, Name(m)>> EXCEPT ![2].val = k]
      PROVE  k \in 1..m /\ toClient' = <<a, Name(k)>>
  BY <1>5, Shortened
<1>6. CASE toClient' # SubSeq(toClient, 1, n)
  <2>1. n > 0 /\ toClient[n].kind = "name"
    BY <1>1, <1>6, Zenon
  <2>2. n = 2
    BY <1>2, <2>1
  <2>3. SubSeq(toClient, 1, n) = <<a, Name(m)>>
    BY <1>3, <2>2
  <2>4. PICK k \in 1 .. m - 1 :
          toClient' = [<<a, Name(m)>> EXCEPT ![2].val = k]
    BY <1>1, <1>2, <1>6, <2>2, <2>3
  <2> QED
    BY <1>5, <2>4
<1> QED
  BY <1>4, <1>6

LEMMA VanishStep ==
  ASSUME Typed, InPhase, Vanish
  PROVE  Typed' /\ InPhase'
<1>1. /\ server.left = "no" /\ server \in Servers
      /\ server' = [server EXCEPT !.pc = "gone", !.left = "vanished"]
      /\ UNCHANGED <<pc, config, version, security, conn_info, ret, toServer>>
  BY DEF Vanish, Typed, client
<1>2. /\ server' \in Servers /\ Lost' /\ ~Lost
      /\ server'.major = server.major /\ server'.minor = server.minor
      /\ server'.name = server.name /\ server'.format = server.format
      /\ server'.offered = server.offered /\ server'.version = server.version
      /\ server'.verdict = server.verdict /\ server'.pc = "gone"
      /\ server.name \in Nat
  BY <1>1 DEF Lost, Servers
<1>3. Typed'
  BY <1>1, <1>2 DEF Typed, TypeOK, Servers
<1>4. /\ Greeting' = Greeting /\ Reason' = Reason /\ Initial' = Initial
      /\ Greeting.kind # "name" /\ Reason.kind # "name"
      /\ Initial.kind # "name"
  BY <1>2, FieldParts DEF Greeting, Reason, Initial, Field
<1>5. Secured => Secured'
  BY <1>1, <1>2 DEF Secured
<1>6. Measured => Measured'
  BY <1>1, <1>2 DEF Measured
<1>7. Replied => Replied'
  BY <1>1, <1>2, NoneLeft DEF Replied, Up, Field
<1>8. ASSUME NEW kind, kind # "name", NEW val, Refused(Field(kind, val))
      PROVE  Lost' /\ (toClient' = <<>> \/ Refused(Field(kind, val))')
  <2>1. Field(kind, val).kind # "name" /\ Field(kind, val)' = Field(kind, val)
    BY <1>8, FieldParts DEF Field
  <2> QED
    BY <1>2, <1>4, <1>8, <2>1, OneLeft, TwoLeft DEF Refused
<1>9. CASE pc = "version"
  BY <1>1, <1>2, <1>3, <1>4, <1>9, NoneLeft, OneLeft DEF InPhase, AtVersion, Up
<1>10. CASE pc = "type"
  <2>1. ASSUME NEW t \in Types, toClient = <<Field("type", t)>>
        PROVE  toClient' = <<>> \/ toClient' = <<Field("type", t)>>
    BY <2>1, FieldParts, OneLeft
  <2>2. AtType'
    BY <1>1, <1>2, <1>7, <1>8, <1>10, <2>1, NoneLeft DEF InPhase, AtType, Up,
       Field
  <2> QED
    BY <1>1, <1>3, <1>10, <2>2 DEF InPhase
<1>11. CASE pc = "types"
  <2>1. toClient = <<Field("types", server.offered)>>
          => toClient' = <<>> \/ toClient' = <<Field("types", server.offered)>>
    BY FieldParts, OneLeft
  <2>2. AtTypes'
    BY <1>1, <1>2, <1>7, <1>8, <1>11, <2>1, NoneLeft DEF InPhase, AtTypes, Up,
       Field
  <2> QED
    BY <1>1, <1>3, <1>11, <2>2 DEF InPhase
<1>12. CASE pc = "result"
  <2>1. ASSUME NEW r \in {0, 1}, toClient = <<Field("result", r)>>
        PROVE  toClient' = <<>> \/ toClient' = <<Field("result", r)>>
    BY <2>1, FieldParts, OneLeft
  <2>2. toClient = <<Field("result", 1), Reason>>
          => \/ toClient' = <<>> \/ toClient' = <<Field("result", 1)>>
             \/ toClient' = <<Field("result", 1), Reason>>
    BY <1>4, FieldParts, TwoLeft
  <2>3. AtResult'
    BY <1>1, <1>2, <1>5, <1>12, <2>1, <2>2, NoneLeft DEF InPhase, AtResult, Up,
       Field, Choice, Reason
  <2> QED
    BY <1>1, <1>3, <1>12, <2>3 DEF InPhase
<1>13. CASE pc = "reason"
  BY <1>1, <1>2, <1>3, <1>4, <1>13, NoneLeft, OneLeft DEF InPhase, AtReason
<1>14. CASE pc = "client_init"
  BY <1>1, <1>2, <1>3, <1>5, <1>14, NoneLeft DEF InPhase, AtClientInit, Up,
     Choice, Field
<1>15. CASE pc = "init"
  <2>1. AtInit
    BY <1>15 DEF InPhase
  <2>2. CASE toClient = <<>>
    BY <1>1, <1>2, <1>3, <1>5, <1>15, <2>1, <2>2, NoneLeft, Reading DEF InPhase,
       AtInit, Up, Choice, Shared, Field
  <2>3. CASE toClient = <<Initial>>
    <3>1. toClient' = <<>> \/ toClient' = <<Initial>>
      BY <1>4, <2>3, OneLeft
    <3>2. toServer = <<>>
      BY <2>1, <2>3, Reading DEF AtInit
    <3> QED
      BY <1>1, <1>2, <1>3, <1>4, <1>5, <1>15, <2>1, <3>1, <3>2 DEF InPhase,
         AtInit, Up
  <2>4. CASE toClient = <<Initial, Name(server.name)>> /\ server.name > 0
    <3>1. \/ toClient' = <<>> \/ toClient' = <<Initial>>
          \/ \E k \in 1 .. server.name : toClient' = <<Initial, Name(k)>>
      BY <1>2, <1>4, <2>4, InitialLeft
    <3>2. toServer = <<>>
      BY <2>1, <2>4, Reading DEF AtInit
    <3> QED
      BY <1>1, <1>2, <1>3, <1>4, <1>5, <1>15, <2>1, <3>1, <3>2 DEF InPhase,
         AtInit, Up, Name, Field
  <2> QED
    BY <1>2, <2>1, <2>2, <2>3, <2>4 DEF AtInit
<1>16. CASE pc = "name"
  <2>1. /\ AtName /\ toClient = <<Name(conn_info.unread)>>
        /\ conn_info.unread \in Nat \ {0}
    BY <1>2, <1>16 DEF InPhase, AtName, Measured
  <2>2. \/ toClient' = <<>>
        \/ \E k \in 1 .. conn_info.unread : toClient' = <<Name(k)>>
    BY <2>1, NameLeft
  <2>3. AtName'
    BY <1>1, <1>2, <1>5, <1>6, <2>1, <2>2 DEF AtName, Name, Field
  <2> QED
    BY <1>1, <1>3, <1>16, <2>3 DEF InPhase
<1>17. CASE pc \in {"framebuffer", "initial_messages", "done"}
  <2>1. Named'
    BY <1>1, <1>2, <1>5, <1>6, <1>17, NoneLeft DEF InPhase, Named, Up
  <2> QED
    BY <1>1, <1>3, <1>17, <2>1 DEF InPhase, Setup, Field
<1>18. CASE pc = "failed"
  BY <1>1, <1>2, <1>3, <1>18 DEF InPhase, AtFailed, Blame
<1> QED
  BY <1>9, <1>10, <1>11, <1>12, <1>13, <1>14, <1>15, <1>16, <1>17, <1>18
  DEF Typed, TypeOK, Pcs, Waiting

LEMMA PhaseStep == Typed /\ InPhase /\ [Next]_vars => Typed' /\ InPhase'
<1> SUFFICES ASSUME Typed, InPhase, [Next]_vars PROVE Typed' /\ InPhase'
  OBVIOUS
<1>1. CASE ClientStep
  BY <1>1, VersionStep, TypeStep, TypesStep, ReasonStep, ResultStep,
     ClientInitStep, ServerInitStep, NameStep, FramebufferStep, MessagesStep,
     LostStep DEF ClientStep
<1>2. CASE ServerStep
  BY <1>2, HelloStep, OfferStep, JudgeStep, InitializeStep, ReadMessageStep,
     SeeCloseStep DEF ServerStep
<1>3. CASE UNCHANGED vars
  <2>1. UNCHANGED <<pc, config, version, security, conn_info, ret, toClient,
                    toServer, server>>
    BY <1>3 DEF vars, client
  <2>2. Typed'
    BY <2>1 DEF Typed, TypeOK
  <2>3. InPhase'
    BY <2>1 DEF InPhase, AtVersion, AtType, AtTypes, AtResult, AtReason,
       AtClientInit, AtInit, AtName, Named, AtFailed, Blame, Replied, Refused,
       Secured, Measured, Closed, Up, Lost, Greeting, Reason, Initial, Name,
       Choice, Shared, Setup, Field, Active
  <2> QED
    BY <2>2, <2>3
<1> QED
  BY <1>1, <1>2, <1>3, VanishStep DEF Next, Finished

-----------------------------------------------------------------------------
(* Every variable of the handshake keeps its type.                          *)
THEOREM HandshakeTypes == Spec => []TypeOK
<1>1. Typed => TypeOK
  BY DEF Typed
<1> QED
  BY <1>1, InitHolds, PhaseStep, PTL DEF Spec

(* Client and server never take one field for another, in any version, on   *)
(* any error path, and wherever the connection breaks.                      *)
THEOREM StaysInStep == Spec => []InStep
<1>1. Typed /\ InPhase => InStep
  <2> SUFFICES ASSUME Typed, InPhase PROVE InStep
    OBVIOUS
  <2>1. pc \in Waiting /\ toClient # <<>> => Head(toClient).kind = pc
    BY Reading, FieldParts DEF InPhase, Waiting, AtVersion, AtType, AtTypes,
       AtResult, AtReason, AtInit, AtName, Replied, Refused, Greeting, Reason,
       Initial, Name
  <2>2. server.pc \in {"version", "choice", "shared"} /\ toServer # <<>>
          => Head(toServer).kind = server.pc
    BY WhereIsClient, Reading, FieldParts DEF Replied, Choice, Shared
  <2>3. server.pc = "normal" /\ toServer # <<>>
          => Head(toServer).kind \in {"SetPixelFormat", "SetEncodings"}
    BY WhereIsClient, Reading, FieldParts DEF Setup
  <2> QED
    BY <2>1, <2>2, <2>3 DEF InStep
<1> QED
  BY <1>1, InitHolds, PhaseStep, PTL DEF Spec

(* When connect succeeds nothing of the handshake is left unread, and the   *)
(* stored name is the server's, or as much of it as fits.                   *)
THEOREM HandsOver == Spec => [](CleanHandover /\ NameKept)
<1>1. Typed /\ InPhase => CleanHandover /\ NameKept
  <2> SUFFICES ASSUME Typed, InPhase, pc = "done"
               PROVE  CleanHandover /\ NameKept
    BY DEF CleanHandover, NameKept
  <2>1. Named /\ Measured /\ server.name \in Nat
    BY DEF InPhase, Named, Typed, Servers
  <2>2. (server.name > NameMax - 1) = (Min2(server.name, NameMax - 1) < server.name)
    BY <2>1 DEF Min2
  <2> QED
    BY <2>1, <2>2 DEF Named, Measured, CleanHandover, NameKept
<1> QED
  BY <1>1, InitHolds, PhaseStep, PTL DEF Spec

(* The name read in pieces around the array is the server's as far as it     *)
(* fits.                                                                     *)
THEOREM NameSurvives == Spec => []NameKept
BY HandsOver, PTL

(* When connect succeeds both sides speak the same version, and the security *)
(* type was offered, if no server announces a version older than 3.3.        *)
THEOREM Agrees ==
  ASSUME \A m \in Minors : m >= 3
  PROVE  Spec => []Agreement
<1> DEFINE Older == version # 0 => version <= server.minor
<1>1. Typed /\ InPhase /\ Older => Agreement
  BY DEF InPhase, Named, Secured, Agreement
<1>2. Init => Older
  BY DEF Init
<1>3. Typed /\ InPhase /\ Older /\ [Next]_vars => Older'
  <2> SUFFICES ASSUME Typed, InPhase, Older, [Next]_vars PROVE Older'
    OBVIOUS
  <2>1. server \in Servers /\ server.minor \in Nat /\ server.minor >= 3
    BY DEF Typed, Servers
  <2>2. server'.minor = server.minor
    BY <2>1 DEF Next, ClientStep, ServerStep, NegotiateVersion,
       NegotiateSecurity33, NegotiateSecurity37, ReadFailureReason,
       CheckSecurityResult, ClientInit, ServerInit, ReadName, SetUpFramebuffer,
       SendInitialMessages, ConnectionLost, Hello, Offer, Judge, Initialize,
       ReadMessage, SeeClose, Vanish, Finished, vars, Servers
  <2>3. CASE NegotiateVersion
    <3>1. toClient = <<Greeting>> /\ version = 0
      BY <2>3 DEF NegotiateVersion, Receive, InPhase, AtVersion
    <3>2. Received.minor = server.minor
      BY <3>1, Reading, FieldParts DEF Received, Greeting
    <3> QED
      BY <2>1, <2>2, <2>3, <3>1, <3>2 DEF NegotiateVersion, Chosen
  <2>4. CASE ~NegotiateVersion
    <3>1. version' = version
      BY <2>4 DEF Next, ClientStep, ServerStep, client, TakesField,
         NegotiateSecurity33, NegotiateSecurity37, ReadFailureReason,
         CheckSecurityResult, ClientInit, ServerInit, ReadName,
         SetUpFramebuffer, SendInitialMessages, ConnectionLost, Hello, Offer,
         Judge, Initialize, ReadMessage, SeeClose, Vanish, Finished, vars,
         Failed
    <3> QED
      BY <2>2, <3>1
  <2> QED
    BY <2>3, <2>4
<1> QED
  BY <1>1, <1>2, <1>3, InitHolds, PhaseStep, PTL DEF Spec

(* A failed connect is blamed on what really happened.                      *)
THEOREM BlamesRightly == Spec => []Blame
<1>1. InPhase => Blame
  BY DEF InPhase, AtFailed, Blame
<1> QED
  BY <1>1, InitHolds, PhaseStep, PTL DEF Spec
================================================================================
