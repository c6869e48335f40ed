----------------------------- MODULE OvncHandshake -----------------------------
(***************************************************************************)
(* The RFB handshake of src/src/protocol/ovnc_handshake.c, receive by      *)
(* receive, against a server that follows the protocol of                  *)
(* src/docs/rfb-version-differences.md.  The two byte streams are          *)
(* sequences of fields: what matters is that each side reads as the field  *)
(* it expects the field the other side has sent.                           *)
(***************************************************************************)
EXTENDS Integers, Sequences

CONSTANTS
  Majors,       \* major versions a server may announce, Garbled included
  Minors,       \* minor versions a server may announce
  Types,        \* security types a server may offer
  NameLengths,  \* lengths of the server's name
  NameMax,      \* OVNC_SERVER_NAME_MAX
  Chunk,        \* the size of the buffer the rest of a long name is read into
  NoMemory      \* TRUE if the handshake's allocations may fail

Invalid == 0    \* OVNC_SECURITY_INVALID
NoAuth  == 1    \* OVNC_SECURITY_NONE
Garbled == 1000 \* what is not "RFB xxx.yyy\n" has no major version

ASSUME MinorsAssumption == Minors \subseteq Nat /\ Majors \subseteq Nat
ASSUME TypesAssumption == Types \subseteq Nat \ {Invalid}
ASSUME NameAssumption == /\ NameLengths \subseteq Nat
                         /\ NameMax \in Nat \ {0, 1}
                         /\ Chunk \in Nat \ {0}

VARIABLES
  pc,        \* the field the client waits for, or where it is otherwise
  config,    \* whether a pixel format and encodings are configured
  version,   \* conn_info.rfb_version, as its minor number
  security,  \* conn_info.security_type
  conn_info, \* name length, bytes stored and to read; the pixel format
  ret,       \* the result of the handshake, or the result being reported
  toClient,  \* fields sent by the server and not yet read
  toServer,  \* fields sent by the client and not yet read
  server     \* the server: its pc, announcement, offer, version, verdict

client == <<pc, config, version, security, conn_info, ret>>
vars == <<client, toClient, toServer, server>>

Min2(a, b) == IF a < b THEN a ELSE b

Field(kind, val) == [kind |-> kind, val |-> val]

Init ==
  /\ pc = "version"
  /\ config \in [pixel_format : {"none", "plain", "odd"}, encodings : BOOLEAN]
  /\ version = 0 /\ security = Invalid /\ ret = "OK"
  /\ conn_info = [length |-> 0, stored |-> 0, unread |-> 0,
                  truncated |-> FALSE, format |-> "none"]
  /\ toClient = <<>> /\ toServer = <<>>
  /\ server \in [pc : {"hello"}, major : Majors, minor : Minors,
                 name : NameLengths, format : {"plain", "odd"},
                 offered : SUBSET Types, version : {0},
                 verdict : {"accept", "reject"}, left : {"no"}]

-----------------------------------------------------------------------------
(* The client.                                                              *)

(* A receive takes the next field, whatever it is.                          *)
Receive(at) == /\ pc = at
               /\ toClient # <<>>
               /\ toClient' = Tail(toClient)

Received == Head(toClient).val

Send(fields) == toServer' = toServer \o fields

(* Any error ends the handshake, and connect closes the socket.             *)
Failed(err) ==
  /\ pc' = "failed"
  /\ ret' = err
  /\ UNCHANGED <<config, security, conn_info>>

(* recv() and send() fail, or find the end of the stream.                   *)
Losses == {"IO", "CONNECTION_CLOSED"}

(* A send to a server that is gone may fail.                                *)
SendFails == /\ server.pc = "gone"
             /\ \E err \in Losses : Failed(err)
             /\ UNCHANGED toServer

(* Mutants: the announced version as it is; 3.7 taken for 3.8.              *)
Chosen_Raw(minor) == minor
Chosen_Up(minor) == IF minor >= 7 THEN 8 ELSE 3

(* The mapping of the announced version.                                    *)
Chosen(minor) == IF minor >= 8 THEN 8 ELSE IF minor = 7 THEN 7 ELSE 3

NegotiateVersion ==
  /\ Receive("version")
  /\ UNCHANGED server
  /\ \/ /\ Received.major = Garbled
        /\ Failed("PROTOCOL")
        /\ UNCHANGED <<version, toServer>>
     \/ /\ Received.major \notin {3, Garbled}
        /\ Failed("VERSION_MISMATCH")
        /\ UNCHANGED <<version, toServer>>
     \/ /\ Received.major = 3
        /\ version' = Chosen(Received.minor)
        /\ \/ /\ Send(<<Field("version", Chosen(Received.minor))>>)
              /\ pc' = IF Chosen(Received.minor) = 3 THEN "type" ELSE "types"
              /\ UNCHANGED <<config, security, conn_info, ret>>
           \/ SendFails

(* Mutant: SecurityResult is expected in 3.7 too.                           *)
AfterSecurity_Result37 == IF version >= 7 THEN "result" ELSE "client_init"

(* Mutant: SecurityResult is never expected.                                *)
AfterSecurity_NoResult == "client_init"

(* Where the handshake goes once the security type is known.                *)
AfterSecurity == IF version = 8 THEN "result" ELSE "client_init"

(* 3.3: the server has decided.                                             *)
NegotiateSecurity33 ==
  /\ Receive("type")
  /\ UNCHANGED server
  /\ \/ /\ Received = Invalid
        /\ pc' = "reason"
        /\ ret' = "CONNECTION_REFUSED"
        /\ UNCHANGED <<config, version, security, conn_info, toServer>>
     \/ /\ Received \notin {Invalid, NoAuth}
        /\ Failed("AUTH_UNSUPPORTED")
        /\ UNCHANGED <<version, toServer>>
     \/ /\ Received = NoAuth
        /\ security' = NoAuth
        /\ pc' = AfterSecurity
        /\ UNCHANGED <<config, version, conn_info, ret, toServer>>

(* 3.7 and 3.8: the server offers, the client takes None or nothing.        *)
NegotiateSecurity37 ==
  /\ Receive("types")
  /\ UNCHANGED <<server, version>>
  /\ \/ /\ Received = {}
        /\ pc' = "reason"
        /\ ret' = "CONNECTION_REFUSED"
        /\ UNCHANGED <<config, security, conn_info, toServer>>
     \/ Received # {} /\ NoMemory /\ Failed("NOMEM") /\ UNCHANGED toServer
     \/ /\ Received # {} /\ NoAuth \notin Received
        /\ Failed("AUTH_UNSUPPORTED")
        /\ UNCHANGED toServer
     \/ /\ NoAuth \in Received
        /\ Send(<<Field("choice", NoAuth)>>)
        /\ security' = NoAuth
        /\ pc' = AfterSecurity
        /\ UNCHANGED <<config, conn_info, ret>>
     \/ NoAuth \in Received /\ SendFails

(* Mutant: the refusal's own error is reported after a bad result too.      *)
ReadFailureReason_Own ==
  /\ Receive("reason")
  /\ Failed("CONNECTION_REFUSED")
  /\ UNCHANGED <<version, toServer, server>>

(* The reason is read and dropped; what was to be reported stands.          *)
ReadFailureReason ==
  /\ Receive("reason")
  /\ Failed(ret)
  /\ UNCHANGED <<version, toServer, server>>

(* 3.8 only: the code's other case, VNC authentication in 3.3 and 3.7, is   *)
(* never reached, since no type but None is ever taken.                     *)
CheckSecurityResult ==
  /\ Receive("result")
  /\ UNCHANGED <<server, config, version, security, conn_info, toServer>>
  /\ \/ Received = 0 /\ pc' = "client_init" /\ UNCHANGED ret
     \/ Received # 0 /\ pc' = "reason" /\ ret' = "AUTH_FAILED"

ClientInit ==
  /\ pc = "client_init"
  /\ Send(<<Field("shared", 0)>>)
  /\ pc' = "init"
  /\ UNCHANGED <<config, version, security, conn_info, ret, toClient, server>>

(* Mutant: the name may fill the array, NUL or not.                         *)
NextRead_Full == IF conn_info.stored = 0 THEN Min2(conn_info.unread, NameMax)
                                    ELSE Min2(conn_info.unread, Chunk)

(* Bytes of the name the next receive asks for: what can be stored, then    *)
(* the rest in chunks.                                                      *)
NextRead == IF conn_info.stored = 0 THEN Min2(conn_info.unread, NameMax - 1)
                               ELSE Min2(conn_info.unread, Chunk)

(* Mutant: the part of a long name that cannot be stored is not read.       *)
ServerInit_NoSkip ==
  /\ Receive("init")
  /\ conn_info' = [length |-> Received.name, stored |-> 0,
                   unread |-> Min2(Received.name, NameMax - 1),
                   truncated |-> Received.name > NameMax - 1,
                   format |-> Received.format]
  /\ pc' = IF Received.name > 0 THEN "name" ELSE "framebuffer"
  /\ UNCHANGED <<config, version, security, ret, toServer, server>>

ServerInit ==
  /\ Receive("init")
  /\ conn_info' = [length |-> Received.name, stored |-> 0,
                   unread |-> Received.name,
                   truncated |-> Received.name > NameMax - 1,
                   format |-> Received.format]
  /\ pc' = IF Received.name > 0 THEN "name" ELSE "framebuffer"
  /\ UNCHANGED <<config, version, security, ret, toServer, server>>

(* The bytes of the name are one field, read piece by piece.                *)
ReadName ==
  /\ pc = "name"
  /\ toClient # <<>>
  /\ Received >= NextRead
  /\ toClient' = (IF Received = NextRead THEN <<>>
                  ELSE <<Field(Head(toClient).kind, Received - NextRead)>>)
                 \o Tail(toClient)
  /\ conn_info' = [conn_info EXCEPT !.unread = @ - NextRead,
                                    !.stored = IF @ = 0 THEN NextRead ELSE @]
  /\ pc' = IF conn_info.unread = NextRead THEN "framebuffer" ELSE "name"
  /\ UNCHANGED <<config, version, security, ret, toServer, server>>

(* The configured format, else the server's; either may be odd: not of 1, 2 *)
(* or 4 bytes a pixel.                                                      *)
Active == IF config.pixel_format # "none" THEN config.pixel_format
                                          ELSE conn_info.format

(* What becomes of the framebuffer itself: module OvncClient.               *)
SetUpFramebuffer ==
  /\ pc = "framebuffer"
  /\ UNCHANGED <<version, toClient, toServer, server>>
  /\ \/ Active = "odd" /\ Failed("PROTOCOL")
     \/ Active = "plain" /\ NoMemory /\ Failed("NOMEM")
     \/ /\ Active = "plain"
        /\ pc' = "initial_messages"
        /\ UNCHANGED <<config, security, conn_info, ret>>

Optional(wanted, kind) == IF wanted THEN <<Field(kind, 0)>> ELSE <<>>

SendInitialMessages ==
  /\ pc = "initial_messages"
  /\ UNCHANGED <<version, toClient, server>>
  /\ \/ /\ Send(Optional(config.pixel_format # "none", "SetPixelFormat")
                \o Optional(config.encodings, "SetEncodings"))
        /\ pc' = "done"
        /\ UNCHANGED <<config, security, conn_info, ret>>
     \/ /\ config.encodings /\ NoMemory
        /\ Send(Optional(config.pixel_format # "none", "SetPixelFormat"))
        /\ Failed("NOMEM")

Waiting == {"version", "type", "types", "reason", "result", "init", "name"}

(* The server is gone: a receive that cannot be filled fails, a send may.   *)
(* A reason that never comes does not change what is reported once the      *)
(* result was read, but does for a refusal.                                 *)
ConnectionLost ==
  /\ server.pc = "gone"
  /\ \/ pc \in Waiting /\ toClient = <<>>
     \/ pc = "name" /\ toClient # <<>> /\ Received < NextRead
     \/ pc = "client_init"
     \/ /\ pc = "initial_messages"
        /\ config.pixel_format # "none" \/ config.encodings
  /\ IF pc = "reason" /\ ret = "AUTH_FAILED" THEN Failed(ret)
     ELSE \E err \in Losses : Failed(err)
  /\ UNCHANGED <<version, toClient, toServer, server>>

-----------------------------------------------------------------------------
(* The server, external: it speaks the version the client replied with,     *)
(* offers, judges, and may disappear at any moment.                         *)

TakesField == /\ toServer # <<>>
              /\ toServer' = Tail(toServer)
              /\ UNCHANGED client

Hello ==
  /\ server.pc = "hello"
  /\ toClient' = <<Field("version", [major |-> server.major,
                                     minor |-> server.minor])>>
  /\ server' = [server EXCEPT !.pc = "version"]
  /\ UNCHANGED <<client, toServer>>

Offer ==
  /\ server.pc = "version"
  /\ TakesField
  /\ LET v == Head(toServer).val
         refused == server.offered = {}
         reason == <<Field("reason", 0)>>
     IN \/ /\ v = 3
           /\ \/ /\ refused
                 /\ toClient' = toClient \o <<Field("type", Invalid)>>
                                          \o reason
                 /\ server' = [server EXCEPT !.pc = "gone", !.version = v]
              \/ \E t \in server.offered :
                   /\ toClient' = toClient \o <<Field("type", t)>>
                   /\ server' = [server EXCEPT !.version = v,
                        !.pc = IF t = NoAuth THEN "shared" ELSE "auth",
                        !.offered = {t}]
        \/ /\ v # 3
           /\ toClient' = toClient \o <<Field("types", server.offered)>>
                          \o (IF refused THEN reason ELSE <<>>)
           /\ server' = [server EXCEPT !.version = v,
                           !.pc = IF refused THEN "gone" ELSE "choice"]

(* In 3.8 every choice is answered with a SecurityResult; in 3.7, None is   *)
(* not, and a server that will not have the client just closes.             *)
Judge ==
  /\ server.pc = "choice"
  /\ TakesField
  /\ \/ /\ server.verdict = "accept"
        /\ server' = [server EXCEPT !.pc = "shared"]
        /\ toClient' = toClient \o (IF server.version = 8
                                    THEN <<Field("result", 0)>> ELSE <<>>)
     \/ /\ server.verdict = "reject"
        /\ server' = [server EXCEPT !.pc = "gone"]
        /\ toClient' = toClient \o
             (IF server.version = 8
              THEN <<Field("result", 1), Field("reason", 0)>> ELSE <<>>)

Initialize ==
  /\ server.pc = "shared"
  /\ TakesField
  /\ toClient' = toClient \o <<Field("init", [name |-> server.name,
                                                format |-> server.format])>>
                 \o (IF server.name = 0 THEN <<>>
                     ELSE <<Field("name", server.name)>>)
  /\ server' = [server EXCEPT !.pc = "normal"]

ReadMessage ==
  /\ server.pc = "normal"
  /\ TakesField
  /\ UNCHANGED <<toClient, server>>

(* The server notices that the client has closed.                           *)
SeeClose ==
  /\ pc = "failed"
  /\ server.pc # "gone"
  /\ server' = [server EXCEPT !.pc = "gone"]
  /\ UNCHANGED <<client, toClient, toServer>>

(* The connection breaks: of what the server has sent and the client has    *)
(* not read, the end may be lost, also in the middle of the name.           *)
Vanish ==
  /\ server.left = "no"
  /\ server' = [server EXCEPT !.pc = "gone", !.left = "vanished"]
  /\ \E n \in 0 .. Len(toClient) :
       \/ toClient' = SubSeq(toClient, 1, n)
       \/ /\ n > 0 /\ toClient[n].kind = "name"
          /\ \E k \in 1 .. toClient[n].val - 1 :
               toClient' = [SubSeq(toClient, 1, n) EXCEPT ![n].val = k]
  /\ UNCHANGED <<client, toServer>>

(* Nothing is left to do: the handshake is over on both sides.              *)
Finished ==
  /\ pc \in {"done", "failed"}
  /\ server.pc = "gone" \/ (server.pc = "normal" /\ toServer = <<>>)
  /\ UNCHANGED vars

-----------------------------------------------------------------------------
ClientStep ==
  \/ NegotiateVersion \/ NegotiateSecurity33 \/ NegotiateSecurity37
  \/ ReadFailureReason \/ CheckSecurityResult \/ ClientInit \/ ServerInit
  \/ ReadName \/ SetUpFramebuffer \/ SendInitialMessages \/ ConnectionLost

ServerStep == Hello \/ Offer \/ Judge \/ Initialize \/ ReadMessage \/ SeeClose

Next == ClientStep \/ ServerStep \/ Vanish \/ Finished

Spec == Init /\ [][Next]_vars

(* Both sides keep going; the server need not disappear.                    *)
FairSpec == Spec /\ WF_vars(ClientStep) /\ WF_vars(ServerStep)

-----------------------------------------------------------------------------
(* Properties.                                                              *)

Pcs == Waiting \cup {"client_init", "framebuffer", "initial_messages", "done",
                     "failed"}

(* Every variable keeps its type.                                           *)
TypeOK ==
  /\ pc \in Pcs
  /\ version \in {0, 3, 7, 8}
  /\ security \in {Invalid, NoAuth}
  /\ {conn_info.length, conn_info.stored, conn_info.unread} \subseteq Nat
  /\ ret \in Losses \cup {"OK", "NOMEM", "PROTOCOL", "VERSION_MISMATCH",
                          "CONNECTION_REFUSED", "AUTH_UNSUPPORTED",
                          "AUTH_FAILED"}
  /\ server.pc \in {"hello", "version", "choice", "auth", "shared", "normal",
                    "gone"}

(* Neither side ever takes one field for another: the next field in each    *)
(* direction is the one its reader is waiting for, in all three versions    *)
(* and on every error path.                                                 *)
InStep ==
  /\ pc \in Waiting /\ toClient # <<>> => Head(toClient).kind = pc
  /\ server.pc \in {"version", "choice", "shared"} /\ toServer # <<>>
       => Head(toServer).kind = server.pc
  /\ server.pc = "normal" /\ toServer # <<>>
       => Head(toServer).kind \in {"SetPixelFormat", "SetEncodings"}

(* When connect succeeds both sides speak the same version, no higher than  *)
(* the server's, and the security type is one the server offered.           *)
Agreement ==
  pc = "done" => /\ version = server.version
                 /\ version <= server.minor
                 /\ security \in server.offered

(* When connect succeeds nothing the server sent is left over, to be taken  *)
(* for the type of the first message: the name was read to its last byte.   *)
CleanHandover == pc = "done" => toClient = <<>>

(* The stored name is the server's, or as much of it as fits with its NUL,  *)
(* and name_truncated says which.                                           *)
NameKept ==
  pc = "done" => /\ conn_info.length = server.name
                 /\ conn_info.stored = Min2(server.name, NameMax - 1)
                 /\ conn_info.truncated = (conn_info.stored < server.name)

(* A failed connect is blamed on what really happened, whatever the server  *)
(* sends or leaves out after the bad news.                                  *)
Blame ==
  pc = "failed" =>
    \/ ret = "VERSION_MISMATCH" /\ server.major \notin {3, Garbled}
    \/ /\ ret = "PROTOCOL"
       /\ \/ server.major = Garbled
          \/ config.pixel_format = "odd"
          \/ config.pixel_format = "none" /\ server.format = "odd"
    \/ ret = "CONNECTION_REFUSED" /\ server.offered = {}
    \/ /\ ret = "AUTH_UNSUPPORTED"
       /\ server.offered # {} /\ NoAuth \notin server.offered
    \/ ret = "AUTH_FAILED" /\ server.version = 8 /\ server.verdict = "reject"
    \/ ret = "NOMEM" /\ NoMemory
    \/ /\ ret \in Losses
       /\ \/ server.left = "vanished"
          \/ server.version = 7 /\ server.verdict = "reject"

(* As long as neither side stops, the handshake ends, and a client that     *)
(* succeeded has a server that has read all it was sent.                    *)
HandshakeEnds ==
  <>(\/ pc = "failed"
     \/ pc = "done" /\ server.pc = "gone"
     \/ pc = "done" /\ server.pc = "normal" /\ toServer = <<>>)

(* rfb-version-differences.md: an unknown 3.x version is treated as 3.3.    *)
UnknownIsOldest ==
  version # 0 /\ server.minor \notin {3, 7, 8} => version = 3
=============================================================================
