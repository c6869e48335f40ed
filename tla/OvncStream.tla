------------------------------- MODULE OvncStream -------------------------------
(***************************************************************************)
(* Sending messages over a socket: the message senders of                  *)
(* src/src/client/ovnc_client.c and src/src/protocol/ovnc_messages.c, the  *)
(* transport they read from the client, and the loops that turn partial    *)
(* send() and recv() calls into transfers of all bytes                     *)
(* (src/src/platform/ovnc_socket_posix.c).  A message is a header and an   *)
(* optional body, each passed to ovnc__transport_send in one call; bytes   *)
(* only carry whose they are.  Several threads may send.                   *)
(***************************************************************************)
EXTENDS Integers, Sequences, FiniteSets

CONSTANTS
  Senders,      \* the threads that send messages
  Messages,     \* the shapes [header, body] of the messages they send
  MaxMessages,  \* bound: messages one sender begins
  SockBuf,      \* bytes the kernel holds between send and recv
  MaxAsk,       \* bound: bytes asked of one recv_all
  Disconnects   \* TRUE if another thread may disconnect the client

ASSUME MessagesAssumption ==
  Messages \subseteq [header : Nat \ {0}, body : Nat]
ASSUME StreamBounds == /\ MaxMessages \in Nat
                       /\ SockBuf \in Nat \ {0}
                       /\ MaxAsk \in Nat \ {0}

VARIABLES
  transport,  \* client->transport: open, or gone with the state DISCONNECTED
  thread,     \* each sender: its pc, the message and how much of it is sent,
              \* and how many of its calls have returned
  failed,     \* ghost: the messages whose call returned an error
  wire,       \* bytes accepted by send() and not yet received
  asked,      \* bytes the running recv_all was asked for, 0 if none runs
  got,        \* bytes it has
  arrived     \* bytes returned by completed recv_alls

reader == <<asked, got, arrived>>
vars == <<transport, thread, failed, wire, reader>>

Total(m) == m.header + m.body

Init ==
  /\ transport = "open"
  /\ thread \in [Senders -> {[pc |-> "idle", message |-> m, at |-> 0,
                              count |-> 0] : m \in Messages}]
  /\ failed = {}
  /\ wire = <<>> /\ got = <<>> /\ arrived = <<>> /\ asked = 0

-----------------------------------------------------------------------------
(* Sending.                                                                 *)

(* A public function of the client finds the state to be CONNECTED.         *)
Begin(s) ==
  /\ thread[s].pc = "idle"
  /\ thread[s].count < MaxMessages
  /\ transport = "open"
  /\ \E m \in Messages :
       thread' = [thread EXCEPT ![s] = [@ EXCEPT !.pc = "fetch", !.at = 0,
                                                 !.message = m]]
  /\ UNCHANGED <<transport, failed, wire, reader>>

(* ovnc__transport_send reads client->transport and its socket again for    *)
(* each part; reading a transport that is gone crashes.                     *)
Fetch(s) ==
  /\ thread[s].pc = "fetch"
  /\ thread' = [thread EXCEPT ![s].pc =
                  IF transport = "open" THEN "send" ELSE "crashed"]
  /\ UNCHANGED <<transport, failed, wire, reader>>

(* The end of the part being sent.                                          *)
PartEnd(s) == LET m == thread[s].message
              IN IF thread[s].at < m.header THEN m.header ELSE Total(m)

Byte(s, i) == [from |-> s, msg |-> thread[s].count + 1, at |-> i,
               last |-> i = Total(thread[s].message)]

(* The call returns to the application, with or without an error.           *)
Returned(s) == [thread[s] EXCEPT !.at = 0, !.pc = "idle", !.count = @ + 1]

(* Mutant: a partial send ends the loop.                                    *)
SentUpTo_Short(s, at) == Returned(s)

(* Mutant: each part returns to the caller as if it were the message.       *)
SentUpTo_PerPart(s, at) ==
  IF at < PartEnd(s) THEN [thread[s] EXCEPT !.at = at]
  ELSE [thread[s] EXCEPT !.at = at, !.count = @ + 1, !.pc =
          IF at < Total(thread[s].message) THEN "fetch" ELSE "idle"]

(* What the thread does once its message is sent up to at: continue the     *)
(* part, start the next one, or return.                                     *)
SentUpTo(s, at) ==
  IF at < PartEnd(s) THEN [thread[s] EXCEPT !.at = at]
  ELSE IF at < Total(thread[s].message)
       THEN [thread[s] EXCEPT !.at = at, !.pc = "fetch"]
       ELSE Returned(s)

(* Mutant: the pointer is not advanced.                                     *)
Sent_Again(s, n) == [i \in 1..n |-> Byte(s, i)]

Sent(s, n) == [i \in 1..n |-> Byte(s, thread[s].at + i)]

(* send() takes as many of the remaining bytes as it likes.                 *)
SendSome(s) ==
  /\ thread[s].pc = "send"
  /\ transport = "open"
  /\ \E n \in 1 .. PartEnd(s) - thread[s].at :
       /\ Len(wire) + n <= SockBuf
       /\ wire' = wire \o Sent(s, n)
       /\ thread' = [thread EXCEPT ![s] = SentUpTo(s, thread[s].at + n)]
  /\ UNCHANGED <<transport, failed, reader>>

(* Mutant: any error is retried, not just EINTR.                            *)
SendFails_Retry(s) ==
  /\ thread[s].pc = "send"
  /\ UNCHANGED vars

(* send() fails with something else than EINTR, or takes nothing: the       *)
(* socket was closed under the loop, or the connection was reset, memory    *)
(* is short...  The call returns the error with its message sent in part.   *)
(* The client stays CONNECTED and keeps its transport: the next call starts *)
(* where this one stopped.                                                  *)
SendFails(s) ==
  /\ thread[s].pc = "send"
  /\ thread' = [thread EXCEPT ![s] = Returned(s)]
  /\ failed' = failed \cup {[from |-> s, msg |-> thread[s].count + 1]}
  /\ UNCHANGED <<transport, wire, reader>>

(* ovnc_client_disconnect, or the teardown of run, in the I/O thread.       *)
Disconnect ==
  /\ Disconnects
  /\ transport = "open"
  /\ transport' = "gone"
  /\ UNCHANGED <<thread, failed, wire, reader>>

-----------------------------------------------------------------------------
(* Receiving.                                                               *)

Ask ==
  /\ asked = 0
  /\ asked' \in 1..MaxAsk
  /\ UNCHANGED <<transport, thread, failed, wire, got, arrived>>

(* recv() returns as many of the bytes that are there as it likes.          *)
RecvSome ==
  /\ asked > 0
  /\ \E n \in 1..Len(wire) :
       LET now == got \o SubSeq(wire, 1, n)
       IN /\ Len(now) <= asked
          /\ wire' = SubSeq(wire, n + 1, Len(wire))
          /\ \/ /\ Len(now) < asked
                /\ got' = now
                /\ UNCHANGED <<asked, arrived>>
             \/ /\ Len(now) = asked
                /\ arrived' = arrived \o now
                /\ got' = <<>>
                /\ asked' = 0
  /\ UNCHANGED <<transport, thread, failed>>

(* The end of the stream: what was received of the request is dropped.      *)
RecvClosed ==
  /\ asked > 0
  /\ wire = <<>>
  /\ transport = "gone"
  /\ asked' = 0
  /\ got' = <<>>
  /\ UNCHANGED <<transport, thread, failed, wire, arrived>>

(* Every call has returned, and what it sent is received as far as the      *)
(* reader asks for it.                                                      *)
Finished ==
  /\ \A s \in Senders : \/ thread[s].pc = "crashed"
                        \/ thread[s].pc = "idle" /\ thread[s].count = MaxMessages
  /\ wire = <<>>
  /\ UNCHANGED vars

-----------------------------------------------------------------------------
Sending(s) == Fetch(s) \/ SendSome(s) \/ SendFails(s)

Receiving == Ask \/ RecvSome \/ RecvClosed

Next ==
  \/ \E s \in Senders : Begin(s) \/ Sending(s)
  \/ Disconnect \/ Receiving \/ Finished

Spec == Init /\ [][Next]_vars

(* Progress of a call that the kernel owes it: it takes bytes while it has  *)
(* room, and refuses them for good only on a socket that is closed.  No     *)
(* other error has to happen, and nobody has to begin a message.            *)
Advance(s) == \/ Fetch(s)
              \/ SendSome(s)
              \/ transport = "gone" /\ SendFails(s)

FairSpec == /\ Spec
            /\ \A s \in Senders : WF_vars(Advance(s))
            /\ WF_vars(Receiving)

-----------------------------------------------------------------------------
(* Properties.                                                              *)

(* Every variable keeps its type, and the kernel's buffer its bound.        *)
TypeOK ==
  /\ transport \in {"open", "gone"}
  /\ \A s \in Senders :
       /\ thread[s].pc \in {"idle", "fetch", "send", "crashed"}
       /\ thread[s].message \in Messages
       /\ thread[s].at \in 0 .. Total(thread[s].message)
       /\ thread[s].count \in 0..MaxMessages
  /\ failed \subseteq [from : Senders, msg : 1..MaxMessages]
  /\ Len(wire) <= SockBuf
  /\ asked \in 0..MaxAsk
  /\ asked = 0 => got = <<>>
  /\ Len(got) <= asked

Stream == arrived \o got \o wire

Named(b) == [from |-> b.from, msg |-> b.msg]

(* Next to a byte on the stream is the next byte of its message, or, if it  *)
(* was the last or its call has returned an error, the first of another.    *)
Follows(a, b) ==
  IF a.last THEN b.at = 1
  ELSE \/ b.from = a.from /\ b.msg = a.msg /\ b.at = a.at + 1
       \/ Named(a) \in failed /\ b.at = 1

(* The bytes on the stream are whole messages one after the other, the last *)
(* one perhaps not complete: no message starts inside another, and none     *)
(* misses, repeats or reorders a byte.  Only a message whose call returned  *)
(* an error is cut short by the next one: a caller who goes on sending      *)
(* after an error does so on a broken stream, and nobody else does.         *)
Framing ==
  /\ Stream # <<>> => Stream[1].at = 1
  /\ \A i \in 1 .. Len(Stream) - 1 : Follows(Stream[i], Stream[i + 1])

(* The messages whose last byte is among the given ones, in their order.    *)
Ends(bytes) == {i \in 1..Len(bytes) : bytes[i].last}

Rank(S, i) == Cardinality({j \in S : j <= i})

Nth(S, k) == CHOOSE i \in S : Rank(S, i) = k

Whole(bytes) == [k \in 1..Cardinality(Ends(bytes)) |->
                   Named(bytes[Nth(Ends(bytes), k)])]

(* Partial sends and partial receives implement a queue of messages: each   *)
(* call that returns OK has queued its message, each that returns an error  *)
(* has not, and only those still under way are lost when the client         *)
(* disconnects.  A message is where its last byte is: that the bytes before *)
(* it are its own is Framing's matter.                                      *)
Queue == INSTANCE MessageQueue WITH
           open <- transport,
           calls <- [s \in Senders |-> thread[s].count],
           queue <- Whole(got \o wire),
           delivered <- Whole(arrived)
QueueSpec == Queue!Spec

(* A call that sends returns (or crashes, see below): it does not block for *)
(* ever on a reader that keeps reading, nor on a socket that was closed.    *)
SendsEnd ==
  \A s \in Senders :
    thread[s].pc \in {"fetch", "send"} ~> thread[s].pc \in {"idle", "crashed"}

(* No thread sends on a transport that another has destroyed.               *)
SendsOnTransport == \A s \in Senders : thread[s].pc # "crashed"

(* Sending is thread-safe (api-design.md:12) in at least one of two senses: *)
(* messages of several threads are kept apart, or the transport outlives    *)
(* its senders.  An execution that breaks this breaks both.                 *)
SendsThreadSafe == Framing \/ SendsOnTransport
=============================================================================
