----------------------------- MODULE OvncStreamProofs -----------------------------
(***************************************************************************)
(* What sending threads may rely on, for messages of any shape, any        *)
(* pattern of partial sends and receives, errors of send() and a           *)
(* disconnect at any moment: one thread, that its messages arrive whole or *)
(* their calls return an error; any number, that sending implements        *)
(* MessageQueue.                                                           *)
(***************************************************************************)
EXTENDS OvncStream, SequenceTheorems, FiniteSetTheorems, TLAPS

Bytes == [from : Senders, msg : Nat, at : Nat, last : BOOLEAN]

Threads == [pc : {"idle", "fetch", "send", "crashed"}, message : Messages,
            at : Nat, count : Nat]

(* A thread that sends has one more message to count, and a part to send.   *)
ThreadOK(s) ==
  LET t == thread[s]
  IN /\ t.at <= Total(t.message)
     /\ t.count <= MaxMessages
     /\ t.pc \in {"fetch", "send"}
          => t.count < MaxMessages /\ t.at < Total(t.message)

Typed ==
  /\ transport \in {"open", "gone"}
  /\ thread \in [Senders -> Threads]
  /\ \A s \in Senders : ThreadOK(s)
  /\ failed \subseteq [from : Senders, msg : 1..MaxMessages]
  /\ wire \in Seq(Bytes) /\ Len(wire) <= SockBuf
  /\ got \in Seq(Bytes) /\ Len(got) <= asked
  /\ arrived \in Seq(Bytes)
  /\ asked \in 0..MaxAsk

LEMMA TotalType ==
  ASSUME NEW m \in Messages
  PROVE  /\ m.header \in Nat /\ m.body \in Nat /\ m.header > 0
         /\ Total(m) = m.header + m.body /\ Total(m) \in Nat
BY MessagesAssumption DEF Total

(* The part being sent is not empty and ends within the message.            *)
LEMMA PartOfMessage ==
  ASSUME Typed, NEW s \in Senders, thread[s].pc = "send"
  PROVE  /\ PartEnd(s) \in Nat /\ thread[s].at \in Nat
         /\ thread[s].at < PartEnd(s)
         /\ PartEnd(s) <= Total(thread[s].message)
         /\ Total(thread[s].message) \in Nat
         /\ thread[s].count \in Nat /\ thread[s].count < MaxMessages
<1>1. /\ thread[s] \in Threads /\ thread[s].message \in Messages
      /\ thread[s].at < Total(thread[s].message)
      /\ thread[s].count < MaxMessages
  BY DEF Typed, Threads, ThreadOK
<1> QED
  BY <1>1, TotalType DEF PartEnd, Threads

LEMMA SentType ==
  ASSUME Typed, NEW s \in Senders, NEW n \in Nat
  PROVE  /\ Sent(s, n) \in Seq(Bytes) /\ Len(Sent(s, n)) = n
         /\ \A i \in 1..n : Sent(s, n)[i] = Byte(s, thread[s].at + i)
<1>1. thread[s].at \in Nat /\ thread[s].count + 1 \in Nat
  BY DEF Typed, Threads
<1>2. \A i \in 1..n : Byte(s, thread[s].at + i) \in Bytes
  BY <1>1 DEF Byte, Bytes
<1> QED
  BY <1>2 DEF Sent

LEMMA TypedInit == Init => Typed
<1> SUFFICES ASSUME Init PROVE Typed
  OBVIOUS
<1>1. \A m \in Messages : Total(m) \in Nat
  BY TotalType
<1>2. thread \in [Senders -> Threads] /\ \A s \in Senders : ThreadOK(s)
  BY <1>1, StreamBounds DEF Init, Threads, ThreadOK
<1> QED
  BY <1>2, StreamBounds DEF Init, Typed

LEMMA Divided ==
  ASSUME NEW T, NEW q \in Seq(T), NEW n \in 1..Len(q)
  PROVE  /\ SubSeq(q, 1, n) \in Seq(T) /\ Len(SubSeq(q, 1, n)) = n
         /\ SubSeq(q, n + 1, Len(q)) \in Seq(T)
         /\ Len(SubSeq(q, n + 1, Len(q))) = Len(q) - n
         /\ SubSeq(q, 1, n) \o SubSeq(q, n + 1, Len(q)) = q
<1>1. /\ \A i \in 1..n : q[i] \in T
      /\ \A i \in n + 1 .. Len(q) : q[i] \in T
  OBVIOUS
<1>2. /\ SubSeq(q, 1, n) \in Seq(T) /\ Len(SubSeq(q, 1, n)) = n
      /\ SubSeq(q, n + 1, Len(q)) \in Seq(T)
      /\ Len(SubSeq(q, n + 1, Len(q))) = Len(q) - n
      /\ \A i \in 1 .. n : SubSeq(q, 1, n)[i] = q[i]
      /\ \A i \in 1 .. Len(q) - n : SubSeq(q, n + 1, Len(q))[i] = q[n + i]
  BY <1>1, SubSeqProperties
<1> DEFINE a == SubSeq(q, 1, n)
           b == SubSeq(q, n + 1, Len(q))
<1>3. /\ a \o b \in Seq(T) /\ Len(a \o b) = Len(q)
      /\ \A i \in 1 .. Len(q) : (a \o b)[i] = IF i <= n THEN a[i] ELSE b[i - n]
  <2> HIDE DEF a, b
  <2>1. a \in Seq(T) /\ b \in Seq(T) /\ Len(a) = n /\ Len(b) = Len(q) - n
    BY <1>2 DEF a, b
  <2> QED
    BY <2>1, ConcatProperties
<1>4. \A i \in 1 .. Len(q) : (a \o b)[i] = q[i]
  <2> HIDE DEF a, b
  <2>1. /\ \A i \in 1 .. n : a[i] = q[i]
        /\ \A i \in 1 .. Len(q) - n : b[i] = q[n + i]
    BY <1>2 DEF a, b
  <2> QED
    BY <2>1, <1>3
<1>5. a \o b = q
  BY <1>3, <1>4, SeqEqual
<1> QED
  BY <1>2, <1>5

LEMMA TypedStep == Typed /\ [Next]_vars => Typed'
<1> SUFFICES ASSUME Typed, [Next]_vars PROVE Typed'
  OBVIOUS
<1> USE DEF Typed
<1>1. ASSUME NEW s \in Senders, Begin(s) PROVE Typed'
  <2>1. PICK m \in Messages :
          thread' = [thread EXCEPT ![s] = [@ EXCEPT !.pc = "fetch", !.at = 0,
                                                    !.message = m]]
    BY <1>1 DEF Begin
  <2>2. Total(m) \in Nat /\ Total(m) > 0
    BY TotalType
  <2>3. thread' \in [Senders -> Threads]
    BY <2>1 DEF Threads
  <2>4. ASSUME NEW t \in Senders PROVE ThreadOK(t)'
    <3>1. thread[s] \in Threads /\ thread[s].count < MaxMessages
      BY <1>1 DEF Begin
    <3>2. CASE t = s
      <4>1. thread'[t] = [thread[s] EXCEPT !.pc = "fetch", !.at = 0,
                                           !.message = m]
        BY <2>1, <3>2
      <4> QED
        BY <3>1, <4>1, <2>2, StreamBounds DEF ThreadOK, Threads
    <3>3. CASE t # s
      BY <2>1, <3>3 DEF ThreadOK
    <3> QED
      BY <3>2, <3>3
  <2> QED
    BY <1>1, <2>3, <2>4 DEF Begin, reader
<1>2. ASSUME NEW s \in Senders, Fetch(s) PROVE Typed'
  <2>1. thread' \in [Senders -> Threads]
    BY <1>2, ZenonT(40) DEF Threads, Fetch
  <2>2. ASSUME NEW t \in Senders PROVE ThreadOK(t)'
    BY <1>2, ZenonT(40) DEF Fetch, ThreadOK, Threads
  <2> QED
    BY <1>2, <2>1, <2>2 DEF Fetch, reader
<1>9. ASSUME NEW s \in Senders, SendFails(s) PROVE Typed'
  <2>1. /\ thread[s] \in Threads /\ thread[s].count + 1 \in 1..MaxMessages
        /\ thread[s].count + 1 \in Nat /\ Total(thread[s].message) \in Nat
    BY <1>9, PartOfMessage, StreamBounds DEF SendFails
  <2>2. thread' = [thread EXCEPT ![s] = Returned(s)]
    BY <1>9 DEF SendFails
  <2>3. Returned(s) \in Threads
    BY <2>1 DEF Returned, Threads
  <2>4. ASSUME NEW t \in Senders PROVE ThreadOK(t)'
    <3>1. thread'[t] = IF t = s THEN Returned(s) ELSE thread[t]
      BY <2>2
    <3>2. CASE t = s
      BY <2>1, <3>1, <3>2, StreamBounds DEF ThreadOK, Threads, Returned
    <3> QED
      BY <3>1, <3>2 DEF ThreadOK
  <2>5. failed' \subseteq [from : Senders, msg : 1..MaxMessages]
    BY <1>9, <2>1 DEF SendFails
  <2> QED
    BY <1>9, <2>2, <2>3, <2>4, <2>5 DEF SendFails, reader
<1>3. ASSUME NEW s \in Senders, SendSome(s) PROVE Typed'
  <2>1. PICK n \in 1 .. PartEnd(s) - thread[s].at :
          /\ Len(wire) + n <= SockBuf
          /\ wire' = wire \o Sent(s, n)
          /\ thread' = [thread EXCEPT ![s] = SentUpTo(s, thread[s].at + n)]
    BY <1>3 DEF SendSome
  <2>2. /\ PartEnd(s) \in Nat /\ thread[s].at \in Nat
        /\ thread[s].at < PartEnd(s)
        /\ PartEnd(s) <= Total(thread[s].message)
        /\ Total(thread[s].message) \in Nat
        /\ thread[s].count \in Nat /\ thread[s].count < MaxMessages
    BY <1>3, PartOfMessage DEF SendSome
  <2>3. wire' \in Seq(Bytes) /\ Len(wire') <= SockBuf
    <3>1. n \in Nat
      BY <2>2
    <3>2. Sent(s, n) \in Seq(Bytes) /\ Len(Sent(s, n)) = n
      BY <3>1, SentType
    <3> QED
      BY <2>1, <3>2, ConcatProperties
  <2>4. SentUpTo(s, thread[s].at + n) \in Threads
    <3>1. thread[s] \in Threads
      OBVIOUS
    <3> DEFINE at == thread[s].at + n
    <3>2. at \in Nat /\ thread[s].count + 1 \in Nat
      BY <2>2, SMTT(30)
    <3> HIDE DEF at
    <3>3. SentUpTo(s, at) \in Threads
      BY <3>1, <3>2 DEF SentUpTo, Returned, Threads
    <3> QED
      BY <3>3 DEF at
  <2>5. ASSUME NEW t \in Senders PROVE ThreadOK(t)'
    <3>1. thread'[t] = IF t = s THEN SentUpTo(s, thread[s].at + n) ELSE thread[t]
      BY <2>1
    <3>2. CASE t = s
      BY <3>1, <3>2, <2>2, StreamBounds DEF SentUpTo, Returned, ThreadOK, Threads
    <3> QED
      BY <3>1, <3>2 DEF ThreadOK
  <2> QED
    BY <1>3, <2>1, <2>3, <2>4, <2>5 DEF SendSome, reader
<1>4. CASE Disconnect
  BY <1>4 DEF Disconnect, reader, ThreadOK
<1>5. CASE Ask
  BY <1>5, StreamBounds DEF Ask, ThreadOK
<1>6. CASE RecvSome
  <2>1. PICK n \in 1..Len(wire) :
          /\ Len(got \o SubSeq(wire, 1, n)) <= asked
          /\ wire' = SubSeq(wire, n + 1, Len(wire))
          /\ \/ /\ got' = got \o SubSeq(wire, 1, n)
                /\ UNCHANGED <<asked, arrived>>
             \/ /\ arrived' = arrived \o (got \o SubSeq(wire, 1, n))
                /\ got' = <<>>
                /\ asked' = 0
    BY <1>6 DEF RecvSome
  <2>2. got \o SubSeq(wire, 1, n) \in Seq(Bytes)
    BY Divided, ConcatProperties
  <2>3. arrived \o (got \o SubSeq(wire, 1, n)) \in Seq(Bytes)
    BY <2>2, ConcatProperties
  <2>4. wire' \in Seq(Bytes) /\ Len(wire') <= SockBuf
    BY <2>1, Divided, StreamBounds
  <2>5. <<>> \in Seq(Bytes) /\ Len(<<>>) = 0
    BY EmptySeq
  <2>6. UNCHANGED <<transport, thread, failed>>
    BY <1>6 DEF RecvSome
  <2>7. got' \in Seq(Bytes) /\ arrived' \in Seq(Bytes) /\ asked' \in 0..MaxAsk
        /\ Len(got') <= asked'
    <3> DEFINE now == got \o SubSeq(wire, 1, n)
    <3>1. now \in Seq(Bytes) /\ Len(now) <= asked
          /\ arrived \o now \in Seq(Bytes)
      BY <2>1, <2>2, <2>3
    <3>2. \/ got' = now /\ asked' = asked /\ arrived' = arrived
          \/ arrived' = arrived \o now /\ got' = <<>> /\ asked' = 0
      BY <2>1
    <3>3. 0 \in 0..MaxAsk /\ asked \in 0..MaxAsk /\ arrived \in Seq(Bytes)
      BY StreamBounds
    <3> HIDE DEF now, Typed
    <3>4. CASE got' = now /\ asked' = asked /\ arrived' = arrived
      BY <3>1, <3>3, <3>4
    <3>5. CASE arrived' = arrived \o now /\ got' = <<>> /\ asked' = 0
      BY <3>1, <3>3, <3>5, <2>5
    <3> QED
      BY <3>2, <3>4, <3>5
  <2> QED
    BY <2>4, <2>6, <2>7 DEF ThreadOK
<1>7. CASE RecvClosed
  BY <1>7, EmptySeq, StreamBounds DEF RecvClosed, ThreadOK
<1>8. CASE UNCHANGED vars
  BY <1>8 DEF vars, reader, ThreadOK
<1> QED
  BY <1>1, <1>2, <1>3, <1>4, <1>5, <1>6, <1>7, <1>8, <1>9
     DEF Next, Sending, Receiving, Finished

(* Every variable keeps its type, and the kernel's buffer its bound, for    *)
(* any number of senders.                                                   *)
THEOREM StreamTypes == Spec => []TypeOK
<1>1. Typed => TypeOK
  <2> SUFFICES ASSUME Typed PROVE TypeOK
    OBVIOUS
  <2>1. ASSUME NEW s \in Senders
        PROVE  /\ thread[s].pc \in {"idle", "fetch", "send", "crashed"}
               /\ thread[s].message \in Messages
               /\ thread[s].at \in 0 .. Total(thread[s].message)
               /\ thread[s].count \in 0..MaxMessages
    <3>1. thread[s] \in Threads /\ ThreadOK(s)
      BY DEF Typed
    <3> QED
      BY <3>1, TotalType, StreamBounds DEF Threads, ThreadOK
  <2>2. asked = 0 => got = <<>>
    BY EmptySeq DEF Typed
  <2> QED
    BY <2>1, <2>2 DEF Typed, TypeOK
<1> QED
  BY <1>1, TypedInit, TypedStep, PTL DEF Spec

-----------------------------------------------------------------------------
(* Framing with one sender.                                                 *)

Linked(q) == \A i \in 1 .. Len(q) - 1 : Follows(q[i], q[i + 1])

Framed(q) == (q # <<>> => q[1].at = 1) /\ Linked(q)

(* A first byte starts a message, another continues the one before it.      *)
Continues(q, r) ==
  r # <<>> => IF q = <<>> THEN r[1].at = 1 ELSE Follows(q[Len(q)], r[1])

LEMMA FramedConcat ==
  ASSUME NEW q \in Seq(Bytes), NEW r \in Seq(Bytes),
         Framed(q), Linked(r), Continues(q, r)
  PROVE  Framed(q \o r)
<1> DEFINE z == q \o r
<1>1. /\ Len(q) \in Nat /\ Len(r) \in Nat
      /\ z \in Seq(Bytes) /\ Len(z) = Len(q) + Len(r)
      /\ \A i \in 1 .. Len(z) : z[i] = IF i <= Len(q) THEN q[i] ELSE r[i - Len(q)]
  BY ConcatProperties
<1>2. /\ q = <<>> <=> Len(q) = 0
      /\ r = <<>> <=> Len(r) = 0
      /\ z = <<>> <=> Len(z) = 0
  BY <1>1
<1> HIDE DEF z
<1>3. z # <<>> => z[1].at = 1
  BY <1>1, <1>2 DEF Framed, Continues
<1>4. ASSUME NEW i \in 1 .. Len(z) - 1
      PROVE  Follows(z[i], z[i + 1])
  <2>1. CASE i < Len(q)
    <3>1. z[i] = q[i] /\ z[i + 1] = q[i + 1] /\ i \in 1 .. Len(q) - 1
      <4>1. /\ i \in 1 .. Len(z) /\ i + 1 \in 1 .. Len(z)
            /\ i <= Len(q) /\ i + 1 <= Len(q) /\ i \in 1 .. Len(q) - 1
        BY <1>1, <2>1
      <4> QED
        BY <1>1, <4>1
    <3> QED
      BY <3>1 DEF Framed, Linked
  <2>2. CASE i = Len(q)
    <3>1. z[i] = q[Len(q)] /\ z[i + 1] = r[1] /\ q # <<>> /\ r # <<>>
      <4>1. /\ Len(q) # 0 /\ Len(r) # 0 /\ i \in 1 .. Len(z)
            /\ i + 1 \in 1 .. Len(z) /\ (i + 1) - Len(q) = 1
            /\ ~(i + 1 <= Len(q)) /\ i <= Len(q)
        BY <1>1, <2>2
      <4>2. z[i] = q[i] /\ z[i + 1] = r[(i + 1) - Len(q)]
        BY <1>1, <4>1
      <4> QED
        BY <4>1, <4>2, <1>2, <2>2
    <3> QED
      BY <3>1, <2>2 DEF Continues
  <2>3. CASE i > Len(q)
    <3>1. /\ z[i] = r[i - Len(q)] /\ z[i + 1] = r[i - Len(q) + 1]
          /\ i - Len(q) \in 1 .. Len(r) - 1
      <4>1. /\ i \in 1 .. Len(z) /\ i + 1 \in 1 .. Len(z)
            /\ ~(i <= Len(q)) /\ ~(i + 1 <= Len(q))
            /\ (i + 1) - Len(q) = i - Len(q) + 1
            /\ i - Len(q) \in 1 .. Len(r) - 1
        BY <1>1, <2>3
      <4>2. z[i] = r[i - Len(q)] /\ z[i + 1] = r[(i + 1) - Len(q)]
        BY <1>1, <4>1
      <4> QED
        BY <4>1, <4>2
    <3> QED
      BY <3>1 DEF Linked
  <2> QED
    BY <1>1, <2>1, <2>2, <2>3
<1> QED
  BY <1>3, <1>4 DEF Framed, Linked, z

LEMMA FramedPrefix ==
  ASSUME NEW q \in Seq(Bytes), NEW r \in Seq(Bytes), Framed(q \o r)
  PROVE  Framed(q)
<1> DEFINE z == q \o r
<1>1. /\ Len(q) \in Nat /\ Len(r) \in Nat
      /\ z \in Seq(Bytes) /\ Len(z) = Len(q) + Len(r)
      /\ \A i \in 1 .. Len(q) : z[i] = q[i]
  BY ConcatProperties
<1>2. Framed(z) /\ (z = <<>> <=> Len(z) = 0) /\ (q = <<>> <=> Len(q) = 0)
  BY <1>1
<1> HIDE DEF z
<1>3. q # <<>> => q[1].at = 1
  BY <1>1, <1>2 DEF Framed
<1>4. ASSUME NEW i \in 1 .. Len(q) - 1
      PROVE  Follows(q[i], q[i + 1])
  <2>1. /\ i \in 1 .. Len(q) /\ i + 1 \in 1 .. Len(q)
        /\ i \in 1 .. Len(z) - 1
    <3>1. Len(q) \in Nat /\ Len(r) \in Nat /\ Len(z) = Len(q) + Len(r)
      BY <1>1
    <3> QED
      BY <3>1
  <2>2. z[i] = q[i] /\ z[i + 1] = q[i + 1]
    BY <1>1, <2>1
  <2> QED
    BY <1>2, <2>1, <2>2 DEF Framed, Linked
<1> QED
  BY <1>3, <1>4 DEF Framed, Linked

(* Where the stream ends, its sender goes on: between two messages, after   *)
(* one that failed, or after the byte it sent last.                         *)
EndsAt(q, s) ==
  IF thread[s].at = 0
  THEN q # <<>> => q[Len(q)].last \/ Named(q[Len(q)]) \in failed
  ELSE /\ q # <<>> /\ ~q[Len(q)].last
       /\ q[Len(q)].from = s /\ q[Len(q)].msg = thread[s].count + 1
       /\ q[Len(q)].at = thread[s].at

InFrame ==
  /\ Framed(Stream)
  /\ transport = "open" => \A s \in Senders : EndsAt(Stream, s)

(* A thread between two messages has none of its next one on the stream, as *)
(* long as the connection is there.                                         *)
Rested ==
  transport = "open" =>
    \A s \in Senders : /\ thread[s].pc = "idle" => thread[s].at = 0
                       /\ thread[s].pc # "crashed"

LEMMA StreamType == Typed => Stream \in Seq(Bytes)
<1> SUFFICES ASSUME Typed PROVE Stream \in Seq(Bytes)
  OBVIOUS
<1>1. arrived \o got \in Seq(Bytes)
  BY ConcatProperties DEF Typed
<1> QED
  BY <1>1, ConcatProperties DEF Typed, Stream

LEMMA RestedStep == Typed /\ Rested /\ [Next]_vars => Rested'
<1> SUFFICES ASSUME Typed, Rested, [Next]_vars PROVE Rested'
  OBVIOUS
<1> USE DEF Rested
<1>1. ASSUME NEW s \in Senders, Begin(s) PROVE Rested'
  BY <1>1 DEF Begin, Typed
<1>2. ASSUME NEW s \in Senders, Fetch(s) PROVE Rested'
  BY <1>2 DEF Fetch, Typed
<1>3. ASSUME NEW s \in Senders, SendFails(s) PROVE Rested'
  <2>1. thread[s] \in Threads
    BY DEF Typed
  <2>2. Returned(s).at = 0 /\ Returned(s).pc = "idle"
    BY <2>1 DEF Threads, Returned
  <2> QED
    BY <1>3, <2>2 DEF SendFails, Typed
<1>4. ASSUME NEW s \in Senders, SendSome(s) PROVE Rested'
  <2>1. PICK n : thread' = [thread EXCEPT ![s] =
                                      SentUpTo(s, thread[s].at + n)]
    BY <1>4 DEF SendSome
  <2>2. LET t == SentUpTo(s, thread[s].at + n)
        IN (t.pc = "idle" => t.at = 0) /\ t.pc # "crashed"
    <3>1. thread[s] \in Threads /\ thread[s].pc = "send"
      BY <1>4 DEF SendSome, Typed
    <3> QED
      BY <3>1 DEF SentUpTo, Returned, Threads
  <2> QED
    BY <1>4, <2>1, <2>2 DEF SendSome, Typed
<1>5. CASE Disconnect
  BY <1>5 DEF Disconnect
<1>6. CASE Receiving
  BY <1>6 DEF Receiving, Ask, RecvSome, RecvClosed
<1>7. CASE UNCHANGED vars
  BY <1>7 DEF vars
<1> QED
  BY <1>1, <1>2, <1>3, <1>4, <1>5, <1>6, <1>7 DEF Next, Sending, Finished

LEMMA ByteParts ==
  ASSUME NEW s \in Senders, NEW i \in Nat
  PROVE  /\ Byte(s, i).from = s /\ Byte(s, i).msg = thread[s].count + 1
         /\ Byte(s, i).at = i
         /\ Byte(s, i).last <=> i = Total(thread[s].message)
BY DEF Byte

(* The bytes of one send() are consecutive bytes of one message.            *)
LEMMA SentLinked ==
  ASSUME Typed, NEW s \in Senders, thread[s].pc = "send",
         NEW n \in 1 .. PartEnd(s) - thread[s].at
  PROVE  /\ Sent(s, n) \in Seq(Bytes) /\ Len(Sent(s, n)) = n
         /\ Linked(Sent(s, n))
         /\ \A i \in 1..n : Sent(s, n)[i] = Byte(s, thread[s].at + i)
<1>1. /\ PartEnd(s) \in Nat /\ thread[s].at \in Nat
      /\ PartEnd(s) <= Total(thread[s].message)
      /\ Total(thread[s].message) \in Nat
  BY PartOfMessage
<1>2. n \in Nat
  BY <1>1
<1>3. /\ Sent(s, n) \in Seq(Bytes) /\ Len(Sent(s, n)) = n
      /\ \A i \in 1..n : Sent(s, n)[i] = Byte(s, thread[s].at + i)
  BY <1>2, SentType
<1>4. ASSUME NEW i \in 1 .. n - 1
      PROVE  Follows(Sent(s, n)[i], Sent(s, n)[i + 1])
  <2>1. /\ Sent(s, n)[i] = Byte(s, thread[s].at + i)
        /\ Sent(s, n)[i + 1] = Byte(s, thread[s].at + (i + 1))
    BY <1>2, <1>3
  <2>2. thread[s].at + i # Total(thread[s].message)
        /\ thread[s].at + (i + 1) = (thread[s].at + i) + 1
    BY <1>1, <1>2
  <2>3. thread[s].at + i \in Nat /\ thread[s].at + (i + 1) \in Nat
    BY <1>1, <1>2
  <2>4. ~Sent(s, n)[i].last
    BY <2>1, <2>2, <2>3, ByteParts
  <2>5. /\ Sent(s, n)[i + 1].from = Sent(s, n)[i].from
        /\ Sent(s, n)[i + 1].msg = Sent(s, n)[i].msg
        /\ Sent(s, n)[i + 1].at = Sent(s, n)[i].at + 1
    BY <2>1, <2>2, <2>3, ByteParts
  <2> QED
    BY <2>4, <2>5 DEF Follows
<1> QED
  BY <1>3, <1>4 DEF Linked


(* What recv() moves from the kernel to the caller stays on the stream.     *)
LEMMA Moved ==
  ASSUME Typed, RecvSome
  PROVE  Stream' = Stream
<1>1. PICK n \in 1..Len(wire) :
        /\ wire' = SubSeq(wire, n + 1, Len(wire))
        /\ \/ /\ got' = got \o SubSeq(wire, 1, n)
              /\ UNCHANGED <<asked, arrived>>
           \/ /\ arrived' = arrived \o (got \o SubSeq(wire, 1, n))
              /\ got' = <<>>
  BY DEF RecvSome
<1> DEFINE a == SubSeq(wire, 1, n)
           r == SubSeq(wire, n + 1, Len(wire))
           now == got \o a
<1>2. /\ a \in Seq(Bytes) /\ r \in Seq(Bytes) /\ a \o r = wire
      /\ got \in Seq(Bytes) /\ arrived \in Seq(Bytes)
  BY Divided DEF Typed
<1>3. wire' = r /\ \/ got' = now /\ arrived' = arrived
                   \/ arrived' = arrived \o now /\ got' = <<>>
  BY <1>1
<1> HIDE DEF a, r
<1>4. now \in Seq(Bytes) /\ arrived \o now \in Seq(Bytes)
      /\ arrived \o got \in Seq(Bytes)
  BY <1>2, ConcatProperties
<1>5. (arrived \o got) \o (a \o r) = ((arrived \o got) \o a) \o r
  <2> DEFINE p == arrived \o got
  <2>1. p \in Seq(Bytes)
    BY <1>4
  <2> HIDE DEF p, now
  <2>2. p \o (a \o r) = (p \o a) \o r
    <3>1. a \in Seq(Bytes) /\ r \in Seq(Bytes)
      BY <1>2
    <3> QED
      BY <2>1, <3>1, ConcatAssociative
  <2> QED
    BY <2>2 DEF p
<1>6. (arrived \o got) \o a = arrived \o now
  BY <1>2, ConcatAssociative, SMTT(30)
<1>7. (arrived \o now) \o <<>> = arrived \o now
  BY <1>4, ConcatEmptySeq
<1>8. Stream = (arrived \o now) \o r
  BY <1>2, <1>5, <1>6 DEF Stream
<1>9. Stream' = (arrived' \o got') \o r
  BY <1>3 DEF Stream
<1> HIDE DEF now
<1> QED
  BY <1>3, <1>7, <1>8, <1>9

LEMMA FrameStep ==
  ASSUME \A s, t \in Senders : s = t,
         Typed, Rested, InFrame, [Next]_vars
  PROVE  InFrame'
<1>0. Stream \in Seq(Bytes)
  BY StreamType
<1>1. ASSUME NEW s \in Senders, Begin(s) PROVE InFrame'
  <2>1. /\ thread[s].at = 0 /\ thread'[s].at = 0 /\ transport' = transport
        /\ transport = "open" /\ Stream' = Stream
    BY <1>1 DEF Begin, Rested, Stream, reader, Typed, Threads
  <2>2. EndsAt(Stream, s)
    BY <2>1 DEF InFrame
  <2>3. /\ failed' = failed
        /\ Stream # <<>> => \/ Stream[Len(Stream)].last
                            \/ Named(Stream[Len(Stream)]) \in failed
    BY <1>1, <2>1, <2>2 DEF EndsAt, Begin
  <2>4. EndsAt(Stream, s)'
    BY <2>1, <2>3 DEF EndsAt, Named
  <2> QED
    BY <2>1, <2>3, <2>4 DEF InFrame, Framed, Linked, Follows, Named
<1>2. ASSUME NEW s \in Senders, Fetch(s) PROVE InFrame'
  <2>1. /\ thread'[s].at = thread[s].at /\ thread'[s].count = thread[s].count
        /\ transport' = transport /\ Stream' = Stream /\ failed' = failed
    BY <1>2 DEF Fetch, Stream, reader, Typed, Threads
  <2> QED
    BY <2>1 DEF InFrame, Framed, Linked, EndsAt, Follows, Named
<1>3. ASSUME NEW s \in Senders, SendFails(s) PROVE InFrame'
  <2>1. /\ thread[s] \in Threads /\ thread'[s].at = 0
        /\ transport' = transport /\ Stream' = Stream
        /\ failed' = failed \cup {[from |-> s, msg |-> thread[s].count + 1]}
    BY <1>3 DEF SendFails, Stream, reader, Typed, Threads, Returned
  <2>2. Framed(Stream)'
    <3>1. \A a, b : Follows(a, b) => Follows(a, b)'
      BY <2>1 DEF Follows, Named
    <3> QED
      BY <2>1, <3>1 DEF InFrame, Framed, Linked
  <2>3. ASSUME transport = "open" PROVE EndsAt(Stream, s)'
    <3>1. EndsAt(Stream, s)
      BY <2>3 DEF InFrame
    <3>2. Stream # <<>> => \/ Stream[Len(Stream)].last
                           \/ Named(Stream[Len(Stream)]) \in failed'
      <4>1. CASE thread[s].at = 0
        BY <2>1, <3>1, <4>1 DEF EndsAt
      <4>2. CASE thread[s].at # 0
        BY <2>1, <3>1, <4>2 DEF EndsAt, Named
      <4> QED
        BY <4>1, <4>2
    <3> QED
      BY <2>1, <3>2 DEF EndsAt, Named
  <2> QED
    BY <2>1, <2>2, <2>3 DEF InFrame
<1>4. ASSUME NEW s \in Senders, SendSome(s) PROVE InFrame'
  <2>1. PICK n \in 1 .. PartEnd(s) - thread[s].at :
          /\ wire' = wire \o Sent(s, n)
          /\ thread' = [thread EXCEPT ![s] = SentUpTo(s, thread[s].at + n)]
    BY <1>4 DEF SendSome
  <2> DEFINE r == Sent(s, n)
             at == thread[s].at
             m == thread[s].message
  <2>2. /\ thread[s].pc = "send" /\ transport = "open"
        /\ transport' = "open" /\ got' = got /\ arrived' = arrived
        /\ failed' = failed
    BY <1>4 DEF SendSome, reader
  <2>3. /\ PartEnd(s) \in Nat /\ at \in Nat /\ thread[s].count \in Nat
        /\ PartEnd(s) <= Total(m) /\ Total(m) \in Nat
    BY <2>2, PartOfMessage
  <2>4. n \in Nat /\ n > 0 /\ at + n <= PartEnd(s)
        /\ at + 1 \in Nat /\ at + n \in Nat
    BY <2>3
  <2>5. /\ r \in Seq(Bytes) /\ Len(r) = n /\ Linked(r)
        /\ r[1] = Byte(s, at + 1) /\ r[n] = Byte(s, at + n)
    BY <2>2, <2>4, SentLinked
  <2>6. Stream' = Stream \o r
    <3>1. arrived \o got \in Seq(Bytes) /\ wire \in Seq(Bytes)
      BY ConcatProperties DEF Typed
    <3>2. ((arrived \o got) \o wire) \o r = (arrived \o got) \o (wire \o r)
      BY <3>1, <2>5, ConcatAssociative, SMTT(30)
    <3> QED
      BY <3>2, <2>1, <2>2 DEF Stream
  <2>7. EndsAt(Stream, s)
    BY <2>2 DEF InFrame
  <2>8. Continues(Stream, r)
    <3>1. CASE at = 0
      <4>1. r[1].at = 1
        BY <2>4, <2>5, <3>1, ByteParts
      <4>2. Stream # <<>> => \/ Stream[Len(Stream)].last
                             \/ Named(Stream[Len(Stream)]) \in failed
        BY <2>7, <3>1 DEF EndsAt
      <4> QED
        BY <4>1, <4>2 DEF Continues, Follows
    <3>2. CASE at # 0
      <4>1. /\ r[1].from = s /\ r[1].msg = thread[s].count + 1
            /\ r[1].at = at + 1
        BY <2>4, <2>5, ByteParts
      <4>2. /\ Stream # <<>> /\ ~Stream[Len(Stream)].last
            /\ Stream[Len(Stream)].from = s
            /\ Stream[Len(Stream)].msg = thread[s].count + 1
            /\ Stream[Len(Stream)].at = at
        BY <2>7, <3>2 DEF EndsAt
      <4> QED
        BY <4>1, <4>2 DEF Continues, Follows
    <3> QED
      BY <3>1, <3>2
  <2> HIDE DEF r
  <2>9. Framed(Stream \o r)
    BY <1>0, <2>5, <2>8, FramedConcat DEF InFrame
  <2>10. Stream' # <<>> /\ Stream'[Len(Stream')] = Byte(s, at + n)
    <3>1. /\ Len(Stream \o r) = Len(Stream) + n /\ Len(Stream) \in Nat
          /\ Stream \o r \in Seq(Bytes)
          /\ \A i \in 1 .. Len(Stream) + n :
               (Stream \o r)[i] = IF i <= Len(Stream) THEN Stream[i]
                                                      ELSE r[i - Len(Stream)]
      <4>1. r \in Seq(Bytes) /\ Len(r) = n
        BY <2>5
      <4> DEFINE q == Stream
      <4>2. q \in Seq(Bytes) /\ Len(q) \in Nat
        BY <1>0
      <4> HIDE DEF q
      <4>3. /\ q \o r \in Seq(Bytes)
            /\ Len(q \o r) = Len(q) + Len(r)
            /\ \A i \in 1 .. Len(q) + Len(r) :
                 (q \o r)[i] = IF i <= Len(q) THEN q[i] ELSE r[i - Len(q)]
        BY <4>1, <4>2, ConcatProperties
      <4> QED
        BY <4>1, <4>2, <4>3 DEF q
    <3>2. /\ Len(Stream) + n \in 1 .. Len(Stream) + n
          /\ ~(Len(Stream) + n <= Len(Stream))
          /\ (Len(Stream) + n) - Len(Stream) = n
      BY <3>1, <2>4
    <3>3. (Stream \o r)[Len(Stream) + n] = r[n]
      BY <3>1, <3>2
    <3>4. Stream \o r # <<>>
      BY <3>1, <2>4
    <3> QED
      BY <3>1, <3>3, <3>4, <2>5, <2>6
  <2>11. EndsAt(Stream, s)'
    <3> DEFINE last == Stream'[Len(Stream')]
    <3>1. /\ last.from = s /\ last.msg = thread[s].count + 1
          /\ last.at = at + n /\ (last.last <=> at + n = Total(m))
      BY <2>4, <2>10, ByteParts
    <3>2. thread'[s] = SentUpTo(s, at + n) /\ thread[s] \in Threads
      BY <2>1 DEF Typed
    <3>3. CASE at + n = Total(m)
      <4>1. thread'[s].at = 0
        BY <3>2, <3>3, <2>3, <2>4 DEF SentUpTo, Returned, Threads
      <4> QED
        BY <4>1, <3>1, <3>3 DEF EndsAt
    <3>4. CASE at + n # Total(m)
      <4>1. thread'[s].at = at + n /\ thread'[s].count = thread[s].count
            /\ at + n # 0
        BY <3>2, <3>4, <2>3, <2>4 DEF SentUpTo, Returned, Threads
      <4> QED
        BY <4>1, <3>1, <3>4, <2>10 DEF EndsAt
    <3> QED
      BY <3>3, <3>4
  <2> QED
    BY <2>2, <2>6, <2>9, <2>11 DEF InFrame, Framed, Linked, Follows, Named
<1>5. CASE Disconnect
  BY <1>5 DEF Disconnect, InFrame, Framed, Linked, Stream, reader, Follows, Named
<1>6. CASE Ask
  BY <1>6 DEF Ask, InFrame, Framed, Linked, EndsAt, Stream, Follows, Named
<1>7. CASE RecvSome
  <2>1. Stream' = Stream /\ UNCHANGED <<transport, thread, failed>>
    BY <1>7, Moved DEF RecvSome
  <2> QED
    BY <2>1 DEF InFrame, Framed, Linked, EndsAt, Follows, Named
<1>8. CASE RecvClosed
  <2>1. /\ wire = <<>> /\ wire' = <<>> /\ got' = <<>> /\ arrived' = arrived
        /\ transport = "gone" /\ transport' = "gone" /\ failed' = failed
    BY <1>8 DEF RecvClosed
  <2>2. arrived \in Seq(Bytes) /\ got \in Seq(Bytes)
        /\ arrived \o got \in Seq(Bytes)
    BY ConcatProperties DEF Typed
  <2>3. Stream = arrived \o got /\ Stream' = arrived
    BY <2>1, <2>2, ConcatEmptySeq DEF Stream
  <2>4. Framed(arrived)
    BY <2>2, <2>3, FramedPrefix DEF InFrame
  <2> QED
    BY <2>1, <2>3, <2>4 DEF InFrame, Framed, Linked, Follows, Named
<1>9. CASE UNCHANGED vars
  BY <1>9 DEF vars, reader, InFrame, Framed, Linked, EndsAt, Stream, Follows,
              Named
<1> QED
  BY <1>1, <1>2, <1>3, <1>4, <1>5, <1>6, <1>7, <1>8, <1>9
     DEF Next, Sending, Receiving, Finished

LEMMA FrameInit == Init => Rested /\ InFrame
<1> SUFFICES ASSUME Init PROVE Rested /\ InFrame
  OBVIOUS
<1>1. \A s \in Senders : thread[s].pc = "idle" /\ thread[s].at = 0
  BY DEF Init
<1>2. Stream = <<>>
  <2>1. <<>> \in Seq(Bytes) /\ <<>> \o <<>> = <<>>
    BY EmptySeq, ConcatEmptySeq
  <2> QED
    BY <2>1 DEF Init, Stream
<1>3. Framed(Stream)
  BY <1>2 DEF Framed, Linked
<1> QED
  BY <1>1, <1>2, <1>3 DEF Rested, InFrame, EndsAt

(* The messages of a single sending thread arrive whole and in order, but   *)
(* for those whose call returned an error and the bytes under way when the  *)
(* connection went: no partial send() or recv(), no empty body, no error of *)
(* an earlier call and no moment of a disconnect misses, repeats or         *)
(* reorders a byte of a message whose call did not fail.                    *)
THEOREM OneSenderFrames ==
  ASSUME \A s, t \in Senders : s = t
  PROVE  Spec => []Framing
<1>1. Typed /\ Rested /\ InFrame /\ [Next]_vars => (Rested /\ InFrame)'
  BY FrameStep, RestedStep
<1>2. InFrame => Framing
  <2> SUFFICES ASSUME Framed(Stream) PROVE Framing
    BY DEF InFrame
  <2> QED
    BY DEF Framed, Linked, Framing
<1> QED
  BY <1>1, <1>2, FrameInit, TypedInit, TypedStep, PTL DEF Spec

-----------------------------------------------------------------------------
(* The queue: the messages whose last byte is among some bytes.  The ranks  *)
(* of a finite set of numbers are 1, 2, ... without a gap.                  *)
LEMMA Ranks ==
  ASSUME NEW S \in SUBSET Nat, IsFiniteSet(S)
  PROVE  /\ Cardinality(S) \in Nat
         /\ \A i \in S : Rank(S, i) \in 1..Cardinality(S)
         /\ \A i, j \in S : i < j => Rank(S, i) < Rank(S, j)
<1> DEFINE Below(i) == {j \in S : j <= i}
<1>1. \A i \in S : /\ IsFiniteSet(Below(i)) /\ Cardinality(Below(i)) \in Nat
                   /\ Cardinality(Below(i)) <= Cardinality(S)
                   /\ Cardinality(Below(i)) # 0
  <2> SUFFICES ASSUME NEW i \in S
               PROVE  /\ IsFiniteSet(Below(i)) /\ Cardinality(Below(i)) \in Nat
                      /\ Cardinality(Below(i)) <= Cardinality(S)
                      /\ Cardinality(Below(i)) # 0
    OBVIOUS
  <2>1. Below(i) \in SUBSET S /\ i \in Below(i)
    OBVIOUS
  <2> HIDE DEF Below
  <2> QED
    BY <2>1, FS_Subset, FS_CardinalityType, FS_EmptySet
<1>2. Cardinality(S) \in Nat
  BY FS_CardinalityType
<1>3. ASSUME NEW i \in S, NEW j \in S, i < j
      PROVE  Cardinality(Below(i)) < Cardinality(Below(j))
  <2>1. Below(i) \in SUBSET Below(j) /\ j \in Below(j) /\ j \notin Below(i)
    <3>1. i \in Nat /\ j \in Nat /\ i < j /\ j <= j /\ ~(j <= i)
      BY <1>3
    <3>2. \A l \in S : l <= i => l <= j
      <4>1. \A l \in Nat : l <= i => l <= j
        BY <3>1
      <4> QED
        BY <4>1
    <3> QED
      BY <1>3, <3>1, <3>2
  <2>2. IsFiniteSet(Below(j)) /\ Below(i) # Below(j)
    BY <1>1, <2>1
  <2> HIDE DEF Below
  <2>3. Cardinality(Below(i)) <= Cardinality(Below(j))
        /\ Cardinality(Below(i)) # Cardinality(Below(j))
    BY <2>1, <2>2, FS_Subset
  <2>4. Cardinality(Below(i)) \in Nat /\ Cardinality(Below(j)) \in Nat
    BY <1>1
  <2> QED
    BY <2>3, <2>4
<1>4. \A i \in S : Rank(S, i) = Cardinality(Below(i))
  BY DEF Rank
<1> HIDE DEF Below
<1> QED
  BY <1>1, <1>2, <1>3, <1>4

(* Nth goes through the set from its least to its greatest element.         *)
LEMMA Enumerated ==
  ASSUME NEW S \in SUBSET Nat, IsFiniteSet(S)
  PROVE  /\ \A k \in 1..Cardinality(S) : Nth(S, k) \in S /\ Rank(S, Nth(S, k)) = k
         /\ \A i \in S : Nth(S, Rank(S, i)) = i
         /\ \A k, l \in 1..Cardinality(S) : k < l => Nth(S, k) < Nth(S, l)
<1>1. /\ Cardinality(S) \in Nat
      /\ \A i \in S : Rank(S, i) \in 1..Cardinality(S)
      /\ \A i, j \in S : i < j => Rank(S, i) < Rank(S, j)
  BY Ranks
<1>2. \A i, j \in S : Rank(S, i) = Rank(S, j) => i = j
  <2> SUFFICES ASSUME NEW i \in S, NEW j \in S, Rank(S, i) = Rank(S, j), i # j
               PROVE  FALSE
    OBVIOUS
  <2>1. i \in Nat /\ j \in Nat /\ Rank(S, i) \in Nat
    BY <1>1
  <2>2. i < j \/ j < i
    BY <2>1
  <2> QED
    BY <1>1, <2>1, <2>2
<1>3. ASSUME NEW k \in 1..Cardinality(S)
      PROVE  \E i \in S : Rank(S, i) = k
  <2> DEFINE n == Cardinality(S)
             f == [i \in S |-> Rank(S, i)]
  <2>1. f \in Injection(S, 1..n)
    BY <1>1, <1>2 DEF Injection, IsInjective
  <2>2. IsFiniteSet(1..n) /\ Cardinality(1..n) = n
    BY <1>1, FS_Interval
  <2>3. f \in Surjection(S, 1..n)
    <3> HIDE DEF f
    <3> QED
      BY <2>1, <2>2, FS_Injection
  <2> QED
    BY <2>3 DEF Surjection
<1>4. \A k \in 1..Cardinality(S) : Nth(S, k) \in S /\ Rank(S, Nth(S, k)) = k
  BY <1>3 DEF Nth
<1>5. ASSUME NEW i \in S PROVE Nth(S, Rank(S, i)) = i
  BY <1>1, <1>2, <1>4
<1>6. ASSUME NEW k \in 1..Cardinality(S), NEW l \in 1..Cardinality(S), k < l
      PROVE  Nth(S, k) < Nth(S, l)
  <2> DEFINE i == Nth(S, k)
             j == Nth(S, l)
  <2>1. i \in S /\ j \in S /\ Rank(S, i) = k /\ Rank(S, j) = l
    BY <1>4
  <2> HIDE DEF i, j
  <2>2. i \in Nat /\ j \in Nat /\ k \in Nat /\ l \in Nat
    BY <2>1, <1>1
  <2>3. ~(j < i) /\ i # j
    BY <1>1, <2>1, <2>2, <1>6
  <2>4. i < j
    BY <2>2, <2>3
  <2> QED
    BY <2>4 DEF i, j
<1> QED
  BY <1>4, <1>5, <1>6

(* ... and any list that goes through the set in order is this one.         *)
LEMMA InOrder ==
  ASSUME NEW S \in SUBSET Nat, NEW n \in Nat, NEW e \in [1..n -> S],
         \A i \in S : \E k \in 1..n : e[k] = i,
         \A k, l \in 1..n : k < l => e[k] < e[l]
  PROVE  /\ IsFiniteSet(S) /\ Cardinality(S) = n
         /\ \A k \in 1..n : Nth(S, k) = e[k]
<1>0. \A k, l \in 1..n : e[l] <= e[k] <=> l <= k
  <2> SUFFICES ASSUME NEW k \in 1..n, NEW l \in 1..n
               PROVE  e[l] <= e[k] <=> l <= k
    OBVIOUS
  <2>1. e[l] \in S /\ e[k] \in S
    OBVIOUS
  <2>2. e[l] \in Nat /\ e[k] \in Nat
    BY <2>1
  <2>3. (l < k => e[l] < e[k]) /\ (k < l => e[k] < e[l])
    OBVIOUS
  <2>4. l = k \/ l < k \/ k < l
    OBVIOUS
  <2> QED
    BY <2>2, <2>3, <2>4
<1>1. \A k, l \in 1..n : e[k] = e[l] => k = l
  <2> SUFFICES ASSUME NEW k \in 1..n, NEW l \in 1..n, e[k] = e[l], k # l
               PROVE  FALSE
    OBVIOUS
  <2>1. k < l \/ l < k
    OBVIOUS
  <2>2. e[k] \in Nat /\ e[l] \in Nat
    OBVIOUS
  <2> QED
    BY <2>1, <2>2
<1>2. \A k \in 1..n : IsFiniteSet(1..k) /\ Cardinality(1..k) = k
  BY FS_Interval
<1>3. IsFiniteSet(1..n) /\ Cardinality(1..n) = n
  BY FS_Interval
<1>4. IsFiniteSet(S) /\ Cardinality(S) = n
  <2>1. e \in Bijection(1..n, S)
    BY <1>1 DEF Bijection, Injection, Surjection, IsInjective
  <2>2. ExistsBijection(1..n, S)
    BY <2>1 DEF ExistsBijection
  <2> QED
    BY <1>3, <2>2, FS_Bijection
<1>5. ASSUME NEW k \in 1..n PROVE Rank(S, e[k]) = k
  <2> DEFINE T == {j \in S : j <= e[k]}
             g == [l \in 1..k |-> e[l]]
  <2>1. \A l \in 1..n : e[l] \in T <=> l \in 1..k
    BY <1>0, <1>5
  <2>2. \A l \in 1..k : l \in 1..n
    OBVIOUS
  <2>3. \A j \in T : j \in S
    OBVIOUS
  <2> HIDE DEF T
  <2>4. g \in [1..k -> T] /\ \A l \in 1..k : g[l] = e[l]
    BY <2>1, <2>2
  <2>5. \A j \in T : \E l \in 1..k : g[l] = j
    BY <2>1, <2>3, <2>4
  <2> HIDE DEF g
  <2>6. g \in Bijection(1..k, T)
    BY <1>1, <2>2, <2>4, <2>5 DEF Bijection, Injection, Surjection, IsInjective
  <2>7. ExistsBijection(1..k, T)
    BY <2>6 DEF ExistsBijection
  <2>8. Cardinality(T) = k
    BY <1>2, <2>7, FS_Bijection
  <2> QED
    BY <2>8 DEF Rank, T
<1> QED
  BY <1>4, <1>5, Enumerated

Messaged == [from : Senders, msg : Nat]

LEMMA EndsType ==
  ASSUME NEW q \in Seq(Bytes)
  PROVE  /\ Ends(q) \in SUBSET Nat /\ IsFiniteSet(Ends(q))
         /\ Ends(q) \subseteq 1..Len(q)
<1>1. Len(q) \in Nat /\ Ends(q) \in SUBSET (1..Len(q))
  BY DEF Ends
<1>2. IsFiniteSet(1..Len(q))
  BY <1>1, FS_Interval
<1>3. IsFiniteSet(Ends(q))
  BY <1>1, <1>2, FS_Subset
<1> QED
  BY <1>1, <1>3

LEMMA WholeType ==
  ASSUME NEW q \in Seq(Bytes)
  PROVE  /\ Whole(q) \in Seq(Messaged)
         /\ Len(Whole(q)) = Cardinality(Ends(q))
         /\ \A k \in 1..Cardinality(Ends(q)) :
              /\ Nth(Ends(q), k) \in Ends(q)
              /\ Whole(q)[k] = Named(q[Nth(Ends(q), k)])
<1>1. /\ Cardinality(Ends(q)) \in Nat
      /\ \A k \in 1..Cardinality(Ends(q)) : Nth(Ends(q), k) \in Ends(q)
  BY EndsType, Ranks, Enumerated
<1>2. \A i \in 1..Len(q) : Named(q[i]) \in Messaged
  <2>1. \A b \in Bytes : Named(b) \in Messaged
    BY DEF Named, Messaged, Bytes
  <2>2. \A i \in 1..Len(q) : q[i] \in Bytes
    OBVIOUS
  <2> QED
    BY <2>1, <2>2
<1>3. \A k \in 1..Cardinality(Ends(q)) :
        Named(q[Nth(Ends(q), k)]) \in Messaged
  BY <1>1, <1>2, EndsType
<1> QED
  BY <1>1, <1>3 DEF Whole

(* The messages that end in one string of bytes and then in another.        *)
LEMMA WholeConcat ==
  ASSUME NEW p \in Seq(Bytes), NEW q \in Seq(Bytes)
  PROVE  Whole(p \o q) = Whole(p) \o Whole(q)
<1> DEFINE z == p \o q
           m == Cardinality(Ends(p))
           n == Cardinality(Ends(q))
           e == [k \in 1 .. m + n |->
                   IF k <= m THEN Nth(Ends(p), k)
                             ELSE Len(p) + Nth(Ends(q), k - m)]
<1>1. /\ Len(p) \in Nat /\ Len(q) \in Nat
      /\ z \in Seq(Bytes) /\ Len(z) = Len(p) + Len(q)
      /\ \A i \in 1 .. Len(z) :
           z[i] = IF i <= Len(p) THEN p[i] ELSE q[i - Len(p)]
  BY ConcatProperties
<1>2. /\ \A i \in 1 .. Len(p) : i \in 1 .. Len(z) /\ z[i] = p[i]
      /\ \A i \in 1 .. Len(q) : Len(p) + i \in 1 .. Len(z)
                                /\ z[Len(p) + i] = q[i]
  <2> HIDE DEF z
  <2>1. ASSUME NEW i \in 1 .. Len(p) PROVE i \in 1 .. Len(z) /\ z[i] = p[i]
    <3>1. i \in 1 .. Len(z) /\ i <= Len(p)
      BY <1>1
    <3> QED
      BY <1>1, <3>1
  <2>2. ASSUME NEW i \in 1 .. Len(q)
        PROVE  Len(p) + i \in 1 .. Len(z) /\ z[Len(p) + i] = q[i]
    <3>1. /\ Len(p) + i \in 1 .. Len(z) /\ ~(Len(p) + i <= Len(p))
          /\ (Len(p) + i) - Len(p) = i
      BY <1>1
    <3> QED
      BY <1>1, <3>1
  <2> QED
    BY <2>1, <2>2
<1>3. /\ m \in Nat /\ n \in Nat
      /\ \A k \in 1..m : Nth(Ends(p), k) \in Ends(p)
      /\ \A k \in 1..n : Nth(Ends(q), k) \in Ends(q)
      /\ \A i \in Ends(p) : Rank(Ends(p), i) \in 1..m
                            /\ Nth(Ends(p), Rank(Ends(p), i)) = i
      /\ \A i \in Ends(q) : Rank(Ends(q), i) \in 1..n
                            /\ Nth(Ends(q), Rank(Ends(q), i)) = i
  BY EndsType, Ranks, Enumerated
<1>4. /\ \A k, l \in 1..m : k < l => Nth(Ends(p), k) < Nth(Ends(p), l)
      /\ \A k, l \in 1..n : k < l => Nth(Ends(q), k) < Nth(Ends(q), l)
  BY EndsType, Enumerated
<1>5. /\ \A i \in Ends(p) : i \in 1..Len(p) /\ i \in Ends(z)
      /\ \A i \in Ends(q) : i \in 1..Len(q) /\ Len(p) + i \in Ends(z)
      /\ \A i \in Ends(z) : \/ i \in Ends(p)
                            \/ \E j \in Ends(q) : i = Len(p) + j
  <2> HIDE DEF z
  <2>1. /\ \A i \in 1 .. Len(p) : i \in Ends(z) <=> i \in Ends(p)
        /\ \A i \in 1 .. Len(q) : Len(p) + i \in Ends(z) <=> i \in Ends(q)
    BY <1>2 DEF Ends
  <2>2. \A i \in Ends(z) : \/ i \in 1 .. Len(p)
                           \/ \E j \in 1 .. Len(q) : i = Len(p) + j
    <3> SUFFICES ASSUME NEW i \in 1 .. Len(z), i \notin 1 .. Len(p)
                 PROVE  \E j \in 1 .. Len(q) : i = Len(p) + j
      BY DEF Ends
    <3>1. i - Len(p) \in 1 .. Len(q) /\ i = Len(p) + (i - Len(p))
      BY <1>1
    <3> QED
      BY <3>1
  <2>3. /\ \A i \in Ends(p) : i \in 1 .. Len(p)
        /\ \A i \in Ends(q) : i \in 1 .. Len(q)
    BY DEF Ends
  <2> QED
    BY <2>1, <2>2, <2>3
<1> DEFINE a(k) == Nth(Ends(p), k)
           b(k) == Nth(Ends(q), k)
<1>6. /\ \A k \in 1..m : k \in 1 .. m + n /\ e[k] = a(k)
      /\ \A k \in 1..n : m + k \in 1 .. m + n /\ e[m + k] = Len(p) + b(k)
      /\ \A k \in 1 .. m + n : k \in 1..m \/ \E l \in 1..n : k = m + l
  <2> HIDE DEF m, n, a, b
  <2>1. /\ \A k \in 1..m : k \in 1 .. m + n /\ k <= m
        /\ \A k \in 1..n : /\ m + k \in 1 .. m + n /\ ~(m + k <= m)
                           /\ (m + k) - m = k
    BY <1>3
  <2>2. ASSUME NEW k \in 1 .. m + n, k \notin 1..m
        PROVE  \E l \in 1..n : k = m + l
    <3>1. k - m \in 1..n /\ k = m + (k - m)
      BY <1>3, <2>2
    <3> QED
      BY <3>1
  <2> QED
    BY <2>1, <2>2 DEF a, b
<1>7. /\ \A k \in 1..m : a(k) \in Ends(p) /\ a(k) \in 1..Len(p)
      /\ \A k \in 1..n : b(k) \in Ends(q) /\ b(k) \in 1..Len(q)
  BY <1>3, <1>5
<1>8. /\ Ends(z) \in SUBSET Nat /\ m + n \in Nat
      /\ e \in [1 .. m + n -> Ends(z)]
  <2>1. \A k \in 1 .. m + n : e[k] \in Ends(z)
    <3> HIDE DEF e, m, n, a, b, z
    <3> QED
      BY <1>5, <1>6, <1>7
  <2>2. Ends(z) \in SUBSET Nat
    BY <1>1, EndsType
  <2> QED
    BY <2>1, <2>2, <1>3
<1>9. \A i \in Ends(z) : \E k \in 1 .. m + n : e[k] = i
  <2>1. /\ \A i \in Ends(p) : \E k \in 1..m : a(k) = i
        /\ \A i \in Ends(q) : \E k \in 1..n : b(k) = i
    BY <1>3
  <2> HIDE DEF e, m, n, a, b, z
  <2> QED
    BY <2>1, <1>5, <1>6
<1>10. \A k, l \in 1 .. m + n : k < l => e[k] < e[l]
  <2>1. /\ \A k, l \in 1..m : k < l => a(k) < a(l)
        /\ \A k, l \in 1..n : k < l => b(k) < b(l)
    BY <1>4
  <2> HIDE DEF e, m, n, a, b, z
  <2>2. ASSUME NEW k \in 1..m, NEW l \in 1..m, k < l
        PROVE  e[k] < e[l]
    BY <1>6, <2>1, <2>2
  <2>3. ASSUME NEW k \in 1..m, NEW l \in 1..n
        PROVE  e[k] < e[m + l] /\ ~(m + l < k)
    <3>1. e[k] = a(k) /\ e[m + l] = Len(p) + b(l)
      BY <1>6
    <3>2. a(k) \in 1..Len(p) /\ b(l) \in 1..Len(q)
      BY <1>7
    <3> QED
      BY <3>1, <3>2, <1>1, <1>3
  <2>4. ASSUME NEW k \in 1..n, NEW l \in 1..n, m + k < m + l
        PROVE  e[m + k] < e[m + l]
    <3>1. e[m + k] = Len(p) + b(k) /\ e[m + l] = Len(p) + b(l)
      BY <1>6
    <3>2. b(k) \in 1..Len(q) /\ b(l) \in 1..Len(q) /\ k < l
      BY <1>3, <1>7, <2>4
    <3>3. b(k) < b(l)
      BY <2>1, <3>2
    <3> QED
      BY <3>1, <3>2, <3>3, <1>1
  <2> QED
    BY <1>6, <2>2, <2>3, <2>4
<1>11. /\ Cardinality(Ends(z)) = m + n
       /\ \A k \in 1 .. m + n : Nth(Ends(z), k) = e[k]
  <2> HIDE DEF e, m, n, z
  <2> QED
    BY <1>8, <1>9, <1>10, InOrder
<1>12. /\ Whole(z) \in Seq(Messaged) /\ Len(Whole(z)) = m + n
       /\ \A k \in 1 .. m + n : Whole(z)[k] = Named(z[e[k]])
  <2>1. /\ Whole(z) \in Seq(Messaged) /\ Len(Whole(z)) = Cardinality(Ends(z))
        /\ \A k \in 1 .. Cardinality(Ends(z)) :
             Whole(z)[k] = Named(z[Nth(Ends(z), k)])
    <3> HIDE DEF z
    <3> QED
      BY <1>1, WholeType
  <2> HIDE DEF e, m, n, z
  <2> QED
    BY <1>11, <2>1
<1>13. /\ Whole(p) \in Seq(Messaged) /\ Len(Whole(p)) = m
       /\ \A k \in 1..m : Whole(p)[k] = Named(p[a(k)])
       /\ Whole(q) \in Seq(Messaged) /\ Len(Whole(q)) = n
       /\ \A k \in 1..n : Whole(q)[k] = Named(q[b(k)])
  BY WholeType
<1> HIDE DEF e, m, n, a, b, z
<1>14. /\ \A k \in 1..m : Whole(z)[k] = Whole(p)[k]
       /\ \A k \in 1..n : Whole(z)[m + k] = Whole(q)[k]
  <2>1. /\ \A k \in 1..m : z[e[k]] = p[a(k)]
        /\ \A k \in 1..n : z[e[m + k]] = q[b(k)]
    BY <1>2, <1>6, <1>7
  <2>2. /\ \A k \in 1..m : Whole(z)[k] = Named(z[e[k]])
        /\ \A k \in 1..n : Whole(z)[m + k] = Named(z[e[m + k]])
    BY <1>6, <1>12
  <2>3. /\ \A k \in 1..m : Whole(p)[k] = Named(p[a(k)])
        /\ \A k \in 1..n : Whole(q)[k] = Named(q[b(k)])
    BY <1>13
  <2> QED
    BY <2>1, <2>2, <2>3, Zenon
<1> DEFINE y == Whole(p) \o Whole(q)
<1>15. /\ y \in Seq(Messaged) /\ Len(y) = m + n
       /\ \A k \in 1 .. m + n :
            y[k] = IF k <= m THEN Whole(p)[k] ELSE Whole(q)[k - m]
  BY <1>13, ConcatProperties
<1>16. /\ \A k \in 1..m : y[k] = Whole(p)[k]
       /\ \A k \in 1..n : y[m + k] = Whole(q)[k]
  <2> HIDE DEF y
  <2>1. /\ \A k \in 1..m : k <= m
        /\ \A k \in 1..n : ~(m + k <= m) /\ (m + k) - m = k
    BY <1>3
  <2> QED
    BY <1>15, <1>6, <2>1
<1> HIDE DEF y
<1>17. \A k \in 1 .. m + n : Whole(z)[k] = y[k]
  BY <1>6, <1>14, <1>16
<1>18. Whole(z) = y
  BY <1>12, <1>15, <1>17, SeqEqual
<1> QED
  BY <1>18 DEF y, z

LEMMA WholeEmpty == Whole(<<>>) = <<>>
<1>1. <<>> \in Seq(Bytes) /\ Ends(<<>>) = {}
  BY EmptySeq DEF Ends
<1>2. Cardinality({}) = 0
  BY FS_EmptySet
<1>3. Whole(<<>>) \in Seq(Messaged) /\ Len(Whole(<<>>)) = 0
  BY <1>1, <1>2, WholeType
<1> QED
  BY <1>3, EmptySeq

(* One send() completes its message or ends inside it.                      *)
LEMMA WholeSent ==
  ASSUME Typed, NEW s \in Senders, thread[s].pc = "send",
         NEW n \in 1 .. PartEnd(s) - thread[s].at
  PROVE  Whole(Sent(s, n)) =
           IF thread[s].at + n = Total(thread[s].message)
           THEN <<[from |-> s, msg |-> thread[s].count + 1]>> ELSE <<>>
<1> DEFINE q == Sent(s, n)
           t == Total(thread[s].message)
<1>1. /\ PartEnd(s) \in Nat /\ thread[s].at \in Nat /\ n \in Nat /\ n > 0
      /\ PartEnd(s) <= t /\ t \in Nat /\ thread[s].at + n <= t
      /\ thread[s].count + 1 \in Nat
  BY PartOfMessage
<1>2. /\ q \in Seq(Bytes) /\ Len(q) = n
      /\ \A i \in 1..n : q[i] = Byte(s, thread[s].at + i)
  BY <1>1, SentType
<1>3. /\ \A i \in 1..n : q[i].last <=> thread[s].at + i = t
      /\ \A i \in 1..n : q[i].from = s /\ q[i].msg = thread[s].count + 1
  <2>1. \A i \in 1..n : thread[s].at + i \in Nat
    BY <1>1
  <2> HIDE DEF q
  <2> QED
    BY <1>2, <2>1, ByteParts
<1> HIDE DEF q, t
<1>4. CASE thread[s].at + n = t
  <2>1. Ends(q) = {n}
    <3>1. \A i \in 1..n : thread[s].at + i = t <=> i = n
      BY <1>1, <1>4
    <3> QED
      BY <1>1, <1>2, <1>3, <3>1 DEF Ends
  <2>2. Cardinality(Ends(q)) = 1
    BY <2>1, FS_Singleton
  <2>3. /\ Whole(q) \in Seq(Messaged) /\ Len(Whole(q)) = 1
        /\ Whole(q)[1] = Named(q[n])
    <3>1. Nth(Ends(q), 1) \in Ends(q) /\ Whole(q)[1] = Named(q[Nth(Ends(q), 1)])
      BY <1>2, <2>2, WholeType
    <3> QED
      BY <1>2, <2>1, <2>2, <3>1, WholeType
  <2>4. Whole(q)[1] = [from |-> s, msg |-> thread[s].count + 1]
    BY <1>1, <1>3, <2>3 DEF Named
  <2>5. Whole(q) = <<[from |-> s, msg |-> thread[s].count + 1]>>
    BY <2>3, <2>4
  <2> QED
    BY <1>4, <2>5 DEF q, t
<1>5. CASE thread[s].at + n # t
  <2>1. Ends(q) = {}
    <3>1. \A i \in 1..n : thread[s].at + i # t
      BY <1>1, <1>5
    <3> QED
      BY <1>2, <1>3, <3>1 DEF Ends
  <2>2. Cardinality(Ends(q)) = 0
    BY <2>1, FS_EmptySet
  <2>3. Whole(q) \in Seq(Messaged) /\ Len(Whole(q)) = 0
    BY <1>2, <2>2, WholeType
  <2>4. Whole(q) = <<>>
    BY <2>3, EmptySeq
  <2> QED
    BY <1>5, <2>4 DEF q, t
<1> QED
  BY <1>4, <1>5

(* Under way, delivered and sent, as the queue sees them.                   *)
Underway == Whole(got \o wire)
Delivered == Whole(arrived)
Counts == [s \in Senders |-> thread[s].count]

LEMMA UnderwayType ==
  ASSUME Typed
  PROVE  /\ got \o wire \in Seq(Bytes)
         /\ Underway \in Seq(Messaged) /\ Delivered \in Seq(Messaged)
BY ConcatProperties, WholeType DEF Typed, Underway, Delivered

LEMMA QueueSend ==
  ASSUME Typed, NEW s \in Senders, SendSome(s)
  PROVE  Queue!Send(s) \/ UNCHANGED Queue!vars
<1>1. PICK n \in 1 .. PartEnd(s) - thread[s].at :
        /\ wire' = wire \o Sent(s, n)
        /\ thread' = [thread EXCEPT ![s] = SentUpTo(s, thread[s].at + n)]
  BY DEF SendSome
<1>2. /\ thread[s].pc = "send" /\ transport = "open" /\ transport' = "open"
      /\ got' = got /\ arrived' = arrived /\ failed' = failed
  BY DEF SendSome, reader
<1>3. /\ PartEnd(s) \in Nat /\ thread[s].at \in Nat /\ n \in Nat
      /\ PartEnd(s) <= Total(thread[s].message)
      /\ Total(thread[s].message) \in Nat
      /\ thread[s].at + n <= PartEnd(s)
  BY <1>2, PartOfMessage
<1>4. Sent(s, n) \in Seq(Bytes)
  BY <1>3, SentType
<1>5. Underway' = Underway \o Whole(Sent(s, n)) /\ Delivered' = Delivered
  <2>1. /\ got \in Seq(Bytes) /\ wire \in Seq(Bytes)
        /\ got \o wire \in Seq(Bytes)
    BY UnderwayType DEF Typed
  <2>2. (got \o wire)' = (got \o wire) \o Sent(s, n)
    <3>1. (got \o wire)' = got \o (wire \o Sent(s, n))
      BY <1>1, <1>2
    <3>2. got \o (wire \o Sent(s, n)) = (got \o wire) \o Sent(s, n)
      <4> DEFINE q == Sent(s, n)
      <4>1. got \in Seq(Bytes) /\ wire \in Seq(Bytes) /\ q \in Seq(Bytes)
        BY <2>1, <1>4
      <4> HIDE DEF q
      <4>2. got \o (wire \o q) = (got \o wire) \o q
        BY <4>1, ConcatAssociative
      <4> QED
        BY <4>2 DEF q
    <3> QED
      BY <3>1, <3>2
  <2> QED
    BY <2>1, <2>2, <1>2, <1>4, WholeConcat DEF Underway, Delivered
<1>6. /\ thread \in [Senders -> Threads] /\ thread[s] \in Threads
      /\ \A u \in Senders : thread[u].count \in Nat
  BY DEF Typed, Threads
<1>7. CASE thread[s].at + n = Total(thread[s].message)
  <2>1. SentUpTo(s, thread[s].at + n).count = thread[s].count + 1
    BY <1>3, <1>6, <1>7 DEF SentUpTo, Returned, Threads
  <2>2. Counts' = [Counts EXCEPT ![s] = @ + 1]
    BY <1>1, <1>6, <2>1 DEF Counts
  <2>3. Counts'[s] = thread[s].count + 1
    BY <1>1, <1>6, <2>1 DEF Counts
  <2>4. Whole(Sent(s, n)) = <<[from |-> s, msg |-> Counts'[s]]>>
    BY <1>2, <1>7, <2>3, WholeSent
  <2>5. Underway' = Append(Underway, [from |-> s, msg |-> Counts'[s]])
    <3>1. [from |-> s, msg |-> Counts'[s]] \in Messaged
      BY <1>6, <2>3 DEF Messaged
    <3>2. Underway \in Seq(Messaged)
      BY UnderwayType
    <3> QED
      BY <1>5, <2>4, <3>1, <3>2, AppendIsConcat
  <2> QED
    BY <1>2, <1>5, <2>2, <2>5 DEF Queue!Send, Underway, Delivered, Counts
<1>8. CASE thread[s].at + n # Total(thread[s].message)
  <2>1. SentUpTo(s, thread[s].at + n).count = thread[s].count
    BY <1>3, <1>6, <1>8 DEF SentUpTo, Returned, Threads
  <2>2. Counts' = Counts
    BY <1>1, <1>6, <2>1 DEF Counts
  <2>3. Underway' = Underway
    <3>1. Whole(Sent(s, n)) = <<>> /\ Underway \in Seq(Messaged)
      BY <1>2, <1>8, WholeSent, UnderwayType
    <3> QED
      BY <1>5, <3>1, ConcatEmptySeq
  <2> QED
    BY <1>2, <1>5, <2>2, <2>3 DEF Queue!vars, Underway, Delivered, Counts
<1> QED
  BY <1>7, <1>8

LEMMA QueueReceive ==
  ASSUME Typed, RecvSome
  PROVE  Queue!Deliver \/ UNCHANGED Queue!vars
<1>1. PICK n \in 1..Len(wire) :
        /\ wire' = SubSeq(wire, n + 1, Len(wire))
        /\ \/ /\ got' = got \o SubSeq(wire, 1, n)
              /\ UNCHANGED <<asked, arrived>>
           \/ /\ arrived' = arrived \o (got \o SubSeq(wire, 1, n))
              /\ got' = <<>>
  BY DEF RecvSome
<1> DEFINE a == SubSeq(wire, 1, n)
           b == SubSeq(wire, n + 1, Len(wire))
           now == got \o a
<1>2. /\ a \in Seq(Bytes) /\ b \in Seq(Bytes) /\ a \o b = wire
      /\ got \in Seq(Bytes) /\ arrived \in Seq(Bytes)
  BY Divided DEF Typed
<1>3. wire' = b /\ \/ got' = now /\ arrived' = arrived
                   \/ arrived' = arrived \o now /\ got' = <<>>
  BY <1>1
<1>4. transport' = transport /\ failed' = failed /\ Counts' = Counts
  BY DEF RecvSome, Counts
<1> HIDE DEF a, b
<1>5. now \in Seq(Bytes) /\ now \o b = got \o wire
  <2>1. now \in Seq(Bytes)
    BY <1>2, ConcatProperties
  <2>2. (got \o a) \o b = got \o (a \o b)
    <3>1. got \in Seq(Bytes) /\ a \in Seq(Bytes) /\ b \in Seq(Bytes)
      BY <1>2
    <3> QED
      BY <3>1, ConcatAssociative
  <2> QED
    BY <1>2, <2>1, <2>2
<1> HIDE DEF now
<1>6. /\ Whole(now) \in Seq(Messaged) /\ Whole(b) \in Seq(Messaged)
      /\ Underway = Whole(now) \o Whole(b)
  BY <1>2, <1>5, WholeConcat, WholeType DEF Underway
<1>7. CASE got' = now /\ arrived' = arrived
  BY <1>3, <1>4, <1>5, <1>7 DEF Queue!vars, Underway, Delivered, Counts
<1>8. CASE arrived' = arrived \o now /\ got' = <<>>
  <2>1. Underway' = Whole(b) /\ Delivered' = Delivered \o Whole(now)
    <3>1. (got \o wire)' = b
      <4>1. (got \o wire)' = <<>> \o b
        BY <1>3, <1>8
      <4> QED
        BY <1>2, <4>1, ConcatEmptySeq
    <3> QED
      BY <1>2, <1>5, <1>8, <3>1, WholeConcat DEF Underway, Delivered
  <2> DEFINE v == Whole(now)
             w == Whole(b)
             k == Len(v)
  <2>2. /\ v \in Seq(Messaged) /\ w \in Seq(Messaged)
        /\ Underway = v \o w /\ Underway' = w /\ Delivered' = Delivered \o v
        /\ Delivered \in Seq(Messaged)
    BY <1>6, <2>1, UnderwayType
  <2> HIDE DEF v, w
  <2>3. CASE k = 0
    <3>1. v = <<>>
      BY <2>2, <2>3, EmptySeq
    <3>2. Underway' = Underway /\ Delivered' = Delivered
      BY <2>2, <3>1, ConcatEmptySeq
    <3> QED
      BY <1>4, <3>2 DEF Queue!vars, Underway, Delivered, Counts
  <2>4. CASE k # 0
    <3>1. /\ k \in Nat /\ Len(w) \in Nat /\ Len(Underway) = k + Len(w)
          /\ Underway \in Seq(Messaged)
          /\ \A i \in 1 .. k + Len(w) :
               Underway[i] = IF i <= k THEN v[i] ELSE w[i - k]
      BY <2>2, ConcatProperties
    <3>2. k \in 1..Len(Underway)
      BY <2>4, <3>1
    <3>3. SubSeq(Underway, 1, k) = v
      <4>1. /\ \A i \in 1..k : Underway[i] \in Messaged
            /\ \A i \in 1..k : Underway[i] = v[i]
        BY <3>1, <3>2
      <4> QED
        BY <2>2, <3>1, <4>1, SubSeqProperties, SeqEqual
    <3>4. SubSeq(Underway, k + 1, Len(Underway)) = w
      <4>1. \A i \in 1..Len(w) : Underway[k + i] = w[i]
        <5>1. \A i \in 1..Len(w) : /\ k + i \in 1 .. k + Len(w)
                                   /\ ~(k + i <= k) /\ (k + i) - k = i
          BY <3>1
        <5> HIDE DEF k
        <5> QED
          BY <3>1, <5>1
      <4>2. /\ \A i \in k + 1 .. Len(Underway) : Underway[i] \in Messaged
            /\ Len(Underway) - k = Len(w)
        BY <3>1, <3>2
      <4> QED
        BY <2>2, <3>1, <4>1, <4>2, SubSeqProperties, SeqEqual
    <3>5. /\ Delivered' = Delivered \o SubSeq(Underway, 1, k)
          /\ Underway' = SubSeq(Underway, k + 1, Len(Underway))
      BY <2>2, <3>3, <3>4
    <3> QED
      BY <1>4, <3>2, <3>5 DEF Queue!Deliver, Underway, Delivered, Counts
  <2> QED
    BY <2>3, <2>4
<1> QED
  BY <1>3, <1>7, <1>8

LEMMA QueueStep ==
  ASSUME Typed, [Next]_vars
  PROVE  [Queue!Next]_Queue!vars
<1>1. ASSUME NEW s \in Senders, Begin(s) \/ Fetch(s)
      PROVE  UNCHANGED Queue!vars
  <2>1. ASSUME NEW u \in Senders PROVE thread'[u].count = thread[u].count
    <3>1. thread \in [Senders -> Threads] /\ thread[s] \in Threads
      BY DEF Typed
    <3>2. CASE Begin(s)
      <4>1. PICK m \in Messages :
              thread' = [thread EXCEPT ![s] = [@ EXCEPT !.pc = "fetch",
                                                 !.at = 0, !.message = m]]
        BY <3>2 DEF Begin
      <4>2. [thread[s] EXCEPT !.pc = "fetch", !.at = 0, !.message = m].count
              = thread[s].count
        BY <3>1 DEF Threads
      <4> QED
        BY <3>1, <4>1, <4>2
    <3>3. CASE Fetch(s)
      <4>1. PICK p : thread' = [thread EXCEPT ![s].pc = p]
        BY <3>3 DEF Fetch
      <4>2. [thread[s] EXCEPT !.pc = p].count = thread[s].count
        BY <3>1 DEF Threads
      <4> QED
        BY <3>1, <4>1, <4>2
    <3> QED
      BY <1>1, <3>2, <3>3
  <2>2. /\ transport' = transport /\ wire' = wire /\ reader' = reader
        /\ failed' = failed
    BY <1>1 DEF Begin, Fetch
  <2> QED
    BY <2>1, <2>2 DEF Queue!vars, reader
<1>8. ASSUME NEW s \in Senders, SendFails(s) PROVE Queue!Fail(s)
  <2>1. thread[s] \in Threads /\ thread \in [Senders -> Threads]
    BY DEF Typed
  <2>2. thread' = [thread EXCEPT ![s] = Returned(s)]
    BY <1>8 DEF SendFails
  <2>3. Returned(s).count = thread[s].count + 1
    BY <2>1 DEF Threads, Returned
  <2>4. /\ Counts' = [Counts EXCEPT ![s] = @ + 1]
        /\ Counts'[s] = thread[s].count + 1
    BY <2>1, <2>2, <2>3 DEF Counts
  <2>5. /\ transport' = transport /\ wire' = wire /\ reader' = reader
        /\ failed' = failed \cup {[from |-> s, msg |-> Counts'[s]]}
    BY <1>8, <2>4 DEF SendFails
  <2> QED
    BY <2>4, <2>5 DEF Queue!Fail, Counts, reader
<1>2. ASSUME NEW s \in Senders, SendSome(s) PROVE [Queue!Next]_Queue!vars
  BY <1>2, QueueSend DEF Queue!Next
<1>3. CASE Disconnect
  BY <1>3 DEF Disconnect, Queue!Next, Queue!Close, reader
<1>4. CASE Ask
  BY <1>4 DEF Ask, Queue!vars
<1>5. CASE RecvSome
  BY <1>5, QueueReceive DEF Queue!Next
<1>6. CASE RecvClosed
  <2>1. Whole(got' \o wire') = <<>>
    <3>1. got' = <<>> /\ wire' = <<>> /\ <<>> \o <<>> = <<>>
      BY <1>6 DEF RecvClosed
    <3> QED
      BY <3>1, WholeEmpty
  <2> QED
    BY <1>6, <2>1 DEF RecvClosed, Queue!Next, Queue!Lose
<1>7. CASE UNCHANGED vars
  BY <1>7 DEF vars, reader, Queue!vars
<1> QED
  BY <1>1, <1>2, <1>3, <1>4, <1>5, <1>6, <1>7, <1>8
  DEF Next, Sending, Receiving, Finished, Queue!Next

(* Sending and receiving piece by piece implements the queue of messages,   *)
(* for any number of senders, shapes of messages, partial transfers, errors *)
(* of send() and requests of the reader, and a disconnect at any moment.    *)
THEOREM ImplementsQueue == Spec => QueueSpec
<1>1. Init => Queue!Init
  <2> SUFFICES ASSUME Init PROVE Queue!Init
    OBVIOUS
  <2>1. Whole(got \o wire) = <<>> /\ Whole(arrived) = <<>>
    <3>1. got = <<>> /\ wire = <<>> /\ arrived = <<>> /\ <<>> \o <<>> = <<>>
      BY DEF Init
    <3> QED
      BY <3>1, WholeEmpty
  <2>2. \A s \in Senders : thread[s].count = 0
    BY DEF Init
  <2> QED
    BY <2>1, <2>2 DEF Init, Queue!Init
<1>2. Typed /\ [Next]_vars => [Queue!Next]_Queue!vars
  BY QueueStep
<1> QED
  BY <1>1, <1>2, TypedInit, TypedStep, PTL DEF Spec, QueueSpec, Queue!Spec

-----------------------------------------------------------------------------
(* What the queue makes of it for the reader: of every sender the messages  *)
(* 1, 2, ... in this order, each once, but for those whose call failed.     *)
InSequence(q) ==
  \A i \in 1..Len(q) :
    /\ q[i] \notin failed
    /\ \A j \in 1 .. i - 1 : q[j].from = q[i].from => q[j].msg < q[i].msg
    /\ \A m \in 1 .. q[i].msg - 1 :
         \/ [from |-> q[i].from, msg |-> m] \in failed
         \/ \E j \in 1 .. i - 1 : q[j].from = q[i].from /\ q[j].msg = m

(* What is queued or failed is a call that has returned.                    *)
Counted(q) ==
  /\ \A i \in 1..Len(q) : q[i].msg <= thread[q[i].from].count
  /\ \A f \in failed : f.msg <= thread[f.from].count

(* While the connection is there, all calls that have returned are in the   *)
(* queue or delivered, or failed.                                           *)
Tallied(q) ==
  \A s \in Senders : \A m \in 1 .. thread[s].count :
    \/ [from |-> s, msg |-> m] \in failed
    \/ \E i \in 1..Len(q) : q[i].from = s /\ q[i].msg = m

Queued == Delivered \o Underway

Tally == /\ InSequence(Queued) /\ Counted(Queued)
         /\ transport = "open" => Tallied(Queued)

LEMMA QueuedType ==
  ASSUME Typed
  PROVE  /\ Queued \in Seq(Messaged) /\ Len(Delivered) \in Nat
         /\ Len(Queued) = Len(Delivered) + Len(Underway)
         /\ Len(Underway) \in Nat
         /\ \A i \in 1..Len(Delivered) : Queued[i] = Delivered[i]
<1>1. Delivered \in Seq(Messaged) /\ Underway \in Seq(Messaged)
  BY UnderwayType
<1> QED
  BY <1>1, ConcatProperties DEF Queued

(* Whatever is at the front of a sequence like this is one itself.         *)
LEMMA FrontInSequence ==
  ASSUME NEW q \in Seq(Messaged), NEW r \in Seq(Messaged),
         Len(r) <= Len(q), \A i \in 1..Len(r) : r[i] = q[i], InSequence(q)
  PROVE  InSequence(r)
<1>1. /\ \A i \in 1..Len(r) : i \in 1..Len(q)
      /\ \A i \in 1..Len(r) : \A j \in 1 .. i - 1 : j \in 1..Len(r)
  OBVIOUS
<1> SUFFICES ASSUME NEW i \in 1..Len(r)
             PROVE  /\ r[i] \notin failed
                    /\ \A j \in 1 .. i - 1 :
                         r[j].from = r[i].from => r[j].msg < r[i].msg
                    /\ \A m \in 1 .. r[i].msg - 1 :
                         \/ [from |-> r[i].from, msg |-> m] \in failed
                         \/ \E j \in 1 .. i - 1 :
                              r[j].from = r[i].from /\ r[j].msg = m
  BY DEF InSequence
<1>2. r[i] = q[i] /\ \A j \in 1 .. i - 1 : r[j] = q[j]
  BY <1>1
<1>3. /\ q[i] \notin failed
      /\ \A j \in 1 .. i - 1 : q[j].from = q[i].from => q[j].msg < q[i].msg
      /\ \A m \in 1 .. q[i].msg - 1 :
           \/ [from |-> q[i].from, msg |-> m] \in failed
           \/ \E j \in 1 .. i - 1 : q[j].from = q[i].from /\ q[j].msg = m
  BY <1>1 DEF InSequence
<1> QED
  BY <1>2, <1>3, Zenon

(* A call returns: its message is the next of its sender.                   *)
LEMMA CountsStep ==
  ASSUME Typed, Typed', NEW s \in Senders,
         Counts' = [Counts EXCEPT ![s] = @ + 1]
  PROVE  /\ \A u \in Senders : thread[u].count \in Nat
         /\ \A u \in Senders : u # s => thread'[u].count = thread[u].count
         /\ thread'[s].count = thread[s].count + 1
         /\ Counts'[s] = thread[s].count + 1
         /\ thread[s].count + 1 \in Nat
<1>1. \A u \in Senders : Counts'[u] = thread'[u].count
  BY DEF Counts
<1>2. \A u \in Senders : Counts'[u] = IF u = s THEN thread[s].count + 1
                                      ELSE thread[u].count
  BY DEF Counts
<1>3. \A u \in Senders : thread[u].count \in Nat
  BY DEF Typed, Threads
<1> QED
  BY <1>1, <1>2, <1>3

LEMMA TallySend ==
  ASSUME Typed, Typed', Tally, NEW s \in Senders, Queue!Send(s)
  PROVE  Tally'
<1> DEFINE c == thread[s].count + 1
           b == [from |-> s, msg |-> c]
           q == Queued
           z == Append(q, b)
           n == Len(q)
<1>1. /\ transport = "open" /\ Counts' = [Counts EXCEPT ![s] = @ + 1]
      /\ Delivered' = Delivered /\ failed' = failed
      /\ Underway' = Append(Underway, [from |-> s, msg |-> Counts'[s]])
  BY DEF Queue!Send, Underway, Delivered, Counts
<1>2. /\ \A u \in Senders : thread[u].count \in Nat
      /\ \A u \in Senders : u # s => thread'[u].count = thread[u].count
      /\ thread'[s].count = c /\ Counts'[s] = c /\ c \in Nat
  BY <1>1, CountsStep
<1>3. b \in Messaged /\ b.from = s /\ b.msg = c
  BY <1>2 DEF Messaged
<1>4. q \in Seq(Messaged) /\ n \in Nat
  BY QueuedType
<1>5. Queued' = z
  <2>1. Delivered \in Seq(Messaged) /\ Underway \in Seq(Messaged)
    BY UnderwayType
  <2>2. Queued' = Delivered \o Append(Underway, b)
    BY <1>1, <1>2 DEF Queued
  <2>3. /\ Append(Underway, b) = Underway \o <<b>>
        /\ Append(q, b) = q \o <<b>> /\ <<b>> \in Seq(Messaged)
    BY <1>3, <1>4, <2>1, AppendIsConcat
  <2>4. Delivered \o (Underway \o <<b>>) = (Delivered \o Underway) \o <<b>>
    <3>1. <<b>> \in Seq(Messaged)
      BY <2>3
    <3> HIDE DEF b
    <3> QED
      BY <2>1, <3>1, ConcatAssociative
  <2> HIDE DEF b
  <2> QED
    BY <2>2, <2>3, <2>4 DEF Queued
<1>6. /\ Len(z) = n + 1 /\ z[n + 1] = b
      /\ \A i \in 1..n : z[i] = q[i] /\ i \in 1 .. n + 1
      /\ \A i \in 1 .. n + 1 : i \in 1..n \/ i = n + 1
      /\ n + 1 \in 1 .. n + 1
  <2> HIDE DEF b, q
  <2> QED
    BY <1>3, <1>4
<1>7. InSequence(q) /\ Counted(q) /\ Tallied(q)
  BY <1>1 DEF Tally
<1>8. \A i \in 1..n : q[i].msg \in Nat /\ q[i].from \in Senders
  <2>1. \A i \in 1..n : q[i] \in Messaged
    <3> HIDE DEF q
    <3> QED
      BY <1>4
  <2> QED
    BY <2>1 DEF Messaged
<1>9. /\ \A i \in 1..n : q[i].msg <= thread[q[i].from].count
      /\ \A f \in failed : f.msg <= thread[f.from].count
      /\ \A f \in failed : f.from \in Senders /\ f.msg \in Nat
  <2>1. \A f \in failed : f.from \in Senders /\ f.msg \in 1..MaxMessages
    BY DEF Typed
  <2> QED
    BY <1>7, <2>1 DEF Counted
<1>10. \A i \in 1..n : q[i].from = s => q[i].msg < c
  <2>1. \A k, l \in Nat : k <= l => k < l + 1
    OBVIOUS
  <2> QED
    BY <1>2, <1>8, <1>9, <2>1
<1>11. b \notin failed
  <2>1. \A l \in Nat : ~(l + 1 <= l)
    OBVIOUS
  <2> QED
    BY <1>2, <1>3, <1>9, <2>1
<1>12. \A m \in 1 .. c - 1 : \/ [from |-> s, msg |-> m] \in failed
                             \/ \E i \in 1..n : q[i].from = s /\ q[i].msg = m
  <2>1. 1 .. c - 1 = 1 .. thread[s].count
    BY <1>2
  <2> HIDE DEF c
  <2> QED
    BY <1>7, <2>1 DEF Tallied
<1>13. InSequence(z)
  <2> SUFFICES ASSUME NEW i \in 1 .. n + 1
               PROVE  /\ z[i] \notin failed
                      /\ \A j \in 1 .. i - 1 :
                           z[j].from = z[i].from => z[j].msg < z[i].msg
                      /\ \A m \in 1 .. z[i].msg - 1 :
                           \/ [from |-> z[i].from, msg |-> m] \in failed
                           \/ \E j \in 1 .. i - 1 :
                                z[j].from = z[i].from /\ z[j].msg = m
    BY <1>6 DEF InSequence
  <2> HIDE DEF b, z, q, n
  <2>1. CASE i \in 1..n
    <3>1. \A j \in 1 .. i - 1 : j \in 1..n
      BY <1>4, <2>1
    <3>2. z[i] = q[i] /\ \A j \in 1 .. i - 1 : z[j] = q[j]
      BY <1>6, <2>1, <3>1
    <3>3. /\ q[i] \notin failed
          /\ \A j \in 1 .. i - 1 : q[j].from = q[i].from => q[j].msg < q[i].msg
          /\ \A m \in 1 .. q[i].msg - 1 :
               \/ [from |-> q[i].from, msg |-> m] \in failed
               \/ \E j \in 1 .. i - 1 : q[j].from = q[i].from /\ q[j].msg = m
      BY <1>7, <2>1 DEF InSequence, n
    <3> QED
      BY <3>2, <3>3, Zenon
  <2>2. CASE i = n + 1
    <3>1. /\ z[i] = b /\ z[i].from = s /\ z[i].msg = c
          /\ 1 .. i - 1 = 1..n /\ \A j \in 1..n : z[j] = q[j]
      BY <1>3, <1>4, <1>6, <2>2
    <3> HIDE DEF c
    <3> QED
      BY <3>1, <1>10, <1>11, <1>12
  <2> QED
    BY <1>6, <2>1, <2>2
<1>14. /\ \A i \in 1 .. n + 1 : z[i].msg <= thread'[z[i].from].count
       /\ \A f \in failed : f.msg <= thread'[f.from].count
  <2> HIDE DEF b, z, q, n
  <2>1. \A u \in Senders : \A k \in Nat :
          k <= thread[u].count => k <= thread'[u].count
    <3> HIDE DEF c
    <3>1. \A k \in Nat : k <= thread[s].count => k <= c
      BY <1>2 DEF c
    <3> QED
      BY <1>2, <3>1
  <2>2. \A i \in 1 .. n + 1 : z[i].msg <= thread'[z[i].from].count
    <3>1. \A i \in 1..n : z[i].msg <= thread'[z[i].from].count
      BY <1>6, <1>8, <1>9, <2>1
    <3>2. z[n + 1].msg <= thread'[z[n + 1].from].count
      <4>1. c <= c
        BY <1>2
      <4> HIDE DEF c
      <4> QED
        BY <4>1, <1>2, <1>3, <1>6
    <3> QED
      BY <1>6, <3>1, <3>2
  <2>3. \A f \in failed : f.msg <= thread'[f.from].count
    BY <1>9, <2>1
  <2> QED
    BY <2>2, <2>3
<1>15. \A u \in Senders : \A m \in 1 .. thread'[u].count :
         \/ [from |-> u, msg |-> m] \in failed
         \/ \E i \in 1 .. n + 1 : z[i].from = u /\ z[i].msg = m
  <2> SUFFICES ASSUME NEW u \in Senders, NEW m \in 1 .. thread'[u].count,
                      [from |-> u, msg |-> m] \notin failed
               PROVE  \E i \in 1 .. n + 1 : z[i].from = u /\ z[i].msg = m
    OBVIOUS
  <2> HIDE DEF b, z, q, n
  <2>1. CASE m \in 1 .. thread[u].count
    <3>1. \E i \in 1..n : q[i].from = u /\ q[i].msg = m
      BY <1>7, <2>1 DEF Tallied, n
    <3> QED
      BY <3>1, <1>6
  <2>2. CASE m \notin 1 .. thread[u].count
    <3>1. u = s
      BY <1>2, <2>2
    <3>2. m = c
      <4>1. m \in 1..c /\ m \notin 1 .. thread[s].count
        BY <1>2, <2>2, <3>1
      <4> QED
        BY <1>2, <4>1
    <3> QED
      BY <3>1, <3>2, <1>3, <1>6
  <2> QED
    BY <2>1, <2>2
<1> HIDE DEF b, z, q, n
<1>16. InSequence(Queued)' /\ Counted(Queued)' /\ Tallied(Queued)'
  <2>1. Len(z) = n + 1 /\ failed' = failed /\ Queued' = z
    BY <1>1, <1>5, <1>6
  <2> QED
    BY <2>1, <1>13, <1>14, <1>15 DEF InSequence, Counted, Tallied
<1> QED
  BY <1>16 DEF Tally

(* A call that fails is one more gap in the numbers, and nothing else.      *)
LEMMA TallyFail ==
  ASSUME Typed, Typed', Tally, NEW s \in Senders, Queue!Fail(s)
  PROVE  Tally'
<1> DEFINE c == thread[s].count + 1
           b == [from |-> s, msg |-> c]
           q == Queued
           n == Len(q)
<1>1. /\ transport' = transport /\ Counts' = [Counts EXCEPT ![s] = @ + 1]
      /\ Delivered' = Delivered /\ Underway' = Underway
      /\ failed' = failed \cup {[from |-> s, msg |-> Counts'[s]]}
  BY DEF Queue!Fail, Underway, Delivered, Counts
<1>2. /\ \A u \in Senders : thread[u].count \in Nat
      /\ \A u \in Senders : u # s => thread'[u].count = thread[u].count
      /\ thread'[s].count = c /\ Counts'[s] = c /\ c \in Nat
  BY <1>1, CountsStep
<1>3. /\ Queued' = q /\ failed' = failed \cup {b}
      /\ b.from = s /\ b.msg = c
  BY <1>1, <1>2 DEF Queued
<1>4. q \in Seq(Messaged) /\ n \in Nat
  BY QueuedType
<1>5. \A i \in 1..n : q[i].msg \in Nat /\ q[i].from \in Senders
  <2>1. \A i \in 1..n : q[i] \in Messaged
    <3> HIDE DEF q
    <3> QED
      BY <1>4
  <2> QED
    BY <2>1 DEF Messaged
<1>6. InSequence(q) /\ Counted(q)
  BY DEF Tally
<1>7. /\ \A i \in 1..n : q[i].msg <= thread[q[i].from].count
      /\ \A f \in failed : f.msg <= thread[f.from].count
      /\ \A f \in failed : f.from \in Senders /\ f.msg \in Nat
  <2>1. \A f \in failed : f.from \in Senders /\ f.msg \in 1..MaxMessages
    BY DEF Typed
  <2> QED
    BY <1>6, <2>1 DEF Counted
<1>8. \A i \in 1..n : q[i] # b
  <2>1. \A l \in Nat : ~(l + 1 <= l)
    OBVIOUS
  <2> QED
    BY <1>2, <1>3, <1>7, <2>1
<1>9. \A u \in Senders : \A k \in Nat :
        k <= thread[u].count => k <= thread'[u].count
  <2>1. \A k, l \in Nat : k <= l => k <= l + 1
    OBVIOUS
  <2> QED
    BY <1>2, <2>1
<1>10. InSequence(Queued)'
  <2> HIDE DEF b, q
  <2>1. \A i \in 1..n :
          /\ q[i] \notin failed
          /\ \A j \in 1 .. i - 1 : q[j].from = q[i].from => q[j].msg < q[i].msg
          /\ \A m \in 1 .. q[i].msg - 1 :
               \/ [from |-> q[i].from, msg |-> m] \in failed
               \/ \E j \in 1 .. i - 1 : q[j].from = q[i].from /\ q[j].msg = m
    BY <1>6 DEF InSequence
  <2>2. \A i \in 1..n : q[i] \notin failed'
    BY <1>3, <1>8, <2>1
  <2>3. \A x : x \in failed => x \in failed'
    BY <1>3
  <2>4. \A i \in 1..n :
          /\ q[i] \notin failed'
          /\ \A j \in 1 .. i - 1 : q[j].from = q[i].from => q[j].msg < q[i].msg
          /\ \A m \in 1 .. q[i].msg - 1 :
               \/ [from |-> q[i].from, msg |-> m] \in failed'
               \/ \E j \in 1 .. i - 1 : q[j].from = q[i].from /\ q[j].msg = m
    BY <2>1, <2>2, <2>3, Zenon
  <2>5. Queued' = q
    BY <1>3
  <2> QED
    BY <2>4, <2>5 DEF InSequence
<1>11. Counted(Queued)'
  <2> HIDE DEF q, c
  <2>1. \A i \in 1..n : q[i].msg <= thread'[q[i].from].count
    BY <1>5, <1>7, <1>9
  <2>2. \A f \in failed : f.msg <= thread'[f.from].count
    BY <1>7, <1>9
  <2>3. b.msg <= thread'[b.from].count
    BY <1>2, <1>3
  <2> HIDE DEF b
  <2> QED
    BY <1>3, <2>1, <2>2, <2>3 DEF Counted
<1>12. transport' = "open" => Tallied(Queued)'
  <2> SUFFICES ASSUME transport = "open", NEW u \in Senders,
                      NEW m \in 1 .. thread'[u].count,
                      [from |-> u, msg |-> m] \notin failed'
               PROVE  \E i \in 1..n : q[i].from = u /\ q[i].msg = m
    BY <1>1, <1>3 DEF Tallied
  <2>1. m \in 1 .. thread[u].count
    <3>1. CASE u = s
      <4>1. m # c
        BY <1>3, <3>1
      <4> QED
        BY <1>2, <3>1, <4>1
    <3>2. CASE u # s
      BY <1>2, <3>2
    <3> QED
      BY <3>1, <3>2
  <2>2. [from |-> u, msg |-> m] \notin failed
    BY <1>3
  <2> QED
    BY <2>1, <2>2 DEF Tally, Tallied
<1> QED
  BY <1>10, <1>11, <1>12 DEF Tally

LEMMA TallyStep ==
  ASSUME Typed, Typed', Tally, [Next]_vars
  PROVE  Tally'
<1>1. ASSUME NEW s \in Senders, Queue!Send(s) PROVE Tally'
  BY <1>1, TallySend
<1>2. ASSUME NEW s \in Senders, Queue!Fail(s) PROVE Tally'
  BY <1>2, TallyFail
<1>3. ASSUME Queued' = Queued, Counts' = Counts, failed' = failed,
             transport' = "open" => transport = "open"
      PROVE  Tally'
  <2>1. \A s \in Senders : thread'[s].count = thread[s].count
    BY <1>3 DEF Counts
  <2>2. /\ \A i \in 1..Len(Queued) : Queued[i].from \in Senders
        /\ \A f \in failed : f.from \in Senders
    <3>1. \A i \in 1..Len(Queued) : Queued[i] \in Messaged
      BY QueuedType
    <3> QED
      BY <3>1 DEF Messaged, Typed
  <2> QED
    BY <1>3, <2>1, <2>2 DEF Tally, InSequence, Counted, Tallied
<1>4. CASE Queue!Deliver
  <2>1. PICK n \in 1..Len(Underway) :
          /\ Delivered' = Delivered \o SubSeq(Underway, 1, n)
          /\ Underway' = SubSeq(Underway, n + 1, Len(Underway))
    BY <1>4 DEF Queue!Deliver, Underway, Delivered
  <2> DEFINE a == SubSeq(Underway, 1, n)
             b == SubSeq(Underway, n + 1, Len(Underway))
  <2>2. Delivered \in Seq(Messaged) /\ Underway \in Seq(Messaged)
    BY UnderwayType
  <2>3. a \in Seq(Messaged) /\ b \in Seq(Messaged) /\ a \o b = Underway
    BY <2>2, Divided
  <2>4. Queued' = Queued
    <3>1. Queued' = (Delivered \o a) \o b
      BY <2>1 DEF Queued
    <3>2. (Delivered \o a) \o b = Delivered \o (a \o b)
      <4>1. /\ Delivered \in Seq(Messaged) /\ a \in Seq(Messaged)
            /\ b \in Seq(Messaged)
        BY <2>2, <2>3
      <4> HIDE DEF a, b
      <4> QED
        BY <4>1, ConcatAssociative
    <3> QED
      BY <2>3, <3>1, <3>2 DEF Queued
  <2>5. transport' = transport /\ Counts' = Counts /\ failed' = failed
    BY <1>4 DEF Queue!Deliver, Counts
  <2> QED
    BY <1>3, <2>4, <2>5
<1>5. CASE UNCHANGED Queue!vars \/ Queue!Close
  <2>1. /\ Queued' = Queued /\ Counts' = Counts /\ failed' = failed
        /\ transport' = "open" => transport = "open"
    BY <1>5 DEF Queue!vars, Queue!Close, Queued, Delivered, Underway, Counts
  <2> QED
    BY <1>3, <2>1
<1>6. CASE Queue!Lose
  <2>1. /\ Underway' = <<>> /\ Delivered' = Delivered /\ transport' # "open"
        /\ Counts' = Counts /\ failed' = failed
    BY <1>6 DEF Queue!Lose, Delivered, Underway, Counts
  <2>2. Delivered \in Seq(Messaged)
    BY UnderwayType
  <2>3. Queued' = Delivered
    BY <2>1, <2>2, ConcatEmptySeq DEF Queued
  <2>4. InSequence(Delivered)
    <3>1. Len(Delivered) <= Len(Queued)
      BY QueuedType
    <3> QED
      BY <2>2, <3>1, QueuedType, FrontInSequence DEF Tally
  <2>5. Counted(Delivered)
    <3>1. /\ Counted(Queued)
          /\ \A i \in 1..Len(Delivered) :
               i \in 1..Len(Queued) /\ Queued[i] = Delivered[i]
      BY QueuedType DEF Tally
    <3> QED
      BY <3>1 DEF Counted
  <2>6. \A s \in Senders : thread'[s].count = thread[s].count
    BY <2>1 DEF Counts
  <2>7. /\ \A i \in 1..Len(Delivered) : Delivered[i].from \in Senders
        /\ \A f \in failed : f.from \in Senders
    <3>1. \A i \in 1..Len(Delivered) : Delivered[i] \in Messaged
      BY <2>2
    <3> QED
      BY <3>1 DEF Messaged, Typed
  <2> QED
    BY <2>1, <2>3, <2>4, <2>5, <2>6, <2>7 DEF Tally, InSequence, Counted
<1> QED
  BY <1>1, <1>2, <1>4, <1>5, <1>6, QueueStep DEF Queue!Next

(* The ends of every sender's messages are received in the order of         *)
(* sending, none of them twice, and the only ones left out in between are   *)
(* those whose call returned an error, which never arrive: whatever other   *)
(* threads send at once, however send() and recv() divide the bytes, and    *)
(* wherever a disconnect cuts them.  With one sender the bytes of each      *)
(* message are all in front of its end (OneSenderFrames).                   *)
THEOREM DeliveredInSequence == Spec => []InSequence(Whole(arrived))
<1>1. Typed /\ Init => Tally
  <2> SUFFICES ASSUME Typed, Init PROVE Tally
    OBVIOUS
  <2>1. Queued = <<>>
    <3>1. got = <<>> /\ wire = <<>> /\ arrived = <<>> /\ <<>> \o <<>> = <<>>
      BY DEF Init
    <3> QED
      BY <3>1, WholeEmpty DEF Queued, Delivered, Underway
  <2>2. /\ Len(Queued) = 0 /\ failed = {}
        /\ \A s \in Senders : thread[s].count = 0
    BY <2>1 DEF Init
  <2> QED
    BY <2>2 DEF Tally, Tallied, Counted, InSequence
<1>2. Typed /\ Typed' /\ Tally /\ [Next]_vars => Tally'
  BY TallyStep
<1>3. Typed /\ Tally => InSequence(Whole(arrived))
  <2> SUFFICES ASSUME Typed, Tally PROVE InSequence(Delivered)
    BY DEF Delivered
  <2>1. Delivered \in Seq(Messaged)
    BY UnderwayType
  <2>2. Len(Delivered) <= Len(Queued)
    BY QueuedType
  <2> QED
    BY <2>1, <2>2, QueuedType, FrontInSequence DEF Tally
<1> QED
  BY <1>1, <1>2, <1>3, TypedInit, TypedStep, PTL DEF Spec
=============================================================================
