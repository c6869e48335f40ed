-------------------------- MODULE ClientPicturesProofs --------------------------
(***************************************************************************)
(* What an update does on its way from the server to the callback, for     *)
(* every screen, buffer and application: no rectangle is refused, both     *)
(* ends stay in step, an application that waits is never stuck, and the    *)
(* finished framebuffer shows what the server sent.                        *)
(***************************************************************************)
EXTENDS ClientUpdatesProofs, WellFoundedInduction

-----------------------------------------------------------------------------
(* The invariants.  What the server has sent and the client not yet taken,  *)
(* in order; and whether the client is in the middle of an update.          *)
Stream == toClient \o sending

InUpdate == pc = "rects" \/ (pc = "callback" /\ then = "rects")

Stopped == pc \in {"refused", "unsupported", "garbled"}

(* A rectangle of pixels, in whatever encoding.                             *)
Pixels(e) == Encoding(e.header) \notin {Cursor, DesktopSize}

(* Types and sizes.  Every rectangle carries what its header says.          *)
Sound(e) ==
  /\ e.kind \in {"bell", "update", "rect"}
  /\ e.kind = "update" => /\ e.update.left \in Nat
                          /\ DOMAIN e.update = {"left", "shows", "stale"}
  /\ e.kind = "rect" =>
       LET r == Rect(e.header)
           encoding == Encoding(e.header)
       IN /\ r.x \in Nat /\ r.y \in Nat /\ r.width \in Nat /\ r.height \in Nat
          /\ Pixels(e) => e.pixels \in [Points(r) -> Colours]
          /\ encoding = DesktopSize => <<r.width, r.height>> \in Sizes

SizeOf(s) == <<s.width, s.height>>

(* From a framebuffer of size g, the client goes on to size h with e, and   *)
(* if e has pixels they lie inside.                                         *)
Sized(g, e, h) ==
  LET r == Rect(e.header)
  IN IF e.kind = "rect" /\ Encoding(e.header) = DesktopSize THEN h = SizeOf(r)
     ELSE /\ h = g
          /\ e.kind = "rect" /\ Pixels(e)
               => r.x + r.width <= g[1] /\ r.y + r.height <= g[2]

(* G[i] is the size after i items of the stream: the last one is what the   *)
(* server last told, and the client has the right one when an update ends.  *)
Sizing(G) ==
  LET n == Len(Stream)
  IN /\ G[0] = SizeOf(fb)
     /\ \A i \in 1..n : Sized(G[i - 1], Stream[i], G[i])
     /\ G[n] = server.told
     /\ \A i \in 1..n : Stream[i].kind = "update" =>
          LET u == Stream[i].update
          IN i + u.left <= n /\ G[i + u.left] = SizeOf(u.shows)
     /\ InUpdate => update.left <= n /\ G[update.left] = SizeOf(update.shows)

Flowing == Sequence(toClient) /\ Sequence(sending)

Typed(q) == \A i \in 1 .. Len(q) : q[i].types \subseteq S32

ScreenOK == /\ SizeOf(screen) \in Sizes
            /\ screen.pixels \in [Points(screen) -> Colours]

Shaped ==
  /\ TypeOK /\ pc # "refused" /\ ScreenOK /\ Flowing
  /\ DOMAIN screen = {"width", "height", "pixels"}
  /\ DOMAIN update = {"left", "shows", "stale"}
  /\ DOMAIN server = {"format", "encodings", "listed", "asked", "dirty",
                      "told", "resized", "inStep"}
  /\ server.resized \in BOOLEAN
  /\ server.told \in Sizes
  /\ ~server.resized => server.told = SizeOf(screen)
  /\ server.encodings \subseteq S32 /\ Typed(toServer)

Fitting ==
  /\ Shaped
  /\ \A i \in 1..Len(Stream) : Sound(Stream[i])
  /\ \E G : Sizing(G)

(* Encodings.  Whatever a rectangle comes in, the application once asked    *)
(* for, or is Raw.                                                          *)
Known ==
  /\ \A i \in 1..Len(Stream) : Stream[i].kind = "rect" =>
       Encoding(Stream[i].header) \in Implemented \cup server.listed
  /\ server.encodings \subseteq server.listed
  /\ pc = "unsupported" => ~(server.listed \subseteq Implemented)

(* Who waits for whom, with an application of Patient: its request is still *)
(* to be made, on its way, heard, or answered, and only one of these.       *)
IsRequest(m) == m.bytes[1] = 3

Answering == \/ InUpdate
             \/ \E i \in 1..Len(Stream) : Stream[i].kind # "bell"

Waiting ==
  /\ todo # <<>> => /\ AsksLast(todo) /\ pc = "callback"
                    /\ Len(toServer) + Len(todo) <= Buffer
                    /\ \A i \in 1..Len(toServer) : ~IsRequest(toServer[i])
                    /\ server.asked = {} /\ ~Answering
  /\ \A i \in 1..Len(toServer) : IsRequest(toServer[i]) =>
       i = Len(toServer) /\ server.asked = {} /\ ~Answering
  /\ server.asked # {} => toServer = <<>> /\ ~Answering
  /\ Answering => toServer = <<>>
  /\ pc = "callback" => then = "message"

(* Every rectangle under way belongs to an update.                          *)
Belongs(i) ==
  \/ InUpdate /\ i <= update.left
  \/ \E k \in 1 .. i - 1 : /\ Stream[k].kind = "update"
                           /\ i <= k + Stream[k].update.left

Alone == \A i, k \in 1..Len(Stream) :
           /\ Stream[i].kind = "update" => ~InUpdate
           /\ Stream[i].kind = "update" /\ Stream[k].kind = "update" => i = k

Idling == pc # "callback" => todo = <<>>

Belonging ==
  ~Stopped => \A i \in 1..Len(Stream) : Stream[i].kind = "rect" => Belongs(i)

Phases == /\ Idling /\ Belonging
          /\ app \in Patient => Waiting /\ (~Stopped => Alone)

(* In step: every rectangle under way is in the client's format and of the  *)
(* length the client expects.                                               *)
Measured(e, f) ==
  LET r == Rect(e.header)
      pixels == r.width * r.height * BytesPerPixel(f)
  IN /\ e.format = f
     /\ Encoding(e.header) = Raw => e.bytes = pixels
     /\ Encoding(e.header) = Cursor => e.bytes = pixels + MaskBytes(r)

Exact(e) == e.kind = "rect" => Measured(e, fb.format)

Counted(m) == m.bytes[1] = 2 => ReadU16(m.bytes, 3) = m.entries

(* The server hears of the client's format before it is asked anything.     *)
ToldFirst ==
  \/ server.format = fb.format /\ \A i \in 1..Len(toServer) : ~Sets(toServer[i])
  \/ /\ server.asked = {}
     /\ \E k \in 1..Len(toServer) :
          /\ Sets(toServer[k]) /\ FormatFromWire(toServer[k].bytes, 5) = fb.format
          /\ \A j \in k + 1 .. Len(toServer) : ~Sets(toServer[j])
          /\ \A j \in 1 .. k - 1 : ~IsRequest(toServer[j])

(* What the application may do next, wherever it is called from.            *)
Disciplined(calls) ==
  /\ \A i \in 1..Len(calls) :
       calls[i].call = "set_encodings" => CountFits(calls[i].list)
  /\ app \notin Patient => ~Reformats(calls)

Matched ==
  /\ InStep
  /\ \A i \in 1..Len(Stream) : Exact(Stream[i])
  /\ \A i \in 1..Len(toServer) : Counted(toServer[i])
  /\ ToldFirst
  /\ Disciplined(todo)

(* Pictures.  P[i] is what is certain of the framebuffer after i items of   *)
(* the stream, a partial function from places to colours.                   *)
Paints(f, e, g) ==
  LET r == Rect(e.header)
  IN \A p \in DOMAIN g :
       IF e.kind = "rect" /\ Pixels(e) /\ Covers(r, p[1], p[2])
       THEN g[p] = e.pixels[<<p[1] - r.x, p[2] - r.y>>]
       ELSE /\ ~(e.kind = "rect" /\ Encoding(e.header) = DesktopSize)
            /\ p \in DOMAIN f /\ g[p] = f[p]

Certain(f, places, s) ==
  \A p \in places : p \in DOMAIN f /\ f[p] = s.pixels[p]

(* A whole picture has still to be asked for, or heard to be asked for,     *)
(* after a change of format.                                                *)
Owed ==
  /\ app \in Patient
  /\ \/ todo # <<>> /\ Low(todo[Len(todo)].incremental) = 0
     \/ \E i \in 1..Len(toServer) :
          toServer[i].bytes = UpdateRequestMessage(0, fb.width, fb.height)

Painting(P) ==
  LET n == Len(Stream)
  IN /\ \A i \in 0..n : DOMAIN P[i] \subseteq Nat \X Nat
     /\ \A p \in DOMAIN P[0] :
          p \in Points(fb) /\ At(p[1], p[2]) = P[0][p]
     /\ \A i \in 1..n : Paints(P[i - 1], Stream[i], P[i])
     /\ Owed \/ Certain(P[n], Points(screen) \ server.dirty, screen)
     /\ \A i \in 1..n : Stream[i].kind = "update" =>
          LET u == Stream[i].update
          IN Certain(P[i + u.left], Points(u.shows) \ u.stale, u.shows)
     /\ InUpdate =>
          Certain(P[update.left], Points(update.shows) \ update.stale,
                  update.shows)

Settled == server.resized => server.dirty = Points(screen)

AsksAll(calls) == Reformats(calls) => Low(calls[Len(calls)].incremental) = 0

(* Between two updates, and when the update under way is over, the sizes    *)
(* agree, or a resize is to come.                                           *)
Current ==
  app \in Patient /\ ~server.resized =>
    /\ ~Answering => SizeOf(fb) = SizeOf(screen)
    /\ InUpdate => SizeOf(update.shows) = SizeOf(screen)
    /\ \A i \in 1..Len(Stream) : Stream[i].kind = "update" =>
         SizeOf(Stream[i].update.shows) = SizeOf(screen)

Painted == Settled /\ AsksAll(todo) /\ Current /\ \E P : Painting(P)

-----------------------------------------------------------------------------
(* The stream as a sequence.                                                *)

LEMMA Joined ==
  ASSUME NEW p, NEW q, Sequence(p), Sequence(q)
  PROVE  /\ Sequence(p \o q) /\ Len(p) \in Nat /\ Len(q) \in Nat
         /\ Len(p \o q) = Len(p) + Len(q)
         /\ \A i \in 1 .. Len(p) : (p \o q)[i] = p[i]
         /\ \A i \in 1 .. Len(q) : (p \o q)[Len(p) + i] = q[i]
<1>1. PICK S, T : p \in Seq(S) /\ q \in Seq(T)
  BY DEF Sequence
<1> DEFINE U == S \cup T
<1>2. p \in Seq(U) /\ q \in Seq(U)
  BY <1>1, SeqMonotonic
<1> HIDE DEF U
<1>3. /\ p \o q \in Seq(U) /\ Len(p \o q) = Len(p) + Len(q)
      /\ \A i \in 1 .. Len(p) + Len(q) :
           (p \o q)[i] = IF i <= Len(p) THEN p[i] ELSE q[i - Len(p)]
  BY <1>2, ConcatProperties
<1>4. Len(p) \in Nat /\ Len(q) \in Nat
  BY <1>2
<1>5. \A i \in 1 .. Len(p) : i \in 1 .. Len(p) + Len(q) /\ i <= Len(p)
  BY <1>4
<1>6. \A i \in 1 .. Len(q) : /\ Len(p) + i \in 1 .. Len(p) + Len(q)
                             /\ ~(Len(p) + i <= Len(p))
                             /\ Len(p) + i - Len(p) = i
  BY <1>4
<1> QED
  BY <1>3, <1>4, <1>5, <1>6 DEF Sequence

LEMMA Singleton ==
  ASSUME NEW e
  PROVE  Sequence(<<e>>) /\ Len(<<e>>) = 1 /\ <<e>>[1] = e
<1>1. <<e>> \in Seq({e})
  OBVIOUS
<1> QED
  BY <1>1 DEF Sequence

LEMMA EmptySequence == Sequence(<<>>) /\ Len(<<>>) = 0
<1>1. <<>> \in Seq({})
  OBVIOUS
<1> QED
  BY <1>1 DEF Sequence

LEMMA SameSequence ==
  ASSUME NEW p, NEW q, Sequence(p), Sequence(q), Len(p) = Len(q),
         \A i \in 1 .. Len(p) : p[i] = q[i]
  PROVE  p = q
<1>1. PICK S, T : p \in Seq(S) /\ q \in Seq(T)
  BY DEF Sequence
<1> DEFINE U == S \cup T
<1>2. p \in Seq(U) /\ q \in Seq(U)
  BY <1>1, SeqMonotonic
<1> HIDE DEF U
<1> QED
  BY <1>2, SeqEqual

LEMMA StreamKept ==
  ASSUME UNCHANGED <<toClient, sending>>
  PROVE  Stream' = Stream
BY DEF Stream

(* The client takes an item.                                                *)
LEMMA StreamTaken ==
  ASSUME Flowing, toClient # <<>>, toClient' = Tail(toClient),
         sending' = sending
  PROVE  /\ Flowing' /\ Len(Stream) \in Nat /\ Len(Stream) > 0
         /\ Len(toClient') <= Len(toClient)
         /\ Stream[1] = Head(toClient) /\ Len(Stream') = Len(Stream) - 1
         /\ \A i \in 1 .. Len(Stream) - 1 : Stream'[i] = Stream[i + 1]
<1>1. /\ Sequence(toClient') /\ Len(toClient') = Len(toClient) - 1
      /\ Head(toClient) = toClient[1] /\ Len(toClient) \in Nat
      /\ Len(toClient) > 0 /\ Len(sending) \in Nat
      /\ \A i \in 1 .. Len(toClient) - 1 : toClient'[i] = toClient[i + 1]
  BY Sequences DEF Flowing
<1>2. /\ Len(Stream) = Len(toClient) + Len(sending)
      /\ \A i \in 1 .. Len(toClient) : Stream[i] = toClient[i]
      /\ \A i \in 1 .. Len(sending) : Stream[Len(toClient) + i] = sending[i]
  BY Joined DEF Flowing, Stream
<1>3. /\ Len(Stream') = Len(toClient') + Len(sending)
      /\ \A i \in 1 .. Len(toClient') : Stream'[i] = toClient'[i]
      /\ \A i \in 1 .. Len(sending) : Stream'[Len(toClient') + i] = sending[i]
  BY <1>1, Joined DEF Flowing, Stream
<1>4. ASSUME NEW i \in 1 .. Len(Stream) - 1
      PROVE  Stream'[i] = Stream[i + 1]
  <2>1. CASE i <= Len(toClient) - 1
    <3>1. i \in 1 .. Len(toClient') /\ i + 1 \in 1 .. Len(toClient)
      BY <1>1, <2>1
    <3> QED
      BY <1>1, <1>2, <1>3, <3>1
  <2>2. CASE i > Len(toClient) - 1
    <3> DEFINE k == i - (Len(toClient) - 1)
    <3>1. k \in 1 .. Len(sending) /\ i = Len(toClient) - 1 + k
      BY <1>1, <1>2, <2>2
    <3> HIDE DEF k
    <3>2. Stream'[i] = sending[k]
      BY <1>1, <1>3, <3>1
    <3>3. i + 1 = Len(toClient) + k
      BY <1>1, <3>1
    <3> QED
      BY <1>2, <3>1, <3>2, <3>3
  <2> QED
    BY <1>1, <2>1, <2>2
<1>5. 1 \in 1 .. Len(toClient) /\ Len(Stream) > 0 /\ Len(Stream) \in Nat
  BY <1>1, <1>2
<1> QED
  BY <1>1, <1>2, <1>3, <1>4, <1>5 DEF Flowing

(* The server writes the next item: it stays where it is in the stream.     *)
LEMMA StreamWritten ==
  ASSUME Flowing, ServerWrites
  PROVE  Flowing' /\ Stream' = Stream /\ Len(toClient') = Len(toClient) + 1
<1>1. /\ sending # <<>> /\ toClient' = Append(toClient, Head(sending))
      /\ sending' = Tail(sending)
  BY DEF ServerWrites
<1>2. /\ Sequence(toClient') /\ Len(toClient') = Len(toClient) + 1
      /\ toClient'[Len(toClient) + 1] = sending[1]
      /\ \A i \in 1 .. Len(toClient) : toClient'[i] = toClient[i]
  BY <1>1, Sequences DEF Flowing
<1>3. /\ Sequence(sending') /\ Len(sending') = Len(sending) - 1
      /\ Len(sending) \in Nat /\ Len(sending) > 0 /\ Len(toClient) \in Nat
      /\ \A i \in 1 .. Len(sending) - 1 : sending'[i] = sending[i + 1]
  BY <1>1, Sequences DEF Flowing
<1>4. /\ Sequence(Stream) /\ Len(Stream) = Len(toClient) + Len(sending)
      /\ \A i \in 1 .. Len(toClient) : Stream[i] = toClient[i]
      /\ \A i \in 1 .. Len(sending) : Stream[Len(toClient) + i] = sending[i]
  BY Joined DEF Flowing, Stream
<1>5. /\ Sequence(Stream') /\ Len(Stream') = Len(toClient') + Len(sending')
      /\ \A i \in 1 .. Len(toClient') : Stream'[i] = toClient'[i]
      /\ \A i \in 1 .. Len(sending') : Stream'[Len(toClient') + i] = sending'[i]
  <2>1. Sequence(toClient') /\ Sequence(sending')
    BY <1>2, <1>3
  <2> QED
    BY <2>1, Joined DEF Stream
<1>6. Len(Stream') = Len(Stream)
  BY <1>2, <1>3, <1>4, <1>5
<1>7. ASSUME NEW i \in 1 .. Len(Stream)
      PROVE  Stream'[i] = Stream[i]
  <2>1. CASE i <= Len(toClient)
    <3>1. i \in 1 .. Len(toClient) /\ i \in 1 .. Len(toClient')
      BY <1>2, <1>3, <2>1
    <3> QED
      BY <1>2, <1>4, <1>5, <3>1
  <2>2. CASE i = Len(toClient) + 1
    <3>1. i \in 1 .. Len(toClient') /\ 1 \in 1 .. Len(sending)
      BY <1>2, <1>3, <2>2
    <3>2. Stream[i] = sending[1]
      BY <1>4, <2>2, <3>1
    <3> QED
      BY <1>2, <1>5, <2>2, <3>1, <3>2
  <2>3. CASE i > Len(toClient) + 1
    <3> DEFINE k == i - (Len(toClient) + 1)
    <3>1. k \in 1 .. Len(sending) - 1 /\ i = Len(toClient) + 1 + k
      BY <1>3, <1>4, <2>3
    <3> HIDE DEF k
    <3>2. k \in 1 .. Len(sending') /\ i = Len(toClient') + k
      BY <1>2, <1>3, <3>1
    <3>3. k + 1 \in 1 .. Len(sending) /\ i = Len(toClient) + (k + 1)
      BY <1>3, <3>1
    <3>4. Stream[i] = sending[k + 1]
      BY <1>4, <3>3
    <3>5. Stream'[i] = sending'[k]
      BY <1>5, <3>2
    <3> QED
      BY <1>3, <3>1, <3>4, <3>5
  <2> QED
    BY <1>3, <1>4, <2>1, <2>2, <2>3
<1>8. Stream' = Stream
  BY <1>4, <1>5, <1>6, <1>7, SameSequence
<1> QED
  BY <1>2, <1>3, <1>8 DEF Flowing

(* The server begins to write something.                                    *)
LEMMA StreamGrown ==
  ASSUME Flowing, sending = <<>>, Sequence(sending'), toClient' = toClient
  PROVE  /\ Flowing' /\ Len(Stream) \in Nat /\ Len(sending') \in Nat
         /\ Len(Stream') = Len(Stream) + Len(sending')
         /\ \A i \in 1 .. Len(Stream) : Stream'[i] = Stream[i]
         /\ \A i \in 1 .. Len(sending') : Stream'[Len(Stream) + i] = sending'[i]
<1>1. /\ Len(Stream) = Len(toClient) /\ Len(toClient) \in Nat
      /\ \A i \in 1 .. Len(toClient) : Stream[i] = toClient[i]
  BY Joined, EmptySequence DEF Flowing, Stream
<1>2. /\ Len(Stream') = Len(toClient) + Len(sending') /\ Len(sending') \in Nat
      /\ \A i \in 1 .. Len(toClient) : Stream'[i] = toClient[i]
      /\ \A i \in 1 .. Len(sending') : Stream'[Len(toClient) + i] = sending'[i]
  BY Joined DEF Flowing, Stream
<1>3. Flowing'
  BY DEF Flowing
<1>4. /\ \A i \in 1 .. Len(Stream) : Stream'[i] = Stream[i]
      /\ \A i \in 1 .. Len(sending') : Stream'[Len(Stream) + i] = sending'[i]
  BY <1>1, <1>2, Zenon
<1>5. /\ Len(Stream) \in Nat /\ Len(sending') \in Nat
      /\ Len(Stream') = Len(Stream) + Len(sending')
  BY <1>1, <1>2, Zenon
<1> QED
  BY <1>3, <1>4, <1>5, Zenon

-----------------------------------------------------------------------------
(* What the server sends.                                                   *)

LEMMA U16Values ==
  ASSUME NEW v \in U16
  PROVE  v \in Nat /\ v \in Int /\ Within(v, 0, 65535)
BY SMTT(60) DEF U16, Within

LEMMA U16Below ==
  ASSUME NEW v \in U16, NEW u \in Nat, u <= v
  PROVE  u \in U16
<1> DEFINE max == 65536 - 1
<1>1. U16 = 0 .. max /\ max \in Int
  BY DEF U16
<1> HIDE DEF max
<1>2. v \in 0 .. max
  BY <1>1
<1>3. u \in 0 .. max
  BY <1>1, <1>2, SMT
<1> QED
  BY <1>1, <1>3

LEMMA PairAdded ==
  ASSUME NEW q, Sequence(q), NEW a, NEW b
  PROVE  /\ Sequence(q \o <<a, b>>) /\ Len(q) \in Nat
         /\ Len(q \o <<a, b>>) = Len(q) + 2
         /\ \A i \in 1 .. Len(q) : (q \o <<a, b>>)[i] = q[i]
         /\ (q \o <<a, b>>)[Len(q) + 1] = a
         /\ (q \o <<a, b>>)[Len(q) + 2] = b
<1> DEFINE r == <<a, b>>
<1>1. r \in Seq({a, b}) /\ Len(r) = 2 /\ r[1] = a /\ r[2] = b
  OBVIOUS
<1>2. Sequence(r)
  BY <1>1 DEF Sequence
<1> HIDE DEF r
<1>3. /\ Sequence(q \o r) /\ Len(q) \in Nat /\ Len(q \o r) = Len(q) + Len(r)
      /\ \A i \in 1 .. Len(q) : (q \o r)[i] = q[i]
      /\ \A i \in 1 .. Len(r) : (q \o r)[Len(q) + i] = r[i]
  BY <1>2, Joined
<1>4. Len(r) = 2 /\ r[1] = a /\ r[2] = b
  BY <1>1
<1>5. /\ Sequence(q \o r) /\ Len(q) \in Nat /\ Len(q \o r) = Len(q) + 2
      /\ \A i \in 1 .. Len(q) : (q \o r)[i] = q[i]
      /\ (q \o r)[Len(q) + 1] = a /\ (q \o r)[Len(q) + 2] = b
  BY <1>3, <1>4
<1> QED
  BY <1>5 DEF r

LEMMA FourAdded ==
  ASSUME NEW q, Sequence(q), NEW a, NEW b, NEW c, NEW d
  PROVE  /\ \A i \in 1 .. Len(q) : (q \o <<a, b, c, d>>)[i] = q[i]
         /\ (q \o <<a, b, c, d>>)[Len(q) + 1] = a
         /\ (q \o <<a, b, c, d>>)[Len(q) + 2] = b
         /\ (q \o <<a, b, c, d>>)[Len(q) + 3] = c
         /\ (q \o <<a, b, c, d>>)[Len(q) + 4] = d
<1> DEFINE r == <<a, b, c, d>>
<1>1. /\ r \in Seq({a, b, c, d}) /\ Len(r) = 4
      /\ r[1] = a /\ r[2] = b /\ r[3] = c /\ r[4] = d
  OBVIOUS
<1>2. Sequence(r)
  BY <1>1 DEF Sequence
<1> HIDE DEF r
<1>3. /\ \A i \in 1 .. Len(q) : (q \o r)[i] = q[i]
      /\ \A i \in 1 .. Len(r) : (q \o r)[Len(q) + i] = r[i]
  BY <1>2, Joined
<1>4. Len(r) = 4 /\ r[1] = a /\ r[2] = b /\ r[3] = c /\ r[4] = d
  BY <1>1
<1>5. /\ \A i \in 1 .. Len(q) : (q \o r)[i] = q[i]
      /\ (q \o r)[Len(q) + 1] = a /\ (q \o r)[Len(q) + 2] = b
      /\ (q \o r)[Len(q) + 3] = c /\ (q \o r)[Len(q) + 4] = d
  BY <1>3, <1>4
<1> QED
  BY <1>5 DEF r

(* The twelve bytes of a header.                                            *)
LEMMA TwelveBytes ==
  ASSUME NEW a, NEW b, NEW c, NEW d, NEW e, NEW f, NEW g, NEW h,
         NEW i, NEW j, NEW k, NEW l
  PROVE  LET q == <<a, b>> \o <<c, d>> \o <<e, f>> \o <<g, h>>
                  \o <<i, j, k, l>>
         IN /\ q[1] = a /\ q[2] = b /\ q[3] = c /\ q[4] = d
            /\ q[5] = e /\ q[6] = f /\ q[7] = g /\ q[8] = h
            /\ q[9] = i /\ q[10] = j /\ q[11] = k /\ q[12] = l
<1> DEFINE two == <<a, b>>
           four == two \o <<c, d>>
           six == four \o <<e, f>>
           eight == six \o <<g, h>>
           q == eight \o <<i, j, k, l>>
<1>1. /\ two \in Seq({a, b}) /\ Len(two) = 2 /\ two[1] = a /\ two[2] = b
  OBVIOUS
<1>2. Sequence(two)
  BY <1>1 DEF Sequence
<1>3. Len(two) = 2 /\ two[1] = a /\ two[2] = b
  BY <1>1
<1> HIDE DEF two
<1>5. /\ Sequence(four) /\ Len(four) = Len(two) + 2
      /\ \A n \in 1 .. Len(two) : four[n] = two[n]
      /\ four[Len(two) + 1] = c /\ four[Len(two) + 2] = d
  BY <1>2, PairAdded
<1>6. Sequence(four)
  BY <1>5
<1>7. /\ Len(four) = 4 /\ four[1] = a /\ four[2] = b
      /\ four[3] = c /\ four[4] = d
  <2> HIDE DEF four
  <2> QED
    BY <1>3, <1>5
<1> HIDE DEF four
<1>8. /\ Sequence(six) /\ Len(six) = Len(four) + 2
      /\ \A n \in 1 .. Len(four) : six[n] = four[n]
      /\ six[Len(four) + 1] = e /\ six[Len(four) + 2] = f
  BY <1>6, PairAdded
<1>9. Sequence(six)
  BY <1>8
<1>10. /\ Len(six) = 6 /\ six[1] = a /\ six[2] = b /\ six[3] = c
       /\ six[4] = d /\ six[5] = e /\ six[6] = f
  <2> HIDE DEF six
  <2> QED
    BY <1>7, <1>8
<1> HIDE DEF six
<1>11. /\ Sequence(eight) /\ Len(eight) = Len(six) + 2
       /\ \A n \in 1 .. Len(six) : eight[n] = six[n]
       /\ eight[Len(six) + 1] = g /\ eight[Len(six) + 2] = h
  BY <1>9, PairAdded
<1>12. Sequence(eight)
  BY <1>11
<1>13. /\ Len(eight) = 8 /\ eight[1] = a /\ eight[2] = b /\ eight[3] = c
       /\ eight[4] = d /\ eight[5] = e /\ eight[6] = f
       /\ eight[7] = g /\ eight[8] = h
  <2> HIDE DEF eight
  <2> QED
    BY <1>10, <1>11
<1> HIDE DEF eight
<1>14. /\ \A n \in 1 .. Len(eight) : q[n] = eight[n]
       /\ q[Len(eight) + 1] = i /\ q[Len(eight) + 2] = j
       /\ q[Len(eight) + 3] = k /\ q[Len(eight) + 4] = l
  BY <1>12, FourAdded
<1> HIDE DEF eight, q
<1>15. /\ q[1] = a /\ q[2] = b /\ q[3] = c /\ q[4] = d
       /\ q[5] = e /\ q[6] = f /\ q[7] = g /\ q[8] = h
       /\ q[9] = i /\ q[10] = j /\ q[11] = k /\ q[12] = l
  BY <1>13, <1>14
<1> QED
  BY <1>15 DEF q, eight, six, four, two

Header(x, y, w, h, encoding) ==
  WriteU16(x) \o WriteU16(y) \o WriteU16(w) \o WriteU16(h)
  \o WriteU32(encoding)

LEMMA RectRead ==
  ASSUME NEW q
  PROVE  Rect(q) = [x |-> q[1] * 256 + q[2], y |-> q[3] * 256 + q[4],
                    width |-> q[5] * 256 + q[6],
                    height |-> q[7] * 256 + q[8]]
BY DEF Rect, ReadU16

LEMMA EncodingRead ==
  ASSUME NEW q, NEW r,
         q[9] = r[1], q[10] = r[2], q[11] = r[3], q[12] = r[4]
  PROVE  Encoding(q) = ReadS32(r, 1)
BY DEF Encoding, ReadS32, Assembled

(* The client reads from a header what the server wrote.                    *)
LEMMA HeaderRead ==
  ASSUME NEW x \in U16, NEW y \in U16, NEW w \in U16, NEW h \in U16,
         NEW e \in S32
  PROVE  LET header == Header(x, y, w, h, e)
         IN /\ Rect(header) = [x |-> x, y |-> y, width |-> w, height |-> h]
            /\ Encoding(header) = e
<1>1. \A v \in U16 : High(v) * 256 + Low(v) = v
  BY U16Values, LowHigh DEF Within
<1> DEFINE t == e \div 65536
           header == Header(x, y, w, h, e)
<1>2. header = <<High(x), Low(x)>> \o <<High(y), Low(y)>>
               \o <<High(w), Low(w)>> \o <<High(h), Low(h)>>
               \o <<High(t), Low(t), High(e), Low(e)>>
  BY DEF Header, WriteU16, WriteU32
<1> HIDE DEF t, header
<1>3. /\ header[1] = High(x) /\ header[2] = Low(x)
      /\ header[3] = High(y) /\ header[4] = Low(y)
      /\ header[5] = High(w) /\ header[6] = Low(w)
      /\ header[7] = High(h) /\ header[8] = Low(h)
      /\ header[9] = High(t) /\ header[10] = Low(t)
      /\ header[11] = High(e) /\ header[12] = Low(e)
  BY <1>2, TwelveBytes
<1>4. Rect(header) = [x |-> x, y |-> y, width |-> w, height |-> h]
  <2>1. /\ header[1] * 256 + header[2] = x /\ header[3] * 256 + header[4] = y
        /\ header[5] * 256 + header[6] = w /\ header[7] * 256 + header[8] = h
    BY <1>1, <1>3
  <2> QED
    BY <2>1, RectRead
<1>5. Encoding(header) = ReadS32(WriteU32(e), 1)
  <2> DEFINE q == <<High(t), Low(t), High(e), Low(e)>>
  <2>1. /\ q[1] = header[9] /\ q[2] = header[10]
        /\ q[3] = header[11] /\ q[4] = header[12]
    BY <1>3
  <2>2. q = WriteU32(e)
    BY DEF WriteU32, t
  <2> HIDE DEF q
  <2>3. Encoding(header) = ReadS32(q, 1)
    BY <2>1, EncodingRead
  <2> QED
    BY <2>2, <2>3
<1>6. e \in Int /\ Within(e \div 65536, -32768, 32767)
  BY S32Half
<1>7. ReadS32(WriteU32(e), 1) = e
  BY <1>6, FourBytesRoundTrip
<1> QED
  BY <1>4, <1>5, <1>7 DEF header

LEMMA OwnTypes == Raw \in S32 /\ Cursor \in S32 /\ DesktopSize \in S32
BY SMT DEF S32, S16, Raw, Cursor, DesktopSize

LEMMA LeastNatural ==
  ASSUME NEW S \in SUBSET Nat, S # {}
  PROVE  \E m \in S : \A n \in S : m <= n
<1> DEFINE R == OpToRel(<, Nat)
<1>1. IsWellFoundedOn(R, Nat)
  BY NatLessThanWellFounded
<1>2. \A x \in Nat, y \in Nat : <<y, x>> \in R <=> y < x
  BY DEF OpToRel
<1> HIDE DEF R
<1>3. PICK x \in S : \A y \in S : ~ (<<y, x>> \in R)
  BY <1>1, WFMin
<1>4. \A y \in S : ~(y < x)
  BY <1>2, <1>3
<1> QED
  BY <1>4

LEMMA LeastAndMost ==
  ASSUME NEW S \in SUBSET Nat, S # {}, NEW bound \in Nat,
         \A s \in S : s <= bound
  PROVE  /\ Least(S) \in S /\ Most(S) \in S
         /\ \A s \in S : Least(S) <= s /\ s <= Most(S)
<1>1. \E m \in S : \A n \in S : m <= n
  BY LeastNatural
<1>2. \E m \in S : \A n \in S : m >= n
  <2> DEFINE T == {bound - s : s \in S}
  <2>1. T \in SUBSET Nat /\ T # {}
    <3>1. \A v \in S : bound - v \in Nat
      OBVIOUS
    <3> QED
      BY <3>1
  <2> HIDE DEF T
  <2>2. PICK t \in T : \A u \in T : t <= u
    BY <2>1, LeastNatural
  <2>3. PICK m \in S : t = bound - m
    BY <2>2 DEF T
  <2>4. \A n \in S : bound - m <= bound - n
    BY <2>2, <2>3 DEF T
  <2> QED
    BY <2>4
<1> QED
  BY <1>1, <1>2 DEF Least, Most

LEMMA SizeTypes ==
  ASSUME NEW s, SizeOf(s) \in Sizes
  PROVE  /\ s.width \in U16 /\ s.height \in U16
         /\ s.width \in Nat /\ s.height \in Nat
<1>1. s.width \in U16 /\ s.height \in U16
  BY SizesAssumption DEF SizeOf
<1> QED
  BY <1>1, U16Values

(* A rectangle that lies on the screen and has its pixels.                  *)
Depicts(e, s) ==
  LET r == Rect(e.header)
  IN /\ r.x + r.width <= s.width /\ r.y + r.height <= s.height
     /\ \A p \in Points(s) :
          Covers(r, p[1], p[2])
            => e.pixels[<<p[1] - r.x, p[2] - r.y>>] = s.pixels[p]

(* The encodings the server may choose for them.                            *)
LEMMA ChosenEncodings ==
  ASSUME server.encodings \subseteq S32, NEW c \in PixelEncodings
  PROVE  c \in S32 /\ c \notin {Cursor, DesktopSize}
<1>1. Raw \notin {Cursor, DesktopSize}
  BY DEF Raw, Cursor, DesktopSize
<1> QED
  BY <1>1, OwnTypes DEF PixelEncodings

LEMMA PixelsSent ==
  ASSUME NEW s, SizeOf(s) \in Sizes, s.pixels \in [Points(s) -> Colours],
         NEW c \in S32, c \notin {Cursor, DesktopSize},
         NEW x \in Nat, NEW y \in Nat, NEW w \in Nat, NEW h \in Nat,
         x + w <= s.width, y + h <= s.height
  PROVE  LET e == PixelItem(c, x, y, w, h, s.pixels)
         IN /\ e.kind = "rect" /\ Encoding(e.header) = c /\ Pixels(e)
            /\ Rect(e.header) = [x |-> x, y |-> y, width |-> w, height |-> h]
            /\ Sound(e) /\ Measured(e, server.format) /\ Depicts(e, s)
<1> DEFINE e == PixelItem(c, x, y, w, h, s.pixels)
           r == [x |-> x, y |-> y, width |-> w, height |-> h]
<1>1. /\ s.width \in U16 /\ s.height \in U16
      /\ s.width \in Nat /\ s.height \in Nat
  BY SizeTypes
<1>2. x \in U16 /\ y \in U16 /\ w \in U16 /\ h \in U16
  <2>1. x <= s.width /\ w <= s.width /\ y <= s.height /\ h <= s.height
    BY <1>1
  <2> QED
    BY <1>1, <2>1, U16Below
<1>3. /\ e.kind = "rect" /\ e.format = server.format
      /\ e.bytes = w * h * BytesPerPixel(server.format)
      /\ e.pixels = [p \in (0 .. w - 1) \X (0 .. h - 1) |->
                       s.pixels[<<x + p[1], y + p[2]>>]]
      /\ e.header = WriteU16(x) \o WriteU16(y) \o WriteU16(w) \o WriteU16(h)
                    \o WriteU32(c)
  BY DEF PixelItem, RectItem
<1> HIDE DEF e
<1>4. Rect(e.header) = r /\ Encoding(e.header) = c /\ Pixels(e)
  <2>1. e.header = Header(x, y, w, h, c)
    BY <1>3 DEF Header
  <2>2. /\ Rect(Header(x, y, w, h, c))
             = [x |-> x, y |-> y, width |-> w, height |-> h]
        /\ Encoding(Header(x, y, w, h, c)) = c
    BY <1>2, HeaderRead
  <2> QED
    BY <2>1, <2>2 DEF Pixels
<1>5. e.pixels \in [Points(r) -> Colours]
  <2>1. \A p \in (0 .. w - 1) \X (0 .. h - 1) :
          <<x + p[1], y + p[2]>> \in Points(s)
    BY <1>1 DEF Points
  <2>2. Points(r) = (0 .. w - 1) \X (0 .. h - 1)
    BY DEF Points
  <2>3. \A p \in Points(s) : s.pixels[p] \in Colours
    OBVIOUS
  <2> QED
    BY <1>3, <2>1, <2>2, <2>3
<1>6. Sound(e)
  BY <1>3, <1>4, <1>5 DEF Sound
<1>7. Measured(e, server.format)
  BY <1>3, <1>4 DEF Measured
<1>8. ASSUME NEW p \in Points(s), Covers(r, p[1], p[2])
      PROVE  e.pixels[<<p[1] - x, p[2] - y>>] = s.pixels[p]
  <2>1. /\ p = <<p[1], p[2]>> /\ p[1] \in Nat /\ p[2] \in Nat
    BY DEF Points
  <2>2. <<p[1] - x, p[2] - y>> \in (0 .. w - 1) \X (0 .. h - 1)
    BY <1>8, <2>1 DEF Covers
  <2>3. <<x + (p[1] - x), y + (p[2] - y)>> = p
    BY <2>1
  <2> QED
    BY <1>3, <2>2, <2>3
<1>9. Depicts(e, s)
  BY <1>4, <1>8 DEF Depicts
<1> QED
  BY <1>3, <1>4, <1>6, <1>7, <1>9 DEF e

(* What every rectangle of an update is.                                    *)
Item(e) ==
  /\ e.kind = "rect" /\ Sound(e) /\ Measured(e, server.format)
  /\ Encoding(e.header) \in Implemented \cup server.encodings

Fits(e, size) ==
  LET r == Rect(e.header)
  IN r.x + r.width <= size[1] /\ r.y + r.height <= size[2]

LEMMA ResizeSent ==
  ASSUME ScreenOK
  PROVE  /\ Item(ResizeItem) /\ Encoding(ResizeItem.header) = DesktopSize
         /\ SizeOf(Rect(ResizeItem.header)) = SizeOf(screen)
<1> DEFINE e == ResizeItem
           r == [x |-> 0, y |-> 0, width |-> screen.width,
                 height |-> screen.height]
<1>1. /\ screen.width \in U16 /\ screen.height \in U16
      /\ screen.width \in Nat /\ screen.height \in Nat
  BY SizeTypes DEF ScreenOK, SizeOf
<1>2. 0 \in U16
  BY <1>1, U16Below
<1>3. /\ e.kind = "rect" /\ e.format = server.format
      /\ e.header = Header(0, 0, screen.width, screen.height, DesktopSize)
  BY DEF ResizeItem, RectItem, Header
<1> HIDE DEF e
<1>5. /\ Rect(Header(0, 0, screen.width, screen.height, DesktopSize)) = r
      /\ Encoding(Header(0, 0, screen.width, screen.height, DesktopSize))
           = DesktopSize
  BY <1>1, <1>2, OwnTypes, HeaderRead
<1>6. Rect(e.header) = r /\ Encoding(e.header) = DesktopSize
  BY <1>3, <1>5
<1>7. Raw # DesktopSize /\ Cursor # DesktopSize
  BY DEF Raw, DesktopSize, Cursor
<1>8. SizeOf(r) = SizeOf(screen) /\ <<r.width, r.height>> = SizeOf(screen)
  BY DEF SizeOf
<1>9. Sound(e)
  BY <1>1, <1>3, <1>6, <1>7, <1>8 DEF Sound, Pixels, ScreenOK, SizeOf
<1>10. Measured(e, server.format)
  BY <1>3, <1>6, <1>7 DEF Measured
<1> QED
  BY <1>3, <1>6, <1>7, <1>8, <1>9, <1>10 DEF Item, Implemented, e

LEMMA CursorSent ==
  ASSUME ScreenOK, NEW c \in CursorShapes
  PROVE  LET e == CursorItem(c[1], c[2])
         IN Item(e) /\ Encoding(e.header) = Cursor
<1> DEFINE w == c[1]
           h == c[2]
           e == CursorItem(w, h)
           r == [x |-> 0, y |-> 0, width |-> w, height |-> h]
<1>1. w \in U16 /\ h \in U16
  BY CursorsAssumption
<1> HIDE DEF w, h
<1>2. w \in Nat /\ h \in Nat /\ 0 \in U16
  BY <1>1, U16Values, U16Below
<1>3. /\ e.kind = "rect" /\ e.format = server.format
      /\ e.header = Header(0, 0, w, h, Cursor)
      /\ e.bytes = w * h * BytesPerPixel(server.format)
                     + ((w + 7) \div 8) * h
  BY DEF CursorItem, RectItem, Header
<1> HIDE DEF e
<1>5. /\ Rect(Header(0, 0, w, h, Cursor)) = r
      /\ Encoding(Header(0, 0, w, h, Cursor)) = Cursor
  BY <1>1, <1>2, OwnTypes, HeaderRead
<1>6. Rect(e.header) = r /\ Encoding(e.header) = Cursor
  BY <1>3, <1>5
<1>7. Raw # Cursor /\ Cursor # DesktopSize
  BY DEF Raw, DesktopSize, Cursor
<1>8. Sound(e)
  BY <1>2, <1>3, <1>6, <1>7 DEF Sound, Pixels
<1>9. Measured(e, server.format)
  <2>1. e.bytes = r.width * r.height * BytesPerPixel(server.format)
                    + MaskBytes(r)
    BY <1>3 DEF MaskBytes
  <2> QED
    BY <1>3, <1>6, <1>7, <2>1 DEF Measured
<1> QED
  BY <1>3, <1>6, <1>7, <1>8, <1>9 DEF Item, Implemented, e, w, h

(* The rectangles around S: they cover all of it.                           *)
LEMMA CoverSent ==
  ASSUME ScreenOK, server.encodings \subseteq S32,
         NEW S \in SUBSET Points(screen), NEW cover \in Cover(S)
  PROVE  /\ Sequence(cover.items)
         /\ \A i \in 1 .. Len(cover.items) :
              /\ Item(cover.items[i]) /\ Pixels(cover.items[i])
              /\ Depicts(cover.items[i], screen)
         /\ \A p \in cover.points : \E i \in 1 .. Len(cover.items) :
              Covers(Rect(cover.items[i].header), p[1], p[2])
<1> DEFINE X == {p[1] : p \in S}
           Y == {p[2] : p \in S}
           x0 == Least(X)
           y0 == Least(Y)
           w == Most(X) - x0 + 1
           h == Most(Y) - y0 + 1
           box == (x0 .. x0 + w - 1) \X (y0 .. y0 + h - 1)
           whole(c) == PixelItem(c, x0, y0, w, h, screen.pixels)
           row(c, y) == PixelItem(c, x0, y0 + y - 1, w, 1, screen.pixels)
           rows(c) == [y \in 1 .. h |-> row(c, y)]
<1>1. CASE S = {}
  <2>1. cover = [points |-> {}, items |-> <<>>]
    BY <1>1 DEF Cover
  <2> QED
    BY <2>1, EmptySequence
<1>2. CASE S # {}
  <2>1. PICK c \in PixelEncodings :
          \/ cover = [points |-> box, items |-> <<whole(c)>>]
          \/ cover = [points |-> box, items |-> rows(c)]
    BY <1>2 DEF Cover
  <2>0. /\ c \in S32 /\ c \notin {Cursor, DesktopSize}
        /\ c \in Implemented \cup server.encodings
    BY ChosenEncodings DEF PixelEncodings, Implemented
  <2>sent. ASSUME NEW x \in Nat, NEW y \in Nat, NEW v \in Nat, NEW u \in Nat,
                  x + v <= screen.width, y + u <= screen.height
           PROVE  LET e == PixelItem(c, x, y, v, u, screen.pixels)
                  IN /\ Item(e) /\ Pixels(e) /\ Depicts(e, screen)
                     /\ Rect(e.header)
                          = [x |-> x, y |-> y, width |-> v, height |-> u]
    <3> DEFINE e == PixelItem(c, x, y, v, u, screen.pixels)
    <3>1. SizeOf(screen) \in Sizes /\ screen.pixels \in [Points(screen) -> Colours]
      BY DEF ScreenOK
    <3>2. /\ e.kind = "rect" /\ Encoding(e.header) = c /\ Pixels(e)
          /\ Rect(e.header) = [x |-> x, y |-> y, width |-> v, height |-> u]
          /\ Sound(e) /\ Measured(e, server.format) /\ Depicts(e, screen)
      BY <2>0, <2>sent, <3>1, PixelsSent
    <3> HIDE DEF e
    <3>3. Item(e)
      BY <2>0, <3>2 DEF Item
    <3> QED
      BY <3>2, <3>3 DEF e
  <2>2. screen.width \in Nat /\ screen.height \in Nat
    BY SizeTypes DEF ScreenOK, SizeOf
  <2>3. \A p \in S : /\ p[1] \in 0 .. screen.width - 1
                     /\ p[2] \in 0 .. screen.height - 1
    BY DEF Points
  <2>4. /\ X \in SUBSET Nat /\ X # {} /\ Y \in SUBSET Nat /\ Y # {}
        /\ \A v \in X : v <= screen.width - 1
        /\ \A v \in Y : v <= screen.height - 1
    BY <1>2, <2>2, <2>3
  <2> HIDE DEF X, Y
  <2>5. screen.width - 1 \in Nat /\ screen.height - 1 \in Nat
    <3>1. PICK u \in X, v \in Y : TRUE
      BY <2>4
    <3>2. u \in Nat /\ u <= screen.width - 1 /\ v \in Nat
          /\ v <= screen.height - 1
      BY <2>4
    <3> QED
      BY <2>2, <3>2
  <2>6. Least(X) \in X /\ Most(X) \in X /\ Least(X) <= Most(X)
    BY <2>4, <2>5, LeastAndMost
  <2>7. Least(Y) \in Y /\ Most(Y) \in Y /\ Least(Y) <= Most(Y)
    BY <2>4, <2>5, LeastAndMost
  <2>8. /\ x0 \in Nat /\ y0 \in Nat /\ w \in Nat /\ h \in Nat
        /\ x0 + w <= screen.width /\ y0 + h <= screen.height
    <3>1. \A a, b, n \in Nat : a <= b /\ b <= n - 1 =>
            b - a + 1 \in Nat /\ a + (b - a + 1) <= n
      OBVIOUS
    <3>2. /\ Least(X) \in Nat /\ Most(X) \in Nat /\ Most(X) <= screen.width - 1
          /\ Least(Y) \in Nat /\ Most(Y) \in Nat
          /\ Most(Y) <= screen.height - 1
      BY <2>4, <2>6, <2>7
    <3> QED
      BY <2>2, <2>6, <2>7, <3>1, <3>2
  <2> HIDE DEF x0, y0, w, h
  <2>9. CASE cover = [points |-> box, items |-> <<whole(c)>>]
    <3> DEFINE e == whole(c)
               r == [x |-> x0, y |-> y0, width |-> w, height |-> h]
    <3>1. /\ Item(e) /\ Pixels(e) /\ Depicts(e, screen)
          /\ Rect(e.header) = r
      BY <2>8, <2>sent
    <3>2. \A p \in box : Covers(r, p[1], p[2])
      BY <2>8 DEF Covers
    <3> HIDE DEF e, r, box, whole
    <3>4. /\ Sequence(<<e>>) /\ Len(<<e>>) = 1 /\ <<e>>[1] = e
      BY Singleton
    <3>5. cover.points = box /\ cover.items = <<e>>
      BY <2>9 DEF e
    <3>6. /\ Sequence(cover.items) /\ Len(cover.items) = 1
          /\ cover.items[1] = e
      BY <3>4, <3>5
    <3> QED
      BY <3>1, <3>2, <3>5, <3>6
  <2>10. CASE cover = [points |-> box, items |-> rows(c)]
    <3> DEFINE r(y) == [x |-> x0, y |-> y0 + y - 1, width |-> w, height |-> 1]
               q == rows(c)
    <3>1. ASSUME NEW y \in 1 .. h
          PROVE  /\ Item(row(c, y)) /\ Pixels(row(c, y))
                 /\ Depicts(row(c, y), screen)
                 /\ Rect(row(c, y).header) = r(y)
      <4>1. y0 + y - 1 \in Nat /\ 1 \in Nat /\ y0 + y - 1 + 1 <= screen.height
        BY <2>2, <2>8
      <4> DEFINE v == y0 + y - 1
      <4> HIDE DEF v
      <4>2. LET e == PixelItem(c, x0, v, w, 1, screen.pixels)
            IN /\ Item(e) /\ Pixels(e) /\ Depicts(e, screen)
               /\ Rect(e.header) = [x |-> x0, y |-> v, width |-> w, height |-> 1]
        BY <2>8, <4>1, <2>sent DEF v
      <4> QED
        BY <4>2 DEF v
    <3>2. \A p \in box : /\ p[2] - y0 + 1 \in 1 .. h
                         /\ Covers(r(p[2] - y0 + 1), p[1], p[2])
      BY <2>8 DEF Covers
    <3>3. q \in Seq({row(c, y) : y \in 1 .. h}) /\ Len(q) = h
      <4> DEFINE T == {row(c, y) : y \in 1 .. h}
      <4>1. q \in [1 .. h -> T] /\ h \in Nat
        <5> HIDE DEF row
        <5> QED
          BY <2>8
      <4> HIDE DEF q, T
      <4>2. q \in Seq(T)
        BY <4>1, SeqDef
      <4>3. DOMAIN q = 1 .. h
        BY <4>1
      <4>4. Len(q) = h
        BY <4>1, <4>2, <4>3, LenProperties
      <4> QED
        BY <4>2, <4>4 DEF T
    <3>4. \A y \in 1 .. h : q[y] = row(c, y)
      OBVIOUS
    <3>5. Sequence(q) /\ Len(q) = h
      BY <3>3 DEF Sequence
    <3>6. cover.points = box /\ cover.items = q
      BY <2>10
    <3> HIDE DEF q, rows, row, r, box
    <3> QED
      BY <3>1, <3>2, <3>4, <3>5, <3>6
  <2> HIDE DEF whole, rows
  <2> QED
    BY <2>1, <2>9, <2>10
<1> QED
  BY <1>1, <1>2

(* What precedes a resize fits what the server last told.                   *)
LEMMA OldSent ==
  ASSUME server.encodings \subseteq S32, server.told \in Sizes,
         NEW old \in OldItems
  PROVE  /\ Sequence(old) /\ Len(old) \in Nat
         /\ \A i \in 1 .. Len(old) : /\ Item(old[i]) /\ Pixels(old[i])
                                     /\ Fits(old[i], server.told)
<1> DEFINE w == server.told[1]
           h == server.told[2]
           places == (0 .. w - 1) \X (0 .. h - 1)
<1>1. /\ server.told = <<w, h>> /\ w \in Nat /\ h \in Nat
  BY SizesAssumption, U16Values
<1>2. CASE old = <<>>
  BY <1>2, EmptySequence
<1>3. CASE old # <<>>
  <2>1. PICK e \in PixelEncodings, c \in Colours :
          old = <<PixelItem(e, 0, 0, w, h, [p \in places |-> c])>>
    <3> DEFINE Old(e, c) == <<PixelItem(e, 0, 0, w, h, [p \in places |-> c])>>
    <3>1. OldItems = {<<>>} \cup {Old(e, c) : e \in PixelEncodings, c \in Colours}
      BY DEF OldItems
    <3> HIDE DEF Old
    <3>2. \E e \in PixelEncodings, c \in Colours : old = Old(e, c)
      BY <1>3, <3>1
    <3> QED
      BY <3>2 DEF Old
  <2> DEFINE s == [width |-> w, height |-> h, pixels |-> [p \in places |-> c]]
             item == PixelItem(e, 0, 0, w, h, s.pixels)
  <2>2. /\ SizeOf(s) \in Sizes /\ s.pixels \in [Points(s) -> Colours]
        /\ 0 \in Nat /\ 0 + w <= s.width /\ 0 + h <= s.height
    BY <1>1 DEF SizeOf, Points
  <2>3. /\ e \in S32 /\ e \notin {Cursor, DesktopSize}
        /\ e \in Implemented \cup server.encodings
    BY ChosenEncodings DEF PixelEncodings, Implemented
  <2>4. old = <<item>>
    BY <2>1
  <2>5. s.width = w /\ s.height = h
    OBVIOUS
  <2> HIDE DEF s, w, h
  <2>6. /\ item.kind = "rect" /\ Encoding(item.header) = e /\ Pixels(item)
        /\ Rect(item.header) = [x |-> 0, y |-> 0, width |-> w, height |-> h]
        /\ Sound(item) /\ Measured(item, server.format) /\ Depicts(item, s)
    BY <1>1, <2>2, <2>3, PixelsSent
  <2> HIDE DEF item
  <2>7. Item(item)
    BY <2>3, <2>6 DEF Item
  <2>8. Fits(item, server.told)
    BY <1>1, <2>6 DEF Fits
  <2>9. /\ Sequence(old) /\ Len(old) = 1 /\ old[1] = item
    BY <2>4, Singleton
  <2> QED
    BY <2>6, <2>7, <2>8, <2>9
<1> QED
  BY <1>2, <1>3

(* A resize is the last of its rectangles.                                  *)
LEMMA ResizesSent ==
  ASSUME ScreenOK, server.encodings \subseteq S32, server.told \in Sizes,
         NEW q \in ResizeItems
  PROVE  /\ Sequence(q) /\ Len(q) \in Nat /\ (server.resized <=> Len(q) # 0)
         /\ \A i \in 1 .. Len(q) :
              /\ Item(q[i])
              /\ i = Len(q) => /\ Encoding(q[i].header) = DesktopSize
                               /\ SizeOf(Rect(q[i].header)) = SizeOf(screen)
              /\ i # Len(q) => Pixels(q[i]) /\ Fits(q[i], server.told)
<1>1. CASE ~server.resized
  <2>1. q = <<>>
    BY <1>1 DEF ResizeItems
  <2> QED
    BY <1>1, <2>1, EmptySequence
<1>2. CASE server.resized
  <2> DEFINE e == ResizeItem
  <2>1. PICK old \in OldItems : q = old \o <<e>>
    BY <1>2 DEF ResizeItems
  <2>2. /\ Item(e) /\ Encoding(e.header) = DesktopSize
        /\ SizeOf(Rect(e.header)) = SizeOf(screen)
    BY ResizeSent
  <2> HIDE DEF e
  <2>3. /\ Sequence(old) /\ Len(old) \in Nat
        /\ \A i \in 1 .. Len(old) : /\ Item(old[i]) /\ Pixels(old[i])
                                    /\ Fits(old[i], server.told)
    BY OldSent
  <2>4. Sequence(<<e>>) /\ Len(<<e>>) = 1 /\ <<e>>[1] = e
    BY Singleton
  <2>5. /\ Sequence(q) /\ Len(q) = Len(old) + 1
        /\ \A i \in 1 .. Len(old) : q[i] = old[i]
        /\ q[Len(old) + 1] = e
    <3> DEFINE one == <<e>>
    <3>1. Sequence(one) /\ Len(one) = 1 /\ one[1] = e /\ q = old \o one
      BY <2>1, <2>4
    <3> HIDE DEF one
    <3>2. /\ Sequence(old \o one) /\ Len(old \o one) = Len(old) + Len(one)
          /\ \A i \in 1 .. Len(old) : (old \o one)[i] = old[i]
          /\ \A i \in 1 .. Len(one) : (old \o one)[Len(old) + i] = one[i]
      <4>1. Sequence(old) /\ Sequence(one)
        BY <2>3, <3>1
      <4> QED
        BY <4>1, Joined
    <3> QED
      BY <3>1, <3>2
  <2>6. \A i \in 1 .. Len(q) : /\ i = Len(q) => q[i] = e
                               /\ i # Len(q) => /\ i \in 1 .. Len(old)
                                                /\ q[i] = old[i]
    BY <2>3, <2>5
  <2>7. Len(q) \in Nat /\ Len(q) # 0
    BY <2>3, <2>5
  <2> QED
    BY <1>2, <2>2, <2>3, <2>5, <2>6, <2>7
<1> QED
  BY <1>1, <1>2

(* The update the server makes: what it resets, and what its rectangles     *)
(* are and cover.  The d-th is the resize; d is 0 if there is none.         *)
Heading(items, stale) ==
  [kind |-> "update",
   update |-> [left |-> Len(items), shows |-> screen, stale |-> stale]]

Updates(items, stale, d) ==
  /\ sending = <<>> /\ server.asked # {}
  /\ Sequence(items) /\ Sequence(sending')
  /\ sending' = <<Heading(items, stale)>> \o items
  /\ server' = [server EXCEPT !.dirty = stale, !.asked = {},
                              !.told = SizeOf(screen), !.resized = FALSE]
  /\ UNCHANGED <<client, toServer, toClient, screen, changes>>
  /\ stale \subseteq server.dirty
  /\ d \in Nat /\ d <= Len(items) /\ (server.resized <=> d # 0)
  /\ \A i \in 1 .. Len(items) :
       LET e == items[i]
       IN /\ Item(e)
          /\ Encoding(e.header) = DesktopSize <=> i = d
          /\ i = d => SizeOf(Rect(e.header)) = SizeOf(screen)
          /\ i < d => Pixels(e) /\ Fits(e, server.told)
          /\ i > d /\ Pixels(e) => Depicts(e, screen)
  /\ \A p \in server.dirty \ stale : \E i \in 1 .. Len(items) :
       /\ i > d /\ Pixels(items[i])
       /\ Covers(Rect(items[i].header), p[1], p[2])

LEMMA UpdateSent ==
  ASSUME ScreenOK, server.encodings \subseteq S32, server.told \in Sizes,
         ServerUpdates
  PROVE  \E items, stale, d : Updates(items, stale, d)
<1> DEFINE due == server.dirty \cap server.asked \cap Points(screen)
           covers == Cover(due) \cup IF server.resized THEN Cover({}) ELSE {}
<1>1. PICK resize \in ResizeItems, cursor \in CursorItems, cover \in covers :
        LET items == resize \o cursor \o cover.items
            stale == server.dirty \ cover.points
        IN /\ sending' = <<Heading(items, stale)>> \o items
           /\ server' = [server EXCEPT !.dirty = stale, !.asked = {},
                              !.told = <<screen.width, screen.height>>,
                              !.resized = FALSE]
  BY DEF ServerUpdates, Heading
<1> DEFINE lead == resize \o cursor
           items == lead \o cover.items
           stale == server.dirty \ cover.points
           d == Len(resize)
<1>2. /\ sending = <<>> /\ server.asked # {}
      /\ sending' = <<Heading(items, stale)>> \o items
      /\ server' = [server EXCEPT !.dirty = stale, !.asked = {},
                              !.told = SizeOf(screen), !.resized = FALSE]
      /\ UNCHANGED <<client, toServer, toClient, screen, changes>>
  BY <1>1 DEF ServerUpdates, ServerFree, SizeOf
<1>3. /\ Sequence(resize) /\ d \in Nat /\ (server.resized <=> d # 0)
      /\ \A i \in 1 .. d :
           /\ Item(resize[i])
           /\ i = d => /\ Encoding(resize[i].header) = DesktopSize
                       /\ SizeOf(Rect(resize[i].header)) = SizeOf(screen)
           /\ i # d => Pixels(resize[i]) /\ Fits(resize[i], server.told)
  BY ResizesSent
<1> HIDE DEF d
<1>4. /\ Sequence(cursor) /\ Len(cursor) \in Nat
      /\ \A i \in 1 .. Len(cursor) : /\ Item(cursor[i])
                                     /\ Encoding(cursor[i].header) = Cursor
  <2>1. CASE cursor = <<>>
    BY <2>1, EmptySequence
  <2>2. CASE \E c \in CursorShapes : cursor = <<CursorItem(c[1], c[2])>>
    <3>1. PICK c \in CursorShapes : cursor = <<CursorItem(c[1], c[2])>>
      BY <2>2
    <3> DEFINE e == CursorItem(c[1], c[2])
    <3>2. Item(e) /\ Encoding(e.header) = Cursor
      BY CursorSent
    <3>3. cursor = <<e>>
      BY <3>1
    <3> HIDE DEF e
    <3>4. Sequence(<<e>>) /\ Len(<<e>>) = 1 /\ <<e>>[1] = e
      BY Singleton
    <3>5. Sequence(cursor) /\ Len(cursor) = 1 /\ cursor[1] = e
      BY <3>3, <3>4
    <3> QED
      BY <3>2, <3>5
  <2> QED
    BY <2>1, <2>2 DEF CursorItems
<1>5. /\ Sequence(cover.items)
      /\ \A i \in 1 .. Len(cover.items) :
           /\ Item(cover.items[i]) /\ Pixels(cover.items[i])
           /\ Depicts(cover.items[i], screen)
      /\ \A p \in cover.points : \E i \in 1 .. Len(cover.items) :
           Covers(Rect(cover.items[i].header), p[1], p[2])
  <2>1. PICK S \in SUBSET Points(screen) : cover \in Cover(S)
    <3>1. due \in SUBSET Points(screen) /\ {} \in SUBSET Points(screen)
      OBVIOUS
    <3> HIDE DEF due
    <3>2. cover \in Cover(due) \/ cover \in Cover({})
      OBVIOUS
    <3> QED
      BY <3>1, <3>2
  <2> QED
    BY <2>1, CoverSent
<1>6. /\ Sequence(lead) /\ Len(lead) = d + Len(cursor)
      /\ \A i \in 1 .. d : lead[i] = resize[i]
      /\ \A i \in 1 .. Len(cursor) : lead[d + i] = cursor[i]
  <2>1. Sequence(resize) /\ Sequence(cursor)
    BY <1>3, <1>4
  <2> QED
    BY <2>1, Joined DEF d
<1> HIDE DEF lead
<1>7. /\ Sequence(items) /\ Len(items) = Len(lead) + Len(cover.items)
      /\ Len(cover.items) \in Nat /\ Len(lead) \in Nat
      /\ \A i \in 1 .. Len(lead) : items[i] = lead[i]
      /\ \A i \in 1 .. Len(cover.items) : items[Len(lead) + i] = cover.items[i]
  <2>1. Sequence(lead) /\ Sequence(cover.items)
    BY <1>5, <1>6
  <2> QED
    BY <2>1, Joined
<1> HIDE DEF items, stale
<1>8. ASSUME NEW i \in 1 .. Len(items)
      PROVE  \/ i <= d /\ i \in 1 .. d /\ items[i] = resize[i]
             \/ /\ i > d /\ Item(items[i])
                /\ Encoding(items[i].header) = Cursor
             \/ /\ i > d /\ Item(items[i]) /\ Pixels(items[i])
                /\ Depicts(items[i], screen)
  <2>1. CASE i <= d
    <3>1. i \in 1 .. d /\ i \in 1 .. Len(lead)
      BY <1>3, <1>4, <1>6, <2>1
    <3>2. items[i] = lead[i] /\ lead[i] = resize[i]
      BY <1>6, <1>7, <3>1
    <3> QED
      BY <2>1, <3>1, <3>2
  <2>2. CASE i > d /\ i <= Len(lead)
    <3> DEFINE k == i - d
    <3>1. k \in 1 .. Len(cursor) /\ d + k = i /\ i \in 1 .. Len(lead)
      BY <1>3, <1>4, <1>6, <1>7, <2>2
    <3> HIDE DEF k
    <3>3. items[i] = cursor[k]
      BY <1>6, <1>7, <3>1
    <3> QED
      BY <1>4, <2>2, <3>1, <3>3
  <2>3. CASE i > Len(lead)
    <3> DEFINE k == i - Len(lead)
    <3>1. k \in 1 .. Len(cover.items) /\ Len(lead) + k = i /\ i > d
      <4>1. \A a, b, c, l, j \in Nat :
              /\ l = a + b /\ j > l /\ j <= l + c
                => j - l \in 1 .. c /\ l + (j - l) = j /\ j > a
        OBVIOUS
      <4>2. /\ i \in Nat /\ i > Len(lead)
            /\ i <= Len(lead) + Len(cover.items)
        BY <1>7, <2>3
      <4>3. /\ d \in Nat /\ Len(cursor) \in Nat /\ Len(lead) \in Nat
            /\ Len(cover.items) \in Nat /\ Len(lead) = d + Len(cursor)
        BY <1>3, <1>4, <1>6, <1>7
      <4> QED
        BY <4>1, <4>2, <4>3
    <3> HIDE DEF k
    <3>3. items[i] = cover.items[k]
      BY <1>7, <3>1
    <3> QED
      BY <1>5, <3>1, <3>3
  <2> QED
    BY <1>3, <1>7, <2>1, <2>2, <2>3
<1>9. Raw # DesktopSize /\ Cursor # DesktopSize
  BY DEF Raw, DesktopSize, Cursor
<1>10. ASSUME NEW i \in 1 .. Len(items)
       PROVE  LET e == items[i]
              IN /\ Item(e)
                 /\ Encoding(e.header) = DesktopSize <=> i = d
                 /\ i = d => SizeOf(Rect(e.header)) = SizeOf(screen)
                 /\ i < d => Pixels(e) /\ Fits(e, server.told)
                 /\ i > d /\ Pixels(e) => Depicts(e, screen)
  <2> DEFINE e == items[i]
  <2>1. CASE i <= d /\ i \in 1 .. d /\ e = resize[i]
    <3>1. /\ Item(e)
          /\ i = d => /\ Encoding(e.header) = DesktopSize
                      /\ SizeOf(Rect(e.header)) = SizeOf(screen)
          /\ i # d => Pixels(e) /\ Fits(e, server.told)
      BY <1>3, <2>1
    <3>2. i \in Int /\ d \in Int
      BY <1>3
    <3> HIDE DEF e
    <3>3. Encoding(e.header) = DesktopSize <=> i = d
      BY <3>1 DEF Pixels
    <3>4. i < d => i # d
      BY <3>2
    <3>5. ~(i > d)
      BY <2>1, <3>2
    <3> QED
      BY <3>1, <3>3, <3>4, <3>5 DEF e
  <2>2. CASE i > d /\ Item(e) /\ Encoding(e.header) = Cursor
    <3>1. i # d /\ ~(i < d)
      BY <1>3, <2>2
    <3> HIDE DEF e
    <3>2. ~Pixels(e) /\ Encoding(e.header) # DesktopSize
      BY <1>9, <2>2 DEF Pixels
    <3> QED
      BY <2>2, <3>1, <3>2 DEF e
  <2>3. CASE i > d /\ Item(e) /\ Pixels(e) /\ Depicts(e, screen)
    <3>1. i # d /\ ~(i < d)
      BY <1>3, <2>3
    <3> HIDE DEF e
    <3>2. Encoding(e.header) # DesktopSize
      BY <2>3 DEF Pixels
    <3> QED
      BY <2>3, <3>1, <3>2 DEF e
  <2> QED
    BY <1>8, <2>1, <2>2, <2>3
<1>11. d <= Len(items)
  <2>1. \A a, b, c \in Nat : a <= a + b + c
    OBVIOUS
  <2>2. d \in Nat /\ Len(cursor) \in Nat /\ Len(cover.items) \in Nat
    BY <1>3, <1>4, <1>7
  <2>3. Len(items) = d + Len(cursor) + Len(cover.items)
    BY <1>6, <1>7
  <2> QED
    BY <2>1, <2>2, <2>3
<1>12. ASSUME NEW p \in server.dirty \ stale
       PROVE  \E i \in 1 .. Len(items) :
                /\ i > d /\ Pixels(items[i])
                /\ Covers(Rect(items[i].header), p[1], p[2])
  <2>1. p \in cover.points
    BY DEF stale
  <2>2. PICK k \in 1 .. Len(cover.items) :
          Covers(Rect(cover.items[k].header), p[1], p[2])
    BY <1>5, <2>1
  <2>3. Len(lead) + k \in 1 .. Len(items) /\ Len(lead) + k > d
    <3>1. \A a, b, c, l, n \in Nat : \A j \in 1 .. c :
            l = a + b /\ n = l + c => l + j \in 1 .. n /\ l + j > a
      OBVIOUS
    <3>2. /\ d \in Nat /\ Len(cursor) \in Nat /\ Len(lead) \in Nat
          /\ Len(cover.items) \in Nat /\ Len(lead) = d + Len(cursor)
          /\ Len(items) = Len(lead) + Len(cover.items) /\ Len(items) \in Nat
      <4>1. \A a, b, c, l \in Nat :
              l = a + b => l \in Nat /\ l + c \in Nat
        OBVIOUS
      <4> QED
        BY <1>3, <1>4, <1>6, <1>7, <4>1
    <3> QED
      BY <3>1, <3>2
  <2>4. items[Len(lead) + k] = cover.items[k]
    BY <1>7
  <2> QED
    BY <1>5, <2>2, <2>3, <2>4
<1>13. stale \subseteq server.dirty
  BY DEF stale
<1>14. Sequence(sending')
  <2> DEFINE head == Heading(items, stale)
  <2>1. sending' = <<head>> \o items
    BY <1>2
  <2> HIDE DEF head
  <2>2. Sequence(<<head>>)
    BY Singleton
  <2> QED
    BY <1>7, <2>1, <2>2, Joined
<1>15. Updates(items, stale, d)
  BY <1>2, <1>3, <1>7, <1>10, <1>11, <1>12, <1>13, <1>14 DEF Updates
<1> QED
  BY <1>15

LEMMA UpdateStream ==
  ASSUME Flowing, NEW items, NEW stale, NEW d, Updates(items, stale, d)
  PROVE  /\ Flowing' /\ Len(Stream) \in Nat /\ Len(items) \in Nat
         /\ Len(Stream') = Len(Stream) + 1 + Len(items)
         /\ \A i \in 1 .. Len(Stream) : Stream'[i] = Stream[i]
         /\ Stream'[Len(Stream) + 1] = Heading(items, stale)
         /\ \A i \in 1 .. Len(items) : Stream'[Len(Stream) + 1 + i] = items[i]
<1> DEFINE head == Heading(items, stale)
<1>1. /\ sending = <<>> /\ Sequence(sending') /\ toClient' = toClient
      /\ sending' = <<head>> \o items /\ Sequence(items)
  BY DEF Updates
<1> HIDE DEF head
<1>2. Sequence(<<head>>) /\ Len(<<head>>) = 1 /\ <<head>>[1] = head
  BY Singleton
<1>3. /\ Len(items) \in Nat /\ Len(sending') = 1 + Len(items)
      /\ sending'[1] = head
      /\ \A i \in 1 .. Len(items) : sending'[1 + i] = items[i]
  <2> DEFINE one == <<head>>
  <2>1. Sequence(one) /\ Len(one) = 1 /\ one[1] = head
    BY <1>2
  <2>2. sending' = one \o items
    BY <1>1
  <2> HIDE DEF one
  <2>3. /\ Len(items) \in Nat /\ Len(one \o items) = Len(one) + Len(items)
        /\ \A i \in 1 .. Len(one) : (one \o items)[i] = one[i]
        /\ \A i \in 1 .. Len(items) : (one \o items)[Len(one) + i] = items[i]
    <3>1. Sequence(one) /\ Sequence(items)
      BY <1>1, <2>1
    <3> QED
      BY <3>1, Joined
  <2> QED
    BY <2>1, <2>2, <2>3
<1>4. /\ Flowing' /\ Len(Stream) \in Nat
      /\ Len(Stream') = Len(Stream) + Len(sending')
      /\ \A i \in 1 .. Len(Stream) : Stream'[i] = Stream[i]
      /\ \A i \in 1 .. Len(sending') : Stream'[Len(Stream) + i] = sending'[i]
  BY <1>1, StreamGrown
<1>5. 1 \in 1 .. Len(sending')
      /\ \A i \in 1 .. Len(items) : /\ 1 + i \in 1 .. Len(sending')
                                    /\ Len(Stream) + (1 + i) = Len(Stream) + 1 + i
  BY <1>3, <1>4
<1> QED
  BY <1>3, <1>4, <1>5 DEF head

-----------------------------------------------------------------------------
(* Sizes and types.                                                         *)

(* Steps that leave the stream alone.                                       *)
LEMMA FittingKept ==
  ASSUME Fitting, Shaped', Stream' = Stream, SizeOf(fb') = SizeOf(fb),
         server'.told = server.told,
         InUpdate' => InUpdate /\ update' = update
  PROVE  Fitting'
<1>1. PICK G : Sizing(G)
  BY DEF Fitting
<1>2. Sizing(G)'
  BY <1>1 DEF Sizing
<1>3. \A i \in 1..Len(Stream') : Sound(Stream'[i])
  BY DEF Fitting
<1> QED
  BY <1>2, <1>3 DEF Fitting

(* The client takes an item: the sizes move up by one.                      *)
LEMMA FittingTaken ==
  ASSUME Fitting, Shaped', toClient # <<>>, toClient' = Tail(toClient),
         UNCHANGED <<sending, server, screen>>,
         NEW G, Sizing(G), SizeOf(fb') = G[1],
         InUpdate' => /\ update'.left \in Nat
                      /\ update'.left + 1 <= Len(Stream)
                      /\ G[update'.left + 1] = SizeOf(update'.shows)
  PROVE  Fitting'
<1> DEFINE n == Len(Stream)
<1>0. PICK H : H = [i \in 0 .. n - 1 |-> G[i + 1]]
  OBVIOUS
<1>1. /\ n \in Nat /\ n > 0 /\ Len(Stream') = n - 1
      /\ \A i \in 1 .. n - 1 : Stream'[i] = Stream[i + 1]
  BY StreamTaken DEF Fitting, Shaped
<1>2. \A i \in 1 .. n : Sound(Stream[i])
  BY DEF Fitting
<1>3. \A i \in 1 .. n - 1 : i + 1 \in 1 .. n
  BY <1>1
<1>4. \A i \in 1 .. n - 1 : Sound(Stream'[i])
  BY <1>1, <1>2, <1>3
<1>5. \A i \in 0 .. n - 1 : H[i] = G[i + 1]
  BY <1>0
<1>6. /\ \A i \in 1 .. n : Sized(G[i - 1], Stream[i], G[i])
      /\ G[n] = server.told
      /\ \A i \in 1 .. n : Stream[i].kind = "update" =>
           /\ i + Stream[i].update.left <= n
           /\ G[i + Stream[i].update.left] = SizeOf(Stream[i].update.shows)
  BY DEF Sizing
<1> HIDE DEF n
<1>7. H[0] = SizeOf(fb')
  <2>1. 0 \in 0 .. n - 1 /\ 0 + 1 = 1
    BY <1>1
  <2> QED
    BY <1>5, <2>1
<1>8. ASSUME NEW i \in 1 .. n - 1
      PROVE  Sized(H[i - 1], Stream'[i], H[i])
  <2>1. /\ i + 1 \in 1 .. n /\ (i + 1) - 1 = i /\ i - 1 \in 0 .. n - 1
        /\ i \in 0 .. n - 1 /\ (i - 1) + 1 = i
    BY <1>1
  <2>2. H[i - 1] = G[i] /\ H[i] = G[i + 1]
    BY <1>5, <2>1
  <2>3. Sized(G[i], Stream[i + 1], G[i + 1])
    BY <1>6, <2>1
  <2>4. Stream'[i] = Stream[i + 1]
    BY <1>1
  <2> QED
    BY <2>2, <2>3, <2>4
<1>9. H[n - 1] = server'.told
  <2>1. n - 1 \in 0 .. n - 1 /\ (n - 1) + 1 = n
    BY <1>1
  <2> QED
    BY <1>5, <1>6, <2>1
<1>10. ASSUME NEW i \in 1 .. n - 1, Stream'[i].kind = "update"
       PROVE  LET u == Stream'[i].update
              IN i + u.left <= n - 1 /\ H[i + u.left] = SizeOf(u.shows)
  <2> DEFINE u == Stream'[i].update
  <2>1. u = Stream[i + 1].update /\ Stream[i + 1].kind = "update"
        /\ i + 1 \in 1 .. n
    BY <1>1, <1>3, <1>10
  <2>2. u.left \in Nat
    BY <1>2, <2>1 DEF Sound
  <2>3. (i + 1) + u.left <= n /\ G[(i + 1) + u.left] = SizeOf(u.shows)
    BY <1>6, <2>1
  <2> HIDE DEF u
  <2>4. /\ i + u.left \in 0 .. n - 1 /\ i + u.left <= n - 1
        /\ (i + u.left) + 1 = (i + 1) + u.left
    <3>1. \A l \in Nat : (i + 1) + l <= n =>
            i + l \in 0 .. n - 1 /\ i + l <= n - 1 /\ (i + l) + 1 = (i + 1) + l
      BY <1>1
    <3> QED
      BY <2>2, <2>3, <3>1
  <2>5. H[i + u.left] = G[(i + u.left) + 1]
    BY <1>5, <2>4
  <2>6. i + u.left <= n - 1 /\ H[i + u.left] = SizeOf(u.shows)
    BY <2>3, <2>4, <2>5
  <2> QED
    BY <2>6 DEF u
<1>11. InUpdate' => /\ update'.left <= n - 1
                    /\ H[update'.left] = SizeOf(update'.shows)
  <2> SUFFICES ASSUME InUpdate'
               PROVE  /\ update'.left <= n - 1
                      /\ H[update'.left] = SizeOf(update'.shows)
    OBVIOUS
  <2>1. /\ update'.left \in Nat /\ update'.left + 1 <= n
        /\ G[update'.left + 1] = SizeOf(update'.shows)
    BY DEF n
  <2>2. update'.left \in 0 .. n - 1 /\ update'.left <= n - 1
    BY <1>1, <2>1
  <2> QED
    BY <1>5, <2>1, <2>2
<1>12. Sizing(H)'
  <2>1. Len(Stream') = n - 1
    BY <1>1
  <2> QED
    BY <1>7, <1>8, <1>9, <1>10, <1>11, <2>1 DEF Sizing
<1> QED
  BY <1>1, <1>4, <1>12 DEF Fitting

LEMMA BlankTypes ==
  ASSUME NEW w \in Nat, NEW h \in Nat
  PROVE  Blank(w, h) \in [0 .. w * h - 1 -> Colours \cup {"blank", "garbage"}]
BY DEF Blank

(* The initial messages ask for the configured types and no others.         *)
LEMMA InitialTypes ==
  ASSUME NEW c \in Configs
  PROVE  Typed(InitialMessages(c))
<1> DEFINE format == IF c.pixel_format # NULL
                     THEN <<Message(SetPixelFormatMessage(c.pixel_format))>>
                     ELSE <<>>
           encodings == IF c.encodings.count > 0
                        THEN <<SetEncodingsMessage(c.encodings)>> ELSE <<>>
           T(m) == m.types \subseteq S32
<1>1. c.encodings.types \subseteq S32
  BY ConfigsAssumption DEF EncodingLists
<1>2. \A m : T(Message(m))
  BY DEF Message
<1>3. T(SetEncodingsMessage(c.encodings))
  BY <1>1 DEF SetEncodingsMessage
<1>4. Sequence(format) /\ \A i \in 1 .. Len(format) : T(format[i])
  <2> DEFINE m == Message(SetPixelFormatMessage(c.pixel_format))
  <2>1. T(m)
    BY <1>2
  <2> HIDE DEF m, T
  <2>2. Sequence(<<m>>) /\ Len(<<m>>) = 1 /\ <<m>>[1] = m
    BY Singleton
  <2> QED
    BY <2>1, <2>2, EmptySequence DEF m
<1>5. Sequence(encodings) /\ \A i \in 1 .. Len(encodings) : T(encodings[i])
  <2> DEFINE m == SetEncodingsMessage(c.encodings)
  <2>1. T(m)
    BY <1>3
  <2> HIDE DEF m, T
  <2>2. Sequence(<<m>>) /\ Len(<<m>>) = 1 /\ <<m>>[1] = m
    BY Singleton
  <2> QED
    BY <2>1, <2>2, EmptySequence DEF m
<1> HIDE DEF T
<1>6. \A i \in 1 .. Len(format \o encodings) : T((format \o encodings)[i])
  <2> HIDE DEF format, encodings
  <2>1. /\ Len(format) \in Nat /\ Len(encodings) \in Nat
        /\ Len(format \o encodings) = Len(format) + Len(encodings)
        /\ \A i \in 1 .. Len(format) : (format \o encodings)[i] = format[i]
        /\ \A i \in 1 .. Len(encodings) :
             (format \o encodings)[Len(format) + i] = encodings[i]
    BY <1>4, <1>5, Joined
  <2>2. ASSUME NEW i \in 1 .. Len(format \o encodings), i > Len(format)
        PROVE  /\ i - Len(format) \in 1 .. Len(encodings)
               /\ Len(format) + (i - Len(format)) = i
    BY <2>1, <2>2
  <2>3. ASSUME NEW i \in 1 .. Len(format \o encodings), ~(i > Len(format))
        PROVE  i \in 1 .. Len(format)
    BY <2>1, <2>3
  <2>4. ASSUME NEW i \in 1 .. Len(format \o encodings)
        PROVE  T((format \o encodings)[i])
    <3>1. CASE i > Len(format)
      <4> DEFINE k == i - Len(format)
      <4>1. k \in 1 .. Len(encodings) /\ Len(format) + k = i
        BY <2>2, <3>1
      <4> HIDE DEF k
      <4>2. (format \o encodings)[i] = encodings[k]
        BY <2>1, <4>1
      <4> QED
        BY <1>5, <4>1, <4>2
    <3>2. CASE ~(i > Len(format))
      BY <1>4, <2>1, <2>3, <3>2
    <3> QED
      BY <3>1, <3>2
  <2> QED
    BY <2>4
<1> QED
  BY <1>6 DEF T, Typed, InitialMessages

LEMMA FittingInit == Init => Fitting
<1> SUFFICES ASSUME Init PROVE Fitting
  OBVIOUS
<1>1. PICK size \in Sizes, c \in Configs, a \in DOMAIN Applications,
           start \in Colours :
        /\ screen = Screen(size, LAMBDA p : start)
        /\ fb = [width |-> size[1], height |-> size[2],
                 format |-> IF c.pixel_format = NULL THEN ServerFormat
                                                     ELSE c.pixel_format,
                 data |-> Blank(size[1], size[2])]
        /\ toServer = InitialMessages(c)
        /\ pc = "callback" /\ then = "message"
        /\ update = NoUpdate
        /\ toClient = <<>> /\ sending = <<>>
        /\ server = [format |-> ServerFormat, encodings |-> {}, listed |-> {},
                     asked |-> {}, dirty |-> Points(screen), told |-> size,
                     resized |-> FALSE, inStep |-> TRUE]
  BY DEF Init
<1>2. size = <<size[1], size[2]>> /\ size[1] \in U16 /\ size[2] \in U16
  BY SizesAssumption
<1>3. size[1] \in Nat /\ size[2] \in Nat
  BY <1>2, U16Values
<1>4. /\ screen.width = size[1] /\ screen.height = size[2]
      /\ DOMAIN screen = {"width", "height", "pixels"}
      /\ screen.pixels = [p \in Points(screen) |-> start]
  BY <1>1 DEF Screen, Points
<1>5. /\ fb.width = size[1] /\ fb.height = size[2]
      /\ fb.data = Blank(size[1], size[2])
      /\ fb.format = IF c.pixel_format = NULL THEN ServerFormat
                                              ELSE c.pixel_format
  BY <1>1
<1>6. fb.data \in [0 .. fb.width * fb.height - 1
                     -> Colours \cup {"blank", "garbage"}]
  BY <1>3, <1>5, BlankTypes
<1>7. fb.format \in PixelFormats
  BY <1>5, ConfigsAssumption
<1>8. Len(toServer) <= Buffer
  BY <1>1, InitialAssumption
<1>9. /\ server.dirty = Points(screen) /\ server.resized = FALSE
      /\ DOMAIN server = {"format", "encodings", "listed", "asked", "dirty",
                          "told", "resized", "inStep"}
      /\ server.told = size /\ server.encodings = {}
  BY <1>1
<1>10. Len(toClient) <= Buffer
  BY <1>1, EmptySequence, BufferAssumption
<1>11. TypeOK
  <2>1. <<fb.width, fb.height>> \in Sizes
    BY <1>2, <1>5
  <2>2. update.left \in Nat
    BY <1>1 DEF NoUpdate
  <2> QED
    BY <1>1, <1>6, <1>7, <1>8, <1>9, <1>10, <2>1, <2>2 DEF TypeOK
<1>12. ScreenOK
  BY <1>2, <1>4 DEF ScreenOK, SizeOf
<1>13. Shaped
  <2>1. server.told = SizeOf(screen)
    BY <1>2, <1>4, <1>9 DEF SizeOf
  <2>2. Typed(toServer)
    BY <1>1, InitialTypes
  <2> QED
    BY <1>1, <1>4, <1>9, <1>11, <1>12, <2>1, <2>2, EmptySequence
       DEF Shaped, Flowing, NoUpdate
<1>14. Len(Stream) = 0
  <2>1. Sequence(toClient) /\ Sequence(sending)
    BY <1>1, EmptySequence
  <2>2. Len(Stream) = Len(toClient) + Len(sending)
    BY <2>1, Joined DEF Stream
  <2> QED
    BY <1>1, <2>2, EmptySequence
<1>15. ~InUpdate
  BY <1>1 DEF InUpdate
<1>16. PICK G : G = [i \in {0} |-> SizeOf(fb)]
  OBVIOUS
<1>17. G[0] = SizeOf(fb) /\ SizeOf(fb) = server.told
  BY <1>2, <1>5, <1>9, <1>16 DEF SizeOf
<1>18. Sizing(G)
  BY <1>14, <1>15, <1>17 DEF Sizing
<1> QED
  BY <1>13, <1>14, <1>18 DEF Fitting

(* What an application's call does, other than to the pixels.               *)
LEMMA CallDone ==
  ASSUME Shaped, Told, Calls, ~CallbackReturn
  PROVE  /\ pc = "callback" /\ todo # <<>> /\ todo' = Tail(todo)
         /\ UNCHANGED <<pc, then, app, update, toClient, service>>
         /\ Len(toServer') <= Buffer
         /\ fb'.width = fb.width /\ fb'.height = fb.height
         /\ fb'.format \in PixelFormats
         /\ fb'.data \in [0 .. fb.width * fb.height - 1
                            -> Colours \cup {"blank", "garbage"}]
         /\ \/ fb' = fb /\ toServer' = toServer
            \/ \E m : Send(m)
         /\ Typed(toServer')
<1>1. /\ pc = "callback" /\ todo # <<>> /\ Called
  BY DEF Calls, RequestUpdate, SetPixelFormat, SetEncodings, SendPointerEvent,
         Calling
<1>2. ASSUME NEW m, Send(m)
      PROVE  Len(toServer') <= Buffer
  <2>1. /\ Len(toServer) < Buffer /\ Len(toServer') = Len(toServer) + 1
        /\ Len(toServer) \in Nat
    BY <1>2, Sequences DEF Send, Told
  <2> QED
    BY <2>1, BufferAssumption
<1>types. Typed(toServer')
  <2>1. CASE toServer' = toServer
    BY <2>1 DEF Shaped
  <2>2. CASE toServer' # toServer
    <3>1. PICK m : Send(m) /\ m.types \subseteq S32
      <4>1. \A b : Message(b).types \subseteq S32
        BY DEF Message
      <4>2. CASE RequestUpdate \/ SetPixelFormat \/ SendPointerEvent
        BY <2>2, <4>1, <4>2
           DEF RequestUpdate, SetPixelFormat, SendPointerEvent, FormatSent
      <4>3. CASE SetEncodings
        <5>1. /\ Head(todo) \in CallRecords
              /\ Head(todo).call = "set_encodings"
              /\ Send(SetEncodingsMessage(Head(todo).list))
          BY <1>1, <4>3 DEF Told, SetEncodings, Calling
        <5>2. Head(todo).list \in EncodingLists
          BY <5>1 DEF CallRecords
        <5>3. SetEncodingsMessage(Head(todo).list).types \subseteq S32
          BY <5>2 DEF SetEncodingsMessage, EncodingLists
        <5> QED
          BY <5>1, <5>3
      <4> QED
        BY <4>2, <4>3 DEF Calls
    <3>2. toServer' = Append(toServer, m) /\ Sequence(toServer)
      BY <3>1 DEF Send, Told
    <3>3. /\ Len(toServer') = Len(toServer) + 1 /\ Len(toServer) \in Nat
          /\ \A i \in 1 .. Len(toServer) : toServer'[i] = toServer[i]
          /\ toServer'[Len(toServer) + 1] = m
      BY <3>2, Sequences
    <3>4. \A i \in 1 .. Len(toServer') :
            i \in 1 .. Len(toServer) \/ i = Len(toServer) + 1
      BY <3>3
    <3>5. \A i \in 1 .. Len(toServer) : toServer[i].types \subseteq S32
      BY DEF Shaped, Typed
    <3> QED
      BY <3>1, <3>3, <3>4, <3>5 DEF Typed
  <2> QED
    BY <2>1, <2>2
<1>3. CASE fb' = fb
  <2>1. toServer' = toServer \/ \E m : Send(m)
    BY <1>3 DEF Calls, RequestUpdate, SetPixelFormat, SetEncodings,
                SendPointerEvent, FormatSent
  <2> QED
    BY <1>1, <1>2, <1>3, <1>types, <2>1 DEF Called, Shaped, TypeOK
<1>4. CASE fb' # fb
  <2> DEFINE f == Head(todo).format
  <2>1. /\ Head(todo).call = "set_pixel_format" /\ FormatSent(f)
        /\ fb' = Reformatted(f)
    BY <1>4 DEF Calls, RequestUpdate, SetPixelFormat, SetEncodings,
                SendPointerEvent, Calling
  <2>2. f \in PixelFormats
    <3>1. Head(todo) \in CallRecords
      BY <1>1 DEF Told
    <3> QED
      BY <2>1, <3>1 DEF CallRecords
  <2> HIDE DEF f
  <2>3. /\ fb.width \in Nat /\ fb.height \in Nat
        /\ fb.data \in [0 .. fb.width * fb.height - 1
                          -> Colours \cup {"blank", "garbage"}]
    BY SizeTypes DEF Shaped, TypeOK, SizeOf
  <2>4. DOMAIN fb = {"format", "data", "width", "height"}
    BY DEF Told
  <2> DEFINE data == IF ~SameSize(f) THEN Blank(fb.width, fb.height)
                     ELSE IF f = fb.format THEN fb.data
                     ELSE [k \in DOMAIN fb.data |-> "garbage"]
  <2>5. data \in [0 .. fb.width * fb.height - 1
                    -> Colours \cup {"blank", "garbage"}]
    BY <2>3, BlankTypes
  <2>6. /\ fb'.format = f /\ fb'.data = data
        /\ fb'.width = fb.width /\ fb'.height = fb.height
    BY <2>1, <2>4 DEF Reformatted
  <2>7. \E m : Send(m)
    BY <2>1 DEF FormatSent
  <2> QED
    BY <1>1, <1>2, <1>types, <2>2, <2>5, <2>6, <2>7 DEF Called
<1> QED
  BY <1>3, <1>4

LEMMA FittingCalls ==
  ASSUME Fitting, Told, Calls
  PROVE  Fitting'
<1>1. Shaped
  BY DEF Fitting
<1>2. CASE CallbackReturn
  <2>1. /\ UNCHANGED <<fb, then, update, toServer, toClient, sending, server,
                       screen>>
        /\ pc = "callback" /\ pc' = then
    BY <1>2 DEF CallbackReturn, service
  <2>2. TypeOK' /\ pc' # "refused"
    BY <1>1, <2>1 DEF Shaped, TypeOK
  <2>3. ScreenOK' /\ Flowing'
    BY <1>1, <2>1 DEF Shaped, ScreenOK, Flowing
  <2>4. Shaped'
    BY <1>1, <2>1, <2>2, <2>3 DEF Shaped
  <2>5. InUpdate' => InUpdate
    BY <1>1, <2>1 DEF InUpdate, Shaped, TypeOK
  <2> QED
    BY <2>1, <2>4, <2>5, StreamKept, FittingKept
<1>3. CASE ~CallbackReturn
  <2>1. /\ pc = "callback"
        /\ UNCHANGED <<pc, then, update, toClient, sending, server, screen>>
        /\ Len(toServer') <= Buffer /\ Typed(toServer')
        /\ fb'.width = fb.width /\ fb'.height = fb.height
        /\ fb'.format \in PixelFormats
        /\ fb'.data \in [0 .. fb.width * fb.height - 1
                           -> Colours \cup {"blank", "garbage"}]
    BY <1>1, <1>3, CallDone DEF service
  <2>2. TypeOK' /\ pc' # "refused"
    BY <1>1, <2>1 DEF Shaped, TypeOK
  <2>3. ScreenOK' /\ Flowing'
    BY <1>1, <2>1 DEF Shaped, ScreenOK, Flowing
  <2>4. Shaped'
    BY <1>1, <2>1, <2>2, <2>3 DEF Shaped
  <2>5. InUpdate' => InUpdate
    BY <2>1 DEF InUpdate
  <2>6. SizeOf(fb') = SizeOf(fb)
    BY <2>1 DEF SizeOf
  <2> QED
    BY <2>1, <2>4, <2>5, <2>6, StreamKept, FittingKept
<1> QED
  BY <1>2, <1>3

LEMMA StoredTypes ==
  ASSUME Backed, NEW item, Inside(Rect(item.header)), Sound(item),
         item.kind = "rect", Pixels(item),
         fb.data \in [0 .. fb.width * fb.height - 1
                        -> Colours \cup {"blank", "garbage"}]
  PROVE  Stored(Rect(item.header), Understood(item))
           \in [0 .. fb.width * fb.height - 1
                  -> Colours \cup {"blank", "garbage"}]
<1> DEFINE r == Rect(item.header)
           Pixel == Colours \cup {"blank", "garbage"}
           pixels == Understood(item)
           rows(k) == {y \in 0 .. r.height - 1 :
                         k \in Offset(r, y) .. Offset(r, y) + r.width - 1}
           last(k) == CHOOSE y \in rows(k) : \A z \in rows(k) : z <= y
<1>1. /\ r.x \in Nat /\ r.y \in Nat /\ r.width \in Nat /\ r.height \in Nat
      /\ fb.width \in Nat /\ item.pixels \in [Points(r) -> Colours]
  BY DEF Inside, Sound, Backed
<1>2. \A p \in Points(r) : pixels[p] \in Pixel
  BY <1>1 DEF Understood
<1> HIDE DEF pixels, r
<1>3. DOMAIN fb.data = 0 .. fb.width * fb.height - 1
      /\ \A k \in DOMAIN fb.data : fb.data[k] \in Pixel
  OBVIOUS
<1>4. ASSUME NEW k \in DOMAIN fb.data, rows(k) # {}
      PROVE  pixels[<<k - Offset(r, last(k)), last(k)>>] \in Pixel
  <2>1. last(k) \in rows(k)
    <3>1. rows(k) \in SUBSET Nat /\ \A y \in rows(k) : y <= r.height
      BY <1>1
    <3>2. \E y \in rows(k) : \A z \in rows(k) : z <= y
      <4>1. Most(rows(k)) \in rows(k) /\ \A z \in rows(k) : z <= Most(rows(k))
        <5> HIDE DEF rows
        <5> QED
          BY <1>1, <1>4, <3>1, LeastAndMost
      <4> QED
        BY <4>1
    <3> HIDE DEF rows
    <3> QED
      BY <3>2
  <2> DEFINE y == last(k)
  <2>2. y \in 0 .. r.height - 1 /\ k \in Offset(r, y) .. Offset(r, y) + r.width - 1
    BY <2>1
  <2> HIDE DEF y
  <2>3. Offset(r, y) \in Int
    <3>1. Offset(r, y) = (r.y + y) * fb.width + r.x
      BY DEF Offset
    <3>2. r.y + y \in Int
      BY <1>1, <2>2
    <3>3. (r.y + y) * fb.width \in Int
      BY <1>1, <3>2, SMT
    <3> QED
      BY <1>1, <3>1, <3>3
  <2>4. k - Offset(r, y) \in 0 .. r.width - 1
    BY <1>1, <2>2, <2>3
  <2>5. <<k - Offset(r, y), y>> \in Points(r)
    BY <2>2, <2>4 DEF Points
  <2> QED
    BY <1>2, <2>5 DEF y
<1>5. Stored(r, pixels) = [k \in DOMAIN fb.data |->
                             IF rows(k) = {} THEN fb.data[k]
                             ELSE pixels[<<k - Offset(r, last(k)), last(k)>>]]
  BY DEF Stored
<1> HIDE DEF rows, last, Pixel
<1>6. Stored(r, pixels) \in [DOMAIN fb.data -> Pixel]
  BY <1>3, <1>4, <1>5
<1> QED
  BY <1>3, <1>6 DEF Pixel, r, pixels

LEMMA InvokeDone ==
  ASSUME NEW name, NEW next, next \in {"message", "rects"}, Invoke(name, next)
  PROVE  /\ pc' \in {next, "callback"} /\ then' = next
         /\ InUpdate' <=> next = "rects"
BY DEF Invoke, InUpdate

LEMMA FittingLoopMessages ==
  ASSUME Fitting, HandleBell \/ HandleFbUpdate \/ UpdateFinished
  PROVE  Fitting'
<1>1. Shaped /\ \A i \in 1..Len(Stream) : Sound(Stream[i])
  BY DEF Fitting
<1>2. PICK G : Sizing(G)
  BY DEF Fitting
<1>3. UNCHANGED <<fb, toServer, sending, server, screen>>
  BY DEF HandleBell, HandleFbUpdate, UpdateFinished, service
<1>4. ScreenOK'
  BY <1>1, <1>3 DEF Shaped, ScreenOK
<1>5. ASSUME toClient # <<>>, toClient' = Tail(toClient)
      PROVE  /\ Flowing' /\ Len(toClient') <= Buffer
             /\ 1 \in 1 .. Len(Stream) /\ Stream[1] = Head(toClient)
             /\ Sound(Stream[1]) /\ Sized(G[0], Stream[1], G[1])
  <2>1. /\ Flowing' /\ Len(toClient') <= Len(toClient)
        /\ Len(Stream) \in Nat /\ Len(Stream) > 0
        /\ Stream[1] = Head(toClient)
    BY <1>1, <1>3, <1>5, StreamTaken DEF Shaped
  <2>2. Len(toClient') <= Buffer
    <3>1. /\ Len(toClient) \in Nat /\ Len(toClient') \in Nat
          /\ Len(toClient) <= Buffer
      BY <1>1, <2>1, Sequences DEF Shaped, TypeOK, Flowing
    <3> QED
      BY <2>1, <3>1, BufferAssumption
  <2>3. 1 \in 1 .. Len(Stream) /\ 1 - 1 = 0
    BY <2>1
  <2>4. Sized(G[0], Stream[1], G[1])
    BY <1>2, <2>3 DEF Sizing
  <2> QED
    BY <1>1, <2>1, <2>2, <2>3, <2>4
<1>6. CASE HandleBell
  <2>1. /\ toClient # <<>> /\ toClient' = Tail(toClient)
        /\ Head(toClient).kind = "bell" /\ update' = update
        /\ Invoke("bell", "message")
    BY <1>6 DEF HandleBell, Receives
  <2>2. pc' \in {"message", "callback"} /\ then' = "message" /\ ~InUpdate'
    BY <2>1, InvokeDone
  <2>3. TypeOK' /\ pc' # "refused"
    BY <1>1, <1>3, <1>5, <2>1, <2>2 DEF Shaped, TypeOK
  <2>4. Shaped'
    BY <1>1, <1>3, <1>4, <1>5, <2>1, <2>3 DEF Shaped
  <2>5. G[1] = G[0] /\ G[0] = SizeOf(fb)
    BY <1>2, <1>5, <2>1 DEF Sized, Sizing
  <2> QED
    BY <1>2, <1>3, <2>1, <2>2, <2>4, <2>5, FittingTaken
<1>7. CASE HandleFbUpdate
  <2>1. /\ toClient # <<>> /\ toClient' = Tail(toClient)
        /\ Head(toClient).kind = "update" /\ update' = Head(toClient).update
        /\ pc' = "rects" /\ then' = then
    BY <1>7 DEF HandleFbUpdate, Receives
  <2>2. /\ update'.left \in Nat /\ update'.left + 1 <= Len(Stream)
        /\ G[update'.left + 1] = SizeOf(update'.shows)
    <3> DEFINE u == update'
    <3>1. u = Stream[1].update /\ Stream[1].kind = "update" /\ u.left \in Nat
      BY <1>5, <2>1 DEF Sound
    <3>2. 1 + u.left <= Len(Stream) /\ G[1 + u.left] = SizeOf(u.shows)
      <4>1. \A i \in 1 .. Len(Stream) : Stream[i].kind = "update" =>
              /\ i + Stream[i].update.left <= Len(Stream)
              /\ G[i + Stream[i].update.left] = SizeOf(Stream[i].update.shows)
        BY <1>2 DEF Sizing
      <4>2. 1 \in 1 .. Len(Stream)
        BY <1>5, <2>1
      <4>3. /\ 1 + Stream[1].update.left <= Len(Stream)
            /\ G[1 + Stream[1].update.left] = SizeOf(Stream[1].update.shows)
        BY <3>1, <4>1, <4>2
      <4> HIDE DEF u
      <4> QED
        BY <3>1, <4>3
    <3>3. 1 + u.left = u.left + 1
      BY <3>1
    <3> QED
      BY <3>1, <3>2, <3>3
  <2>3. TypeOK' /\ pc' # "refused"
    BY <1>1, <1>3, <1>5, <2>1, <2>2 DEF Shaped, TypeOK
  <2>4. Shaped'
    <3>1. DOMAIN update' = {"left", "shows", "stale"}
      BY <1>5, <2>1 DEF Sound
    <3> QED
      BY <1>1, <1>3, <1>4, <1>5, <2>1, <2>3, <3>1 DEF Shaped
  <2>5. G[1] = G[0] /\ G[0] = SizeOf(fb)
    BY <1>2, <1>5, <2>1 DEF Sized, Sizing
  <2> QED
    BY <1>2, <1>3, <2>1, <2>2, <2>4, <2>5, FittingTaken
<1>8. CASE UpdateFinished
  <2>1. /\ UNCHANGED <<toClient, sending>>
        /\ Invoke("framebuffer_update_finished", "message")
        /\ update' = NoUpdate
    BY <1>8 DEF UpdateFinished, service
  <2>2. pc' \in {"message", "callback"} /\ then' = "message" /\ ~InUpdate'
    BY <2>1, InvokeDone
  <2>3. TypeOK' /\ pc' # "refused"
    BY <1>1, <1>3, <2>1, <2>2 DEF Shaped, TypeOK, NoUpdate
  <2>4. Flowing'
    BY <1>1, <2>1 DEF Shaped, Flowing
  <2>5. Shaped'
    BY <1>1, <1>3, <1>4, <2>1, <2>3, <2>4 DEF Shaped, NoUpdate
  <2> QED
    BY <1>3, <2>1, <2>2, <2>5, StreamKept, FittingKept
<1> QED
  BY <1>6, <1>7, <1>8

(* A rectangle is never out of bounds, and leaves the framebuffer in the    *)
(* size that was foreseen.                                                  *)
LEMMA RectTaken ==
  ASSUME Fitting, Told, DecodeRect, NEW G, Sizing(G)
  PROVE  LET item == Stream[1]
             r == Rect(item.header)
             encoding == Encoding(item.header)
         IN /\ toClient # <<>> /\ toClient' = Tail(toClient)
            /\ UNCHANGED <<app, toServer, service>>
            /\ pc = "rects" /\ update.left > 0
            /\ update' = [update EXCEPT !.left = @ - 1]
            /\ item = Head(toClient) /\ item.kind = "rect" /\ Sound(item)
            /\ Sized(G[0], item, G[1]) /\ 1 \in 1 .. Len(Stream)
            /\ Backed
            /\ encoding = Raw => Inside(r)
            /\ \/ /\ Stops("garbled")
                  /\ ~Measured(item, fb.format) \/ item.format # fb.format
                  /\ encoding # DesktopSize
               \/ Stops("unsupported") /\ encoding \notin Implemented
               \/ /\ encoding = Raw /\ RectDone("framebuffer_update")
                  /\ fb' = [fb EXCEPT !.data = Stored(r, Understood(item))]
               \/ /\ encoding = DesktopSize /\ RectDone("desktop_resize")
                  /\ fb' = Resized(r)
               \/ /\ encoding = Cursor /\ RectDone("cursor_update")
                  /\ fb' = fb
<1> DEFINE item == Stream[1]
           r == Rect(item.header)
           encoding == Encoding(item.header)
<1>1. /\ toClient # <<>> /\ toClient' = Tail(toClient)
      /\ UNCHANGED <<app, toServer, service>>
      /\ pc = "rects" /\ update.left > 0
      /\ update' = [update EXCEPT !.left = @ - 1]
      /\ Head(toClient).kind = "rect"
  BY DEF DecodeRect, Receives
<1>2. /\ Len(Stream) \in Nat /\ Len(Stream) > 0 /\ item = Head(toClient)
  <2>1. Flowing /\ sending' = sending
    BY <1>1 DEF Fitting, Shaped, service
  <2> QED
    BY <1>1, <2>1, StreamTaken
<1>3. 1 \in 1 .. Len(Stream) /\ 1 - 1 = 0
  BY <1>2
<1>4. Sound(item) /\ Sized(G[0], item, G[1]) /\ G[0] = SizeOf(fb)
  BY <1>3 DEF Fitting, Sizing
<1> HIDE DEF item
<1>5. /\ item.kind = "rect" /\ item = Head(toClient)
      /\ r.x \in Nat /\ r.y \in Nat /\ r.width \in Nat /\ r.height \in Nat
  BY <1>1, <1>2, <1>4 DEF Sound
<1>6. /\ Raw # Cursor /\ Raw # DesktopSize /\ Cursor # DesktopSize
  BY DEF Raw, Cursor, DesktopSize
<1>7. Backed
  <2>1. fb.width \in Nat /\ fb.height \in Nat
    BY SizeTypes DEF Fitting, Shaped, TypeOK, SizeOf
  <2>2. DOMAIN fb.data = 0 .. fb.width * fb.height - 1
    BY DEF Fitting, Shaped, TypeOK
  <2> QED
    BY <2>1, <2>2 DEF Backed
<1>8. encoding = Raw => Inside(r)
  BY <1>4, <1>5, <1>6 DEF Sized, Inside, SizeOf, Pixels
<1>9. \/ encoding = Raw /\ DecodeRaw(r, item)
      \/ encoding = DesktopSize /\ DecodeDesktopSize(r)
      \/ encoding = Cursor /\ DecodeCursor(r, item)
      \/ encoding \notin Implemented /\ Stops("unsupported")
  <2>1. CASE encoding = Raw
    BY <1>5, <2>1 DEF DecodeRect
  <2>2. CASE encoding = DesktopSize
    BY <1>5, <1>6, <2>2 DEF DecodeRect
  <2>3. CASE encoding = Cursor
    BY <1>5, <1>6, <2>3 DEF DecodeRect
  <2>4. CASE encoding \notin Implemented
    BY <1>5, <2>4 DEF DecodeRect, Implemented
  <2> QED
    BY <2>1, <2>2, <2>3, <2>4 DEF Implemented
<1>10. CASE encoding = Raw /\ DecodeRaw(r, item)
  <2>1. \A y \in 0 .. r.height - 1 : RowFits(r, y)
    BY <1>7, <1>8, <1>10, InsideAccepted
  <2>2. \/ /\ Stops("garbled")
           /\ r.width * r.height * BytesPerPixel(fb.format) # item.bytes
        \/ /\ fb' = [fb EXCEPT !.data = Stored(r, Understood(item))]
           /\ RectDone("framebuffer_update")
    BY <1>10, <2>1 DEF DecodeRaw
  <2>3. r.width * r.height * BytesPerPixel(fb.format) # item.bytes
          => ~Measured(item, fb.format)
    BY <1>10 DEF Measured
  <2> QED
    BY <1>1, <1>2, <1>3, <1>4, <1>5, <1>6, <1>7, <1>8, <1>10, <2>2, <2>3 DEF item
<1>11. CASE encoding = DesktopSize /\ DecodeDesktopSize(r)
  BY <1>1, <1>2, <1>3, <1>4, <1>5, <1>6, <1>7, <1>8, <1>11
     DEF item, DecodeDesktopSize
<1>12. CASE encoding = Cursor /\ DecodeCursor(r, item)
  <2>1. \/ /\ Stops("garbled") /\ CursorBytes(r) # item.bytes
        \/ RectDone("cursor_update") /\ fb' = fb
    BY <1>12, Zenon DEF DecodeCursor
  <2>2. CursorBytes(r) # item.bytes => ~Measured(item, fb.format)
    BY <1>12 DEF Measured, CursorBytes
  <2> QED
    BY <1>1, <1>2, <1>3, <1>4, <1>5, <1>6, <1>7, <1>8, <1>12, <2>1, <2>2 DEF item
<1>13. CASE encoding \notin Implemented /\ Stops("unsupported")
  BY <1>1, <1>2, <1>3, <1>4, <1>5, <1>6, <1>7, <1>8, <1>13
     DEF item, Implemented
<1> QED
  BY <1>9, <1>10, <1>11, <1>12, <1>13

LEMMA FittingRect ==
  ASSUME Fitting, Told, DecodeRect
  PROVE  Fitting'
<1>1. Shaped
  BY DEF Fitting
<1>2. PICK G : Sizing(G)
  BY DEF Fitting
<1> DEFINE item == Stream[1]
           r == Rect(item.header)
           encoding == Encoding(item.header)
<1>3. /\ toClient # <<>> /\ toClient' = Tail(toClient)
      /\ UNCHANGED <<app, toServer, service>>
      /\ pc = "rects" /\ update.left > 0
      /\ update' = [update EXCEPT !.left = @ - 1]
      /\ item.kind = "rect" /\ Sound(item)
      /\ Sized(G[0], item, G[1])
      /\ Backed
      /\ encoding = Raw => Inside(r)
  BY <1>2, RectTaken
<1>4. \/ Stops("garbled") /\ encoding # DesktopSize
      \/ Stops("unsupported") /\ encoding # DesktopSize
      \/ /\ encoding = Raw /\ RectDone("framebuffer_update")
         /\ fb' = [fb EXCEPT !.data = Stored(r, Understood(item))]
      \/ /\ encoding = DesktopSize /\ RectDone("desktop_resize")
         /\ fb' = Resized(r)
      \/ /\ encoding = Cursor /\ RectDone("cursor_update")
         /\ fb' = fb
  BY <1>2, RectTaken DEF Implemented
<1> HIDE DEF item
<1>5. Raw # DesktopSize /\ Cursor # DesktopSize /\ Raw # Cursor
  BY DEF Raw, DesktopSize, Cursor
<1>6. UNCHANGED <<sending, server, screen>>
  BY <1>3 DEF service
<1>7. ScreenOK'
  BY <1>1, <1>6 DEF Shaped, ScreenOK
<1>8. Flowing' /\ Len(toClient') <= Buffer
  <2>1. Flowing' /\ Len(toClient') <= Len(toClient)
    BY <1>1, <1>3, <1>6, StreamTaken DEF Shaped
  <2>2. /\ Len(toClient) \in Nat /\ Len(toClient') \in Nat
        /\ Len(toClient) <= Buffer
    BY <1>1, <2>1, Sequences DEF Shaped, TypeOK, Flowing
  <2> QED
    BY <2>1, <2>2, BufferAssumption
<1>9. /\ update.left \in Nat /\ update.left <= Len(Stream)
      /\ G[update.left] = SizeOf(update.shows) /\ G[0] = SizeOf(fb)
  BY <1>1, <1>2, <1>3 DEF Shaped, TypeOK, Sizing, InUpdate
<1>10. /\ update'.left \in Nat /\ update'.left + 1 <= Len(Stream)
       /\ G[update'.left + 1] = SizeOf(update'.shows)
  <2>1. update'.left = update.left - 1
    BY <1>1, <1>3 DEF Shaped
  <2>2. update'.shows = update.shows
    BY <1>1, <1>3 DEF Shaped
  <2> QED
    BY <1>3, <1>9, <2>1, <2>2
<1>11. /\ pc' \in {"garbled", "unsupported", "rects", "callback"}
       /\ then' \in {"message", "rects"}
  <2>1. CASE Stops("garbled") \/ Stops("unsupported")
    BY <1>1, <2>1 DEF Stops, Shaped, TypeOK
  <2>2. ASSUME NEW name, RectDone(name)
        PROVE  pc' \in {"rects", "callback"} /\ then' = "rects"
    BY <2>2, InvokeDone DEF RectDone
  <2> QED
    BY <1>4, <2>1, <2>2
<1>12. /\ SizeOf(fb') = G[1] /\ SizeOf(fb') \in Sizes
       /\ fb'.format \in PixelFormats
       /\ fb'.data \in [0 .. fb'.width * fb'.height - 1
                          -> Colours \cup {"blank", "garbage"}]
  <2>1. /\ SizeOf(fb) \in Sizes /\ fb.format \in PixelFormats
        /\ fb.data \in [0 .. fb.width * fb.height - 1
                          -> Colours \cup {"blank", "garbage"}]
    BY <1>1 DEF Shaped, TypeOK, SizeOf
  <2>2. DOMAIN fb = {"format", "data", "width", "height"}
    BY DEF Told
  <2>3. encoding # DesktopSize => G[1] = SizeOf(fb)
    BY <1>3, <1>9 DEF Sized
  <2>4. CASE fb' = fb /\ encoding # DesktopSize
    BY <2>1, <2>3, <2>4
  <2>5. CASE /\ encoding = Raw
             /\ fb' = [fb EXCEPT !.data = Stored(r, Understood(item))]
    <3>1. /\ fb'.width = fb.width /\ fb'.height = fb.height
          /\ fb'.format = fb.format /\ fb'.data = Stored(r, Understood(item))
      BY <2>2, <2>5
    <3>2. Stored(r, Understood(item))
            \in [0 .. fb.width * fb.height - 1
                   -> Colours \cup {"blank", "garbage"}]
      <4>1. /\ Inside(Rect(item.header)) /\ Sound(item)
            /\ item.kind = "rect" /\ Pixels(item)
        BY <1>3, <1>5, <2>5 DEF Pixels
      <4> QED
        BY <1>3, <2>1, <4>1, StoredTypes
    <3> QED
      BY <1>5, <2>1, <2>3, <2>5, <3>1, <3>2 DEF SizeOf
  <2>6. CASE encoding = DesktopSize /\ fb' = Resized(r)
    <3>1. /\ fb'.width = r.width /\ fb'.height = r.height
          /\ fb'.format = fb.format /\ fb'.data = Blank(r.width, r.height)
      BY <2>2, <2>6 DEF Resized
    <3>2. /\ r.width \in Nat /\ r.height \in Nat /\ SizeOf(r) \in Sizes
      BY <1>3, <2>6 DEF Sound, SizeOf
    <3>3. G[1] = SizeOf(r)
      BY <1>3, <2>6 DEF Sized
    <3> QED
      <4>1. Blank(r.width, r.height)
              \in [0 .. r.width * r.height - 1
                     -> Colours \cup {"blank", "garbage"}]
        BY <3>2, BlankTypes
      <4>2. SizeOf(fb') = SizeOf(r)
        BY <3>1 DEF SizeOf
      <4> HIDE DEF r
      <4> QED
        BY <2>1, <3>1, <3>2, <3>3, <4>1, <4>2
  <2>7. Stops("garbled") \/ Stops("unsupported") => fb' = fb
    BY DEF Stops
  <2> QED
    BY <1>4, <1>5, <2>4, <2>5, <2>6, <2>7
<1>13. TypeOK' /\ pc' # "refused"
  BY <1>1, <1>3, <1>6, <1>8, <1>10, <1>11, <1>12 DEF Shaped, TypeOK, SizeOf
<1>14. Shaped'
  <2>1. DOMAIN update' = DOMAIN update
    BY <1>3
  <2>2. Typed(toServer')
    BY <1>1, <1>3 DEF Shaped
  <2> QED
    BY <1>1, <1>6, <1>7, <1>8, <1>13, <2>1, <2>2 DEF Shaped, Typed
<1> QED
  BY <1>2, <1>3, <1>6, <1>10, <1>12, <1>14, FittingTaken

LEMMA FittingServerReads ==
  ASSUME Fitting, Told, ServerReads
  PROVE  Fitting'
<1> DEFINE m == Head(toServer)
<1>1. /\ UNCHANGED <<client, toClient, sending, screen>>
      /\ toServer # <<>> /\ toServer' = Tail(toServer) /\ server' = Heard(m)
  BY DEF ServerReads
<1>2. Shaped
  BY DEF Fitting
<1>3. Len(toServer') <= Buffer
  <2>1. /\ Len(toServer') = Len(toServer) - 1 /\ Len(toServer) \in Nat
        /\ Len(toServer) <= Buffer
    BY <1>1, <1>2, Sequences DEF Told, Shaped, TypeOK
  <2> QED
    BY <2>1, BufferAssumption
<1>4. /\ DOMAIN server' = DOMAIN server /\ server'.resized = server.resized
      /\ server'.dirty \subseteq Points(screen) /\ server'.told = server.told
  BY <1>1, <1>2 DEF Heard, Shaped, TypeOK
<1>types. server'.encodings \subseteq S32 /\ Typed(toServer')
  <2>1. /\ Len(toServer') = Len(toServer) - 1 /\ Len(toServer) \in Nat
        /\ Len(toServer) > 0 /\ m = toServer[1]
        /\ \A i \in 1 .. Len(toServer) - 1 : toServer'[i] = toServer[i + 1]
    BY <1>1, Sequences DEF Told
  <2>2. \A i \in 1 .. Len(toServer) : toServer[i].types \subseteq S32
    BY <1>2 DEF Shaped, Typed
  <2>3. m.types \subseteq S32
    BY <2>1, <2>2
  <2>4. \/ server'.encodings = server.encodings
        \/ server'.encodings = m.types
    BY <1>1, <1>2 DEF Heard, Shaped
  <2>5. \A i \in 1 .. Len(toServer) - 1 : i + 1 \in 1 .. Len(toServer)
    BY <2>1
  <2> QED
    BY <1>2, <2>1, <2>2, <2>3, <2>4, <2>5 DEF Shaped, Typed
<1>5. UNCHANGED <<fb, pc, then, update>>
  BY <1>1 DEF client
<1>6. TypeOK' /\ pc' # "refused"
  BY <1>1, <1>2, <1>3, <1>4, <1>5 DEF Shaped, TypeOK
<1>7. ScreenOK' /\ Flowing'
  BY <1>1, <1>2 DEF Shaped, ScreenOK, Flowing
<1>8. Shaped'
  BY <1>1, <1>2, <1>4, <1>types, <1>5, <1>6, <1>7 DEF Shaped
<1>9. InUpdate' => InUpdate
  BY <1>5 DEF InUpdate
<1> QED
  BY <1>1, <1>4, <1>5, <1>8, <1>9, StreamKept, FittingKept

LEMMA FittingServerWrites ==
  ASSUME Fitting, ServerWrites
  PROVE  Fitting'
<1>1. Shaped
  BY DEF Fitting
<1>2. Flowing' /\ Stream' = Stream /\ Len(toClient') = Len(toClient) + 1
  BY <1>1, StreamWritten DEF Shaped
<1>3. /\ UNCHANGED <<fb, pc, then, update, toServer, server, screen>>
      /\ Len(toClient) < Buffer
  BY DEF ServerWrites, client
<1>4. Len(toClient') <= Buffer
  <2>1. Len(toClient) \in Nat
    BY <1>1, Sequences DEF Shaped, Flowing
  <2> QED
    BY <1>2, <1>3, <2>1, BufferAssumption
<1>5. TypeOK' /\ pc' # "refused"
  BY <1>1, <1>3, <1>4 DEF Shaped, TypeOK
<1>6. ScreenOK'
  BY <1>1, <1>3 DEF Shaped, ScreenOK
<1>7. Shaped'
  BY <1>1, <1>2, <1>3, <1>5, <1>6 DEF Shaped
<1>8. InUpdate' => InUpdate
  BY <1>3 DEF InUpdate
<1> QED
  BY <1>2, <1>3, <1>7, <1>8, FittingKept

LEMMA FittingScreen ==
  ASSUME Fitting, ScreenChanges \/ ScreenResized
  PROVE  Fitting'
<1>1. Shaped
  BY DEF Fitting
<1>2. UNCHANGED <<fb, pc, then, update, toServer, toClient, sending>>
  BY DEF ScreenChanges, ScreenResized, client
<1>3. /\ DOMAIN screen' = {"width", "height", "pixels"} /\ ScreenOK'
      /\ DOMAIN server' = DOMAIN server /\ server'.resized \in BOOLEAN
      /\ server'.dirty \subseteq Points(screen')
      /\ ~server'.resized => ~server.resized /\ SizeOf(screen') = SizeOf(screen)
      /\ server'.told = server.told /\ server'.encodings = server.encodings
  <2>1. CASE ScreenChanges
    <3>1. PICK p \in Points(screen), c \in Colours :
            /\ screen' = [screen EXCEPT !.pixels[p] = c]
            /\ server' = [server EXCEPT !.dirty = @ \cup {p}]
      BY <2>1 DEF ScreenChanges
    <3>2. /\ screen'.width = screen.width /\ screen'.height = screen.height
          /\ screen'.pixels = [screen.pixels EXCEPT ![p] = c]
          /\ DOMAIN screen' = {"width", "height", "pixels"}
      BY <1>1, <3>1 DEF Shaped
    <3>3. Points(screen') = Points(screen) /\ SizeOf(screen') = SizeOf(screen)
      BY <3>2 DEF Points, SizeOf
    <3>4. screen'.pixels \in [Points(screen) -> Colours]
      BY <1>1, <3>2 DEF Shaped, ScreenOK
    <3>5. /\ DOMAIN server' = DOMAIN server /\ server'.resized = server.resized
          /\ server'.dirty = server.dirty \cup {p}
          /\ server'.told = server.told /\ server'.encodings = server.encodings
      BY <1>1, <3>1 DEF Shaped
    <3> QED
      BY <1>1, <3>2, <3>3, <3>4, <3>5 DEF Shaped, ScreenOK, TypeOK
  <2>2. CASE ScreenResized
    <3>1. PICK size \in Sizes, c \in Colours :
            /\ screen' = Screen(size, LAMBDA p : IF p \in Points(screen)
                                                 THEN screen.pixels[p] ELSE c)
            /\ server' = [server EXCEPT !.dirty = Points(screen'),
                                        !.resized = TRUE]
      BY <2>2 DEF ScreenResized
    <3>2. /\ screen'.width = size[1] /\ screen'.height = size[2]
          /\ DOMAIN screen' = {"width", "height", "pixels"}
          /\ screen'.pixels = [p \in Points(screen') |->
                                 IF p \in Points(screen) THEN screen.pixels[p]
                                                         ELSE c]
      BY <3>1 DEF Screen, Points
    <3>3. size = <<size[1], size[2]>>
      BY SizesAssumption
    <3>4. SizeOf(screen') \in Sizes
      BY <3>2, <3>3 DEF SizeOf
    <3>5. screen'.pixels \in [Points(screen') -> Colours]
      <4>1. \A p \in Points(screen) : screen.pixels[p] \in Colours
        BY <1>1 DEF Shaped, ScreenOK
      <4> QED
        BY <3>2, <4>1
    <3>6. /\ DOMAIN server' = DOMAIN server /\ server'.resized = TRUE
          /\ server'.dirty = Points(screen')
          /\ server'.told = server.told /\ server'.encodings = server.encodings
      BY <1>1, <3>1 DEF Shaped
    <3> QED
      BY <3>2, <3>4, <3>5, <3>6 DEF ScreenOK
  <2> QED
    BY <2>1, <2>2
<1>4. TypeOK' /\ pc' # "refused"
  BY <1>1, <1>2, <1>3 DEF Shaped, TypeOK
<1>5. Flowing'
  BY <1>1, <1>2 DEF Shaped, Flowing
<1>6. Shaped'
  BY <1>1, <1>2, <1>3, <1>4, <1>5 DEF Shaped
<1>7. InUpdate' => InUpdate
  BY <1>2 DEF InUpdate
<1> QED
  BY <1>2, <1>3, <1>6, <1>7, StreamKept, FittingKept

LEMMA RungStream ==
  ASSUME Flowing, ServerRings
  PROVE  /\ Flowing' /\ Len(Stream) \in Nat
         /\ Len(Stream') = Len(Stream) + 1
         /\ \A i \in 1 .. Len(Stream) : Stream'[i] = Stream[i]
         /\ Stream'[Len(Stream) + 1].kind = "bell"
<1> DEFINE e == [kind |-> "bell"]
<1>1. /\ sending = <<>> /\ sending' = <<e>> /\ toClient' = toClient
      /\ e.kind = "bell"
  BY DEF ServerRings, ServerFree
<1> HIDE DEF e
<1>2. Sequence(<<e>>) /\ Len(<<e>>) = 1 /\ <<e>>[1] = e
  BY Singleton
<1>3. Sequence(sending') /\ Len(sending') = 1 /\ sending'[1] = e
  BY <1>1, <1>2
<1>4. /\ Flowing' /\ Len(Stream) \in Nat
      /\ Len(Stream') = Len(Stream) + Len(sending')
      /\ \A i \in 1 .. Len(Stream) : Stream'[i] = Stream[i]
      /\ \A i \in 1 .. Len(sending') : Stream'[Len(Stream) + i] = sending'[i]
  BY <1>1, <1>3, StreamGrown
<1> QED
  BY <1>1, <1>3, <1>4

LEMMA FittingServerRings ==
  ASSUME Fitting, ServerRings
  PROVE  Fitting'
<1> DEFINE n == Len(Stream)
<1>1. Shaped /\ \A i \in 1 .. n : Sound(Stream[i])
  BY DEF Fitting
<1>2. PICK G : Sizing(G)
  BY DEF Fitting
<1>3. PICK H : H = [i \in 0 .. n + 1 |-> IF i <= n THEN G[i] ELSE G[n]]
  OBVIOUS
<1>4. /\ Flowing' /\ n \in Nat /\ Len(Stream') = n + 1
      /\ \A i \in 1 .. n : Stream'[i] = Stream[i]
      /\ Stream'[n + 1].kind = "bell"
  BY <1>1, RungStream DEF Shaped
<1>5. UNCHANGED <<fb, pc, then, update, toServer, toClient, server, screen>>
  BY DEF ServerRings, client
<1>6. TypeOK' /\ pc' # "refused" /\ ScreenOK'
  BY <1>1, <1>5 DEF Shaped, TypeOK, ScreenOK
<1>7. Shaped'
  BY <1>1, <1>4, <1>5, <1>6 DEF Shaped
<1>8. \A i \in 1 .. n + 1 : Sound(Stream'[i])
  <2>1. Sound(Stream'[n + 1])
    BY <1>4 DEF Sound
  <2>2. \A i \in 1 .. n + 1 : i \in 1 .. n \/ i = n + 1
    BY <1>4
  <2> QED
    BY <1>1, <1>4, <2>1, <2>2
<1>9. /\ G[0] = SizeOf(fb)
      /\ \A i \in 1 .. n : Sized(G[i - 1], Stream[i], G[i])
      /\ G[n] = server.told
      /\ \A i \in 1 .. n : Stream[i].kind = "update" =>
           /\ i + Stream[i].update.left <= n
           /\ G[i + Stream[i].update.left] = SizeOf(Stream[i].update.shows)
      /\ InUpdate => update.left <= n /\ G[update.left] = SizeOf(update.shows)
  BY <1>2 DEF Sizing
<1> HIDE DEF n
<1>10. (\A i \in 0 .. n : H[i] = G[i]) /\ H[n + 1] = G[n]
  BY <1>3, <1>4
<1>11. H[0] = SizeOf(fb)
  BY <1>4, <1>9, <1>10
<1>12. ASSUME NEW i \in 1 .. n + 1
       PROVE  Sized(H[i - 1], Stream'[i], H[i])
  <2>1. CASE i \in 1 .. n
    <3>1. i - 1 \in 0 .. n /\ i \in 0 .. n
      BY <1>4, <2>1
    <3>2. H[i - 1] = G[i - 1] /\ H[i] = G[i] /\ Stream'[i] = Stream[i]
      BY <1>4, <1>10, <2>1, <3>1
    <3>3. Sized(G[i - 1], Stream[i], G[i])
      BY <1>9, <2>1
    <3> QED
      BY <3>2, <3>3
  <2>2. CASE i = n + 1
    <3>1. n \in 0 .. n /\ i - 1 = n
      BY <1>4, <2>2
    <3>2. H[i - 1] = G[n] /\ H[i] = G[n]
      BY <1>10, <2>2, <3>1
    <3> QED
      BY <1>4, <2>2, <3>2 DEF Sized
  <2> QED
    BY <1>4, <2>1, <2>2
<1>13. ASSUME NEW i \in 1 .. n + 1, Stream'[i].kind = "update"
       PROVE  /\ i + Stream'[i].update.left <= n + 1
              /\ H[i + Stream'[i].update.left] = SizeOf(Stream'[i].update.shows)
  <2>1. i \in 1 .. n /\ Stream'[i] = Stream[i] /\ Stream[i].kind = "update"
    BY <1>4, <1>13
  <2> DEFINE l == Stream[i].update.left
  <2>2. l \in Nat
    BY <1>1, <2>1 DEF Sound, n
  <2>3. i + l <= n /\ G[i + l] = SizeOf(Stream[i].update.shows)
    BY <1>9, <2>1
  <2> HIDE DEF l
  <2>4. i + l \in 0 .. n /\ i + l <= n + 1
    BY <1>4, <2>2, <2>3
  <2>5. H[i + l] = SizeOf(Stream[i].update.shows)
    BY <1>10, <2>3, <2>4
  <2> QED
    BY <2>1, <2>4, <2>5 DEF l
<1>14. InUpdate => /\ update.left <= n + 1
                   /\ H[update.left] = SizeOf(update.shows)
  <2>1. update.left \in Nat
    BY <1>1 DEF Shaped, TypeOK
  <2>2. InUpdate => update.left \in 0 .. n /\ update.left <= n + 1
    BY <1>4, <1>9, <2>1
  <2> QED
    BY <1>9, <1>10, <2>2
<1>15. InUpdate' <=> InUpdate
  BY <1>5 DEF InUpdate
<1>16. Sizing(H)'
  BY <1>4, <1>5, <1>9, <1>10, <1>11, <1>12, <1>13, <1>14, <1>15 DEF Sizing
<1> QED
  BY <1>4, <1>7, <1>8, <1>16 DEF Fitting

LEMMA FittingServerUpdates ==
  ASSUME Fitting, ServerUpdates
  PROVE  Fitting'
<1> DEFINE n == Len(Stream)
           size == SizeOf(screen)
<1>1. Shaped /\ \A i \in 1 .. n : Sound(Stream[i])
  BY DEF Fitting
<1>2. PICK G : Sizing(G)
  BY DEF Fitting
<1>3. PICK items, stale, d : Updates(items, stale, d)
  BY <1>1, UpdateSent DEF Shaped
<1> DEFINE m == Len(items)
           head == Heading(items, stale)
<1>4. /\ Flowing' /\ n \in Nat /\ m \in Nat /\ Len(Stream') = n + 1 + m
      /\ \A i \in 1 .. n : Stream'[i] = Stream[i]
      /\ Stream'[n + 1] = head
      /\ \A i \in 1 .. m : Stream'[n + 1 + i] = items[i]
  BY <1>1, <1>3, UpdateStream DEF Shaped
<1>5. /\ UNCHANGED <<fb, pc, then, update, toServer, toClient, screen>>
      /\ DOMAIN server' = DOMAIN server
      /\ server'.resized = FALSE /\ server'.dirty = stale
      /\ server'.told = size /\ server'.encodings = server.encodings
      /\ stale \subseteq server.dirty
  BY <1>1, <1>3 DEF Updates, client, Shaped
<1>6. TypeOK' /\ pc' # "refused" /\ ScreenOK'
  BY <1>1, <1>5 DEF Shaped, TypeOK, ScreenOK
<1>7. Shaped'
  <2>1. server'.told \in Sizes /\ server'.told = SizeOf(screen')
    BY <1>1, <1>5 DEF Shaped, ScreenOK
  <2> QED
    BY <1>1, <1>4, <1>5, <1>6, <2>1 DEF Shaped
<1>8. /\ head.kind = "update" /\ head.update.left = m
      /\ head.update.shows = screen
      /\ DOMAIN head.update = {"left", "shows", "stale"}
  BY DEF Heading
<1>9. \A i \in 1 .. m :
        /\ items[i].kind = "rect" /\ Sound(items[i])
        /\ Encoding(items[i].header) = DesktopSize <=> i = d
        /\ i = d => SizeOf(Rect(items[i].header)) = size
        /\ i < d => Fits(items[i], server.told)
        /\ i > d /\ Pixels(items[i]) => Depicts(items[i], screen)
  BY <1>3 DEF Updates, Item
<1>10. d \in Nat /\ d <= m /\ (d = 0 => server.told = size)
  BY <1>1, <1>3 DEF Updates, Shaped
<1>11. /\ G[0] = SizeOf(fb)
       /\ \A i \in 1 .. n : Sized(G[i - 1], Stream[i], G[i])
       /\ G[n] = server.told
       /\ \A i \in 1 .. n : Stream[i].kind = "update" =>
            /\ i + Stream[i].update.left <= n
            /\ G[i + Stream[i].update.left] = SizeOf(Stream[i].update.shows)
       /\ InUpdate => update.left <= n /\ G[update.left] = SizeOf(update.shows)
  BY <1>2 DEF Sizing
<1> DEFINE size_after(j) == IF j < d THEN server.told ELSE size
<1>12. PICK H : H = [i \in 0 .. n + 1 + m |->
                       IF i <= n THEN G[i] ELSE size_after(i - (n + 1))]
  OBVIOUS
<1>told. size_after(0) = server.told /\ size_after(m) = size
  BY <1>4, <1>10
<1> HIDE DEF n, m, head
<1>13. /\ \A i \in 0 .. n : H[i] = G[i]
       /\ H[n + 1] = G[n]
       /\ \A j \in 0 .. m : H[n + 1 + j] = size_after(j)
  <2>1. \A i \in 0 .. n : i \in 0 .. n + 1 + m /\ i <= n
    BY <1>4
  <2>3. \A j \in 0 .. m : /\ n + 1 + j \in 0 .. n + 1 + m
                          /\ ~(n + 1 + j <= n) /\ (n + 1 + j) - (n + 1) = j
    BY <1>4
  <2>4. 0 \in 0 .. m /\ n + 1 + 0 = n + 1
    BY <1>4
  <2> HIDE DEF size, size_after
  <2>5. \A j \in 0 .. m : H[n + 1 + j] = size_after(j)
    BY <1>12, <2>3
  <2>6. H[n + 1] = size_after(0)
    BY <2>4, <2>5
  <2> QED
    BY <1>11, <1>12, <1>told, <2>1, <2>5, <2>6
<1>14. \A i \in 1 .. n + 1 + m :
         i \in 1 .. n \/ i = n + 1 \/ \E j \in 1 .. m : i = n + 1 + j
  <2> SUFFICES ASSUME NEW i \in 1 .. n + 1 + m, ~(i \in 1 .. n), i # n + 1
               PROVE  \E j \in 1 .. m : i = n + 1 + j
    OBVIOUS
  <2>1. i - (n + 1) \in 1 .. m /\ i = n + 1 + (i - (n + 1))
    BY <1>4
  <2> QED
    BY <2>1
<1>15. \A i \in 1 .. n + 1 + m : Sound(Stream'[i])
  <2>1. Sound(head)
    BY <1>4, <1>8 DEF Sound
  <2>2. \A i \in 1 .. n : Sound(Stream[i])
    BY <1>1 DEF n
  <2>3. \A i \in 1 .. n : Sound(Stream'[i])
    BY <1>4, <2>2
  <2>4. \A i \in 1 .. m : Sound(Stream'[n + 1 + i])
    BY <1>4, <1>9
  <2>5. Sound(Stream'[n + 1])
    BY <1>4, <2>1
  <2> QED
    BY <1>14, <2>3, <2>4, <2>5
<1>16. H[0] = SizeOf(fb)
  <2>1. 0 \in 0 .. n
    BY <1>4
  <2> QED
    BY <1>11, <1>13, <2>1
<1>17. ASSUME NEW j \in 1 .. m
       PROVE  Sized(size_after(j - 1), items[j], size_after(j))
  <2> DEFINE e == items[j]
  <2>1. /\ e.kind = "rect"
        /\ Encoding(e.header) = DesktopSize <=> j = d
        /\ j = d => SizeOf(Rect(e.header)) = size
        /\ j < d => Fits(e, server.told)
        /\ j > d /\ Pixels(e) => Depicts(e, screen)
    BY <1>9
  <2> HIDE DEF e
  <2>2. CASE j = d
    <3>1. size_after(j) = size
      BY <1>10, <2>2
    <3> HIDE DEF size_after, size
    <3> QED
      BY <2>1, <2>2, <3>1 DEF Sized, e
  <2>3. CASE j < d
    <3>1. size_after(j) = server.told /\ size_after(j - 1) = server.told /\ j # d
      BY <1>4, <1>10, <2>3
    <3> HIDE DEF size_after, size
    <3> QED
      BY <2>1, <2>3, <3>1 DEF Sized, Fits, e
  <2>4. CASE j > d
    <3>1. size_after(j) = size /\ size_after(j - 1) = size /\ j # d
      BY <1>4, <1>10, <2>4
    <3>2. Pixels(e) => LET r == Rect(e.header)
                       IN r.x + r.width <= size[1] /\ r.y + r.height <= size[2]
      BY <2>1, <2>4 DEF Depicts, SizeOf
    <3> HIDE DEF size_after, size
    <3> QED
      BY <2>1, <2>4, <3>1, <3>2 DEF Sized, e
  <2> QED
    BY <1>4, <1>10, <2>2, <2>3, <2>4
<1>18. ASSUME NEW i \in 1 .. n + 1 + m
       PROVE  Sized(H[i - 1], Stream'[i], H[i])
  <2>1. CASE i \in 1 .. n
    <3>1. i - 1 \in 0 .. n /\ i \in 0 .. n
      BY <1>4, <2>1
    <3>2. H[i - 1] = G[i - 1] /\ H[i] = G[i] /\ Stream'[i] = Stream[i]
      BY <1>4, <1>13, <2>1, <3>1
    <3>3. Sized(G[i - 1], Stream[i], G[i])
      BY <1>11, <2>1
    <3> QED
      BY <3>2, <3>3
  <2>2. CASE i = n + 1
    <3>1. n \in 0 .. n /\ i - 1 = n
      BY <1>4, <2>2
    <3>2. H[i - 1] = G[n] /\ H[i] = G[n] /\ Stream'[i] = head
      BY <1>4, <1>13, <2>2, <3>1
    <3> QED
      BY <1>8, <3>2 DEF Sized
  <2>3. CASE \E j \in 1 .. m : i = n + 1 + j
    <3>1. PICK j \in 1 .. m : i = n + 1 + j
      BY <2>3
    <3>2. H[i] = size_after(j) /\ Stream'[i] = items[j]
      BY <1>4, <1>13, <3>1
    <3>3. H[i - 1] = size_after(j - 1)
      <4>1. j - 1 \in 0 .. m /\ i - 1 = n + 1 + (j - 1)
        BY <1>4, <3>1
      <4> HIDE DEF size_after
      <4> QED
        BY <1>13, <4>1
    <3> HIDE DEF size_after
    <3> QED
      BY <1>17, <3>2, <3>3
  <2> QED
    BY <1>14, <2>1, <2>2, <2>3
<1>19. H[n + 1 + m] = size
  <2>1. m \in 0 .. m
    BY <1>4
  <2> HIDE DEF size_after, size
  <2> QED
    BY <1>13, <1>told, <2>1
<1>20. ASSUME NEW i \in 1 .. n + 1 + m, Stream'[i].kind = "update"
       PROVE  LET u == Stream'[i].update
              IN i + u.left <= n + 1 + m /\ H[i + u.left] = SizeOf(u.shows)
  <2>1. CASE i \in 1 .. n
    <3>1. Stream'[i] = Stream[i] /\ Stream[i].kind = "update"
      BY <1>4, <1>20, <2>1
    <3> DEFINE l == Stream[i].update.left
    <3>2. l \in Nat
      BY <1>1, <2>1, <3>1 DEF Sound, n
    <3>3. i + l <= n /\ G[i + l] = SizeOf(Stream[i].update.shows)
      BY <1>11, <2>1, <3>1
    <3> HIDE DEF l
    <3>4. i + l \in 0 .. n /\ i + l <= n + 1 + m
      BY <1>4, <3>2, <3>3
    <3>5. H[i + l] = SizeOf(Stream[i].update.shows)
      BY <1>13, <3>3, <3>4
    <3> QED
      BY <3>1, <3>4, <3>5 DEF l
  <2>2. CASE i = n + 1
    <3>1. /\ Stream'[i].update.left = m /\ Stream'[i].update.shows = screen
      BY <1>4, <1>8, <2>2
    <3>2. i + m = n + 1 + m /\ n + 1 + m <= n + 1 + m
      BY <1>4, <2>2
    <3> QED
      BY <1>19, <3>1, <3>2
  <2>3. CASE \E j \in 1 .. m : i = n + 1 + j
    <3>1. \A j \in 1 .. m : Stream'[n + 1 + j].kind = "rect"
      <4>1. \A j \in 1 .. m : Stream'[n + 1 + j] = items[j]
        BY <1>4
      <4>2. \A j \in 1 .. m : items[j].kind = "rect"
        BY <1>9
      <4> QED
        BY <4>1, <4>2, Zenon
    <3>2. Stream'[i].kind = "rect"
      BY <2>3, <3>1
    <3> QED
      BY <1>20, <3>2
  <2> QED
    BY <1>14, <2>1, <2>2, <2>3
<1>21. InUpdate => /\ update.left <= n + 1 + m
                   /\ H[update.left] = SizeOf(update.shows)
  <2>1. update.left \in Nat
    BY <1>1 DEF Shaped, TypeOK
  <2>2. InUpdate => update.left \in 0 .. n /\ update.left <= n + 1 + m
    BY <1>4, <1>11, <2>1
  <2> QED
    BY <1>11, <1>13, <2>2
<1>22. InUpdate' <=> InUpdate
  BY <1>5 DEF InUpdate
<1>23. SizeOf(screen') = size
  BY <1>5
<1> HIDE DEF size, size_after
<1>24. Sizing(H)'
  BY <1>4, <1>5, <1>16, <1>18, <1>19, <1>20, <1>21, <1>22, <1>23 DEF Sizing
<1> QED
  BY <1>4, <1>7, <1>15, <1>24 DEF Fitting

LEMMA FittingStep == Fitting /\ Told /\ [Next]_vars => Fitting'
<1> SUFFICES ASSUME Fitting, Told, [Next]_vars PROVE Fitting'
  OBVIOUS
<1>1. CASE UNCHANGED vars
  <2>1. UNCHANGED <<fb, pc, then, update, toServer, toClient, sending, server,
                    screen>>
    BY <1>1 DEF vars, client, service
  <2>2. Shaped
    BY DEF Fitting
  <2>3. TypeOK' /\ ScreenOK' /\ Flowing'
    BY <2>1, <2>2 DEF Shaped, TypeOK, ScreenOK, Flowing
  <2>4. Shaped'
    BY <2>1, <2>2, <2>3 DEF Shaped
  <2>5. InUpdate' => InUpdate
    BY <2>1 DEF InUpdate
  <2> QED
    BY <2>1, <2>4, <2>5, StreamKept, FittingKept
<1>2. CASE Loop
  BY <1>2, FittingLoopMessages, FittingRect DEF Loop
<1> QED
  BY <1>1, <1>2, FittingCalls, FittingServerReads, FittingServerUpdates,
     FittingServerWrites, FittingServerRings, FittingScreen
     DEF Next, Serving, Idle

LEMMA FittingAlways == Spec => [](Fitting /\ Told)
<1>1. Init => Fitting /\ Told
  BY FittingInit, ToldInit
<1>2. Fitting /\ Told /\ [Next]_vars => Fitting' /\ Told'
  BY FittingStep, ToldStep
<1> QED
  BY <1>1, <1>2, PTL DEF Spec

(* Every variable keeps its type, and the framebuffer has one pixel for     *)
(* each place of its geometry, through every resize and change of format.   *)
THEOREM UpdatesTypes == Spec => []TypeOK
<1>1. Fitting /\ Told => TypeOK
  BY DEF Fitting, Shaped
<1> QED
  BY <1>1, FittingAlways, PTL

LEMMA KnownInit == Init => Known
<1> SUFFICES ASSUME Init PROVE Known
  OBVIOUS
<1>1. /\ pc = "callback" /\ toClient = <<>> /\ sending = <<>>
      /\ server.encodings = {}
  BY DEF Init
<1>2. Len(Stream) = 0
  <2>1. Sequence(toClient) /\ Sequence(sending)
    BY <1>1, EmptySequence
  <2>2. Len(Stream) = Len(toClient) + Len(sending)
    BY <2>1, Joined DEF Stream
  <2> QED
    BY <1>1, <2>2, EmptySequence
<1> QED
  BY <1>1, <1>2 DEF Known

(* Steps that send nothing, unless it is a bell, and stop at nothing.       *)
LEMMA KnownKept ==
  ASSUME Known, pc' # "unsupported" \/ pc' = pc,
         server.listed \subseteq server'.listed,
         server'.encodings \subseteq server'.listed,
         \A i \in 1..Len(Stream') : Stream'[i].kind = "rect" =>
           \E k \in 1..Len(Stream) : Stream'[i] = Stream[k]
  PROVE  Known'
<1>1. ASSUME NEW i \in 1..Len(Stream'), Stream'[i].kind = "rect"
      PROVE  Encoding(Stream'[i].header) \in Implemented \cup server'.listed
  <2>1. PICK k \in 1..Len(Stream) : Stream'[i] = Stream[k]
    BY <1>1
  <2>2. Encoding(Stream[k].header) \in Implemented \cup server.listed
    BY <1>1, <2>1 DEF Known
  <2> QED
    BY <2>1, <2>2
<1>2. pc' = "unsupported" => ~(server'.listed \subseteq Implemented)
  BY DEF Known
<1> QED
  BY <1>1, <1>2 DEF Known

LEMMA KnownRect ==
  ASSUME Known, Fitting, Told, DecodeRect
  PROVE  Known'
<1>1. PICK G : Sizing(G)
  BY DEF Fitting
<1> DEFINE n == Len(Stream)
           encoding == Encoding(Stream[1].header)
<1>2. /\ toClient # <<>> /\ toClient' = Tail(toClient)
      /\ Stream[1].kind = "rect" /\ 1 \in 1 .. n
      /\ sending' = sending /\ server' = server
  BY <1>1, RectTaken DEF service
<1>3. pc' = "unsupported" => encoding \notin Implemented
  <2>1. ASSUME NEW name, RectDone(name) PROVE pc' # "unsupported"
    BY <2>1, InvokeDone DEF RectDone
  <2>2. Stops("garbled") => pc' # "unsupported"
    BY DEF Stops
  <2> QED
    BY <1>1, <2>1, <2>2, RectTaken
<1>4. /\ n \in Nat /\ Len(Stream') = n - 1
      /\ \A i \in 1 .. n - 1 : Stream'[i] = Stream[i + 1]
  BY <1>2, StreamTaken DEF Fitting, Shaped
<1>5. encoding \in Implemented \cup server.listed
  BY <1>2 DEF Known
<1> HIDE DEF n, encoding
<1>6. ASSUME NEW i \in 1 .. n - 1, Stream'[i].kind = "rect"
      PROVE  Encoding(Stream'[i].header) \in Implemented \cup server'.listed
  <2>1. i + 1 \in 1 .. n /\ Stream'[i] = Stream[i + 1]
    BY <1>4
  <2>2. Encoding(Stream[i + 1].header) \in Implemented \cup server.listed
    BY <1>6, <2>1 DEF Known, n
  <2> QED
    BY <1>2, <2>1, <2>2
<1>7. pc' = "unsupported" => ~(server'.listed \subseteq Implemented)
  BY <1>2, <1>3, <1>5
<1> QED
  BY <1>2, <1>4, <1>6, <1>7 DEF Known

LEMMA KnownServerUpdates ==
  ASSUME Known, Fitting, ServerUpdates
  PROVE  Known'
<1>1. PICK items, stale, d : Updates(items, stale, d)
  BY UpdateSent DEF Fitting, Shaped
<1> DEFINE n == Len(Stream)
           m == Len(items)
<1>2. /\ n \in Nat /\ m \in Nat /\ Len(Stream') = n + 1 + m
      /\ \A i \in 1 .. n : Stream'[i] = Stream[i]
      /\ Stream'[n + 1] = Heading(items, stale)
      /\ \A i \in 1 .. m : Stream'[n + 1 + i] = items[i]
  BY <1>1, UpdateStream DEF Fitting, Shaped
<1>3. Stream'[n + 1].kind # "rect"
  BY <1>2 DEF Heading
<1>4. /\ pc' = pc
      /\ server'.listed = server.listed /\ server'.encodings = server.encodings
  BY <1>1 DEF Updates, client, Fitting, Shaped
<1>5. \A i \in 1 .. m :
        Encoding(items[i].header) \in Implemented \cup server.encodings
  BY <1>1 DEF Updates, Item
<1> HIDE DEF n, m
<1>6. ASSUME NEW i \in 1 .. n + 1 + m, Stream'[i].kind = "rect"
      PROVE  Encoding(Stream'[i].header) \in Implemented \cup server'.listed
  <2>1. CASE i \in 1 .. n
    <3>1. Encoding(Stream[i].header) \in Implemented \cup server.listed
      BY <1>2, <1>6, <2>1 DEF Known, n
    <3> QED
      BY <1>2, <1>4, <2>1, <3>1
  <2>2. CASE ~(i \in 1 .. n)
    <3>1. i # n + 1
      BY <1>3, <1>6
    <3>2. i - (n + 1) \in 1 .. m /\ i = n + 1 + (i - (n + 1))
      BY <1>2, <2>2, <3>1
    <3>3. Stream'[i] = items[i - (n + 1)]
      BY <1>2, <3>2
    <3>4. Encoding(Stream'[i].header) \in Implemented \cup server.encodings
      BY <1>5, <3>2, <3>3
    <3> QED
      BY <1>4, <3>4 DEF Known
  <2> QED
    BY <2>1, <2>2
<1> QED
  BY <1>2, <1>4, <1>6 DEF Known

LEMMA KnownStep == Known /\ Fitting /\ Told /\ [Next]_vars => Known'
<1> SUFFICES ASSUME Known, Fitting, Told, [Next]_vars PROVE Known'
  OBVIOUS
<1>1. Shaped /\ Flowing /\ server.encodings \subseteq server.listed
  BY DEF Fitting, Shaped, Known
<1>2. CASE Calls
  <2>1. UNCHANGED <<toClient, sending, server>>
    BY <1>2 DEF Calls, RequestUpdate, SetPixelFormat, SetEncodings,
               SendPointerEvent, CallbackReturn, Called, service
  <2>2. pc' = pc \/ (pc' = then /\ then # "unsupported")
    BY <1>1, <1>2 DEF Calls, RequestUpdate, SetPixelFormat, SetEncodings,
                     SendPointerEvent, CallbackReturn, Called, Shaped, TypeOK
  <2> QED
    BY <1>1, <2>1, <2>2, StreamKept, KnownKept
<1>3. CASE HandleBell \/ HandleFbUpdate
  <2>1. /\ toClient # <<>> /\ toClient' = Tail(toClient)
        /\ UNCHANGED <<sending, server>> /\ pc' # "unsupported"
    <3>1. HandleBell => pc' # "unsupported"
      BY InvokeDone DEF HandleBell
    <3> QED
      BY <1>3, <3>1 DEF HandleBell, HandleFbUpdate, Receives, service
  <2>2. /\ Len(Stream) \in Nat /\ Len(Stream') = Len(Stream) - 1
        /\ \A i \in 1 .. Len(Stream) - 1 : Stream'[i] = Stream[i + 1]
    BY <1>1, <2>1, StreamTaken
  <2>3. \A i \in 1 .. Len(Stream') :
          i + 1 \in 1 .. Len(Stream) /\ Stream'[i] = Stream[i + 1]
    BY <2>2
  <2> QED
    BY <1>1, <2>1, <2>3, KnownKept
<1>4. CASE UpdateFinished
  <2>1. UNCHANGED <<toClient, sending, server>> /\ pc' # "unsupported"
    BY <1>4, InvokeDone DEF UpdateFinished, service
  <2> QED
    BY <1>1, <2>1, StreamKept, KnownKept
<1>5. CASE ServerReads
  <2>1. UNCHANGED <<client, toClient, sending>> /\ server' = Heard(Head(toServer))
    BY <1>5 DEF ServerReads
  <2>2. /\ server.listed \subseteq server'.listed
        /\ server'.encodings \subseteq server'.listed
    BY <1>1, <2>1 DEF Heard, Shaped
  <2> QED
    BY <2>1, <2>2, StreamKept, KnownKept DEF client
<1>6. CASE ServerWrites
  <2>1. UNCHANGED <<client, server>> /\ Stream' = Stream
    BY <1>1, <1>6, StreamWritten DEF ServerWrites
  <2> QED
    BY <1>1, <2>1, KnownKept DEF client
<1>7. CASE ServerRings
  <2>1. UNCHANGED <<client, server>>
    BY <1>7 DEF ServerRings
  <2>2. /\ Len(Stream) \in Nat /\ Len(Stream') = Len(Stream) + 1
        /\ \A i \in 1 .. Len(Stream) : Stream'[i] = Stream[i]
        /\ Stream'[Len(Stream) + 1].kind = "bell"
    BY <1>1, <1>7, RungStream
  <2>3. \A i \in 1 .. Len(Stream') : Stream'[i].kind = "rect" =>
          i \in 1 .. Len(Stream) /\ Stream'[i] = Stream[i]
    BY <2>2
  <2> QED
    BY <1>1, <2>1, <2>3, KnownKept DEF client
<1>8. CASE ScreenChanges \/ ScreenResized
  <2>1. UNCHANGED <<client, toClient, sending>>
        /\ server'.listed = server.listed
        /\ server'.encodings = server.encodings
    BY <1>1, <1>8 DEF ScreenChanges, ScreenResized, Shaped
  <2> QED
    BY <1>1, <2>1, StreamKept, KnownKept DEF client
<1>9. CASE UNCHANGED vars
  <2>1. UNCHANGED <<client, toClient, sending, server>>
    BY <1>9 DEF vars, service
  <2> QED
    BY <1>1, <2>1, StreamKept, KnownKept DEF client
<1> QED
  BY <1>2, <1>3, <1>4, <1>5, <1>6, <1>7, <1>8, <1>9, KnownRect,
     KnownServerUpdates DEF Next, Loop, Serving, Idle

(* A server that keeps to the protocol is never disconnected for a          *)
(* rectangle: not for one out of bounds, whatever resizes lie between the   *)
(* client's request, the answer and its decoding, and come before, between  *)
(* and inside the updates; and for its encoding only if the application     *)
(* once listed what the library cannot decode.                              *)
THEOREM NoRectRefused == Spec => []NeverRefused
<1>1. Fitting /\ Known => NeverRefused
  BY DEF Fitting, Shaped, Known, NeverRefused
<1>2. Init => Known
  BY KnownInit
<1>3. Known /\ Fitting /\ Told /\ [Next]_vars => Known'
  BY KnownStep
<1> QED
  BY <1>1, <1>2, <1>3, FittingAlways, PTL DEF Spec

-----------------------------------------------------------------------------
(* Who waits for whom.                                                      *)

LEMMA MessageKinds ==
  /\ \A i, w, h : IsRequest(Message(UpdateRequestMessage(i, w, h)))
  /\ \A f \in PixelFormats : ~IsRequest(Message(SetPixelFormatMessage(f)))
  /\ \A list : ~IsRequest(SetEncodingsMessage(list))
  /\ ~IsRequest(Message(<<5>>))
<1>1. \A f \in PixelFormats : ~IsRequest(Message(SetPixelFormatMessage(f)))
  BY FormatArrives DEF IsRequest, Message
<1>2. \A i, w, h : IsRequest(Message(UpdateRequestMessage(i, w, h)))
  BY OtherMessages DEF IsRequest, Message
<1>3. \A list : ~IsRequest(SetEncodingsMessage(list))
  BY OtherMessages DEF IsRequest, SetEncodingsMessage
<1>4. ~IsRequest(Message(<<5>>))
  BY DEF IsRequest, Message
<1> QED
  BY <1>1, <1>2, <1>3, <1>4

LEMMA PatientCalls ==
  ASSUME NEW a \in Patient
  PROVE  /\ a \in DOMAIN Applications
         /\ \A name \in Hooks \ {"main", "framebuffer_update_finished"} :
              Applications[a][name] \subseteq {<<>>}
         /\ \A calls \in Applications[a]["main"] :
              /\ AsksLast(calls)
              /\ \A c \in Configs :
                   Len(InitialMessages(c)) + Len(calls) <= Buffer
         /\ \A calls \in Applications[a]["framebuffer_update_finished"] :
              AsksLast(calls) /\ Len(calls) <= Buffer
BY DEF Patient

(* What connect has sent asks for nothing.                                  *)
LEMMA InitialKinds ==
  ASSUME NEW c \in Configs
  PROVE  LET q == InitialMessages(c)
         IN Sequence(q) /\ \A i \in 1 .. Len(q) : ~IsRequest(q[i])
<1> DEFINE m == Message(SetPixelFormatMessage(c.pixel_format))
           e == SetEncodingsMessage(c.encodings)
           first == IF c.pixel_format # NULL THEN <<m>> ELSE <<>>
           second == IF c.encodings.count > 0 THEN <<e>> ELSE <<>>
           q == first \o second
<1>1. ~IsRequest(e)
  BY MessageKinds
<1>2. c.pixel_format # NULL => ~IsRequest(m)
  BY MessageKinds, ConfigsAssumption
<1>3. InitialMessages(c) = q
  BY DEF InitialMessages
<1> HIDE DEF m, e
<1>4. /\ Sequence(<<m>>) /\ Len(<<m>>) = 1 /\ <<m>>[1] = m
      /\ Sequence(<<e>>) /\ Len(<<e>>) = 1 /\ <<e>>[1] = e
  BY Singleton
<1>5. Sequence(first) /\ \A i \in 1 .. Len(first) : ~IsRequest(first[i])
  BY <1>2, <1>4, EmptySequence
<1>6. Sequence(second) /\ \A i \in 1 .. Len(second) : ~IsRequest(second[i])
  BY <1>1, <1>4, EmptySequence
<1>7. Sequence(first) /\ Sequence(second)
  BY <1>5, <1>6
<1> HIDE DEF first, second
<1>8. /\ Sequence(q) /\ Len(first) \in Nat /\ Len(second) \in Nat
      /\ Len(q) = Len(first) + Len(second)
      /\ \A i \in 1 .. Len(first) : q[i] = first[i]
      /\ \A i \in 1 .. Len(second) : q[Len(first) + i] = second[i]
  BY <1>7, Joined
<1> HIDE DEF q
<1>9. ASSUME NEW i \in 1 .. Len(q) PROVE ~IsRequest(q[i])
  <2>1. CASE i \in 1 .. Len(first)
    BY <1>5, <1>8, <2>1
  <2>2. CASE ~(i \in 1 .. Len(first))
    <3>1. /\ i - Len(first) \in 1 .. Len(second)
          /\ i = Len(first) + (i - Len(first))
      BY <1>8, <2>2
    <3>2. q[i] = second[i - Len(first)]
      BY <1>8, <3>1
    <3> QED
      BY <1>6, <3>1, <3>2
  <2> QED
    BY <2>1, <2>2
<1> QED
  BY <1>3, <1>8, <1>9

LEMMA PhasesInit == Init => Phases
<1> SUFFICES ASSUME Init PROVE Phases
  OBVIOUS
<1>1. PICK c \in Configs, a \in DOMAIN Applications :
        /\ toServer = InitialMessages(c) /\ app = a
        /\ todo \in Applications[a]["main"]
        /\ pc = "callback" /\ then = "message"
        /\ toClient = <<>> /\ sending = <<>> /\ server.asked = {}
  BY DEF Init
<1>2. Len(Stream) = 0 /\ Sequence(toServer)
      /\ \A i \in 1 .. Len(toServer) : ~IsRequest(toServer[i])
  <2>1. Sequence(toClient) /\ Sequence(sending)
    BY <1>1, EmptySequence
  <2>2. Len(Stream) = Len(toClient) + Len(sending)
    BY <2>1, Joined DEF Stream
  <2>3. Len(Stream) = 0
    BY <1>1, <2>2, EmptySequence
  <2> QED
    BY <1>1, <2>3, InitialKinds
<1>3. ~InUpdate /\ ~Answering
  BY <1>1, <1>2 DEF InUpdate, Answering
<1>4. ASSUME app \in Patient PROVE Waiting
  <2>1. AsksLast(todo) /\ Len(toServer) + Len(todo) <= Buffer
    BY <1>1, <1>4, PatientCalls
  <2> QED
    BY <1>1, <1>2, <1>3, <2>1 DEF Waiting
<1>5. Idling /\ Belonging /\ Alone
  BY <1>1, <1>2 DEF Idling, Belonging, Alone
<1> QED
  BY <1>4, <1>5 DEF Phases

(* Steps of the server that leave the stream and the client alone.          *)
LEMMA PhasesApart ==
  ASSUME Phases, Stream' = Stream, UNCHANGED <<client, toServer>>,
         server'.asked = server.asked
  PROVE  Phases'
<1>1. UNCHANGED <<pc, then, app, todo, update>>
  BY DEF client
<1>2. (InUpdate' <=> InUpdate) /\ (Stopped' <=> Stopped)
  BY <1>1 DEF InUpdate, Stopped
<1>3. Answering' <=> Answering
  BY <1>2 DEF Answering
<1>4. Idling' /\ Belonging'
  BY <1>1, <1>2 DEF Phases, Idling, Belonging, Belongs
<1>5. app \in Patient => Waiting' /\ (~Stopped' => Alone')
  BY <1>1, <1>2, <1>3 DEF Phases, Waiting, Alone
<1> QED
  BY <1>1, <1>4, <1>5 DEF Phases

(* The server sends a bell.                                                 *)
LEMMA PhasesServerRings ==
  ASSUME Phases, Flowing, ServerRings
  PROVE  Phases'
<1> DEFINE n == Len(Stream)
<1>1. /\ n \in Nat /\ Len(Stream') = n + 1
      /\ \A i \in 1 .. n : Stream'[i] = Stream[i]
      /\ Stream'[n + 1].kind = "bell"
  BY RungStream
<1>2. UNCHANGED <<pc, then, app, todo, update, toServer, server>>
  BY DEF ServerRings, client
<1>3. (InUpdate' <=> InUpdate) /\ (Stopped' <=> Stopped)
  BY <1>2 DEF InUpdate, Stopped
<1>4. \A i \in 1 .. n + 1 : Stream'[i].kind # "bell" =>
        i \in 1 .. n /\ Stream'[i] = Stream[i]
  BY <1>1
<1>5. Answering' => Answering
  BY <1>1, <1>3, <1>4 DEF Answering
<1>6. Belonging'
  <2> SUFFICES ASSUME ~Stopped, NEW i \in 1 .. n + 1, Stream'[i].kind = "rect"
               PROVE  Belongs(i)'
    BY <1>1, <1>3 DEF Belonging
  <2>1. i \in 1 .. n /\ Stream'[i] = Stream[i]
    BY <1>4
  <2>2. Belongs(i)
    BY <2>1 DEF Phases, Belonging
  <2>3. \A k \in 1 .. i - 1 : Stream'[k] = Stream[k]
    BY <1>1, <2>1
  <2> QED
    BY <1>2, <1>3, <2>2, <2>3 DEF Belongs
<1>7. Idling'
  BY <1>2 DEF Phases, Idling
<1>8. app \in Patient => Waiting' /\ (~Stopped' => Alone')
  <2> SUFFICES ASSUME app \in Patient
               PROVE  Waiting' /\ (~Stopped' => Alone')
    OBVIOUS
  <2>1. Waiting'
    BY <1>2, <1>5 DEF Phases, Waiting
  <2>2. ~Stopped => Alone
    BY DEF Phases
  <2>3. Alone => Alone'
    BY <1>1, <1>3, <1>4 DEF Alone
  <2> QED
    BY <1>3, <2>1, <2>2, <2>3
<1> QED
  BY <1>2, <1>6, <1>7, <1>8 DEF Phases

(* The server answers: nothing else is under way if the client waits.       *)
LEMMA PhasesServerUpdates ==
  ASSUME Phases, Shaped, \A i \in 1..Len(Stream) : Sound(Stream[i]),
         ServerUpdates
  PROVE  Phases'
<1> DEFINE n == Len(Stream)
<1>1. PICK items, stale, d : Updates(items, stale, d)
  BY UpdateSent DEF Shaped
<1> DEFINE m == Len(items)
<1>2. /\ n \in Nat /\ m \in Nat /\ Len(Stream') = n + 1 + m
      /\ \A i \in 1 .. n : Stream'[i] = Stream[i]
      /\ Stream'[n + 1] = Heading(items, stale)
      /\ \A i \in 1 .. m : Stream'[n + 1 + i] = items[i]
  BY <1>1, UpdateStream DEF Shaped
<1>3. /\ UNCHANGED <<pc, then, app, todo, update, toServer>>
      /\ server.asked # {} /\ server'.asked = {}
  BY <1>1 DEF Updates, client, Shaped
<1>4. \A i \in 1 .. m : items[i].kind = "rect"
  BY <1>1 DEF Updates, Item
<1>5. Heading(items, stale).kind = "update" /\ Heading(items, stale).update.left = m
  BY DEF Heading
<1>6. (InUpdate' <=> InUpdate) /\ (Stopped' <=> Stopped)
  BY <1>3 DEF InUpdate, Stopped
<1> HIDE DEF n, m
<1>7. \A i \in 1 .. n + 1 + m : ~(i \in 1 .. n) =>
        n + 1 \in 1 .. n + 1 + m /\ (i # n + 1 => n + 1 \in 1 .. i - 1)
                                 /\ i <= n + 1 + m
  BY <1>2
<1>8. \A i \in 1 .. n + 1 + m : Stream'[i].kind = "update" =>
        i = n + 1 \/ (i \in 1 .. n /\ Stream[i].kind = "update")
  <2> SUFFICES ASSUME NEW i \in 1 .. n + 1 + m, ~(i \in 1 .. n), i # n + 1
               PROVE  Stream'[i].kind = "rect"
    BY <1>2
  <2>1. i - (n + 1) \in 1 .. m /\ i = n + 1 + (i - (n + 1))
    BY <1>2
  <2>2. Stream'[i] = items[i - (n + 1)]
    BY <1>2, <2>1
  <2> QED
    BY <1>4, <2>1, <2>2
<1>9. Belonging'
  <2> SUFFICES ASSUME ~Stopped, NEW i \in 1 .. n + 1 + m,
                      Stream'[i].kind = "rect"
               PROVE  Belongs(i)'
    BY <1>2, <1>6 DEF Belonging
  <2>1. CASE i \in 1 .. n
    <3>1. Belongs(i)
      BY <1>2, <2>1 DEF Phases, Belonging, n
    <3>2. \A k \in 1 .. i - 1 : Stream'[k] = Stream[k]
      BY <1>2, <2>1
    <3> QED
      BY <1>3, <1>6, <3>1, <3>2 DEF Belongs
  <2>2. CASE ~(i \in 1 .. n)
    <3>1. i # n + 1
      BY <1>2, <1>5
    <3>2. n + 1 \in 1 .. i - 1 /\ i <= n + 1 + m
      BY <1>7, <2>2, <3>1
    <3>3. /\ Stream'[n + 1].kind = "update"
          /\ i <= (n + 1) + Stream'[n + 1].update.left
      BY <1>2, <1>5, <3>2
    <3> QED
      BY <3>2, <3>3 DEF Belongs
  <2> QED
    BY <2>1, <2>2
<1>10. Idling'
  BY <1>3 DEF Phases, Idling
<1>11. ASSUME app \in Patient
       PROVE  Waiting' /\ Alone'
  <2>1. Waiting /\ toServer = <<>> /\ ~Answering /\ todo = <<>>
    BY <1>3, <1>11 DEF Phases, Waiting
  <2>2. Len(toServer) = 0
    BY <2>1, EmptySequence
  <2>3. Waiting'
    BY <1>3, <2>1, <2>2 DEF Waiting
  <2>4. ~InUpdate /\ \A i \in 1 .. n : Stream[i].kind = "bell"
    BY <2>1 DEF Answering, n
  <2>5. \A i \in 1 .. n + 1 + m : Stream'[i].kind = "update" => i = n + 1
    BY <1>8, <2>4
  <2>6. Alone'
    BY <1>2, <1>6, <2>4, <2>5 DEF Alone
  <2> QED
    BY <2>3, <2>6
<1> QED
  BY <1>3, <1>9, <1>10, <1>11 DEF Phases

LEMMA PhasesServerReads ==
  ASSUME Phases, Told, Shaped, ServerReads
  PROVE  Phases'
<1> DEFINE m == Head(toServer)
<1>1. /\ UNCHANGED <<client, toClient, sending>>
      /\ toServer # <<>> /\ toServer' = Tail(toServer) /\ server' = Heard(m)
  BY DEF ServerReads
<1>2. UNCHANGED <<pc, then, app, todo, update>> /\ Stream' = Stream
  BY <1>1, StreamKept DEF client
<1>3. /\ Len(toServer) \in Nat /\ Len(toServer) > 0 /\ m = toServer[1]
      /\ Len(toServer') = Len(toServer) - 1
      /\ toServer' = <<>> <=> Len(toServer') = 0
      /\ \A i \in 1 .. Len(toServer) - 1 : toServer'[i] = toServer[i + 1]
  <2>1. Sequence(toServer')
    BY <1>1, Sequences DEF Told
  <2>2. toServer' = <<>> <=> Len(toServer') = 0
    BY <2>1, Sequences
  <2> QED
    BY <1>1, <2>2, Sequences DEF Told
<1>4. ~IsRequest(m) => server'.asked = server.asked
  BY <1>1 DEF Heard, IsRequest, Shaped
<1> HIDE DEF m
<1>5. (InUpdate' <=> InUpdate) /\ (Stopped' <=> Stopped)
  BY <1>2 DEF InUpdate, Stopped
<1>6. Answering' <=> Answering
  BY <1>2, <1>5 DEF Answering
<1>7. Idling' /\ Belonging'
  BY <1>2, <1>5 DEF Phases, Idling, Belonging, Belongs
<1>8. ASSUME app \in Patient
      PROVE  Waiting' /\ (~Stopped' => Alone')
  <2>1. Waiting /\ (~Stopped => Alone)
    BY <1>8 DEF Phases
  <2>2. ~Stopped' => Alone'
    BY <1>2, <1>5, <2>1 DEF Alone
  <2>3. server.asked = {} /\ ~Answering
    BY <1>1, <2>1 DEF Waiting
  <2>4. \A i \in 1 .. Len(toServer') :
          /\ i + 1 \in 1 .. Len(toServer) /\ toServer'[i] = toServer[i + 1]
          /\ i + 1 = Len(toServer) => i = Len(toServer')
    BY <1>3
  <2>5. CASE IsRequest(m)
    <3>1. 1 \in 1 .. Len(toServer)
      BY <1>3
    <3>2. 1 = Len(toServer) /\ todo = <<>>
      BY <1>3, <2>1, <2>5, <3>1 DEF Waiting
    <3>3. Len(toServer') = 0 /\ toServer' = <<>>
      <4>1. Len(toServer') = 0
        <5>1. Len(toServer') = Len(toServer) - 1
          BY <1>3
        <5>2. Len(toServer) = 1
          BY <3>2
        <5> QED
          BY <5>1, <5>2
      <4>2. toServer' = <<>> <=> Len(toServer') = 0
        BY <1>3
      <4> QED
        BY <4>1, <4>2
    <3> QED
      BY <1>2, <1>6, <2>1, <2>2, <2>3, <3>2, <3>3 DEF Waiting
  <2>6. CASE ~IsRequest(m)
    <3>1. server'.asked = {}
      BY <1>4, <2>3, <2>6
    <3>2. todo # <<>> => Len(toServer') + Len(todo) <= Buffer
      <4>1. Len(todo) \in Nat
        BY DEF Told
      <4>2. todo # <<>> => Len(toServer) + Len(todo) <= Buffer
        BY <2>1 DEF Waiting
      <4> QED
        BY <1>3, <4>1, <4>2, BufferAssumption
    <3>3. todo # <<>> => AsksLast(todo) /\ pc = "callback" /\
            \A i \in 1 .. Len(toServer') : ~IsRequest(toServer'[i])
      BY <2>1, <2>4 DEF Waiting
    <3>4. \A i \in 1 .. Len(toServer') :
            IsRequest(toServer'[i]) => i = Len(toServer')
      BY <2>1, <2>4 DEF Waiting
    <3>5. Waiting'
      BY <1>2, <1>6, <2>1, <2>3, <3>1, <3>2, <3>3, <3>4 DEF Waiting
    <3> QED
      BY <2>2, <3>5
  <2> QED
    BY <2>5, <2>6
<1> QED
  BY <1>2, <1>7, <1>8 DEF Phases

(* The client's steps.  A call of an application that waits.                *)
LEMMA PhasesCalls ==
  ASSUME Phases, Told, Shaped, Calls
  PROVE  Phases'
<1>1. CASE CallbackReturn
  <2>1. /\ pc = "callback" /\ todo = <<>> /\ pc' = then
        /\ UNCHANGED <<then, app, todo, update, toServer, toClient, sending,
                       server>>
    BY <1>1 DEF CallbackReturn, service
  <2>2. Stream' = Stream
    BY <2>1, StreamKept
  <2>3. then \in {"message", "rects"}
    BY DEF Shaped, TypeOK
  <2>4. (InUpdate' <=> InUpdate) /\ ~Stopped' /\ ~Stopped
    BY <2>1, <2>3 DEF InUpdate, Stopped
  <2>5. Answering' <=> Answering
    BY <2>2, <2>4 DEF Answering
  <2>6. Idling' /\ Belonging'
    BY <2>1, <2>2, <2>4 DEF Phases, Idling, Belonging, Belongs
  <2>7. app \in Patient => Waiting' /\ Alone'
    BY <2>1, <2>2, <2>3, <2>4, <2>5 DEF Phases, Waiting, Alone
  <2> QED
    BY <2>1, <2>6, <2>7 DEF Phases
<1>2. CASE ~CallbackReturn
  <2> DEFINE call == Head(todo)
  <2>1. /\ pc = "callback" /\ todo # <<>> /\ todo' = Tail(todo)
        /\ UNCHANGED <<pc, then, app, update, toClient, sending, server>>
    BY <1>2, CallDone DEF service
  <2>2. Stream' = Stream
    BY <2>1, StreamKept
  <2>3. (InUpdate' <=> InUpdate) /\ (Stopped' <=> Stopped)
    BY <2>1 DEF InUpdate, Stopped
  <2>4. Answering' <=> Answering
    BY <2>2, <2>3 DEF Answering
  <2>5. Idling' /\ Belonging'
    BY <2>1, <2>2, <2>3 DEF Phases, Idling, Belonging, Belongs
  <2>6. ASSUME app \in Patient
        PROVE  Waiting' /\ (~Stopped' => Alone')
    <3>1. Waiting /\ (~Stopped => Alone)
      BY <2>6 DEF Phases
    <3>2. ~Stopped' => Alone'
      BY <2>2, <2>3, <3>1 DEF Alone
    <3>3. /\ AsksLast(todo) /\ Len(toServer) + Len(todo) <= Buffer
          /\ \A i \in 1..Len(toServer) : ~IsRequest(toServer[i])
          /\ server.asked = {} /\ ~Answering /\ then = "message"
      BY <2>1, <3>1 DEF Waiting
    <3>4. /\ Len(todo) \in Nat /\ Len(todo) > 0 /\ call = todo[1]
          /\ Len(todo') = Len(todo) - 1 /\ call \in CallRecords
          /\ \A i \in 1 .. Len(todo) - 1 : todo'[i] = todo[i + 1]
      BY <2>1 DEF Told
    <3>5. todo' = <<>> <=> Len(todo') = 0
      <4>1. todo' \in Seq(CallRecords)
        BY <2>1 DEF Told
      <4> QED
        BY <4>1
    <3>6. call.call = "request_update" <=> Len(todo) = 1
      BY <3>3, <3>4 DEF AsksLast
    <3>7. todo' # <<>> => AsksLast(todo')
      <4> SUFFICES ASSUME todo' # <<>> PROVE AsksLast(todo')
        OBVIOUS
      <4>1. ASSUME NEW i \in 1 .. Len(todo')
            PROVE  todo'[i].call = "request_update" <=> i = Len(todo')
        <5>1. i + 1 \in 1 .. Len(todo) /\ (i + 1 = Len(todo) <=> i = Len(todo'))
          BY <3>4
        <5>2. todo[i + 1].call = "request_update" <=> i + 1 = Len(todo)
          BY <3>3, <5>1 DEF AsksLast
        <5>3. todo'[i] = todo[i + 1]
          BY <3>4
        <5> QED
          BY <5>1, <5>2, <5>3
      <4> QED
        BY <4>1 DEF AsksLast
    <3>8. Len(toServer) \in Nat
      BY Sequences DEF Told
    <3> HIDE DEF call
    <3>9. CASE toServer' = toServer /\ ~RequestUpdate
      <4>1. call.call # "request_update"
        BY <1>2, <3>9 DEF Calls, RequestUpdate, SetPixelFormat, SetEncodings,
                          SendPointerEvent, Calling, call
      <4>2. todo' # <<>>
        BY <3>4, <3>5, <3>6, <4>1
      <4>3. Len(toServer') + Len(todo') <= Buffer
        BY <3>3, <3>4, <3>8, <3>9, BufferAssumption
      <4>4. Waiting'
        BY <2>1, <2>4, <3>1, <3>3, <3>7, <3>9, <4>2, <4>3 DEF Waiting
      <4> QED
        BY <3>2, <4>4
    <3>10. CASE \E m : Send(m) /\ (IsRequest(m) <=> call.call = "request_update")
      <4>1. PICK m : Send(m) /\ (IsRequest(m) <=> call.call = "request_update")
        BY <3>10
      <4> DEFINE n == Len(toServer)
      <4>2. /\ Len(toServer') = n + 1 /\ toServer'[n + 1] = m
            /\ \A i \in 1 .. n : toServer'[i] = toServer[i]
        BY <4>1, Sequences DEF Told, Send
      <4> HIDE DEF n
      <4>3. \A i \in 1 .. n + 1 : ~(i \in 1 .. n) => i = n + 1
        BY <3>8 DEF n
      <4>4. \A i \in 1 .. Len(toServer') :
              IsRequest(toServer'[i]) => i = Len(toServer')
        BY <3>3, <4>2, <4>3 DEF n
      <4>5. todo' # <<>> =>
              /\ Len(toServer') + Len(todo') <= Buffer
              /\ \A i \in 1 .. Len(toServer') : ~IsRequest(toServer'[i])
        <5> SUFFICES ASSUME todo' # <<>>
                     PROVE  /\ Len(toServer') + Len(todo') <= Buffer
                            /\ \A i \in 1 .. Len(toServer') :
                                 ~IsRequest(toServer'[i])
          OBVIOUS
        <5>1. ~IsRequest(m)
          BY <3>4, <3>5, <3>6, <4>1
        <5>2. \A i \in 1 .. Len(toServer') : ~IsRequest(toServer'[i])
          BY <3>3, <4>2, <4>3, <5>1 DEF n
        <5>3. Len(toServer') + Len(todo') <= Buffer
          BY <3>3, <3>4, <3>8, <4>2, BufferAssumption DEF n
        <5> QED
          BY <5>2, <5>3
      <4>6. Waiting'
        BY <2>1, <2>4, <3>3, <3>7, <4>4, <4>5 DEF Waiting
      <4> QED
        BY <3>2, <4>6
    <3>11. \/ toServer' = toServer /\ ~RequestUpdate
           \/ \E m : Send(m) /\ (IsRequest(m) <=> call.call = "request_update")
      <4>1. CASE RequestUpdate
        <5>1. /\ call.call = "request_update"
              /\ Send(Message(UpdateRequestMessage(call.incremental,
                                                   fb.width, fb.height)))
          BY <4>1 DEF RequestUpdate, Calling, call
        <5> QED
          BY <5>1, MessageKinds
      <4>2. CASE SetPixelFormat
        <5>1. call.call = "set_pixel_format"
          BY <4>2 DEF SetPixelFormat, Calling, call
        <5>2. call.format \in PixelFormats
          BY <3>4, <5>1 DEF CallRecords
        <5>3. \/ toServer' = toServer
              \/ Send(Message(SetPixelFormatMessage(call.format)))
          BY <4>2 DEF SetPixelFormat, FormatSent, call
        <5>4. ~RequestUpdate
          BY <5>1 DEF RequestUpdate, Calling, call
        <5> QED
          BY <5>1, <5>2, <5>3, <5>4, MessageKinds
      <4>3. CASE SetEncodings
        <5>1. /\ call.call = "set_encodings"
              /\ Send(SetEncodingsMessage(call.list))
          BY <4>3 DEF SetEncodings, Calling, call
        <5> QED
          BY <5>1, MessageKinds
      <4>4. CASE SendPointerEvent
        <5>1. call.call = "send_pointer_event" /\ Send(Message(<<5>>))
          BY <4>4 DEF SendPointerEvent, Calling, call
        <5> QED
          BY <5>1, MessageKinds
      <4> QED
        BY <1>2, <4>1, <4>2, <4>3, <4>4 DEF Calls
    <3> QED
      BY <3>9, <3>10, <3>11
  <2> QED
    BY <2>1, <2>5, <2>6 DEF Phases
<1> QED
  BY <1>1, <1>2

(* The client takes an item, which may be the last of an answer.            *)
LEMMA AnsweringTaken ==
  ASSUME Flowing, toClient # <<>>, toClient' = Tail(toClient),
         sending' = sending, InUpdate' => Answering
  PROVE  Answering' => Answering
<1>1. /\ Len(Stream) \in Nat /\ Len(Stream) > 0
      /\ Len(Stream') = Len(Stream) - 1
      /\ \A i \in 1 .. Len(Stream) - 1 : Stream'[i] = Stream[i + 1]
  BY StreamTaken
<1>2. \A i \in 1 .. Len(Stream) - 1 : i + 1 \in 1 .. Len(Stream)
  BY <1>1
<1> QED
  BY <1>1, <1>2 DEF Answering

LEMMA PhasesMessages ==
  ASSUME Phases, Fitting, HandleBell \/ HandleFbUpdate
  PROVE  Phases'
<1> DEFINE n == Len(Stream)
           e == Stream[1]
<1>1. Shaped
  BY DEF Fitting
<1>2. /\ pc = "message" /\ toClient # <<>> /\ toClient' = Tail(toClient)
      /\ UNCHANGED <<app, toServer, sending, server>>
  BY DEF HandleBell, HandleFbUpdate, Receives, service
<1>3. /\ n \in Nat /\ n > 0 /\ e = Head(toClient) /\ Len(Stream') = n - 1
      /\ \A i \in 1 .. n - 1 : Stream'[i] = Stream[i + 1]
  BY <1>1, <1>2, StreamTaken DEF Shaped
<1>4. ~InUpdate /\ ~Stopped /\ todo = <<>>
  BY <1>2 DEF InUpdate, Stopped, Phases, Idling
<1>5. \/ /\ HandleBell /\ e.kind = "bell" /\ Invoke("bell", "message")
         /\ update' = update
      \/ /\ HandleFbUpdate /\ e.kind = "update" /\ update' = e.update
         /\ pc' = "rects" /\ todo' = todo /\ then' = then
  BY <1>3 DEF HandleBell, HandleFbUpdate, Receives
<1> HIDE DEF n, e
<1>6. 1 \in 1 .. n /\ \A i \in 1 .. n - 1 : i + 1 \in 1 .. n
  BY <1>3
<1>7. \A i \in 1 .. n - 1 : Stream'[i].kind = "rect" =>
        \E k \in 1 .. i : /\ Stream[k].kind = "update"
                          /\ i + 1 <= k + Stream[k].update.left
  <2> SUFFICES ASSUME NEW i \in 1 .. n - 1, Stream'[i].kind = "rect"
               PROVE  \E k \in 1 .. i : /\ Stream[k].kind = "update"
                                        /\ i + 1 <= k + Stream[k].update.left
    OBVIOUS
  <2>1. Belongs(i + 1)
    BY <1>3, <1>4, <1>6 DEF Phases, Belonging, n
  <2>2. i + 1 - 1 = i
    BY <1>3
  <2> QED
    BY <1>4, <2>1, <2>2 DEF Belongs
<1>8. ASSUME NEW i \in 1 .. n - 1, NEW k \in 1 .. i, k # 1,
             Stream[k].kind = "update", i + 1 <= k + Stream[k].update.left
      PROVE  Belongs(i)'
  <2>1. /\ k - 1 \in 1 .. i - 1 /\ k - 1 \in 1 .. n - 1 /\ (k - 1) + 1 = k
        /\ k \in 1 .. n
    BY <1>3, <1>8
  <2>2. Stream'[k - 1] = Stream[k]
    BY <1>3, <2>1
  <2>3. Stream[k].update.left \in Nat
    BY <1>8, <2>1 DEF Fitting, Sound, n
  <2>4. i <= (k - 1) + Stream'[k - 1].update.left
    <3>1. \A l \in Nat : i + 1 <= k + l => i <= (k - 1) + l
      BY <1>3
    <3> QED
      BY <1>8, <2>2, <2>3, <3>1
  <2> QED
    BY <1>8, <2>1, <2>2, <2>4 DEF Belongs
<1>9. CASE HandleBell
  <2>1. e.kind = "bell" /\ Invoke("bell", "message")
    BY <1>3, <1>9 DEF HandleBell, Receives, e
  <2>2. pc' \in {"message", "callback"} /\ then' = "message" /\ ~InUpdate'
    BY <2>1, InvokeDone
  <2>3. Belonging'
    <3> SUFFICES ASSUME NEW i \in 1 .. n - 1, Stream'[i].kind = "rect"
                 PROVE  Belongs(i)'
      BY <1>3 DEF Belonging
    <3>1. PICK k \in 1 .. i : /\ Stream[k].kind = "update"
                              /\ i + 1 <= k + Stream[k].update.left
      BY <1>7
    <3>2. k # 1
      BY <2>1, <3>1 DEF e
    <3> QED
      BY <1>8, <3>1, <3>2
  <2>4. Idling'
    BY <2>1 DEF Invoke, Idling
  <2>5. ASSUME app \in Patient PROVE Waiting' /\ Alone'
    <3>1. Waiting /\ Alone
      BY <1>4, <2>5 DEF Phases
    <3>2. todo' = <<>>
      <4>1. Applications[app]["bell"] \subseteq {<<>>}
        BY <2>5, PatientCalls DEF Hooks
      <4> QED
        BY <2>1, <4>1 DEF Invoke
    <3>3. pc' = "message"
      BY <2>1, <3>2 DEF Invoke
    <3>4. Answering' => Answering
      BY <1>1, <1>2, <2>2, AnsweringTaken DEF Shaped
    <3>5. Waiting'
      BY <1>2, <3>1, <3>2, <3>3, <3>4 DEF Waiting
    <3>6. \A i, k \in 1 .. n - 1 :
            Stream'[i].kind = "update" /\ Stream'[k].kind = "update" => i = k
      <4> SUFFICES ASSUME NEW i \in 1 .. n - 1, NEW k \in 1 .. n - 1,
                          Stream'[i].kind = "update", Stream'[k].kind = "update"
                   PROVE  i = k
        OBVIOUS
      <4>1. i + 1 = k + 1
        BY <1>3, <1>6, <3>1 DEF Alone, n
      <4> QED
        BY <1>3, <4>1
    <3>7. Alone'
      BY <1>3, <2>2, <3>6 DEF Alone
    <3> QED
      BY <3>5, <3>7
  <2> QED
    BY <1>2, <2>3, <2>4, <2>5 DEF Phases
<1>10. CASE HandleFbUpdate
  <2>1. /\ e.kind = "update" /\ update' = e.update
        /\ pc' = "rects" /\ todo' = todo /\ then' = then
    BY <1>3, <1>10 DEF HandleFbUpdate, Receives, e
  <2>2. InUpdate' /\ ~Stopped'
    BY <2>1 DEF InUpdate, Stopped
  <2>3. Belonging'
    <3> SUFFICES ASSUME NEW i \in 1 .. n - 1, Stream'[i].kind = "rect"
                 PROVE  Belongs(i)'
      BY <1>3 DEF Belonging
    <3>1. PICK k \in 1 .. i : /\ Stream[k].kind = "update"
                              /\ i + 1 <= k + Stream[k].update.left
      BY <1>7
    <3>2. CASE k = 1
      <4>1. i + 1 <= 1 + update'.left
        BY <2>1, <3>1, <3>2 DEF e
      <4>2. update'.left \in Nat
        BY <1>6, <2>1 DEF Fitting, Sound, e, n
      <4>3. i <= update'.left
        <5>1. \A l \in Nat : i + 1 <= 1 + l => i <= l
          BY <1>3
        <5> QED
          BY <4>1, <4>2, <5>1
      <4> QED
        BY <2>2, <4>3 DEF Belongs
    <3> QED
      BY <1>8, <3>1, <3>2
  <2>4. Idling'
    BY <1>4, <2>1 DEF Idling
  <2>5. ASSUME app \in Patient PROVE Waiting' /\ Alone'
    <3>1. Waiting /\ Alone
      BY <1>4, <2>5 DEF Phases
    <3>2. Answering
      BY <1>6, <2>1 DEF Answering, e, n
    <3>3. toServer = <<>> /\ server.asked = {}
      BY <3>1, <3>2 DEF Waiting
    <3>4. Len(toServer) = 0
      BY <3>3, EmptySequence
    <3>5. Waiting'
      BY <1>2, <1>4, <2>1, <3>1, <3>3, <3>4 DEF Waiting
    <3>6. \A i \in 1 .. n - 1 : Stream'[i].kind # "update"
      <4> SUFFICES ASSUME NEW i \in 1 .. n - 1, Stream'[i].kind = "update"
                   PROVE  FALSE
        OBVIOUS
      <4>1. i + 1 = 1
        BY <1>3, <1>6, <2>1, <3>1 DEF Alone, n, e
      <4> QED
        BY <1>3, <4>1
    <3>7. Alone'
      BY <1>3, <3>6 DEF Alone
    <3> QED
      BY <3>5, <3>7
  <2> QED
    BY <1>2, <2>3, <2>4, <2>5 DEF Phases
<1> QED
  BY <1>9, <1>10

LEMMA PhasesRect ==
  ASSUME Phases, Fitting, Told, DecodeRect
  PROVE  Phases'
<1> DEFINE n == Len(Stream)
           e == Stream[1]
<1>1. Shaped
  BY DEF Fitting
<1>2. PICK G : Sizing(G)
  BY DEF Fitting
<1>3. /\ pc = "rects" /\ toClient # <<>> /\ toClient' = Tail(toClient)
      /\ UNCHANGED <<app, toServer, service>>
      /\ update' = [update EXCEPT !.left = @ - 1] /\ update.left > 0
      /\ e.kind = "rect"
  BY <1>2, RectTaken
<1>4. \/ Stops("garbled") \/ Stops("unsupported")
      \/ \E name \in {"framebuffer_update", "desktop_resize", "cursor_update"} :
           RectDone(name)
  BY <1>2, RectTaken
<1>5. UNCHANGED <<sending, server>>
  BY <1>3 DEF service
<1>6. /\ n \in Nat /\ n > 0 /\ Len(Stream') = n - 1
      /\ \A i \in 1 .. n - 1 : Stream'[i] = Stream[i + 1]
  BY <1>1, <1>3, <1>5, StreamTaken DEF Shaped
<1>7. InUpdate /\ ~Stopped /\ todo = <<>>
  BY <1>3 DEF InUpdate, Stopped, Phases, Idling
<1>8. Idling'
  <2>1. CASE Stops("garbled") \/ Stops("unsupported")
    BY <1>7, <2>1 DEF Stops, Idling
  <2>2. ASSUME NEW name, RectDone(name) PROVE Idling'
    BY <2>2 DEF RectDone, Invoke, Idling
  <2> QED
    BY <1>4, <2>1, <2>2
<1>9. ~Stopped' => InUpdate'
  <2>1. ASSUME NEW name, RectDone(name) PROVE InUpdate'
    BY <2>1, InvokeDone DEF RectDone
  <2> QED
    BY <1>4, <2>1 DEF Stops, Stopped
<1> HIDE DEF n, e
<1>10. /\ update.left \in Nat /\ update'.left = update.left - 1
  BY <1>1, <1>3 DEF Shaped, TypeOK
<1>11. Belonging'
  <2> SUFFICES ASSUME ~Stopped', NEW i \in 1 .. n - 1, Stream'[i].kind = "rect"
               PROVE  Belongs(i)'
    BY <1>6 DEF Belonging
  <2>1. i + 1 \in 1 .. n /\ Stream[i + 1].kind = "rect" /\ i + 1 - 1 = i
    BY <1>6
  <2>2. Belongs(i + 1)
    BY <1>7, <2>1 DEF Phases, Belonging, n
  <2>3. CASE InUpdate /\ i + 1 <= update.left
    <3>1. i <= update'.left
      BY <1>6, <1>10, <2>3
    <3> QED
      BY <1>9, <3>1 DEF Belongs
  <2>4. CASE \E k \in 1 .. i : /\ Stream[k].kind = "update"
                               /\ i + 1 <= k + Stream[k].update.left
    <3>1. PICK k \in 1 .. i : /\ Stream[k].kind = "update"
                             /\ i + 1 <= k + Stream[k].update.left
      BY <2>4
    <3>2. k # 1
      BY <1>3, <3>1 DEF e
    <3>3. /\ k - 1 \in 1 .. i - 1 /\ k - 1 \in 1 .. n - 1 /\ (k - 1) + 1 = k
          /\ k \in 1 .. n
      BY <1>6, <3>2
    <3>4. Stream'[k - 1] = Stream[k]
      BY <1>6, <3>3
    <3>5. Stream[k].update.left \in Nat
      BY <3>1, <3>3 DEF Fitting, Sound, n
    <3>6. i <= (k - 1) + Stream'[k - 1].update.left
      <4>1. \A l \in Nat : i + 1 <= k + l => i <= (k - 1) + l
        BY <1>6
      <4> QED
        BY <3>1, <3>4, <3>5, <4>1
    <3> QED
      BY <3>1, <3>3, <3>4, <3>6 DEF Belongs
  <2> QED
    BY <2>1, <2>2, <2>3, <2>4 DEF Belongs
<1>12. ASSUME app \in Patient PROVE Waiting' /\ (~Stopped' => Alone')
  <2>1. Waiting /\ Alone /\ Answering
    BY <1>7, <1>12 DEF Phases, Answering
  <2>2. toServer = <<>> /\ server.asked = {}
    BY <2>1 DEF Waiting
  <2>3. Len(toServer) = 0
    BY <2>2, EmptySequence
  <2>4. todo' = <<>> /\ pc' # "callback"
    <3>1. CASE Stops("garbled") \/ Stops("unsupported")
      BY <1>7, <3>1 DEF Stops
    <3>2. ASSUME NEW name \in {"framebuffer_update", "desktop_resize",
                               "cursor_update"}, RectDone(name)
          PROVE  todo' = <<>> /\ pc' # "callback"
      <4>1. Applications[app][name] \subseteq {<<>>}
        BY <1>12, PatientCalls DEF Hooks
      <4> QED
        BY <3>2, <4>1 DEF RectDone, Invoke
    <3> QED
      BY <1>4, <3>1, <3>2
  <2>5. Waiting'
    BY <1>3, <1>5, <2>2, <2>3, <2>4 DEF Waiting
  <2>6. \A i \in 1 .. n - 1 : Stream'[i].kind # "update"
    <3> SUFFICES ASSUME NEW i \in 1 .. n - 1, Stream'[i].kind = "update"
                 PROVE  FALSE
      OBVIOUS
    <3>1. i + 1 \in 1 .. n /\ Stream[i + 1].kind = "update"
      BY <1>6
    <3> QED
      BY <1>7, <2>1, <3>1 DEF Alone, n
  <2>7. Alone'
    BY <1>6, <2>6 DEF Alone
  <2> QED
    BY <2>5, <2>7
<1> QED
  BY <1>3, <1>8, <1>11, <1>12 DEF Phases

(* What is left of the stream when an update is finished: bells only, for   *)
(* an application that waits.                                               *)
LEMMA NothingLeft ==
  ASSUME Phases, Fitting, UpdateFinished, app \in Patient,
         NEW i \in 1 .. Len(Stream)
  PROVE  Stream[i].kind = "bell"
<1>1. pc = "rects" /\ update.left = 0 /\ InUpdate /\ ~Stopped
  BY DEF UpdateFinished, InUpdate, Stopped
<1>2. Stream[i].kind \in {"bell", "update", "rect"}
  BY DEF Fitting, Sound
<1>3. Alone
  BY <1>1 DEF Phases
<1>4. \A k \in 1 .. Len(Stream) : Stream[k].kind # "update"
  BY <1>1, <1>3 DEF Alone
<1>5. Stream[i].kind # "rect"
  <2> SUFFICES ASSUME Stream[i].kind = "rect" PROVE FALSE
    OBVIOUS
  <2>1. Belongs(i)
    BY <1>1 DEF Phases, Belonging
  <2>2. ~(i <= update.left)
    BY <1>1
  <2>3. PICK k \in 1 .. i - 1 : Stream[k].kind = "update"
    BY <2>1, <2>2 DEF Belongs
  <2>4. k \in 1 .. Len(Stream)
    OBVIOUS
  <2> QED
    BY <1>4, <2>3, <2>4
<1> QED
  BY <1>2, <1>4, <1>5

LEMMA PhasesFinished ==
  ASSUME Phases, Fitting, Told, UpdateFinished
  PROVE  Phases'
<1>1. /\ pc = "rects" /\ update.left = 0
      /\ Invoke("framebuffer_update_finished", "message")
      /\ update' = NoUpdate
      /\ UNCHANGED <<app, toServer, toClient, sending, server>>
  BY DEF UpdateFinished, service
<1>2. Stream' = Stream
  BY <1>1, StreamKept
<1>3. /\ pc' \in {"message", "callback"} /\ then' = "message" /\ ~InUpdate'
      /\ InUpdate /\ ~Stopped /\ ~Stopped'
  BY <1>1, InvokeDone DEF InUpdate, Stopped
<1>4. Idling'
  BY <1>1 DEF Invoke, Idling
<1>5. Belonging'
  <2> SUFFICES ASSUME NEW i \in 1 .. Len(Stream), Stream[i].kind = "rect"
               PROVE  Belongs(i)'
    BY <1>2 DEF Belonging
  <2>1. Belongs(i) /\ ~(i <= update.left)
    BY <1>1, <1>3 DEF Phases, Belonging
  <2> QED
    BY <1>2, <2>1 DEF Belongs
<1>6. ASSUME app \in Patient PROVE Waiting' /\ Alone'
  <2>1. Waiting /\ Alone /\ Answering
    BY <1>3, <1>6 DEF Phases, Answering
  <2>2. toServer = <<>> /\ server.asked = {}
    BY <2>1 DEF Waiting
  <2>3. Len(toServer) = 0
    BY <2>2, EmptySequence
  <2>4. \A i \in 1 .. Len(Stream) : Stream[i].kind = "bell"
    BY <1>6, NothingLeft
  <2>5. ~Answering'
    BY <1>2, <1>3, <2>4 DEF Answering
  <2>6. AsksLast(todo') /\ Len(todo') <= Buffer
    <3>1. todo' \in Applications[app]["framebuffer_update_finished"]
      BY <1>1 DEF Invoke
    <3> QED
      BY <1>6, <3>1, PatientCalls
  <2>7. pc' = "callback" /\ Len(todo') \in Nat
    <3>1. todo' # <<>>
      BY <2>6 DEF AsksLast
    <3>2. todo' \in Seq(CallRecords)
      BY <1>1, HookCalls DEF Told, Invoke, Hooks
    <3> QED
      BY <1>1, <3>1, <3>2 DEF Invoke
  <2>8. Waiting'
    BY <1>1, <1>3, <2>2, <2>3, <2>5, <2>6, <2>7 DEF Waiting
  <2>9. Alone'
    BY <1>2, <2>4 DEF Alone
  <2> QED
    BY <2>8, <2>9
<1> QED
  BY <1>1, <1>4, <1>5, <1>6 DEF Phases

LEMMA PhasesStep ==
  Phases /\ Fitting /\ Told /\ [Next]_vars => Phases'
<1> SUFFICES ASSUME Phases, Fitting, Told, [Next]_vars PROVE Phases'
  OBVIOUS
<1>1. Shaped /\ Flowing /\ \A i \in 1..Len(Stream) : Sound(Stream[i])
  BY DEF Fitting, Shaped
<1>2. CASE ServerWrites
  <2>1. UNCHANGED <<client, toServer, server>>
    BY <1>2 DEF ServerWrites
  <2> QED
    BY <1>1, <1>2, <2>1, StreamWritten, PhasesApart
<1>3. CASE ScreenChanges \/ ScreenResized
  <2>1. UNCHANGED <<client, toServer, toClient, sending>>
        /\ server'.asked = server.asked
    BY <1>1, <1>3 DEF ScreenChanges, ScreenResized, Shaped
  <2> QED
    BY <2>1, StreamKept, PhasesApart
<1>4. CASE UNCHANGED vars
  <2>1. UNCHANGED <<client, toServer, toClient, sending, server>>
    BY <1>4 DEF vars, service
  <2> QED
    BY <2>1, StreamKept, PhasesApart
<1> QED
  BY <1>1, <1>2, <1>3, <1>4, PhasesCalls, PhasesMessages, PhasesRect,
     PhasesFinished, PhasesServerReads, PhasesServerUpdates, PhasesServerRings
     DEF Next, Serving, Loop, Idle

LEMMA PhasesAlways == Spec => [](Phases /\ Fitting /\ Told)
<1>1. Init => Phases
  BY PhasesInit
<1> QED
  BY <1>1, PhasesStep, FittingAlways, PTL DEF Spec

(* The client of an application that waits is never stuck in a send while   *)
(* the server is stuck in one: for every buffer, and every application that *)
(* asks once per update and sends no more than the connection holds.        *)
THEOREM NeverStandsStill == Spec => []NoStandstill
<1>1. Phases /\ Fitting /\ Told => NoStandstill
  <2> SUFFICES ASSUME Phases, Told, app \in Patient, todo # <<>>
               PROVE  Len(toServer) # Buffer
    BY DEF NoStandstill
  <2>1. Len(toServer) + Len(todo) <= Buffer
    BY DEF Phases, Waiting
  <2>2. Len(todo) \in Nat /\ Len(todo) > 0 /\ Len(toServer) \in Nat
    BY Sequences DEF Told
  <2> QED
    BY <2>1, <2>2, BufferAssumption
<1> QED
  BY <1>1, PhasesAlways, PTL

-----------------------------------------------------------------------------
(* In step.                                                                 *)

LEMMA HookDisciplined ==
  ASSUME DOMAIN Applications \subseteq Careful, CountsFit,
         app \in DOMAIN Applications, NEW name \in Hooks,
         NEW calls \in Applications[app][name]
  PROVE  Disciplined(calls)
<1>1. app \in Careful
  OBVIOUS
<1>2. app \notin Patient => ~Reformats(calls)
  BY <1>1 DEF Careful
<1>3. \A i \in 1..Len(calls) :
        calls[i].call = "set_encodings" => CountFits(calls[i].list)
  BY DEF CountsFit
<1> QED
  BY <1>2, <1>3 DEF Disciplined

LEMMA MatchedCounts ==
  ASSUME NEW list \in EncodingLists, CountFits(list)
  PROVE  Counted(SetEncodingsMessage(list))
<1>1. list.count \in Nat /\ list.count < 65536
  BY DEF EncodingLists, CountFits
<1> QED
  BY <1>1, CountHeard DEF Counted, SetEncodingsMessage

LEMMA OtherCounts ==
  /\ \A i, w, h : Counted(Message(UpdateRequestMessage(i, w, h)))
  /\ \A f \in PixelFormats : Counted(Message(SetPixelFormatMessage(f)))
  /\ Counted(Message(<<5>>))
<1>1. \A i, w, h : Counted(Message(UpdateRequestMessage(i, w, h)))
  BY OtherMessages DEF Counted, Message
<1>2. \A f \in PixelFormats : Counted(Message(SetPixelFormatMessage(f)))
  BY FormatArrives DEF Counted, Message
<1>3. Counted(Message(<<5>>))
  BY DEF Counted, Message
<1> QED
  BY <1>1, <1>2, <1>3

LEMMA MatchedInit ==
  ASSUME DOMAIN Applications \subseteq Careful, CountsFit, Init
  PROVE  Matched
<1>1. PICK c \in Configs, a \in DOMAIN Applications :
        /\ fb.format = IF c.pixel_format = NULL THEN ServerFormat
                                                ELSE c.pixel_format
        /\ toServer = InitialMessages(c) /\ app = a
        /\ todo \in Applications[a]["main"] /\ pc = "callback"
        /\ toClient = <<>> /\ sending = <<>>
        /\ server.format = ServerFormat /\ server.asked = {}
        /\ server.inStep = TRUE
  BY DEF Init
<1>2. Len(Stream) = 0
  <2>1. Sequence(toClient) /\ Sequence(sending)
    BY <1>1, EmptySequence
  <2>2. Len(Stream) = Len(toClient) + Len(sending)
    BY <2>1, Joined DEF Stream
  <2> QED
    BY <1>1, <2>2, EmptySequence
<1>3. Disciplined(todo)
  BY <1>1, HookDisciplined DEF Hooks
<1> DEFINE m == Message(SetPixelFormatMessage(c.pixel_format))
           e == SetEncodingsMessage(c.encodings)
           first == IF c.pixel_format # NULL THEN <<m>> ELSE <<>>
           second == IF c.encodings.count > 0 THEN <<e>> ELSE <<>>
<1>4. toServer = first \o second
  BY <1>1 DEF InitialMessages
<1>5. ~Sets(e) /\ Counted(e)
  <2>1. c.encodings \in EncodingLists /\ CountFits(c.encodings)
    BY ConfigsAssumption DEF CountsFit
  <2> QED
    BY <2>1, MatchedCounts, OtherMessages DEF Sets, SetEncodingsMessage
<1>6. c.pixel_format # NULL =>
        /\ Sets(m) /\ FormatFromWire(m.bytes, 5) = c.pixel_format
        /\ Counted(m)
  <2>1. c.pixel_format # NULL => c.pixel_format \in PixelFormats
    BY ConfigsAssumption
  <2> QED
    BY <2>1, FormatArrives, OtherCounts DEF Sets, Message
<1> HIDE DEF m, e
<1>7. /\ Sequence(<<m>>) /\ Len(<<m>>) = 1 /\ <<m>>[1] = m
      /\ Sequence(<<e>>) /\ Len(<<e>>) = 1 /\ <<e>>[1] = e
  BY Singleton
<1>8. /\ Len(first) = IF c.pixel_format # NULL THEN 1 ELSE 0
      /\ Len(second) = IF c.encodings.count > 0 THEN 1 ELSE 0
      /\ c.pixel_format # NULL => first[1] = m
      /\ c.encodings.count > 0 => second[1] = e
  BY <1>7, EmptySequence
<1>9. Sequence(first) /\ Sequence(second)
  BY <1>7, EmptySequence
<1> HIDE DEF first, second
<1>10. /\ Len(toServer) = Len(first) + Len(second)
       /\ \A i \in 1 .. Len(first) : toServer[i] = first[i]
       /\ \A i \in 1 .. Len(second) : toServer[Len(first) + i] = second[i]
  BY <1>4, <1>9, Joined
<1>11. \A i \in 1 .. Len(toServer) :
         IF c.pixel_format # NULL /\ i = 1 THEN toServer[i] = m
                                           ELSE toServer[i] = e
  <2>1. CASE c.pixel_format = NULL
    <3>1. Len(first) = 0
      BY <1>8, <2>1
    <3> QED
      BY <1>8, <1>10, <2>1, <3>1
  <2>2. CASE c.pixel_format # NULL
    <3>1. Len(first) = 1
      BY <1>8, <2>2
    <3> QED
      BY <1>8, <1>10, <2>2, <3>1
  <2> QED
    BY <2>1, <2>2
<1>12. \A i \in 1 .. Len(toServer) : Counted(toServer[i])
  BY <1>5, <1>6, <1>11
<1>13. ToldFirst
  <2>1. CASE c.pixel_format = NULL
    BY <1>1, <1>5, <1>11, <2>1 DEF ToldFirst
  <2>2. CASE c.pixel_format # NULL
    <3>1. 1 \in 1 .. Len(toServer)
      BY <1>8, <1>10, <2>2
    <3>2. /\ toServer[1] = m
          /\ \A j \in 1 + 1 .. Len(toServer) : ~Sets(toServer[j])
      BY <1>5, <1>11, <2>2, <3>1
    <3>3. \A j \in 1 .. 1 - 1 : FALSE
      OBVIOUS
    <3> QED
      BY <1>1, <1>6, <2>2, <3>1, <3>2, <3>3 DEF ToldFirst
  <2> QED
    BY <2>1, <2>2
<1> QED
  BY <1>1, <1>2, <1>3, <1>12, <1>13
     DEF Matched, InStep

(* Steps that leave what the server has heard alone.                        *)
LEMMA ToldFirstKept ==
  ASSUME ToldFirst, toServer' = toServer, server'.format = server.format,
         server'.asked = server.asked \/ server'.asked = {},
         fb'.format = fb.format
  PROVE  ToldFirst'
BY DEF ToldFirst

LEMMA ToldFirstSent ==
  ASSUME ToldFirst, Sequence(toServer), NEW m, ~Sets(m),
         toServer' = Append(toServer, m),
         server'.format = server.format, server'.asked = server.asked,
         fb'.format = fb.format
  PROVE  ToldFirst'
<1> DEFINE n == Len(toServer)
<1>1. /\ n \in Nat /\ Len(toServer') = n + 1 /\ toServer'[n + 1] = m
      /\ \A i \in 1..n : toServer'[i] = toServer[i]
  BY Sequences
<1>2. CASE server.format = fb.format /\ \A i \in 1..n : ~Sets(toServer[i])
  <2>1. \A i \in 1 .. n + 1 : ~Sets(toServer'[i])
    BY <1>1, <1>2
  <2> QED
    BY <1>1, <1>2, <2>1 DEF ToldFirst
<1>3. CASE /\ server.asked = {}
           /\ \E k \in 1..n :
                /\ Sets(toServer[k])
                /\ FormatFromWire(toServer[k].bytes, 5) = fb.format
                /\ \A j \in k + 1 .. n : ~Sets(toServer[j])
                /\ \A j \in 1 .. k - 1 : ~IsRequest(toServer[j])
  <2>1. PICK k \in 1..n :
          /\ Sets(toServer[k]) /\ FormatFromWire(toServer[k].bytes, 5) = fb.format
          /\ \A j \in k + 1 .. n : ~Sets(toServer[j])
          /\ \A j \in 1 .. k - 1 : ~IsRequest(toServer[j])
    BY <1>3
  <2>2. /\ k \in 1 .. n + 1 /\ toServer'[k] = toServer[k]
        /\ \A j \in 1 .. k - 1 : toServer'[j] = toServer[j]
    BY <1>1, <2>1
  <2>3. \A j \in k + 1 .. n + 1 : ~Sets(toServer'[j])
    BY <1>1, <2>1
  <2> QED
    BY <1>1, <1>3, <2>1, <2>2, <2>3 DEF ToldFirst
<1> QED
  BY <1>2, <1>3 DEF ToldFirst

LEMMA CountedSent ==
  ASSUME Sequence(toServer), NEW m, Counted(m),
         \A i \in 1..Len(toServer) : Counted(toServer[i]),
         toServer' = Append(toServer, m)
  PROVE  \A i \in 1..Len(toServer') : Counted(toServer'[i])
<1> DEFINE n == Len(toServer)
<1>1. /\ n \in Nat /\ Len(toServer') = n + 1 /\ toServer'[n + 1] = m
      /\ \A i \in 1..n : toServer'[i] = toServer[i]
  BY Sequences
<1>2. \A i \in 1 .. n + 1 : i \in 1 .. n \/ i = n + 1
  BY <1>1
<1> QED
  BY <1>1, <1>2

LEMMA DisciplinedTail ==
  ASSUME Told, todo # <<>>, Disciplined(todo)
  PROVE  Disciplined(Tail(todo))
<1> DEFINE rest == Tail(todo)
<1>1. /\ Len(todo) \in Nat /\ Len(todo) > 0 /\ Len(rest) = Len(todo) - 1
      /\ \A i \in 1 .. Len(todo) - 1 : rest[i] = todo[i + 1]
  BY DEF Told
<1> HIDE DEF rest
<1>2. \A i \in 1 .. Len(rest) : i + 1 \in 1 .. Len(todo) /\ rest[i] = todo[i + 1]
  BY <1>1
<1>3. Disciplined(rest)
  BY <1>2 DEF Disciplined, Reformats
<1> QED
  BY <1>3 DEF rest

LEMMA MatchedCalls ==
  ASSUME Matched, Phases, Fitting, Told, Calls
  PROVE  Matched'
<1>1. Shaped /\ Sequence(toServer)
  BY DEF Fitting, Told
<1>2. CASE CallbackReturn
  <2>1. /\ pc' = then /\ then \in {"message", "rects"}
        /\ UNCHANGED <<fb, app, todo, toServer, toClient, sending, server>>
    BY <1>1, <1>2 DEF CallbackReturn, service, Shaped, TypeOK
  <2>2. Stream' = Stream
    BY <2>1, StreamKept
  <2>3. ToldFirst'
    BY <2>1, ToldFirstKept DEF Matched
  <2> QED
    BY <2>1, <2>2, <2>3 DEF Matched, InStep, Exact, Disciplined
<1>3. CASE ~CallbackReturn
  <2> DEFINE call == Head(todo)
  <2>1. /\ pc = "callback" /\ todo # <<>> /\ todo' = Tail(todo)
        /\ UNCHANGED <<pc, app, toClient, sending, server>>
    BY <1>1, <1>3, CallDone DEF service
  <2>2. Stream' = Stream
    BY <2>1, StreamKept
  <2>3. Disciplined(todo)' /\ InStep'
    <3>1. Disciplined(Tail(todo))
      BY <2>1, DisciplinedTail DEF Matched
    <3> QED
      BY <2>1, <3>1 DEF Disciplined, Matched, InStep
  <2>4. /\ call = todo[1] /\ call \in CallRecords /\ 1 \in 1 .. Len(todo)
    BY <2>1 DEF Told
  <2> HIDE DEF call
  <2>5. ASSUME NEW m, Send(m), ~Sets(m), Counted(m), fb' = fb
        PROVE  Matched'
    <3>1. toServer' = Append(toServer, m)
      BY <2>5 DEF Send
    <3>2. ToldFirst'
      BY <1>1, <2>1, <2>5, <3>1, ToldFirstSent DEF Matched
    <3>3. \A i \in 1..Len(toServer') : Counted(toServer'[i])
      BY <1>1, <2>5, <3>1, CountedSent DEF Matched
    <3> QED
      BY <2>2, <2>3, <2>5, <3>2, <3>3 DEF Matched, Exact
  <2>6. CASE RequestUpdate
    <3> DEFINE m == Message(UpdateRequestMessage(call.incremental,
                                                 fb.width, fb.height))
    <3>1. Send(m) /\ fb' = fb
      BY <2>6 DEF RequestUpdate, call
    <3>2. ~Sets(m) /\ Counted(m)
      BY OtherMessages, OtherCounts DEF Sets, Message
    <3> QED
      BY <2>5, <3>1, <3>2
  <2>7. CASE SetEncodings
    <3> DEFINE m == SetEncodingsMessage(call.list)
    <3>1. Send(m) /\ fb' = fb /\ call.call = "set_encodings"
      BY <2>7 DEF SetEncodings, Calling, call
    <3>2. call.list \in EncodingLists /\ CountFits(call.list)
      BY <2>4, <3>1 DEF CallRecords, Matched, Disciplined
    <3>3. ~Sets(m) /\ Counted(m)
      BY <3>2, OtherMessages, MatchedCounts DEF Sets, SetEncodingsMessage
    <3> QED
      BY <2>5, <3>1, <3>3
  <2>8. CASE SendPointerEvent
    <3> DEFINE m == Message(<<5>>)
    <3>1. Send(m) /\ fb' = fb
      BY <2>8 DEF SendPointerEvent
    <3>2. ~Sets(m) /\ Counted(m)
      BY OtherCounts DEF Sets, Message
    <3> QED
      BY <2>5, <3>1, <3>2
  <2>9. CASE SetPixelFormat
    <3> DEFINE f == call.format
    <3>1. call.call = "set_pixel_format" /\ f \in PixelFormats
      <4>1. call.call = "set_pixel_format"
        BY <2>9 DEF SetPixelFormat, Calling, call
      <4> QED
        BY <2>4, <4>1 DEF CallRecords
    <3>2. CASE BytesPerPixel(f) < 0
      <4>1. UNCHANGED <<fb, toServer>>
        BY <2>9, <3>2 DEF SetPixelFormat, call
      <4>2. ToldFirst'
        BY <2>1, <4>1, ToldFirstKept DEF Matched
      <4> QED
        BY <2>2, <2>3, <4>1, <4>2 DEF Matched, Exact
    <3>3. CASE ~(BytesPerPixel(f) < 0)
      <4> DEFINE m == Message(SetPixelFormatMessage(f))
      <4>1. /\ toServer' = Append(toServer, m) /\ fb' = Reformatted(f)
        BY <2>9, <3>3 DEF SetPixelFormat, FormatSent, Send, call
      <4>2. fb'.format = f
        BY <4>1 DEF Reformatted, Told
      <4>3. /\ Sets(m) /\ FormatFromWire(m.bytes, 5) = f
            /\ Counted(m)
        BY <3>1, FormatArrives, OtherCounts DEF Sets, Message
      <4> HIDE DEF m
      <4>4. BytesPerPixel(f) >= 0
        BY <3>3, SMT DEF BytesPerPixel
      <4>5. Reformats(todo)
        BY <2>4, <3>1, <4>4 DEF Reformats
      <4>6. app \in Patient
        BY <4>5 DEF Matched, Disciplined
      <4>7. /\ \A i \in 1..Len(toServer) : ~IsRequest(toServer[i])
            /\ server.asked = {} /\ ~Answering
        BY <2>1, <4>6 DEF Phases, Waiting
      <4>8. \A i \in 1..Len(Stream) : Exact(Stream[i])'
        BY <2>2, <4>7 DEF Answering, Exact
      <4>9. ToldFirst'
        <5> DEFINE n == Len(toServer)
        <5>1. /\ n \in Nat /\ Len(toServer') = n + 1 /\ toServer'[n + 1] = m
              /\ \A i \in 1..n : toServer'[i] = toServer[i]
          BY <1>1, <4>1, Sequences
        <5>2. /\ n + 1 \in 1 .. n + 1
              /\ \A j \in n + 1 + 1 .. n + 1 : FALSE
              /\ \A j \in 1 .. n + 1 - 1 : ~IsRequest(toServer'[j])
          BY <4>7, <5>1
        <5> QED
          BY <2>1, <4>2, <4>3, <4>7, <5>1, <5>2 DEF ToldFirst
      <4>10. \A i \in 1..Len(toServer') : Counted(toServer'[i])
        BY <1>1, <4>1, <4>3, CountedSent DEF Matched
      <4> QED
        BY <2>2, <2>3, <4>8, <4>9, <4>10 DEF Matched
    <3> QED
      BY <3>2, <3>3
  <2> QED
    BY <1>3, <2>6, <2>7, <2>8, <2>9 DEF Calls
<1> QED
  BY <1>2, <1>3

LEMMA MatchedLoop ==
  ASSUME DOMAIN Applications \subseteq Careful, CountsFit,
         Matched, Fitting, Told, Loop
  PROVE  Matched'
<1>1. Shaped
  BY DEF Fitting
<1>2. PICK G : Sizing(G)
  BY DEF Fitting
<1>3. ASSUME NEW name \in Hooks, NEW next, Invoke(name, next), app' = app
      PROVE  Disciplined(todo)'
  <2>1. Disciplined(todo')
    BY <1>3, HookDisciplined DEF Invoke, Told
  <2> QED
    BY <1>3, <2>1 DEF Disciplined
<1>4. UNCHANGED <<app, toServer, sending, server>>
  <2>1. CASE DecodeRect
    BY <1>2, <2>1, RectTaken DEF service
  <2> QED
    BY <2>1 DEF Loop, HandleBell, HandleFbUpdate, UpdateFinished, service
<1>5. /\ pc' # "garbled" /\ Disciplined(todo)' /\ fb'.format = fb.format
      /\ toClient' = toClient \/ (toClient # <<>> /\ toClient' = Tail(toClient))
  <2>1. CASE HandleBell
    <3>1. Invoke("bell", "message") /\ fb' = fb
      BY <2>1 DEF HandleBell
    <3>2. Disciplined(todo)'
      BY <1>3, <1>4, <3>1 DEF Hooks
    <3> QED
      BY <2>1, <3>1, <3>2, InvokeDone DEF HandleBell, Receives
  <2>2. CASE HandleFbUpdate
    BY <1>4, <2>2 DEF HandleFbUpdate, Receives, Matched, Disciplined
  <2>3. CASE UpdateFinished
    <3>1. Invoke("framebuffer_update_finished", "message") /\ fb' = fb
      BY <2>3 DEF UpdateFinished
    <3>2. Disciplined(todo)'
      BY <1>3, <1>4, <3>1 DEF Hooks
    <3> QED
      BY <2>3, <3>1, <3>2, InvokeDone DEF UpdateFinished
  <2>4. CASE DecodeRect
    <3> DEFINE item == Stream[1]
    <3>1. /\ toClient # <<>> /\ toClient' = Tail(toClient)
          /\ item.kind = "rect" /\ 1 \in 1 .. Len(Stream)
          /\ \/ /\ Stops("garbled")
                /\ ~Measured(item, fb.format) \/ item.format # fb.format
             \/ Stops("unsupported")
             \/ /\ RectDone("framebuffer_update")
                /\ \E data : fb' = [fb EXCEPT !.data = data]
             \/ /\ RectDone("desktop_resize")
                /\ \E r : fb' = Resized(r)
             \/ RectDone("cursor_update") /\ fb' = fb
      BY <1>2, <2>4, RectTaken
    <3>2. Measured(item, fb.format)
      BY <3>1 DEF Matched, Exact
    <3>3. ~Stops("garbled") \/ item.format = fb.format
      BY <3>2 DEF Measured
    <3>4. \/ Stops("unsupported")
          \/ /\ \E name \in {"framebuffer_update", "desktop_resize",
                             "cursor_update"} : RectDone(name)
             /\ fb'.format = fb.format
      BY <3>1, <3>2, <3>3 DEF Resized, Told, Measured
    <3> HIDE DEF item
    <3>8. CASE Stops("unsupported")
      <4>1. /\ pc' # "garbled" /\ fb' = fb /\ todo' = todo
        BY <3>8 DEF Stops
      <4> QED
        BY <1>4, <3>1, <4>1 DEF Matched, Disciplined
    <3> SUFFICES ASSUME ~Stops("unsupported")
                 PROVE  /\ pc' # "garbled" /\ Disciplined(todo)'
                        /\ fb'.format = fb.format
                        /\ toClient' = Tail(toClient)
      BY <3>1, <3>8
    <3>5. PICK name \in {"framebuffer_update", "desktop_resize",
                         "cursor_update"} : RectDone(name)
      BY <3>4
    <3>6. name \in Hooks /\ Invoke(name, "rects")
      BY <3>5 DEF Hooks, RectDone
    <3>7. Disciplined(todo)'
      BY <1>3, <1>4, <3>6
    <3> QED
      BY <3>1, <3>4, <3>6, <3>7, InvokeDone
  <2> QED
    BY <2>1, <2>2, <2>3, <2>4 DEF Loop
<1>6. \A i \in 1..Len(Stream') : Exact(Stream'[i])
  <2>1. CASE toClient' = toClient
    <3>1. Stream' = Stream
      BY <1>4, <2>1, StreamKept
    <3> QED
      BY <3>1 DEF Matched
  <2>2. CASE toClient # <<>> /\ toClient' = Tail(toClient)
    <3>1. /\ Len(Stream) \in Nat /\ Len(Stream') = Len(Stream) - 1
          /\ \A i \in 1 .. Len(Stream) - 1 : Stream'[i] = Stream[i + 1]
      BY <1>1, <1>4, <2>2, StreamTaken DEF Shaped
    <3>2. \A i \in 1 .. Len(Stream') :
            i + 1 \in 1 .. Len(Stream) /\ Stream'[i] = Stream[i + 1]
      BY <3>1
    <3> QED
      BY <3>2 DEF Matched
  <2> QED
    BY <1>5, <2>1, <2>2
<1>7. \A i \in 1..Len(Stream') : Exact(Stream[i])'
  BY <1>5, <1>6 DEF Exact
<1>8. ToldFirst'
  BY <1>4, <1>5, ToldFirstKept DEF Matched
<1> QED
  BY <1>4, <1>5, <1>7, <1>8 DEF Matched, InStep

(* The server hears a message.                                              *)
LEMMA MatchedServerReads ==
  ASSUME Matched, Fitting, Told, ServerReads
  PROVE  Matched'
<1> DEFINE m == Head(toServer)
           n == Len(toServer)
<1>1. /\ UNCHANGED <<client, toClient, sending>>
      /\ toServer # <<>> /\ toServer' = Tail(toServer) /\ server' = Heard(m)
  BY DEF ServerReads
<1>2. UNCHANGED <<fb, pc, app, todo>> /\ Stream' = Stream
  BY <1>1, StreamKept DEF client
<1>3. /\ n \in Nat /\ n > 0 /\ m = toServer[1] /\ Len(toServer') = n - 1
      /\ \A i \in 1 .. n - 1 : toServer'[i] = toServer[i + 1]
  BY <1>1, Sequences DEF Told
<1>4. Counted(m)
  <2>1. 1 \in 1 .. n
    BY <1>3
  <2> QED
    BY <1>3, <2>1 DEF Matched
<1>5. DOMAIN server = {"format", "encodings", "listed", "asked", "dirty",
                       "told", "resized", "inStep"}
  BY DEF Fitting, Shaped
<1>6. /\ server'.inStep = server.inStep
      /\ server'.format = IF Sets(m) THEN FormatFromWire(m.bytes, 5)
                                     ELSE server.format
      /\ ~IsRequest(m) => server'.asked = server.asked
  <2>1. m.bytes[1] \notin {0, 2, 3} => Heard(m) = server
    BY DEF Heard
  <2>2. m.bytes[1] = 0 =>
          Heard(m) = [server EXCEPT !.format = FormatFromWire(m.bytes, 5)]
    BY DEF Heard
  <2>3. m.bytes[1] = 2 =>
          Heard(m) = [server EXCEPT !.encodings = m.types,
                                    !.listed = @ \cup m.types]
    BY <1>4 DEF Heard, Counted
  <2>4. m.bytes[1] = 3 => \E asked, dirty :
          Heard(m) = [server EXCEPT !.asked = asked, !.dirty = dirty]
    <3> DEFINE area == Points([width |-> ReadU16(m.bytes, 7),
                               height |-> ReadU16(m.bytes, 9)])
               asks == server.asked \cup area
               rest == IF m.bytes[2] = 0
                       THEN server.dirty \cup (area \cap Points(screen))
                       ELSE server.dirty
    <3>1. m.bytes[1] = 3 =>
            Heard(m) = [server EXCEPT !.asked = asks, !.dirty = rest]
      BY DEF Heard
    <3> HIDE DEF asks, rest
    <3> QED
      BY <3>1
  <2> HIDE DEF m
  <2>5. CASE m.bytes[1] = 0
    BY <1>1, <1>5, <2>2, <2>5 DEF Sets
  <2>6. CASE m.bytes[1] = 2
    <3> DEFINE listed == server.listed \cup m.types
    <3>1. Heard(m) = [server EXCEPT !.encodings = m.types, !.listed = listed]
      BY <2>3, <2>6
    <3> HIDE DEF listed
    <3>2. /\ server'.inStep = server.inStep /\ server'.format = server.format
          /\ server'.asked = server.asked
      BY <1>1, <1>5, <3>1
    <3> QED
      BY <2>6, <3>2 DEF Sets
  <2>7. CASE m.bytes[1] = 3
    <3>1. PICK asked, dirty :
            Heard(m) = [server EXCEPT !.asked = asked, !.dirty = dirty]
      BY <2>4, <2>7
    <3> QED
      BY <1>1, <1>5, <2>7, <3>1 DEF Sets, IsRequest
  <2> QED
    BY <1>1, <2>1, <2>5, <2>6, <2>7 DEF Sets
<1> HIDE DEF m, n
<1>7. \A i \in 1 .. n - 1 : i + 1 \in 1 .. n
  BY <1>3
<1>8. \A i \in 1..Len(toServer') : Counted(toServer'[i])
  BY <1>3, <1>7 DEF Matched, n
<1>9. ToldFirst'
  <2>1. CASE server.format = fb.format /\ \A i \in 1..n : ~Sets(toServer[i])
    <3>1. ~Sets(m)
      BY <1>3, <2>1
    <3>2. \A i \in 1 .. n - 1 : ~Sets(toServer'[i])
      BY <1>3, <1>7, <2>1
    <3> QED
      BY <1>2, <1>3, <1>6, <2>1, <3>1, <3>2 DEF ToldFirst
  <2>2. CASE /\ server.asked = {}
             /\ \E k \in 1..n :
                  /\ Sets(toServer[k])
                  /\ FormatFromWire(toServer[k].bytes, 5) = fb.format
                  /\ \A j \in k + 1 .. n : ~Sets(toServer[j])
                  /\ \A j \in 1 .. k - 1 : ~IsRequest(toServer[j])
    <3>1. PICK k \in 1..n :
            /\ Sets(toServer[k])
            /\ FormatFromWire(toServer[k].bytes, 5) = fb.format
            /\ \A j \in k + 1 .. n : ~Sets(toServer[j])
            /\ \A j \in 1 .. k - 1 : ~IsRequest(toServer[j])
      BY <2>2
    <3>2. CASE k = 1
      <4>1. Sets(m) /\ FormatFromWire(m.bytes, 5) = fb.format
        BY <1>3, <3>1, <3>2
      <4>2. \A i \in 1 .. n - 1 : i + 1 \in k + 1 .. n
        BY <1>3, <3>2
      <4>3. \A i \in 1 .. n - 1 : ~Sets(toServer'[i])
        BY <1>3, <3>1, <4>2
      <4> QED
        BY <1>2, <1>3, <1>6, <4>1, <4>3 DEF ToldFirst
    <3>3. CASE k # 1
      <4>1. 1 \in 1 .. k - 1 /\ k - 1 \in 1 .. n - 1 /\ (k - 1) + 1 = k
        BY <1>3, <3>3
      <4>2. server'.asked = {}
        BY <1>3, <1>6, <2>2, <3>1, <4>1
      <4>3. toServer'[k - 1] = toServer[k]
        BY <1>3, <4>1
      <4>4. \A j \in (k - 1) + 1 .. n - 1 :
              j \in 1 .. n - 1 /\ j + 1 \in k + 1 .. n
        BY <1>3
      <4>5. \A j \in (k - 1) + 1 .. n - 1 : ~Sets(toServer'[j])
        BY <1>3, <3>1, <4>4
      <4>6. \A j \in 1 .. (k - 1) - 1 : j \in 1 .. n - 1 /\ j + 1 \in 1 .. k - 1
        BY <1>3
      <4>7. \A j \in 1 .. (k - 1) - 1 : ~IsRequest(toServer'[j])
        BY <1>3, <3>1, <4>6
      <4> QED
        BY <1>2, <1>3, <3>1, <4>1, <4>2, <4>3, <4>5, <4>7 DEF ToldFirst
    <3> QED
      BY <3>2, <3>3
  <2> QED
    BY <2>1, <2>2 DEF Matched, ToldFirst, n
<1> QED
  BY <1>2, <1>6, <1>8, <1>9 DEF Matched, InStep, Exact, Disciplined

(* The server answers in the client's format.                               *)
LEMMA MatchedServerUpdates ==
  ASSUME Matched, Fitting, ServerUpdates
  PROVE  Matched'
<1> DEFINE n == Len(Stream)
<1>1. Shaped
  BY DEF Fitting
<1>2. PICK items, stale, d : Updates(items, stale, d)
  BY <1>1, UpdateSent DEF Shaped
<1> DEFINE m == Len(items)
           head == Heading(items, stale)
<1>3. /\ n \in Nat /\ m \in Nat /\ Len(Stream') = n + 1 + m
      /\ \A i \in 1 .. n : Stream'[i] = Stream[i]
      /\ Stream'[n + 1] = head
      /\ \A i \in 1 .. m : Stream'[n + 1 + i] = items[i]
  BY <1>1, <1>2, UpdateStream DEF Shaped
<1>4. /\ UNCHANGED <<fb, pc, app, todo, toServer>>
      /\ server.asked # {} /\ server'.asked = {}
      /\ server'.format = server.format /\ server'.inStep = server.inStep
  BY <1>1, <1>2 DEF Updates, client, Shaped
<1>5. \A i \in 1 .. m : Measured(items[i], server.format)
  BY <1>2 DEF Updates, Item
<1>6. head.kind # "rect"
  BY DEF Heading
<1> HIDE DEF n, m, head
<1>7. server.format = fb.format
  BY <1>4 DEF Matched, ToldFirst
<1>8. ASSUME NEW i \in 1 .. n + 1 + m
      PROVE  Exact(Stream'[i])
  <2>1. CASE i \in 1 .. n
    <3>1. Exact(Stream[i])
      BY <2>1 DEF Matched, n
    <3> QED
      BY <1>3, <2>1, <3>1
  <2>2. CASE i = n + 1
    BY <1>3, <1>6, <2>2 DEF Exact
  <2>3. CASE ~(i \in 1 .. n) /\ i # n + 1
    <3>1. i - (n + 1) \in 1 .. m /\ i = n + 1 + (i - (n + 1))
      BY <1>3, <2>3
    <3>2. Stream'[i] = items[i - (n + 1)]
      BY <1>3, <3>1
    <3> QED
      BY <1>5, <1>7, <3>1, <3>2 DEF Exact
  <2> QED
    BY <2>1, <2>2, <2>3
<1>9. \A i \in 1..Len(Stream') : Exact(Stream[i])'
  BY <1>3, <1>4, <1>8 DEF Exact
<1>10. ToldFirst'
  BY <1>4, ToldFirstKept DEF Matched
<1> QED
  BY <1>4, <1>9, <1>10 DEF Matched, InStep, Disciplined

LEMMA MatchedServerRings ==
  ASSUME Matched, Fitting, ServerRings
  PROVE  Matched'
<1> DEFINE n == Len(Stream)
<1>1. /\ n \in Nat /\ Len(Stream') = n + 1
      /\ \A i \in 1 .. n : Stream'[i] = Stream[i]
      /\ Stream'[n + 1].kind = "bell"
  BY RungStream DEF Fitting, Shaped
<1>2. UNCHANGED <<fb, pc, app, todo, toServer, server>>
  BY DEF ServerRings, client
<1>3. \A i \in 1 .. n + 1 : Stream'[i].kind = "rect" =>
        i \in 1 .. n /\ Stream'[i] = Stream[i]
  BY <1>1
<1>4. \A i \in 1..Len(Stream') : Exact(Stream[i])'
  BY <1>1, <1>2, <1>3 DEF Matched, Exact
<1>5. ToldFirst'
  BY <1>2, ToldFirstKept DEF Matched
<1> QED
  BY <1>2, <1>4, <1>5 DEF Matched, InStep, Disciplined

(* Steps of the server that neither read nor send anything new.             *)
LEMMA MatchedApart ==
  ASSUME Matched, Stream' = Stream, UNCHANGED <<client, toServer>>,
         server'.asked = server.asked, server'.format = server.format,
         server'.inStep = server.inStep
  PROVE  Matched'
<1>1. UNCHANGED <<fb, pc, app, todo>>
  BY DEF client
<1>2. ToldFirst'
  BY <1>1, ToldFirstKept DEF Matched
<1> QED
  BY <1>1, <1>2 DEF Matched, InStep, Exact, Disciplined

LEMMA MatchedStep ==
  ASSUME DOMAIN Applications \subseteq Careful, CountsFit,
         Matched, Phases, Fitting, Told, [Next]_vars
  PROVE  Matched'
<1>1. Shaped /\ Flowing
  BY DEF Fitting, Shaped
<1>2. CASE ServerWrites
  <2>1. UNCHANGED <<client, toServer, server>>
    BY <1>2 DEF ServerWrites
  <2> QED
    BY <1>1, <1>2, <2>1, StreamWritten, MatchedApart
<1>3. CASE ScreenChanges \/ ScreenResized
  <2>1. /\ UNCHANGED <<client, toServer, toClient, sending>>
        /\ server'.asked = server.asked /\ server'.format = server.format
        /\ server'.inStep = server.inStep
    BY <1>1, <1>3 DEF ScreenChanges, ScreenResized, Shaped
  <2> QED
    BY <2>1, StreamKept, MatchedApart
<1>4. CASE UNCHANGED vars
  <2>1. UNCHANGED <<client, toServer, toClient, sending, server>>
    BY <1>4 DEF vars, service
  <2> QED
    BY <2>1, StreamKept, MatchedApart
<1> QED
  BY <1>2, <1>3, <1>4, MatchedCalls, MatchedLoop, MatchedServerReads,
     MatchedServerUpdates, MatchedServerRings DEF Next, Serving, Idle

(* Client and server stay in step: for every server, screen and buffer, and *)
(* every set of applications that change the format never or between two    *)
(* updates only, and list no more encodings than SetEncodings can count.    *)
THEOREM BothInStep ==
  ASSUME DOMAIN Applications \subseteq Careful, CountsFit
  PROVE  Spec => []InStep
<1>1. Init => Matched
  BY MatchedInit
<1>2. Matched /\ (Phases /\ Fitting /\ Told) /\ [Next]_vars => Matched'
  BY MatchedStep
<1>3. Matched => InStep
  BY DEF Matched
<1> QED
  BY <1>1, <1>2, <1>3, PhasesAlways, PTL DEF Spec

-----------------------------------------------------------------------------
(* Pictures.                                                                *)

LEMMA PaintedInit ==
  ASSUME DOMAIN Applications \subseteq Thorough, Init
  PROVE  Painted
<1>0. PICK size \in Sizes, c \in Configs, a \in DOMAIN Applications,
           start \in Colours :
        /\ screen = Screen(size, LAMBDA p : start)
        /\ fb = [width |-> size[1], height |-> size[2],
                 format |-> IF c.pixel_format = NULL THEN ServerFormat
                                                     ELSE c.pixel_format,
                 data |-> Blank(size[1], size[2])]
        /\ todo \in Applications[a]["main"]
        /\ pc = "callback" /\ then = "message"
        /\ toClient = <<>> /\ sending = <<>>
        /\ server = [format |-> ServerFormat, encodings |-> {}, listed |-> {},
                     asked |-> {}, dirty |-> Points(screen), told |-> size,
                     resized |-> FALSE, inStep |-> TRUE]
  BY DEF Init
<1>1. /\ screen.width = size[1] /\ screen.height = size[2]
      /\ fb.width = size[1] /\ fb.height = size[2]
      /\ todo \in Applications[a]["main"]
      /\ pc = "callback" /\ then = "message"
      /\ toClient = <<>> /\ sending = <<>>
      /\ server.dirty = Points(screen) /\ server.resized = FALSE
  BY <1>0 DEF Screen
<1>2. Len(Stream) = 0
  <2>1. Sequence(toClient) /\ Sequence(sending)
    BY <1>1, EmptySequence
  <2>2. Len(Stream) = Len(toClient) + Len(sending)
    BY <2>1, Joined DEF Stream
  <2> QED
    BY <1>1, <2>2, EmptySequence
<1>3. AsksAll(todo)
  BY <1>1 DEF AsksAll, Thorough, Hooks
<1>4. SizeOf(fb) = SizeOf(screen)
  BY <1>1 DEF SizeOf
<1>5. ~InUpdate
  BY <1>1 DEF InUpdate
<1>6. Current
  BY <1>2, <1>4, <1>5 DEF Current
<1>7. PICK P : P = [i \in {0} |-> [p \in {} |-> NULL]]
  OBVIOUS
<1>8. P[0] = [p \in {} |-> NULL] /\ DOMAIN P[0] = {}
  BY <1>7
<1>9. Painting(P)
  BY <1>1, <1>2, <1>5, <1>8 DEF Painting, Certain
<1> QED
  BY <1>1, <1>3, <1>6, <1>9 DEF Painted, Settled

(* Steps that leave the stream and the pixels alone.                        *)
LEMMA PaintingKept ==
  ASSUME NEW P, Painting(P), Stream' = Stream, fb' = fb,
         InUpdate' => InUpdate /\ update' = update,
         Owed' \/ Certain(P[Len(Stream)], Points(screen') \ server'.dirty, screen')
  PROVE  \E Q : Painting(Q)'
<1>1. /\ \A i \in 0..Len(Stream') : DOMAIN P[i] \subseteq Nat \X Nat
      /\ \A i \in 1..Len(Stream') : Paints(P[i - 1], Stream'[i], P[i])
      /\ \A i \in 1..Len(Stream') : Stream'[i].kind = "update" =>
           LET u == Stream'[i].update
           IN Certain(P[i + u.left], Points(u.shows) \ u.stale, u.shows)
  BY DEF Painting
<1>2. \A p \in DOMAIN P[0] :
        p \in Points(fb') /\ At(p[1], p[2])' = P[0][p]
  BY DEF Painting, At
<1>3. InUpdate' => Certain(P[update'.left],
                           Points(update'.shows) \ update'.stale,
                           update'.shows)
  BY DEF Painting
<1>4. Painting(P)'
  BY <1>1, <1>2, <1>3 DEF Painting
<1> QED
  BY <1>4

(* The client takes an item: what is certain moves up by one.               *)
LEMMA PaintingTaken ==
  ASSUME Fitting, toClient # <<>>, toClient' = Tail(toClient),
         UNCHANGED <<sending, server, screen>>,
         NEW P, Painting(P),
         \A p \in DOMAIN P[1] : p \in Points(fb') /\ At(p[1], p[2])' = P[1][p],
         Owed => Owed',
         InUpdate' => /\ update'.left \in Nat
                      /\ update'.left + 1 <= Len(Stream)
                      /\ Certain(P[update'.left + 1],
                                 Points(update'.shows) \ update'.stale,
                                 update'.shows)
  PROVE  \E Q : Painting(Q)'
<1> DEFINE n == Len(Stream)
<1>0. PICK Q : Q = [i \in 0 .. n - 1 |-> P[i + 1]]
  OBVIOUS
<1>1. /\ n \in Nat /\ n > 0 /\ Len(Stream') = n - 1
      /\ \A i \in 1 .. n - 1 : Stream'[i] = Stream[i + 1]
  BY StreamTaken DEF Fitting, Shaped
<1>2. \A i \in 1 .. n : Sound(Stream[i])
  BY DEF Fitting
<1>3. \A i \in 1 .. n - 1 : i + 1 \in 1 .. n
  BY <1>1
<1>4. \A i \in 0 .. n - 1 : Q[i] = P[i + 1]
  BY <1>0
<1>5. PICK G : Sizing(G)
  BY DEF Fitting
<1>6. \A i \in 1 .. n : Stream[i].kind = "update" =>
        i + Stream[i].update.left <= n
  BY <1>5 DEF Sizing
<1>7. /\ \A i \in 0 .. n : DOMAIN P[i] \subseteq Nat \X Nat
      /\ \A i \in 1 .. n : Paints(P[i - 1], Stream[i], P[i])
      /\ Owed \/ Certain(P[n], Points(screen) \ server.dirty, screen)
      /\ \A i \in 1 .. n : Stream[i].kind = "update" =>
           LET u == Stream[i].update
           IN Certain(P[i + u.left], Points(u.shows) \ u.stale, u.shows)
  BY DEF Painting
<1> HIDE DEF n
<1>8. Q[0] = P[1]
  BY <1>1, <1>4
<1>9. \A i \in 0 .. n - 1 : DOMAIN Q[i] \subseteq Nat \X Nat
  <2>1. \A i \in 0 .. n - 1 : i + 1 \in 0 .. n
    BY <1>1
  <2> QED
    BY <1>4, <1>7, <2>1
<1>10. ASSUME NEW i \in 1 .. n - 1
       PROVE  Paints(Q[i - 1], Stream'[i], Q[i])
  <2>1. /\ i + 1 \in 1 .. n /\ (i + 1) - 1 = i /\ i - 1 \in 0 .. n - 1
        /\ i \in 0 .. n - 1 /\ (i - 1) + 1 = i
    BY <1>1
  <2>2. Q[i - 1] = P[i] /\ Q[i] = P[i + 1]
    BY <1>4, <2>1
  <2>3. Paints(P[i], Stream[i + 1], P[i + 1])
    BY <1>7, <2>1
  <2>4. Stream'[i] = Stream[i + 1]
    BY <1>1
  <2> QED
    BY <2>2, <2>3, <2>4
<1>11. Owed' \/ Certain(Q[n - 1], Points(screen') \ server'.dirty, screen')
  <2>1. n - 1 \in 0 .. n - 1 /\ (n - 1) + 1 = n
    BY <1>1
  <2> QED
    BY <1>4, <1>7, <2>1
<1>12. ASSUME NEW i \in 1 .. n - 1, Stream'[i].kind = "update"
       PROVE  LET u == Stream'[i].update
              IN Certain(Q[i + u.left], Points(u.shows) \ u.stale, u.shows)
  <2> DEFINE u == Stream'[i].update
  <2>1. u = Stream[i + 1].update /\ Stream[i + 1].kind = "update"
        /\ i + 1 \in 1 .. n
    BY <1>1, <1>3, <1>12
  <2>2. u.left \in Nat
    BY <1>2, <2>1 DEF Sound, n
  <2>3. /\ (i + 1) + u.left <= n
        /\ Certain(P[(i + 1) + u.left], Points(u.shows) \ u.stale, u.shows)
    BY <1>6, <1>7, <2>1 DEF n
  <2> HIDE DEF u
  <2>4. i + u.left \in 0 .. n - 1 /\ (i + u.left) + 1 = (i + 1) + u.left
    <3>1. \A l \in Nat : (i + 1) + l <= n =>
            i + l \in 0 .. n - 1 /\ (i + l) + 1 = (i + 1) + l
      BY <1>1
    <3> QED
      BY <2>2, <2>3, <3>1
  <2>5. Q[i + u.left] = P[(i + 1) + u.left]
    BY <1>4, <2>4
  <2>6. Certain(Q[i + u.left], Points(u.shows) \ u.stale, u.shows)
    BY <2>3, <2>5
  <2> QED
    BY <2>6 DEF u
<1>13. InUpdate' => Certain(Q[update'.left],
                            Points(update'.shows) \ update'.stale,
                            update'.shows)
  <2> SUFFICES ASSUME InUpdate'
               PROVE  Certain(Q[update'.left],
                              Points(update'.shows) \ update'.stale,
                              update'.shows)
    OBVIOUS
  <2>1. /\ update'.left \in Nat /\ update'.left + 1 <= n
        /\ Certain(P[update'.left + 1],
                   Points(update'.shows) \ update'.stale, update'.shows)
    BY DEF n
  <2>2. update'.left \in 0 .. n - 1
    BY <1>1, <2>1
  <2> QED
    BY <1>4, <2>1, <2>2
<1>14. \A p \in DOMAIN Q[0] : p \in Points(fb') /\ At(p[1], p[2])' = Q[0][p]
  BY <1>8
<1>15. Painting(Q)'
  <2>1. Len(Stream') = n - 1
    BY <1>1
  <2> QED
    BY <1>9, <1>10, <1>11, <1>12, <1>13, <1>14, <2>1 DEF Painting
<1> QED
  BY <1>15

(* What the client owes once a call is made.                                *)
LEMMA OwedTail ==
  ASSUME Told, app \in Patient, AsksLast(todo), Len(todo) # 1,
         app' = app, todo' = Tail(todo), Low(todo[Len(todo)].incremental) = 0
  PROVE  Owed'
<1>1. /\ Len(todo) \in Nat /\ Len(todo) > 0 /\ Len(todo') = Len(todo) - 1
      /\ \A i \in 1 .. Len(todo) - 1 : todo'[i] = todo[i + 1]
      /\ todo' \in Seq(CallRecords)
  BY DEF Told, AsksLast
<1>2. Len(todo') # 0 /\ todo' # <<>>
  <2>1. \A l \in Nat : l # 1 => l - 1 # 0
    OBVIOUS
  <2>2. Len(todo') # 0
    BY <1>1, <2>1
  <2> QED
    BY <2>2, EmptySequence
<1>3. /\ Len(todo') \in 1 .. Len(todo) - 1
      /\ Len(todo') + 1 = Len(todo)
  BY <1>1, <1>2
<1>4. todo'[Len(todo')] = todo[Len(todo)]
  BY <1>1, <1>3
<1> QED
  BY <1>2, <1>4 DEF Owed

LEMMA AsksAllTail ==
  ASSUME Told, todo # <<>>, AsksAll(todo)
  PROVE  AsksAll(Tail(todo))
<1> DEFINE rest == Tail(todo)
<1>1. /\ Len(todo) \in Nat /\ Len(todo) > 0 /\ Len(rest) = Len(todo) - 1
      /\ \A i \in 1 .. Len(todo) - 1 : rest[i] = todo[i + 1]
  BY DEF Told
<1> HIDE DEF rest
<1>2. \A i \in 1 .. Len(rest) : i + 1 \in 1 .. Len(todo) /\ rest[i] = todo[i + 1]
  BY <1>1
<1>3. ASSUME Reformats(rest)
      PROVE  Low(rest[Len(rest)].incremental) = 0
  <2>1. PICK i \in 1 .. Len(rest) : /\ rest[i].call = "set_pixel_format"
                                    /\ BytesPerPixel(rest[i].format) >= 0
    BY <1>3 DEF Reformats
  <2>2. Reformats(todo)
    BY <1>2, <2>1 DEF Reformats
  <2>3. Len(rest) \in 1 .. Len(rest) /\ Len(rest) + 1 = Len(todo)
    BY <1>1, <2>1
  <2>4. rest[Len(rest)] = todo[Len(todo)]
    BY <1>2, <2>3
  <2> QED
    BY <2>2, <2>4 DEF AsksAll
<1>4. AsksAll(rest)
  BY <1>3 DEF AsksAll
<1> QED
  BY <1>4 DEF rest

(* A request for all of the framebuffer is the same whatever its caller     *)
(* gave for 0.                                                              *)
LEMMA WholeAsked ==
  ASSUME NEW i, Low(i) = 0, NEW w, NEW h
  PROVE  UpdateRequestMessage(i, w, h) = UpdateRequestMessage(0, w, h)
<1>1. Low(0) = 0
  BY DEF Low
<1> QED
  BY <1>1 DEF UpdateRequestMessage

(* A call of the application: a whole picture stays owed until it is asked  *)
(* for, and a change of format owes one.                                    *)
LEMMA PaintedCalls ==
  ASSUME Painted, Matched, Phases, Fitting, Told, Calls
  PROVE  Painted'
<1>1. Shaped /\ Sequence(toServer)
  BY DEF Fitting, Told
<1>2. PICK P : Painting(P)
  BY DEF Painted
<1>3. Certain(P[Len(Stream)], Points(screen) \ server.dirty, screen) \/ Owed
  BY <1>2 DEF Painting
<1>4. CASE CallbackReturn
  <2>1. /\ pc = "callback" /\ pc' = then /\ then \in {"message", "rects"}
        /\ UNCHANGED <<fb, then, app, todo, update, toServer, toClient,
                       sending, server, screen>>
    BY <1>1, <1>4 DEF CallbackReturn, service, Shaped, TypeOK
  <2>2. Stream' = Stream
    BY <2>1, StreamKept
  <2>3. InUpdate' <=> InUpdate
    BY <2>1 DEF InUpdate
  <2>4. Answering' <=> Answering
    BY <2>2, <2>3 DEF Answering
  <2>5. Owed' <=> Owed
    BY <2>1 DEF Owed
  <2>6. \E Q : Painting(Q)'
    BY <1>2, <1>3, <2>1, <2>2, <2>3, <2>5, PaintingKept
  <2>7. Current'
    BY <2>1, <2>2, <2>3, <2>4 DEF Painted, Current
  <2> QED
    BY <2>1, <2>6, <2>7 DEF Painted, Settled
<1>5. CASE ~CallbackReturn
  <2> DEFINE call == Head(todo)
  <2>1. /\ pc = "callback" /\ todo # <<>> /\ todo' = Tail(todo)
        /\ UNCHANGED <<pc, then, app, update, toClient, sending, server,
                       screen>>
        /\ SizeOf(fb') = SizeOf(fb)
    BY <1>1, <1>5, CallDone DEF service, SizeOf
  <2>2. Stream' = Stream
    BY <2>1, StreamKept
  <2>3. InUpdate' <=> InUpdate
    BY <2>1 DEF InUpdate
  <2>4. Answering' <=> Answering
    BY <2>2, <2>3 DEF Answering
  <2>5. Settled' /\ AsksAll(todo)' /\ Current'
    <3>1. Settled'
      BY <2>1 DEF Painted, Settled
    <3>2. AsksAll(todo')
      BY <2>1, AsksAllTail DEF Painted
    <3>3. Current'
      BY <2>1, <2>2, <2>3, <2>4 DEF Painted, Current
    <3> QED
      BY <3>1, <3>2, <3>3
  <2>6. /\ call = todo[1] /\ call \in CallRecords /\ 1 \in 1 .. Len(todo)
        /\ Len(todo) \in Nat
    BY <2>1 DEF Told
  <2>7. app \in Patient =>
          /\ AsksLast(todo) /\ ~Answering
          /\ call.call = "request_update" <=> Len(todo) = 1
    <3>1. app \in Patient => AsksLast(todo) /\ ~Answering
      BY <2>1 DEF Phases, Waiting
    <3>2. AsksLast(todo) => (call.call = "request_update" <=> Len(todo) = 1)
      BY <2>6 DEF AsksLast
    <3> QED
      BY <3>1, <3>2
  <2> HIDE DEF call
  <2>8. ASSUME fb' = fb, toServer' = toServer \/ \E m : Send(m),
               call.call # "request_update", Owed
        PROVE  Owed'
    <3>1. app \in Patient /\ Len(todo) # 1 /\ AsksLast(todo)
      BY <2>7, <2>8 DEF Owed
    <3>2. CASE Low(todo[Len(todo)].incremental) = 0
      BY <2>1, <3>1, <3>2, OwedTail
    <3>3. CASE \E i \in 1 .. Len(toServer) :
                 toServer[i].bytes = UpdateRequestMessage(0, fb.width, fb.height)
      <4>1. PICK i \in 1 .. Len(toServer) :
              toServer[i].bytes = UpdateRequestMessage(0, fb.width, fb.height)
        BY <3>3
      <4>2. i \in 1 .. Len(toServer') /\ toServer'[i] = toServer[i]
        BY <1>1, <2>8, Sequences DEF Send
      <4> QED
        BY <2>1, <2>8, <3>1, <4>1, <4>2 DEF Owed
    <3> QED
      BY <2>8, <3>2, <3>3 DEF Owed
  <2>9. ASSUME fb' = fb, Owed => Owed'
        PROVE  Painted'
    <3>1. \E Q : Painting(Q)'
      BY <1>2, <1>3, <2>1, <2>2, <2>3, <2>9, PaintingKept
    <3> QED
      BY <2>5, <3>1 DEF Painted
  <2>10. CASE RequestUpdate
    <3> DEFINE m == Message(UpdateRequestMessage(call.incremental,
                                                 fb.width, fb.height))
               k == Len(toServer)
    <3>1. Send(m) /\ fb' = fb /\ call.call = "request_update"
      BY <2>10 DEF RequestUpdate, Calling, call
    <3>2. /\ k \in Nat /\ Len(toServer') = k + 1 /\ toServer'[k + 1] = m
          /\ \A i \in 1 .. k : toServer'[i] = toServer[i]
      BY <1>1, <3>1, Sequences DEF Send
    <3>3. m.bytes = UpdateRequestMessage(call.incremental, fb.width, fb.height)
      BY DEF Message
    <3> HIDE DEF m, k
    <3>4. ASSUME Owed PROVE Owed'
      <4>1. app \in Patient /\ Len(todo) = 1
        BY <2>7, <3>1, <3>4 DEF Owed
      <4>2. CASE Low(todo[Len(todo)].incremental) = 0
        <5>1. Low(call.incremental) = 0
          BY <2>6, <4>1, <4>2
        <5>2. m.bytes = UpdateRequestMessage(0, fb.width, fb.height)
          BY <3>3, <5>1, WholeAsked
        <5>3. k + 1 \in 1 .. Len(toServer')
          BY <3>2
        <5> QED
          BY <2>1, <3>1, <3>2, <4>1, <5>2, <5>3 DEF Owed
      <4>3. CASE \E i \in 1 .. Len(toServer) :
                   toServer[i].bytes
                     = UpdateRequestMessage(0, fb.width, fb.height)
        <5>1. PICK i \in 1 .. k :
                toServer[i].bytes = UpdateRequestMessage(0, fb.width, fb.height)
          BY <4>3 DEF k
        <5>2. i \in 1 .. Len(toServer') /\ toServer'[i] = toServer[i]
          BY <3>2
        <5> QED
          BY <2>1, <3>1, <4>1, <5>1, <5>2 DEF Owed
      <4> QED
        BY <3>4, <4>2, <4>3 DEF Owed
    <3> QED
      BY <2>9, <3>1, <3>4
  <2>11. CASE SetEncodings
    <3>1. /\ Send(SetEncodingsMessage(call.list)) /\ fb' = fb
          /\ call.call = "set_encodings"
      BY <2>11 DEF SetEncodings, Calling, call
    <3> QED
      BY <2>8, <2>9, <3>1
  <2>12. CASE SendPointerEvent
    <3>1. /\ Send(Message(<<5>>)) /\ fb' = fb
          /\ call.call = "send_pointer_event"
      BY <2>12 DEF SendPointerEvent, Calling, call
    <3> QED
      BY <2>8, <2>9, <3>1
  <2>13. CASE SetPixelFormat
    <3> DEFINE f == call.format
    <3>1. call.call = "set_pixel_format"
      BY <2>13 DEF SetPixelFormat, Calling, call
    <3>2. CASE BytesPerPixel(f) < 0
      <4>1. UNCHANGED <<fb, toServer>>
        BY <2>13, <3>2 DEF SetPixelFormat, call
      <4> QED
        BY <2>8, <2>9, <3>1, <4>1
    <3>3. CASE ~(BytesPerPixel(f) < 0)
      <4>1. BytesPerPixel(f) >= 0
        BY <3>3, SMT DEF BytesPerPixel
      <4>2. Reformats(todo)
        BY <2>6, <3>1, <4>1 DEF Reformats
      <4>3. /\ app \in Patient /\ Low(todo[Len(todo)].incremental) = 0
        BY <4>2 DEF Matched, Disciplined, Painted, AsksAll
      <4>4. AsksLast(todo) /\ ~Answering /\ Len(todo) # 1
        BY <2>7, <3>1, <4>3
      <4>5. Owed'
        BY <2>1, <4>3, <4>4, OwedTail
      <4>6. ~Answering'
        BY <2>4, <4>4
      <4>7. PICK Q : Q = [i \in 0 .. Len(Stream) |-> [p \in {} |-> NULL]]
        OBVIOUS
      <4>8. \A i \in 0 .. Len(Stream) : DOMAIN Q[i] = {}
        BY <4>7
      <4>9. Len(Stream) \in Nat
        <5>1. Sequence(toClient) /\ Sequence(sending)
          BY <1>1 DEF Shaped, Flowing
        <5>2. Sequence(Stream)
          BY <5>1, Joined DEF Stream
        <5> QED
          BY <5>2, Sequences
      <4>10. \A i \in 1 .. Len(Stream) : Paints(Q[i - 1], Stream[i], Q[i])
        BY <4>8, <4>9 DEF Paints
      <4>11. 0 \in 0 .. Len(Stream)
        BY <4>9
      <4>12. Painting(Q)'
        BY <2>2, <4>5, <4>6, <4>8, <4>10, <4>11 DEF Painting, Answering
      <4> QED
        BY <2>5, <4>12 DEF Painted
    <3> QED
      BY <3>2, <3>3
  <2> QED
    BY <1>5, <2>10, <2>11, <2>12, <2>13 DEF Calls
<1> QED
  BY <1>4, <1>5

LEMMA HookAsksAll ==
  ASSUME DOMAIN Applications \subseteq Thorough, app \in DOMAIN Applications,
         NEW name \in Hooks, NEW calls \in Applications[app][name]
  PROVE  AsksAll(calls)
BY DEF Thorough, AsksAll

(* Once an update is under way, nothing is owed.                            *)
LEMMA NothingOwed ==
  ASSUME Phases, InUpdate \/ server.asked # {}, pc # "callback" \/ server.asked # {}
  PROVE  ~Owed
<1>1. ASSUME app \in Patient
      PROVE  todo = <<>> /\ Len(toServer) = 0
  <2>1. Waiting
    BY <1>1 DEF Phases
  <2>2. toServer = <<>>
    BY <2>1 DEF Waiting, Answering
  <2>3. todo = <<>>
    BY <2>1 DEF Waiting, Phases, Idling
  <2> QED
    BY <2>2, <2>3, EmptySequence
<1>2. ASSUME app \in Patient, NEW i \in 1 .. 0 PROVE FALSE
  OBVIOUS
<1> QED
  BY <1>1, <1>2 DEF Owed

(* The client hears a bell or that an update begins.                        *)
LEMMA PaintedMessages ==
  ASSUME DOMAIN Applications \subseteq Thorough,
         Painted, Phases, Fitting, Told, HandleBell \/ HandleFbUpdate
  PROVE  Painted'
<1> DEFINE n == Len(Stream)
           e == Stream[1]
<1>1. Shaped
  BY DEF Fitting
<1>2. /\ pc = "message" /\ toClient # <<>> /\ toClient' = Tail(toClient)
      /\ UNCHANGED <<fb, app, toServer, sending, server, screen>>
  BY DEF HandleBell, HandleFbUpdate, Receives, service
<1>3. PICK P : Painting(P)
  BY DEF Painted
<1>4. PICK G : Sizing(G)
  BY DEF Fitting
<1>5. /\ n \in Nat /\ n > 0 /\ e = Head(toClient) /\ Len(Stream') = n - 1
      /\ \A i \in 1 .. n - 1 : Stream'[i] = Stream[i + 1]
  BY <1>1, <1>2, StreamTaken DEF Shaped
<1>6. ~InUpdate /\ todo = <<>>
  BY <1>2 DEF InUpdate, Phases, Idling
<1>7. \/ /\ HandleBell /\ e.kind = "bell" /\ Invoke("bell", "message")
         /\ update' = update
      \/ /\ HandleFbUpdate /\ e.kind = "update" /\ update' = e.update
         /\ pc' = "rects" /\ todo' = todo /\ then' = then
  BY <1>5 DEF HandleBell, HandleFbUpdate, Receives
<1>8. 1 \in 1 .. n /\ 0 \in 0 .. n /\ 1 - 1 = 0
  BY <1>5
<1>9. \A p \in DOMAIN P[1] : p \in Points(fb') /\ At(p[1], p[2])' = P[1][p]
  <2>1. Paints(P[0], e, P[1])
    BY <1>3, <1>8 DEF Painting
  <2>2. \A p \in DOMAIN P[0] : p \in Points(fb) /\ At(p[1], p[2]) = P[0][p]
    BY <1>3 DEF Painting
  <2>3. e.kind # "rect"
    BY <1>7
  <2> HIDE DEF e, n
  <2>4. \A p \in DOMAIN P[1] : p \in DOMAIN P[0] /\ P[1][p] = P[0][p]
    BY <2>1, <2>3 DEF Paints
  <2> QED
    BY <1>2, <2>2, <2>4 DEF At
<1>10. e.kind = "update" =>
         /\ e.update.left \in Nat /\ e.update.left + 1 <= n
         /\ Certain(P[e.update.left + 1],
                    Points(e.update.shows) \ e.update.stale, e.update.shows)
  <2> DEFINE l == e.update.left
  <2>1. e.kind = "update" => l \in Nat
    BY <1>8 DEF Fitting, Sound
  <2>2. e.kind = "update" => 1 + l <= n
    BY <1>4, <1>8 DEF Sizing
  <2>3. e.kind = "update" =>
          Certain(P[1 + l], Points(e.update.shows) \ e.update.stale,
                  e.update.shows)
    BY <1>3, <1>8 DEF Painting
  <2>4. \A v \in Nat : 1 + v = v + 1
    OBVIOUS
  <2> HIDE DEF e, n, l
  <2>5. e.kind = "update" =>
          /\ l \in Nat /\ l + 1 <= n
          /\ Certain(P[l + 1], Points(e.update.shows) \ e.update.stale,
                     e.update.shows)
    BY <2>1, <2>2, <2>3, <2>4
  <2> QED
    BY <2>5 DEF l
<1>11. app \in Patient => todo' = <<>>
  <2>1. HandleBell /\ app \in Patient => todo' = <<>>
    <3>1. app \in Patient => Applications[app]["bell"] \subseteq {<<>>}
      BY PatientCalls DEF Hooks
    <3>2. HandleBell => todo' \in Applications[app]["bell"]
      BY DEF HandleBell, Invoke
    <3> QED
      BY <3>1, <3>2
  <2> QED
    BY <1>6, <1>7, <2>1
<1>12. Owed => Owed'
  BY <1>2, <1>6, <1>11 DEF Owed
<1>13. InUpdate' => e.kind = "update" /\ update' = e.update
  BY <1>7, InvokeDone
<1>14. \E Q : Painting(Q)'
  <2>1. InUpdate' =>
          /\ update'.left \in Nat /\ update'.left + 1 <= Len(Stream)
          /\ Certain(P[update'.left + 1],
                     Points(update'.shows) \ update'.stale, update'.shows)
    BY <1>10, <1>13
  <2> HIDE DEF e, n
  <2> QED
    BY <1>2, <1>3, <1>9, <1>12, <2>1, PaintingTaken
<1> HIDE DEF e
<1>15. AsksAll(todo')
  <2>1. CASE HandleBell
    <3>1. todo' \in Applications[app]["bell"]
      BY <2>1 DEF HandleBell, Invoke
    <3> QED
      BY <3>1, HookAsksAll DEF Told, Hooks
  <2>2. CASE ~HandleBell
    BY <1>7, <2>2 DEF Painted
  <2> QED
    BY <2>1, <2>2
<1>16. Current'
  <2> SUFFICES ASSUME app \in Patient, ~server.resized
               PROVE  /\ ~Answering' => SizeOf(fb) = SizeOf(screen)
                      /\ InUpdate' => SizeOf(update'.shows) = SizeOf(screen)
                      /\ \A i \in 1 .. n - 1 : Stream'[i].kind = "update" =>
                           SizeOf(Stream'[i].update.shows) = SizeOf(screen)
    BY <1>2, <1>5 DEF Current
  <2>1. /\ ~Answering => SizeOf(fb) = SizeOf(screen)
        /\ \A i \in 1 .. n : Stream[i].kind = "update" =>
             SizeOf(Stream[i].update.shows) = SizeOf(screen)
    BY DEF Painted, Current
  <2> HIDE DEF n
  <2>2. \A i \in 1 .. n - 1 : i + 1 \in 1 .. n
    BY <1>5
  <2>3. InUpdate' => SizeOf(update'.shows) = SizeOf(screen)
    BY <1>8, <1>13, <2>1 DEF e
  <2>4. ~Answering' => ~Answering
    <3>1. ASSUME Answering, ~InUpdate'
          PROVE  Answering'
      <4>1. PICK i \in 1 .. n : Stream[i].kind # "bell"
        BY <1>6, <3>1 DEF Answering, n
      <4>2. e.kind = "bell"
        <5>1. pc' # "rects"
          BY <3>1 DEF InUpdate
        <5> QED
          BY <1>7, <5>1
      <4>3. i # 1
        BY <4>1, <4>2 DEF e
      <4>4. i - 1 \in 1 .. n - 1 /\ (i - 1) + 1 = i
        BY <1>5, <4>3
      <4>5. Stream'[i - 1] = Stream[i]
        BY <1>5, <4>4
      <4> QED
        BY <1>5, <4>1, <4>4, <4>5 DEF Answering
    <3> QED
      BY <3>1 DEF Answering
  <2> QED
    BY <1>5, <2>1, <2>2, <2>3, <2>4
<1> QED
  BY <1>2, <1>14, <1>15, <1>16 DEF Painted, Settled

(* The update is over: the framebuffer has the size the server has in mind. *)
LEMMA PaintedFinished ==
  ASSUME DOMAIN Applications \subseteq Thorough,
         Painted, Phases, Fitting, Told, UpdateFinished
  PROVE  Painted'
<1>1. /\ pc = "rects" /\ update.left = 0
      /\ Invoke("framebuffer_update_finished", "message")
      /\ UNCHANGED <<fb, app, toServer, toClient, sending, server, screen>>
  BY DEF UpdateFinished, service
<1>2. Stream' = Stream
  BY <1>1, StreamKept
<1>3. InUpdate /\ ~InUpdate'
  BY <1>1, InvokeDone DEF InUpdate
<1>4. PICK P : Painting(P)
  BY DEF Painted
<1>5. Certain(P[Len(Stream)], Points(screen) \ server.dirty, screen)
  BY <1>1, <1>3, <1>4, NothingOwed DEF Painting
<1>6. \E Q : Painting(Q)'
  BY <1>1, <1>2, <1>3, <1>4, <1>5, PaintingKept
<1>7. AsksAll(todo')
  <2>1. todo' \in Applications[app]["framebuffer_update_finished"]
    BY <1>1 DEF Invoke
  <2> QED
    BY <2>1, HookAsksAll DEF Told, Hooks
<1>8. PICK G : Sizing(G)
  BY DEF Fitting
<1>9. SizeOf(fb) = SizeOf(update.shows)
  BY <1>1, <1>3, <1>8 DEF Sizing
<1>10. Current'
  BY <1>1, <1>2, <1>3, <1>9 DEF Painted, Current
<1> QED
  BY <1>1, <1>6, <1>7, <1>10 DEF Painted, Settled

(* A rectangle is painted where the server meant it.                        *)
LEMMA PixelTypes == Raw \notin {Cursor, DesktopSize}
BY DEF Raw, Cursor, DesktopSize

LEMMA PixelsStored ==
  ASSUME Backed, DOMAIN fb = {"format", "data", "width", "height"},
         NEW e, Sound(e), e.kind = "rect", Encoding(e.header) = Raw,
         Inside(Rect(e.header)), e.format = fb.format,
         fb' = [fb EXCEPT !.data = Stored(Rect(e.header), Understood(e))],
         NEW f, NEW g, DOMAIN g \subseteq Nat \X Nat, Paints(f, e, g),
         \A p \in DOMAIN f : p \in Points(fb) /\ At(p[1], p[2]) = f[p],
         NEW p \in DOMAIN g
  PROVE  p \in Points(fb') /\ At(p[1], p[2])' = g[p]
<1> DEFINE r == Rect(e.header)
           pixels == Understood(e)
           x == p[1]
           y == p[2]
<1>1. x \in Nat /\ y \in Nat /\ p = <<x, y>>
  OBVIOUS
<1>2. IF Covers(r, x, y) THEN g[p] = e.pixels[<<x - r.x, y - r.y>>]
                         ELSE p \in DOMAIN f /\ g[p] = f[p]
  BY PixelTypes DEF Paints, Pixels
<1>3. /\ fb.width \in Nat /\ fb.height \in Nat
      /\ r.x \in Nat /\ r.y \in Nat /\ r.width \in Nat /\ r.height \in Nat
      /\ r.x + r.width <= fb.width /\ r.y + r.height <= fb.height
  BY DEF Backed, Inside
<1>4. /\ fb'.width = fb.width /\ fb'.height = fb.height
      /\ fb'.data = Stored(r, pixels)
  OBVIOUS
<1>5. e.pixels \in [Points(r) -> Colours] /\ Inside(r)
  BY PixelTypes DEF Sound, Pixels
<1>6. \A q \in Points(r) : pixels[q] = e.pixels[q]
  BY <1>5 DEF Understood
<1> HIDE DEF r, pixels, x, y
<1>7. ASSUME Covers(r, x, y)
      PROVE  /\ x \in 0 .. fb.width - 1 /\ y \in 0 .. fb.height - 1
             /\ <<x - r.x, y - r.y>> \in Points(r)
  BY <1>1, <1>3, <1>7 DEF Covers, Points
<1>8. ~Covers(r, x, y) =>
        x \in 0 .. fb.width - 1 /\ y \in 0 .. fb.height - 1 /\ At(x, y) = f[p]
  BY <1>1, <1>2 DEF Points, x, y
<1>9. x \in 0 .. fb.width - 1 /\ y \in 0 .. fb.height - 1
  BY <1>7, <1>8
<1>10. Stored(r, pixels)[y * fb.width + x]
         = IF Covers(r, x, y) THEN pixels[<<x - r.x, y - r.y>>] ELSE At(x, y)
  BY <1>5, <1>9, StoredInPlace
<1>11. Stored(r, pixels)[y * fb.width + x] = g[p]
  BY <1>2, <1>6, <1>7, <1>8, <1>10
<1>12. At(x, y)' = g[p]
  BY <1>4, <1>11 DEF At, x, y
<1>13. p \in Points(fb')
  BY <1>1, <1>4, <1>9 DEF Points
<1> QED
  BY <1>12, <1>13 DEF x, y

LEMMA PaintedRect ==
  ASSUME DOMAIN Applications \subseteq Thorough,
         Painted, Matched, Phases, Fitting, Told, DecodeRect,
         pc' # "unsupported"
  PROVE  Painted'
<1> DEFINE item == Stream[1]
           r == Rect(item.header)
           encoding == Encoding(item.header)
           n == Len(Stream)
<1>1. Shaped
  BY DEF Fitting
<1>2. PICK G : Sizing(G)
  BY DEF Fitting
<1>3. PICK P : Painting(P)
  BY DEF Painted
<1>4. /\ toClient # <<>> /\ toClient' = Tail(toClient)
      /\ UNCHANGED <<app, toServer, service>>
      /\ pc = "rects" /\ update.left > 0
      /\ update' = [update EXCEPT !.left = @ - 1]
      /\ item.kind = "rect" /\ Sound(item) /\ 1 \in 1 .. n
      /\ Backed
      /\ encoding = Raw => Inside(r)
  BY <1>2, RectTaken
<1>5. Measured(item, fb.format) /\ item.format = fb.format
  <2>1. Exact(item)
    BY <1>4 DEF Matched
  <2> QED
    BY <1>4, <2>1 DEF Exact, Measured
<1>6. \/ /\ encoding = Raw /\ RectDone("framebuffer_update")
         /\ fb' = [fb EXCEPT !.data = Stored(r, Understood(item))]
      \/ /\ encoding = DesktopSize /\ RectDone("desktop_resize")
         /\ fb' = Resized(r)
      \/ /\ encoding = Cursor /\ RectDone("cursor_update")
         /\ fb' = fb
  <2>1. \/ ~Measured(item, fb.format) \/ item.format # fb.format
        \/ /\ encoding = Raw /\ RectDone("framebuffer_update")
           /\ fb' = [fb EXCEPT !.data = Stored(r, Understood(item))]
        \/ /\ encoding = DesktopSize /\ RectDone("desktop_resize")
           /\ fb' = Resized(r)
        \/ /\ encoding = Cursor /\ RectDone("cursor_update")
           /\ fb' = fb
    BY <1>2, RectTaken DEF Stops
  <2> HIDE DEF item
  <2> QED
    BY <1>5, <2>1
<1>7. /\ n \in Nat /\ n > 0 /\ Len(Stream') = n - 1
      /\ \A i \in 1 .. n - 1 : Stream'[i] = Stream[i + 1]
  <2>1. sending' = sending
    BY <1>4 DEF service
  <2> QED
    BY <1>1, <1>4, <2>1, StreamTaken DEF Shaped
<1> HIDE DEF item, n
<1>8. PICK name \in {"framebuffer_update", "desktop_resize", "cursor_update"} :
        RectDone(name)
  BY <1>6
<1>9. /\ name \in Hooks /\ name \in Hooks \ {"main", "framebuffer_update_finished"}
      /\ Invoke(name, "rects")
  BY <1>8 DEF Hooks, RectDone
<1>10. InUpdate /\ InUpdate'
  BY <1>4, <1>9, InvokeDone DEF InUpdate
<1>11. UNCHANGED <<sending, server, screen>>
  BY <1>4 DEF service
<1>12. ~Owed
  BY <1>4, <1>10, NothingOwed
<1>13. \A p \in DOMAIN P[1] : p \in Points(fb') /\ At(p[1], p[2])' = P[1][p]
  <2>1. 1 \in 0 .. n /\ 1 - 1 = 0
    BY <1>7
  <2>2. Paints(P[0], item, P[1]) /\ DOMAIN P[1] \subseteq Nat \X Nat
    BY <1>3, <1>4, <2>1 DEF Painting, item, n
  <2>3. \A p \in DOMAIN P[0] : p \in Points(fb) /\ At(p[1], p[2]) = P[0][p]
    BY <1>3 DEF Painting
  <2>4. Raw # DesktopSize /\ Cursor # DesktopSize /\ Raw # Cursor
    BY DEF Raw, DesktopSize, Cursor
  <2>5. CASE /\ encoding = Raw
             /\ fb' = [fb EXCEPT !.data = Stored(r, Understood(item))]
    <3>1. DOMAIN fb = {"format", "data", "width", "height"}
      BY DEF Told
    <3>2. /\ Backed /\ Sound(item) /\ item.kind = "rect"
          /\ Encoding(item.header) = Raw /\ Inside(Rect(item.header))
          /\ item.format = fb.format
          /\ fb' = [fb EXCEPT !.data = Stored(Rect(item.header),
                                              Understood(item))]
      BY <1>4, <1>5, <2>5
    <3> DEFINE f == P[0]
               g == P[1]
    <3>3. /\ Paints(f, item, g) /\ DOMAIN g \subseteq Nat \X Nat
          /\ \A p \in DOMAIN f : p \in Points(fb) /\ At(p[1], p[2]) = f[p]
      BY <2>2, <2>3
    <3> HIDE DEF f, g
    <3>4. \A p \in DOMAIN g : p \in Points(fb') /\ At(p[1], p[2])' = g[p]
      BY <3>1, <3>2, <3>3, PixelsStored
    <3> QED
      BY <3>4 DEF g
  <2>6. CASE encoding = DesktopSize
    BY <1>4, <2>2, <2>6 DEF Paints, Pixels
  <2>7. CASE encoding = Cursor /\ fb' = fb
    <3>1. \A p \in DOMAIN P[1] : p \in DOMAIN P[0] /\ P[1][p] = P[0][p]
      BY <1>4, <2>2, <2>7 DEF Paints, Pixels
    <3> QED
      BY <2>3, <2>7, <3>1 DEF At
  <2> QED
    BY <1>6, <2>5, <2>6, <2>7
<1>14. /\ update.left \in Nat /\ update.left <= n
       /\ Certain(P[update.left], Points(update.shows) \ update.stale,
                  update.shows)
  BY <1>1, <1>2, <1>3, <1>10 DEF Shaped, TypeOK, Sizing, Painting, n
<1>15. /\ update'.left = update.left - 1 /\ update'.shows = update.shows
       /\ update'.stale = update.stale
  BY <1>1, <1>4 DEF Shaped
<1>16. /\ update'.left \in Nat /\ update'.left + 1 = update.left
  BY <1>4, <1>14, <1>15
<1>17. /\ update'.left \in Nat /\ update'.left + 1 <= n
       /\ Certain(P[update'.left + 1], Points(update'.shows) \ update'.stale,
                  update'.shows)
  BY <1>14, <1>15, <1>16
<1>18. \E Q : Painting(Q)'
  BY <1>3, <1>4, <1>11, <1>12, <1>13, <1>17, PaintingTaken DEF n
<1>19. AsksAll(todo')
  BY <1>9, HookAsksAll DEF Told, Invoke
<1>20. Current'
  <2> SUFFICES ASSUME app \in Patient, ~server.resized
               PROVE  /\ SizeOf(update'.shows) = SizeOf(screen)
                      /\ \A i \in 1 .. n - 1 : Stream'[i].kind = "update" =>
                           SizeOf(Stream'[i].update.shows) = SizeOf(screen)
    BY <1>4, <1>7, <1>10, <1>11 DEF Current, Answering
  <2>1. /\ SizeOf(update.shows) = SizeOf(screen)
        /\ \A i \in 1 .. n : Stream[i].kind = "update" =>
             SizeOf(Stream[i].update.shows) = SizeOf(screen)
    BY <1>10 DEF Painted, Current, n
  <2>2. \A i \in 1 .. n - 1 : i + 1 \in 1 .. n
    BY <1>7
  <2> QED
    BY <1>7, <1>15, <2>1, <2>2
<1> QED
  BY <1>11, <1>18, <1>19, <1>20 DEF Painted, Settled

(* What the server makes of a request.                                      *)
LEMMA DirtyHeard ==
  ASSUME Shaped, ServerReads
  PROVE  /\ server'.resized = server.resized
         /\ server.dirty \subseteq server'.dirty
         /\ server'.dirty \subseteq Points(screen)
         /\ Head(toServer).bytes = UpdateRequestMessage(0, fb.width, fb.height)
              => Points(fb) \cap Points(screen) \subseteq server'.dirty
<1> DEFINE m == Head(toServer)
           area == Points([width |-> ReadU16(m.bytes, 7),
                           height |-> ReadU16(m.bytes, 9)])
           asks == server.asked \cup area
           more == server.dirty \cup (area \cap Points(screen))
           rest == IF m.bytes[2] = 0 THEN more ELSE server.dirty
<1>1. server' = Heard(m)
  BY DEF ServerReads
<1>2. server.dirty \subseteq Points(screen)
  BY DEF Shaped, TypeOK
<1>3. DOMAIN server = {"format", "encodings", "listed", "asked", "dirty",
                       "told", "resized", "inStep"}
  BY DEF Shaped
<1>4. m.bytes[1] = 3 =>
        Heard(m) = [server EXCEPT !.asked = asks, !.dirty = rest]
  BY DEF Heard
<1>5. m.bytes[1] # 3 => Heard(m).dirty = server.dirty
                          /\ Heard(m).resized = server.resized
  BY <1>3 DEF Heard
<1> HIDE DEF asks
<1>6. rest \subseteq Points(screen) /\ server.dirty \subseteq rest
  BY <1>2
<1>7. m.bytes = UpdateRequestMessage(0, fb.width, fb.height)
        => Points(fb) \cap Points(screen) \subseteq rest /\ m.bytes[1] = 3
  <2> DEFINE b == UpdateRequestMessage(0, fb.width, fb.height)
  <2>1. /\ fb.width \in U16 /\ fb.height \in U16
        /\ fb.width \in Int /\ fb.height \in Int
    BY SizeTypes DEF Shaped, TypeOK, SizeOf
  <2>2. Within(fb.width, 0, 65535) /\ Within(fb.height, 0, 65535)
    BY <2>1, U16Values
  <2>3. /\ b[2] # 0 => 0 # 0
        /\ ReadU16(b, 7) = fb.width /\ ReadU16(b, 9) = fb.height
    <3>1. 0 \in Int
      OBVIOUS
    <3> QED
      BY <2>1, <2>2, <3>1, RequestHeard
  <2>4. b[1] = 3
    BY OtherMessages
  <2> HIDE DEF b, m
  <2>5. ASSUME m.bytes = b
        PROVE  Points(fb) \cap Points(screen) \subseteq rest /\ m.bytes[1] = 3
    <3>1. m.bytes[2] = 0 /\ area = Points(fb)
      BY <2>3, <2>5 DEF Points
    <3> QED
      BY <2>4, <2>5, <3>1
  <2> QED
    BY <2>5 DEF b
<1> HIDE DEF rest, m
<1>8. CASE m.bytes[1] = 3
  <2>1. server'.dirty = rest /\ server'.resized = server.resized
    BY <1>1, <1>3, <1>4, <1>8
  <2> QED
    BY <1>6, <1>7, <2>1 DEF m
<1>9. CASE m.bytes[1] # 3
  BY <1>1, <1>2, <1>5, <1>7, <1>9 DEF m
<1> QED
  BY <1>8, <1>9

(* The server reads: what was owed is asked for when the last request that  *)
(* asks for a whole picture is heard.                                       *)
LEMMA PaintedServerReads ==
  ASSUME Painted, Phases, Fitting, Told, ServerReads
  PROVE  Painted'
<1> DEFINE m == Head(toServer)
           k == Len(toServer)
<1>1. Shaped
  BY DEF Fitting
<1>2. /\ UNCHANGED <<client, toClient, sending, screen>>
      /\ toServer # <<>> /\ toServer' = Tail(toServer)
  BY DEF ServerReads
<1>3. UNCHANGED <<fb, pc, then, app, todo, update>> /\ Stream' = Stream
  BY <1>2, StreamKept DEF client
<1>4. /\ k \in Nat /\ k > 0 /\ m = toServer[1] /\ Len(toServer') = k - 1
      /\ \A i \in 1 .. k - 1 : toServer'[i] = toServer[i + 1]
  BY <1>2, Sequences DEF Told
<1>5. (InUpdate' <=> InUpdate) /\ (Answering' <=> Answering)
  BY <1>3 DEF InUpdate, Answering
<1>6. PICK P : Painting(P)
  BY DEF Painted
<1>7. /\ server'.resized = server.resized
      /\ server.dirty \subseteq server'.dirty
      /\ server'.dirty \subseteq Points(screen)
      /\ m.bytes = UpdateRequestMessage(0, fb.width, fb.height)
           => Points(fb) \cap Points(screen) \subseteq server'.dirty
  BY <1>1, DirtyHeard
<1> HIDE DEF m, k
<1>8. Settled'
  BY <1>2, <1>7 DEF Painted, Settled
<1>9. ASSUME Owed, ~Owed'
      PROVE  server'.dirty = Points(screen)
  <2>1. app \in Patient
    BY <1>9 DEF Owed
  <2>2. PICK i \in 1 .. k :
          toServer[i].bytes = UpdateRequestMessage(0, fb.width, fb.height)
    BY <1>3, <1>9 DEF Owed, k
  <2>3. i = 1
    <3>1. ASSUME i # 1 PROVE FALSE
      <4>1. i - 1 \in 1 .. k - 1 /\ (i - 1) + 1 = i
        BY <1>4, <3>1
      <4>2. toServer'[i - 1] = toServer[i] /\ i - 1 \in 1 .. Len(toServer')
        BY <1>4, <4>1
      <4> QED
        BY <1>3, <1>9, <2>1, <2>2, <4>2 DEF Owed
    <3> QED
      BY <3>1
  <2>4. Points(fb) \cap Points(screen) \subseteq server'.dirty
    BY <1>4, <1>7, <2>2, <2>3
  <2>5. CASE server.resized
    BY <1>7, <2>5 DEF Painted, Settled
  <2>6. CASE ~server.resized
    <3>1. IsRequest(toServer[i])
      BY <2>2, OtherMessages DEF IsRequest
    <3>2. ~Answering
      BY <2>1, <2>2, <3>1 DEF Phases, Waiting, k
    <3>3. SizeOf(fb) = SizeOf(screen)
      BY <2>1, <2>6, <3>2 DEF Painted, Current
    <3>4. Points(fb) = Points(screen)
      BY <3>3 DEF SizeOf, Points
    <3> QED
      BY <1>7, <2>4, <3>4
  <2> QED
    BY <2>5, <2>6
<1>10. Owed' \/ Certain(P[Len(Stream)], Points(screen') \ server'.dirty, screen')
  <2>1. CASE Owed
    BY <1>2, <1>9, <2>1 DEF Certain
  <2>2. CASE ~Owed
    <3>1. Certain(P[Len(Stream)], Points(screen) \ server.dirty, screen)
      BY <1>6, <2>2 DEF Painting
    <3> QED
      BY <1>2, <1>7, <3>1 DEF Certain
  <2> QED
    BY <2>1, <2>2
<1>11. \E Q : Painting(Q)'
  BY <1>3, <1>5, <1>6, <1>10, PaintingKept
<1>12. Current'
  BY <1>2, <1>3, <1>5, <1>7 DEF Painted, Current
<1> QED
  BY <1>3, <1>8, <1>11, <1>12 DEF Painted

(* The screen changes, where the server now knows that it does.             *)
LEMMA PaintedScreen ==
  ASSUME Painted, Fitting, ScreenChanges \/ ScreenResized
  PROVE  Painted'
<1>1. Shaped
  BY DEF Fitting
<1>2. UNCHANGED <<fb, pc, then, app, todo, update, toServer, toClient, sending>>
  BY DEF ScreenChanges, ScreenResized, client
<1>3. Stream' = Stream /\ (InUpdate' <=> InUpdate)
  BY <1>2, StreamKept DEF InUpdate
<1>4. (Answering' <=> Answering) /\ (Owed' <=> Owed)
  BY <1>2, <1>3 DEF Answering, Owed
<1>5. PICK P : Painting(P)
  BY DEF Painted
<1>6. Owed \/ Certain(P[Len(Stream)], Points(screen) \ server.dirty, screen)
  BY <1>5 DEF Painting
<1>7. CASE ScreenChanges
  <2>1. PICK p \in Points(screen), c \in Colours :
          /\ screen' = [screen EXCEPT !.pixels[p] = c]
          /\ server' = [server EXCEPT !.dirty = @ \cup {p}]
    BY <1>7 DEF ScreenChanges
  <2>2. /\ screen'.width = screen.width /\ screen'.height = screen.height
        /\ screen'.pixels = [screen.pixels EXCEPT ![p] = c]
    BY <1>1, <2>1 DEF Shaped
  <2>3. Points(screen') = Points(screen) /\ SizeOf(screen') = SizeOf(screen)
    BY <2>2 DEF Points, SizeOf
  <2>4. /\ server'.resized = server.resized
        /\ server'.dirty = server.dirty \cup {p}
    BY <1>1, <2>1 DEF Shaped
  <2>5. \A q \in Points(screen) \ server'.dirty :
          /\ q \in Points(screen) \ server.dirty
          /\ screen'.pixels[q] = screen.pixels[q]
    <3>1. screen.pixels \in [Points(screen) -> Colours]
      BY <1>1 DEF Shaped, ScreenOK
    <3> QED
      BY <2>2, <2>4, <3>1
  <2>6. Owed' \/ Certain(P[Len(Stream)], Points(screen') \ server'.dirty,
                         screen')
    BY <1>4, <1>6, <2>3, <2>5 DEF Certain
  <2>7. \E Q : Painting(Q)'
    BY <1>2, <1>3, <1>5, <2>6, PaintingKept
  <2>8. Settled'
    BY <2>3, <2>4 DEF Painted, Settled
  <2>9. Current'
    BY <1>2, <1>3, <1>4, <2>3, <2>4 DEF Painted, Current
  <2> QED
    BY <1>2, <2>7, <2>8, <2>9 DEF Painted
<1>8. CASE ScreenResized
  <2>1. server' = [server EXCEPT !.dirty = Points(screen'), !.resized = TRUE]
    BY <1>8 DEF ScreenResized
  <2>2. server'.resized = TRUE /\ server'.dirty = Points(screen')
    BY <1>1, <2>1 DEF Shaped
  <2>3. Certain(P[Len(Stream)], Points(screen') \ server'.dirty, screen')
    BY <2>2 DEF Certain
  <2>4. \E Q : Painting(Q)'
    BY <1>2, <1>3, <1>5, <2>3, PaintingKept
  <2> QED
    BY <1>2, <2>2, <2>4 DEF Painted, Settled, Current
<1> QED
  BY <1>7, <1>8

LEMMA PaintedServerRings ==
  ASSUME Painted, Fitting, ServerRings
  PROVE  Painted'
<1> DEFINE n == Len(Stream)
<1>1. Shaped /\ \A i \in 1 .. n : Sound(Stream[i])
  BY DEF Fitting
<1>2. PICK P : Painting(P)
  BY DEF Painted
<1>3. PICK Q : Q = [i \in 0 .. n + 1 |-> IF i <= n THEN P[i] ELSE P[n]]
  OBVIOUS
<1>4. /\ n \in Nat /\ Len(Stream') = n + 1
      /\ \A i \in 1 .. n : Stream'[i] = Stream[i]
      /\ Stream'[n + 1].kind = "bell"
  BY <1>1, RungStream DEF Shaped
<1>5. UNCHANGED <<fb, pc, then, app, todo, update, toServer, server, screen>>
  BY DEF ServerRings, client
<1>6. (InUpdate' <=> InUpdate) /\ (Owed' <=> Owed)
  BY <1>5 DEF InUpdate, Owed
<1>7. PICK G : Sizing(G)
  BY DEF Fitting
<1>8. /\ \A i \in 1 .. n : Stream[i].kind = "update" =>
           i + Stream[i].update.left <= n
      /\ InUpdate => update.left <= n
  BY <1>7 DEF Sizing
<1>9. /\ \A i \in 0 .. n : DOMAIN P[i] \subseteq Nat \X Nat
      /\ \A p \in DOMAIN P[0] : p \in Points(fb) /\ At(p[1], p[2]) = P[0][p]
      /\ \A i \in 1 .. n : Paints(P[i - 1], Stream[i], P[i])
      /\ Owed \/ Certain(P[n], Points(screen) \ server.dirty, screen)
      /\ \A i \in 1 .. n : Stream[i].kind = "update" =>
           LET u == Stream[i].update
           IN Certain(P[i + u.left], Points(u.shows) \ u.stale, u.shows)
      /\ InUpdate =>
           Certain(P[update.left], Points(update.shows) \ update.stale,
                   update.shows)
  BY <1>2 DEF Painting
<1> HIDE DEF n
<1>10. (\A i \in 0 .. n : Q[i] = P[i]) /\ Q[n + 1] = P[n]
  BY <1>3, <1>4
<1>11. \A i \in 0 .. n + 1 : DOMAIN Q[i] \subseteq Nat \X Nat
  <2>1. n \in 0 .. n /\ \A i \in 0 .. n + 1 : i \in 0 .. n \/ i = n + 1
    BY <1>4
  <2> QED
    BY <1>9, <1>10, <2>1
<1>12. \A p \in DOMAIN Q[0] : p \in Points(fb') /\ At(p[1], p[2])' = Q[0][p]
  <2>1. Q[0] = P[0]
    BY <1>4, <1>10
  <2> QED
    BY <1>5, <1>9, <2>1 DEF At
<1>13. ASSUME NEW i \in 1 .. n + 1
       PROVE  Paints(Q[i - 1], Stream'[i], Q[i])
  <2>1. CASE i \in 1 .. n
    <3>1. i - 1 \in 0 .. n /\ i \in 0 .. n
      BY <1>4, <2>1
    <3>2. Q[i - 1] = P[i - 1] /\ Q[i] = P[i] /\ Stream'[i] = Stream[i]
      BY <1>4, <1>10, <2>1, <3>1
    <3>3. Paints(P[i - 1], Stream[i], P[i])
      BY <1>9, <2>1
    <3> QED
      BY <3>2, <3>3
  <2>2. CASE i = n + 1
    <3>1. n \in 0 .. n /\ i - 1 = n
      BY <1>4, <2>2
    <3>2. Q[i - 1] = P[n] /\ Q[i] = P[n]
      BY <1>10, <2>2, <3>1
    <3> QED
      BY <1>4, <2>2, <3>2 DEF Paints
  <2> QED
    BY <1>4, <2>1, <2>2
<1>14. ASSUME NEW i \in 1 .. n + 1, Stream'[i].kind = "update"
       PROVE  LET u == Stream'[i].update
              IN Certain(Q[i + u.left], Points(u.shows) \ u.stale, u.shows)
  <2>1. i \in 1 .. n /\ Stream'[i] = Stream[i] /\ Stream[i].kind = "update"
    BY <1>4, <1>14
  <2> DEFINE l == Stream[i].update.left
  <2>2. l \in Nat
    BY <1>1, <2>1 DEF Sound, n
  <2>3. i + l <= n
    BY <1>8, <2>1
  <2> HIDE DEF l
  <2>4. i + l \in 0 .. n
    BY <1>4, <2>2, <2>3
  <2>5. Q[i + l] = P[i + l]
    BY <1>10, <2>4
  <2> QED
    BY <1>9, <2>1, <2>5 DEF l
<1>15. InUpdate => Certain(Q[update.left], Points(update.shows) \ update.stale,
                           update.shows)
  <2>1. update.left \in Nat
    BY <1>1 DEF Shaped, TypeOK
  <2>2. InUpdate => update.left \in 0 .. n
    BY <1>4, <1>8, <2>1
  <2> QED
    BY <1>9, <1>10, <2>2
<1>16. Painting(Q)'
  BY <1>4, <1>5, <1>6, <1>9, <1>10, <1>11, <1>12, <1>13, <1>14, <1>15
     DEF Painting
<1>17. \A i \in 1 .. n + 1 : Stream'[i].kind # "bell" =>
         i \in 1 .. n /\ Stream'[i] = Stream[i]
  BY <1>4
<1>18. Answering => Answering'
  <2>1. \A i \in 1 .. n : i \in 1 .. n + 1
    BY <1>4
  <2> QED
    BY <1>4, <1>6, <2>1 DEF Answering, n
<1>19. Current'
  BY <1>4, <1>5, <1>6, <1>17, <1>18 DEF Painted, Current, n
<1> QED
  BY <1>5, <1>16, <1>19 DEF Painted, Settled

(* What is certain once the first j rectangles of an update are decoded: of *)
(* the old picture what is still on the screen, unless it is resized, and   *)
(* what they cover, if after the resize (the d-th).                         *)
Kept(f) == {p \in DOMAIN f \cap Points(screen) :
              ~server.resized /\ f[p] = screen.pixels[p]}

Covered(items, d, j) ==
  {p \in Points(screen) : \E i \in 1..j :
     /\ i > d /\ Pixels(items[i])
     /\ Covers(Rect(items[i].header), p[1], p[2])}

After(f, items, d, j) ==
  [p \in Kept(f) \cup Covered(items, d, j) |-> screen.pixels[p]]

(* Each rectangle of an update leaves this certain, and the whole update    *)
(* everything but what the server still has to send.                        *)
LEMMA AnswerPaints ==
  ASSUME ScreenOK, NEW items, NEW stale, NEW d, Updates(items, stale, d), NEW f
  PROVE  /\ \A j \in 0 .. Len(items) :
              DOMAIN After(f, items, d, j) \subseteq Nat \X Nat
         /\ \A e : e.kind # "rect" => Paints(f, e, After(f, items, d, 0))
         /\ \A j \in 1 .. Len(items) :
              Paints(After(f, items, d, j - 1), items[j], After(f, items, d, j))
         /\ Settled /\ Certain(f, Points(screen) \ server.dirty, screen) =>
              Certain(After(f, items, d, Len(items)), Points(screen) \ stale,
                      screen)
<1> DEFINE m == Len(items)
<1>1. /\ m \in Nat /\ d \in Nat
      /\ \A i \in 1 .. m :
           /\ items[i].kind = "rect"
           /\ i > d /\ Pixels(items[i]) => Depicts(items[i], screen)
           /\ Encoding(items[i].header) = DesktopSize <=> i = d
      /\ server.resized <=> d # 0
      /\ \A p \in server.dirty \ stale : \E i \in 1 .. m :
           /\ i > d /\ Pixels(items[i])
           /\ Covers(Rect(items[i].header), p[1], p[2])
      /\ stale \subseteq server.dirty
  BY Sequences DEF Updates, Item
<1>3. /\ \A p \in Kept(f) : /\ ~server.resized /\ p \in DOMAIN f
                            /\ f[p] = screen.pixels[p] /\ p \in Points(screen)
      /\ \A j : \A p \in Covered(items, d, j) : p \in Points(screen)
  BY DEF Kept, Covered
<1>4. \A j : /\ DOMAIN After(f, items, d, j) = Kept(f) \cup Covered(items, d, j)
             /\ \A p \in DOMAIN After(f, items, d, j) :
                  After(f, items, d, j)[p] = screen.pixels[p]
  BY DEF After
<1>5. Points(screen) \subseteq Nat \X Nat
  BY DEF Points
<1> HIDE DEF m
<1>6. ASSUME NEW j \in Int, j <= d
      PROVE  Covered(items, d, j) = {}
  <2>1. \A i \in 1 .. j : ~(i > d)
    BY <1>1, <1>6
  <2> QED
    BY <2>1 DEF Covered
<1>7. \A e : e.kind # "rect" => Paints(f, e, After(f, items, d, 0))
  <2>1. Covered(items, d, 0) = {}
    BY <1>1, <1>6
  <2> QED
    BY <1>3, <1>4, <2>1 DEF Paints
<1>8. ASSUME NEW j \in 1 .. m
      PROVE  Paints(After(f, items, d, j - 1), items[j], After(f, items, d, j))
  <2> DEFINE e == items[j]
             r == Rect(e.header)
             g == After(f, items, d, j)
             h == After(f, items, d, j - 1)
  <2>1. j <= d \/ (j > d /\ j # d)
    BY <1>1
  <2>2. CASE j <= d
    <3>1. j # 0 /\ d # 0
      BY <1>1, <2>2
    <3>2. Kept(f) = {} /\ Covered(items, d, j) = {}
      BY <1>1, <1>3, <1>6, <2>2, <3>1
    <3>3. DOMAIN g = {}
      BY <1>4, <3>2
    <3> HIDE DEF e, g, h
    <3>4. Paints(h, e, g)
      BY <3>3 DEF Paints
    <3> QED
      BY <3>4 DEF e, g, h
  <2>3. CASE j > d /\ j # d
    <3>1. /\ e.kind = "rect" /\ Encoding(e.header) # DesktopSize
          /\ Pixels(e) => Depicts(e, screen)
      BY <1>1, <2>3
    <3>2. ASSUME NEW p \in Covered(items, d, j)
          PROVE  \/ Pixels(e) /\ Covers(r, p[1], p[2])
                 \/ p \in Covered(items, d, j - 1)
      <4>1. PICK i \in 1 .. j : /\ i > d /\ Pixels(items[i])
                                /\ Covers(Rect(items[i].header), p[1], p[2])
        BY <3>2 DEF Covered
      <4>2. i = j \/ i \in 1 .. j - 1
        BY <1>1
      <4>3. CASE i \in 1 .. j - 1
        BY <1>3, <4>1, <4>3 DEF Covered
      <4> QED
        BY <4>1, <4>2, <4>3
    <3>3. \A p \in DOMAIN g :
            /\ p \in Points(screen)
            /\ \/ Pixels(e) /\ Covers(r, p[1], p[2])
               \/ p \in DOMAIN h
      BY <1>3, <1>4, <3>2
    <3> HIDE DEF e
    <3>4. \A p \in Points(screen) :
            Pixels(e) /\ Covers(r, p[1], p[2])
              => e.pixels[<<p[1] - r.x, p[2] - r.y>>] = screen.pixels[p]
      BY <3>1 DEF Depicts
    <3>5. /\ \A p \in DOMAIN g : g[p] = screen.pixels[p]
          /\ \A p \in DOMAIN h : h[p] = screen.pixels[p]
      BY <1>4
    <3> HIDE DEF g, h
    <3>6. Paints(h, e, g)
      BY <3>1, <3>3, <3>4, <3>5 DEF Paints
    <3> QED
      BY <3>6 DEF e, g, h
  <2> QED
    BY <2>1, <2>2, <2>3
<1>9. ASSUME Settled, Certain(f, Points(screen) \ server.dirty, screen)
      PROVE  Certain(After(f, items, d, m), Points(screen) \ stale, screen)
  <2>1. ASSUME NEW p \in Points(screen) \ stale
        PROVE  p \in Kept(f) \cup Covered(items, d, m)
    <3>1. CASE p \in server.dirty
      BY <1>1, <3>1 DEF Covered
    <3>2. CASE p \notin server.dirty
      <4>1. ~server.resized
        BY <1>9, <3>2 DEF Settled
      <4>2. p \in DOMAIN f /\ f[p] = screen.pixels[p]
        BY <1>9, <3>2 DEF Certain
      <4> QED
        BY <4>1, <4>2 DEF Kept
    <3> QED
      BY <3>1, <3>2
  <2> QED
    BY <1>4, <2>1 DEF Certain
<1>10. \A j : DOMAIN After(f, items, d, j) \subseteq Nat \X Nat
  BY <1>3, <1>4, <1>5
<1> QED
  BY <1>7, <1>8, <1>9, <1>10 DEF m

(* The server answers with all that is not certain yet.                     *)
LEMMA PaintedServerUpdates ==
  ASSUME Painted, Phases, Fitting, ServerUpdates
  PROVE  Painted'
<1> DEFINE n == Len(Stream)
<1>1. Shaped /\ ScreenOK /\ \A i \in 1 .. n : Sound(Stream[i])
  BY DEF Fitting, Shaped
<1>2. PICK P : Painting(P)
  BY DEF Painted
<1>3. PICK items, stale, d : Updates(items, stale, d)
  BY <1>1, UpdateSent DEF Shaped
<1> DEFINE m == Len(items)
           head == Heading(items, stale)
<1>4. /\ n \in Nat /\ m \in Nat /\ Len(Stream') = n + 1 + m
      /\ \A i \in 1 .. n : Stream'[i] = Stream[i]
      /\ Stream'[n + 1] = head
      /\ \A i \in 1 .. m : Stream'[n + 1 + i] = items[i]
  BY <1>1, <1>3, UpdateStream DEF Shaped
<1>5. /\ UNCHANGED <<fb, pc, then, app, todo, update, toServer, screen>>
      /\ server.asked # {} /\ server'.dirty = stale
      /\ server'.resized = FALSE
  BY <1>1, <1>3 DEF Updates, client, Shaped
<1>6. /\ head.kind = "update" /\ head.update.left = m
      /\ head.update.shows = screen /\ head.update.stale = stale
  BY DEF Heading
<1>7. \A i \in 1 .. m : items[i].kind = "rect"
  BY <1>3 DEF Updates, Item
<1>8. PICK G : Sizing(G)
  BY DEF Fitting
<1>9. /\ \A i \in 1 .. n : Stream[i].kind = "update" =>
           i + Stream[i].update.left <= n
      /\ InUpdate => update.left <= n
  BY <1>8 DEF Sizing
<1>10. ~Owed
  BY <1>5, NothingOwed
<1>11. /\ \A i \in 0 .. n : DOMAIN P[i] \subseteq Nat \X Nat
       /\ \A p \in DOMAIN P[0] : p \in Points(fb) /\ At(p[1], p[2]) = P[0][p]
       /\ \A i \in 1 .. n : Paints(P[i - 1], Stream[i], P[i])
       /\ Certain(P[n], Points(screen) \ server.dirty, screen)
       /\ \A i \in 1 .. n : Stream[i].kind = "update" =>
            LET u == Stream[i].update
            IN Certain(P[i + u.left], Points(u.shows) \ u.stale, u.shows)
       /\ InUpdate =>
            Certain(P[update.left], Points(update.shows) \ update.stale,
                    update.shows)
  BY <1>2, <1>10 DEF Painting
<1> DEFINE f == P[n]
<1>12. PICK Q : Q = [i \in 0 .. n + 1 + m |->
                       IF i <= n THEN P[i] ELSE After(f, items, d, i - (n + 1))]
  OBVIOUS
<1> HIDE DEF n, m, head
<1>13. /\ \A j \in 0 .. m : DOMAIN After(f, items, d, j) \subseteq Nat \X Nat
       /\ Paints(f, head, After(f, items, d, 0))
       /\ \A j \in 1 .. m :
            Paints(After(f, items, d, j - 1), items[j], After(f, items, d, j))
       /\ Certain(After(f, items, d, m), Points(screen) \ stale, screen)
  <2> HIDE DEF f
  <2>1. /\ \A j \in 0 .. m : DOMAIN After(f, items, d, j) \subseteq Nat \X Nat
        /\ \A e : e.kind # "rect" => Paints(f, e, After(f, items, d, 0))
        /\ \A j \in 1 .. m :
             Paints(After(f, items, d, j - 1), items[j], After(f, items, d, j))
        /\ Settled /\ Certain(f, Points(screen) \ server.dirty, screen) =>
             Certain(After(f, items, d, m), Points(screen) \ stale, screen)
    BY <1>1, <1>3, AnswerPaints DEF m
  <2>2. Settled /\ Certain(f, Points(screen) \ server.dirty, screen)
    BY <1>11 DEF Painted, f
  <2>3. head.kind # "rect"
    BY <1>6
  <2> QED
    BY <2>1, <2>2, <2>3
<1>14. /\ \A i \in 0 .. n : Q[i] = P[i]
       /\ \A j \in 0 .. m : Q[n + 1 + j] = After(f, items, d, j)
  <2>1. \A i \in 0 .. n : i \in 0 .. n + 1 + m /\ i <= n
    BY <1>4
  <2>2. \A j \in 0 .. m : /\ n + 1 + j \in 0 .. n + 1 + m
                          /\ ~(n + 1 + j <= n) /\ n + 1 + j - (n + 1) = j
    BY <1>4
  <2> HIDE DEF f
  <2>3. \A i \in 0 .. n + 1 + m : ~(i <= n) =>
          Q[i] = After(f, items, d, i - (n + 1))
    BY <1>12
  <2>4. ASSUME NEW j \in 0 .. m
        PROVE  Q[n + 1 + j] = After(f, items, d, j)
    <3> DEFINE i == n + 1 + j
    <3>1. i \in 0 .. n + 1 + m /\ ~(i <= n) /\ i - (n + 1) = j
      BY <1>4, <2>2, <2>4
    <3> HIDE DEF i
    <3>2. Q[i] = After(f, items, d, j)
      BY <2>3, <3>1
    <3> QED
      BY <3>2 DEF i
  <2>5. \A i \in 0 .. n : Q[i] = P[i]
    BY <1>12, <2>1
  <2> QED
    BY <2>4, <2>5
<1> HIDE DEF f
<1>15. \A i \in 1 .. n + 1 + m :
         i \in 1 .. n \/ i = n + 1 \/ \E j \in 1 .. m : i = n + 1 + j
  <2> SUFFICES ASSUME NEW i \in 1 .. n + 1 + m, ~(i \in 1 .. n), i # n + 1
               PROVE  \E j \in 1 .. m : i = n + 1 + j
    OBVIOUS
  <2>1. i - (n + 1) \in 1 .. m /\ i = n + 1 + (i - (n + 1))
    BY <1>4
  <2> QED
    BY <2>1
<1>16. \A i \in 0 .. n + 1 + m : DOMAIN Q[i] \subseteq Nat \X Nat
  <2> SUFFICES ASSUME NEW i \in 0 .. n + 1 + m
               PROVE  DOMAIN Q[i] \subseteq Nat \X Nat
    OBVIOUS
  <2>1. CASE i <= n
    <3>1. i \in 0 .. n
      BY <1>4, <2>1
    <3> QED
      BY <1>11, <1>14, <3>1
  <2>2. CASE ~(i <= n)
    <3>1. i - (n + 1) \in 0 .. m /\ n + 1 + (i - (n + 1)) = i
      BY <1>4, <2>2
    <3>2. Q[i] = After(f, items, d, i - (n + 1))
      BY <1>14, <3>1
    <3> QED
      BY <1>13, <3>1, <3>2
  <2> QED
    BY <2>1, <2>2
<1>17. \A p \in DOMAIN Q[0] : p \in Points(fb') /\ At(p[1], p[2])' = Q[0][p]
  <2>1. 0 \in 0 .. n
    BY <1>4
  <2>2. Q[0] = P[0]
    BY <1>14, <2>1
  <2> QED
    BY <1>5, <1>11, <2>2 DEF At
<1>18. ASSUME NEW i \in 1 .. n + 1 + m
       PROVE  Paints(Q[i - 1], Stream'[i], Q[i])
  <2>1. CASE i \in 1 .. n
    <3>1. i - 1 \in 0 .. n /\ i \in 0 .. n
      BY <1>4, <2>1
    <3>2. Q[i - 1] = P[i - 1] /\ Q[i] = P[i] /\ Stream'[i] = Stream[i]
      BY <1>4, <1>14, <2>1, <3>1
    <3>3. Paints(P[i - 1], Stream[i], P[i])
      BY <1>11, <2>1
    <3> QED
      BY <3>2, <3>3
  <2>2. CASE i = n + 1
    <3>1. n \in 0 .. n /\ i - 1 = n /\ 0 \in 0 .. m /\ n + 1 + 0 = i
      BY <1>4, <2>2
    <3>2. Q[i - 1] = f /\ Stream'[i] = head
      BY <1>4, <1>14, <2>2, <3>1 DEF f
    <3>3. Q[i] = After(f, items, d, 0)
      BY <1>14, <3>1
    <3> QED
      BY <1>13, <3>2, <3>3
  <2>3. CASE \E j \in 1 .. m : i = n + 1 + j
    <3>1. PICK j \in 1 .. m : i = n + 1 + j
      BY <2>3
    <3>2. j \in 0 .. m /\ j - 1 \in 0 .. m /\ i - 1 = n + 1 + (j - 1)
      BY <1>4, <3>1
    <3>3. /\ Q[i] = After(f, items, d, j) /\ Q[i - 1] = After(f, items, d, j - 1)
          /\ Stream'[i] = items[j]
      BY <1>4, <1>14, <3>1, <3>2
    <3> QED
      BY <1>13, <3>3
  <2> QED
    BY <1>15, <2>1, <2>2, <2>3
<1>19. Certain(Q[n + 1 + m], Points(screen) \ stale, screen)
  <2>1. m \in 0 .. m
    BY <1>4
  <2> QED
    BY <1>13, <1>14, <2>1
<1>20. ASSUME NEW i \in 1 .. n + 1 + m, Stream'[i].kind = "update"
       PROVE  i = n + 1 \/ (i \in 1 .. n /\ Stream'[i] = Stream[i])
  <2>1. \A j \in 1 .. m : Stream'[n + 1 + j].kind # "update"
    BY <1>4, <1>7
  <2> QED
    BY <1>4, <1>15, <1>20, <2>1
<1>21. ASSUME NEW i \in 1 .. n + 1 + m, Stream'[i].kind = "update"
       PROVE  LET u == Stream'[i].update
              IN Certain(Q[i + u.left], Points(u.shows) \ u.stale, u.shows)
  <2>1. CASE i \in 1 .. n /\ Stream'[i] = Stream[i]
    <3> DEFINE l == Stream[i].update.left
    <3>1. l \in Nat
      BY <1>1, <1>21, <2>1 DEF Sound, n
    <3>2. i + l <= n
      BY <1>9, <1>21, <2>1
    <3> HIDE DEF l
    <3>3. i + l \in 0 .. n
      BY <1>4, <2>1, <3>1, <3>2
    <3>4. Q[i + l] = P[i + l]
      BY <1>14, <3>3
    <3> QED
      BY <1>11, <1>21, <2>1, <3>4 DEF l
  <2>2. CASE i = n + 1
    BY <1>4, <1>6, <1>19, <2>2
  <2> QED
    BY <1>20, <1>21, <2>1, <2>2
<1>22. InUpdate => Certain(Q[update.left], Points(update.shows) \ update.stale,
                           update.shows)
  <2>1. update.left \in Nat
    BY <1>1 DEF Shaped, TypeOK
  <2>2. InUpdate => update.left \in 0 .. n
    BY <1>4, <1>9, <2>1
  <2> QED
    BY <1>11, <1>14, <2>2
<1>23. InUpdate' <=> InUpdate
  BY <1>5 DEF InUpdate
<1>24. Painting(Q)'
  BY <1>4, <1>5, <1>16, <1>17, <1>18, <1>19, <1>21, <1>22, <1>23 DEF Painting
<1>25. Current'
  <2> SUFFICES ASSUME app \in Patient
               PROVE  /\ Answering' /\ ~InUpdate
                      /\ \A i \in 1 .. n + 1 + m : Stream'[i].kind = "update" =>
                           SizeOf(Stream'[i].update.shows) = SizeOf(screen)
    BY <1>4, <1>5, <1>23 DEF Current
  <2>1. ~Answering
    BY <1>5 DEF Phases, Waiting
  <2>2. ~InUpdate /\ \A i \in 1 .. n : Stream[i].kind = "bell"
    BY <2>1 DEF Answering, n
  <2>3. n + 1 \in 1 .. n + 1 + m
    BY <1>4
  <2>4. Answering'
    BY <1>4, <1>6, <2>3 DEF Answering
  <2>5. ASSUME NEW i \in 1 .. n + 1 + m, Stream'[i].kind = "update"
        PROVE  SizeOf(Stream'[i].update.shows) = SizeOf(screen)
    <3>1. i = n + 1
      BY <1>20, <2>2, <2>5
    <3> QED
      BY <1>4, <1>6, <3>1
  <2> QED
    BY <2>2, <2>4, <2>5
<1> QED
  BY <1>5, <1>24, <1>25 DEF Painted, Settled

LEMMA PaintedStep ==
  ASSUME DOMAIN Applications \subseteq Thorough,
         Painted, Matched, Phases, Fitting, Told, [Next]_vars,
         pc' # "unsupported"
  PROVE  Painted'
<1>1. Shaped /\ Flowing
  BY DEF Fitting, Shaped
<1>2. ASSUME UNCHANGED <<client, toServer, server, screen>>, Stream' = Stream
      PROVE  Painted'
  <2>1. UNCHANGED <<fb, pc, then, app, todo, update>>
    BY <1>2 DEF client
  <2>2. (InUpdate' <=> InUpdate) /\ (Owed' <=> Owed)
    BY <1>2, <2>1 DEF InUpdate, Owed
  <2>3. PICK P : Painting(P)
    BY DEF Painted
  <2>4. Owed \/ Certain(P[Len(Stream)], Points(screen) \ server.dirty, screen)
    BY <2>3 DEF Painting
  <2>5. \E Q : Painting(Q)'
    BY <1>2, <2>1, <2>2, <2>3, <2>4, PaintingKept
  <2>6. Current'
    BY <1>2, <2>1, <2>2 DEF Painted, Current, Answering
  <2> QED
    BY <1>2, <2>1, <2>5, <2>6 DEF Painted, Settled
<1>3. CASE ServerWrites
  <2>1. UNCHANGED <<client, toServer, server, screen>>
    BY <1>3 DEF ServerWrites
  <2> QED
    BY <1>1, <1>2, <1>3, <2>1, StreamWritten
<1>4. CASE UNCHANGED vars
  <2>1. UNCHANGED <<client, toServer, toClient, sending, server, screen>>
    BY <1>4 DEF vars, service
  <2> QED
    BY <1>2, <2>1, StreamKept
<1> QED
  BY <1>3, <1>4, PaintedCalls, PaintedMessages, PaintedRect, PaintedFinished,
     PaintedServerReads, PaintedServerUpdates, PaintedServerRings,
     PaintedScreen DEF Next, Serving, Loop, Idle

(* A client that has stopped for an encoding draws nothing more.            *)
Drawing == pc # "unsupported" => Painted

LEMMA DrawingStep ==
  ASSUME DOMAIN Applications \subseteq Thorough,
         Drawing, Matched, Phases, Fitting, Told, [Next]_vars
  PROVE  Drawing'
<1>1. CASE pc = "unsupported"
  <2>1. UNCHANGED vars => pc' = pc
    BY DEF vars, client
  <2>2. Serving \/ ServerRings \/ ScreenChanges \/ ScreenResized => pc' = pc
    BY DEF Serving, ServerReads, ServerUpdates, ServerWrites, ServerRings,
           ScreenChanges, ScreenResized, client
  <2>3. ~Calls /\ ~Loop
    BY <1>1 DEF Calls, RequestUpdate, SetPixelFormat, SetEncodings,
               SendPointerEvent, CallbackReturn, Calling, Loop, HandleBell,
               HandleFbUpdate, DecodeRect, UpdateFinished, Receives
  <2>4. pc' = "unsupported"
    BY <1>1, <2>1, <2>2, <2>3 DEF Next, Idle
  <2> QED
    BY <2>4 DEF Drawing
<1>2. CASE pc # "unsupported" /\ pc' # "unsupported"
  <2>1. Painted
    BY <1>2 DEF Drawing
  <2> QED
    BY <1>2, <2>1, PaintedStep DEF Drawing
<1> QED
  BY <1>1, <1>2 DEF Drawing

(* What framebuffer_update_finished sees is the picture the server sent: in *)
(* size, place and format, for every screen, framebuffer and buffer, every  *)
(* order of updates, resizes and bells, and every set of applications that  *)
(* change the format never, or between two updates and ask for the whole    *)
(* picture then.                                                            *)
THEOREM FinishedPictures ==
  ASSUME DOMAIN Applications \subseteq Thorough, CountsFit
  PROVE  Spec => []FinishedShows
<1>1. DOMAIN Applications \subseteq Careful
  BY DEF Thorough
<1>2. Init => Matched /\ Drawing
  BY <1>1, MatchedInit, PaintedInit DEF Drawing
<1>3. (Matched /\ Drawing) /\ (Phases /\ Fitting /\ Told) /\ [Next]_vars
        => Matched' /\ Drawing'
  BY <1>1, MatchedStep, DrawingStep
<1>4. (Matched /\ Drawing) /\ (Phases /\ Fitting /\ Told) => FinishedShows
  <2> SUFFICES ASSUME Painted, Fitting, pc = "rects", update.left = 0
               PROVE  /\ fb.width = update.shows.width
                      /\ fb.height = update.shows.height
                      /\ \A p \in Points(update.shows) \ update.stale :
                           At(p[1], p[2]) = update.shows.pixels[p]
    BY DEF FinishedShows, Drawing
  <2>1. InUpdate
    BY DEF InUpdate
  <2>2. PICK P : Painting(P)
    BY DEF Painted
  <2>3. PICK G : Sizing(G)
    BY DEF Fitting
  <2>4. SizeOf(fb) = SizeOf(update.shows)
    BY <2>1, <2>3 DEF Sizing
  <2>5. Certain(P[0], Points(update.shows) \ update.stale, update.shows)
    BY <2>1, <2>2 DEF Painting
  <2>6. \A p \in DOMAIN P[0] : At(p[1], p[2]) = P[0][p]
    BY <2>2 DEF Painting
  <2> QED
    BY <2>4, <2>5, <2>6 DEF SizeOf, Certain
<1> QED
  BY <1>2, <1>3, <1>4, PhasesAlways, PTL DEF Spec

=============================================================================
