--------------------------- MODULE ClientUpdatesProofs ---------------------------
(***************************************************************************)
(* What ovnc__decode_raw does to the framebuffer, for every size of the    *)
(* framebuffer and every rectangle inside it; and that client and server   *)
(* come to mean the same pixel format, for every application.              *)
(***************************************************************************)
EXTENDS ClientUpdates, WireProofs, FiniteSetTheorems, SequenceTheorems, TLAPS

(* A row of the picture ends before a later one begins.                     *)
LEMMA RowOrder ==
  ASSUME NEW a \in Nat, NEW b \in Nat, NEW w \in Nat, a < b
  PROVE  a * w \in Nat /\ b * w \in Nat /\ a * w + w <= b * w
<1>1. PICK d \in Nat : b = a + 1 + d
  <2>1. b - a - 1 \in Nat /\ b = a + 1 + (b - a - 1)
    OBVIOUS
  <2>2. QED
    BY <2>1
<1>2. d * w \in Nat /\ a * w \in Nat /\ (a + 1 + d) * w = a * w + w + d * w
  BY SMT
<1>3. QED
  BY <1>1, <1>2

(* Two places are the same only if row and column are, and a place is in a  *)
(* stretch of a row only if it is in that row.                              *)
LEMMA InRow ==
  ASSUME NEW w \in Nat, NEW x \in 0 .. w - 1, NEW y \in Nat,
         NEW row \in Nat, NEW first \in Nat, NEW n \in Nat, first + n <= w
  PROVE  y * w + x \in row * w + first .. row * w + first + n - 1
           <=> (y = row /\ first <= x /\ x < first + n)
<1>1. y * w \in Nat /\ row * w \in Nat
  BY SMT
<1>2. CASE y < row
  <2>1. y * w + w <= row * w
    BY <1>2, RowOrder
  <2>2. QED
    BY <1>1, <1>2, <2>1, SMT
<1>3. CASE row < y
  <2>1. row * w + w <= y * w
    BY <1>3, RowOrder
  <2>2. QED
    BY <1>1, <1>3, <2>1, SMT
<1>4. CASE row = y
  BY <1>1, <1>4, SMT
<1>5. QED
  BY <1>2, <1>3, <1>4, SMT

(* What makes a rectangle one of the framebuffer.                           *)
Backed == /\ fb.width \in Nat /\ fb.height \in Nat
          /\ DOMAIN fb.data = 0 .. fb.width * fb.height - 1

Inside(r) == /\ r.x \in Nat /\ r.y \in Nat
             /\ r.width \in Nat /\ r.height \in Nat
             /\ r.x + r.width <= fb.width
             /\ r.y + r.height <= fb.height

Covers(r, x, y) == /\ r.x <= x /\ x < r.x + r.width
                   /\ r.y <= y /\ y < r.y + r.height

(* No row of such a rectangle is refused.                                   *)
THEOREM InsideAccepted ==
  ASSUME Backed, NEW r, Inside(r), NEW y \in 0 .. r.height - 1
  PROVE  RowFits(r, y)
<1> DEFINE w == fb.width
           h == fb.height
           row == r.y + y
<1>1. /\ w \in Nat /\ h \in Nat /\ row \in Nat /\ row < h
      /\ r.x \in Nat /\ r.width \in Nat /\ r.x + r.width <= w
  BY SMTT(30) DEF Backed, Inside
<1>2. row * w \in Nat /\ row * w + w <= h * w
  BY <1>1, RowOrder
<1>3. h * w = w * h /\ w * h \in Nat
  BY <1>1, SMT
<1>4. Cardinality(DOMAIN fb.data) = w * h
  <2>1. Cardinality(0 .. w * h - 1) = w * h
    <3> HIDE DEF w, h
    <3>1. PICK n \in Nat : n = w * h
      BY <1>3
    <3>2. Cardinality(0 .. n - 1) = n
      <4>1. 0 \in Int /\ n - 1 \in Int
        OBVIOUS
      <4>2. Cardinality(0 .. n - 1) = IF 0 > n - 1 THEN 0 ELSE n - 1 - 0 + 1
        BY <4>1, FS_Interval
      <4>3. QED
        BY <4>2
    <3>3. QED
      BY <3>1, <3>2
  <2>2. QED
    BY <2>1 DEF Backed
<1>5. Offset(r, y) = row * w + r.x
  BY DEF Offset
<1> HIDE DEF w, h, row
<1>6. QED
  BY <1>1, <1>2, <1>3, <1>4, <1>5 DEF RowFits

(* A rectangle inside the framebuffer is stored where it belongs: every     *)
(* place it covers shows its pixel, and every other place what it showed.   *)
THEOREM StoredInPlace ==
  ASSUME Backed, NEW r, Inside(r), NEW pixels,
         NEW x \in 0 .. fb.width - 1, NEW y \in 0 .. fb.height - 1
  PROVE  Stored(r, pixels)[y * fb.width + x]
           = IF Covers(r, x, y) THEN pixels[<<x - r.x, y - r.y>>] ELSE At(x, y)
<1> DEFINE w == fb.width
           k == y * w + x
           rows == {j \in 0 .. r.height - 1 :
                      k \in Offset(r, j) .. Offset(r, j) + r.width - 1}
           last == CHOOSE j \in rows : \A z \in rows : z <= j
<1>1. /\ w \in Nat /\ fb.height \in Nat
      /\ r.x \in Nat /\ r.y \in Nat /\ r.width \in Nat /\ r.height \in Nat
      /\ r.x + r.width <= w /\ r.y + r.height <= fb.height
      /\ x \in 0 .. w - 1 /\ y \in Nat /\ y < fb.height
  BY DEF Backed, Inside
<1>2. k \in DOMAIN fb.data
  <2>1. y * w \in Nat /\ y * w + w <= fb.height * w
    BY <1>1, RowOrder
  <2>2. fb.height * w = w * fb.height /\ w * fb.height \in Int
    BY <1>1, SMT
  <2>3. k \in 0 .. w * fb.height - 1
    <3> HIDE DEF w
    <3>1. QED
      BY <1>1, <2>1, <2>2
  <2>4. QED
    BY <2>3 DEF Backed
<1>3. Stored(r, pixels)[k] = IF rows = {} THEN fb.data[k]
                             ELSE pixels[<<k - Offset(r, last), last>>]
  BY <1>2 DEF Stored
<1>4. ASSUME NEW j \in 0 .. r.height - 1
      PROVE  j \in rows <=> (Covers(r, x, y) /\ j = y - r.y)
  <2>1. r.y + j \in Nat /\ Offset(r, j) = (r.y + j) * w + r.x
    BY <1>1 DEF Offset
  <2>2. k \in (r.y + j) * w + r.x .. (r.y + j) * w + r.x + r.width - 1
          <=> (y = r.y + j /\ r.x <= x /\ x < r.x + r.width)
    <3>1. PICK row, first, n : row = r.y + j /\ first = r.x /\ n = r.width
      OBVIOUS
    <3>2. /\ w \in Nat /\ x \in 0 .. w - 1 /\ y \in Nat
          /\ row \in Nat /\ first \in Nat /\ n \in Nat /\ first + n <= w
      BY <1>1, <2>1, <3>1
    <3> HIDE DEF w
    <3>3. y * w + x \in row * w + first .. row * w + first + n - 1
            <=> (y = row /\ first <= x /\ x < first + n)
      BY <3>2, InRow
    <3>4. QED
      BY <3>1, <3>3
  <2>3. j \in rows <=> (y = r.y + j /\ r.x <= x /\ x < r.x + r.width)
    BY <2>1, <2>2
  <2> HIDE DEF rows, k, w, last
  <2>4. QED
    BY <1>1, <2>3 DEF Covers
<1>5. rows \subseteq 0 .. r.height - 1
  OBVIOUS
<1>6. k = y * w + x
  OBVIOUS
<1>7. CASE Covers(r, x, y)
  <2>1. y - r.y \in 0 .. r.height - 1
    BY <1>1, <1>7 DEF Covers
  <2>2. rows = {y - r.y}
    <3> HIDE DEF rows
    <3>1. QED
      BY <1>4, <1>5, <1>7, <2>1
  <2>3. last = y - r.y
    <3> HIDE DEF rows
    <3>1. QED
      BY <1>1, <2>1, <2>2
  <2>4. k - Offset(r, last) = x - r.x
    <3>1. Offset(r, y - r.y) = (r.y + (y - r.y)) * w + r.x
      BY DEF Offset
    <3>2. r.y + (y - r.y) = y
      BY <1>1
    <3>3. y * w \in Int
      BY <1>1, SMT
    <3> HIDE DEF k, last, w
    <3>4. QED
      BY <1>1, <1>6, <2>3, <3>1, <3>2, <3>3
  <2> HIDE DEF k, rows, last
  <2>5. QED
    BY <1>3, <1>7, <2>2, <2>3, <2>4 DEF k, w
<1>8. CASE ~Covers(r, x, y)
  <2>1. rows = {}
    <3> HIDE DEF rows
    <3>1. QED
      BY <1>4, <1>5, <1>8
  <2>2. QED
    BY <1>3, <1>8, <2>1 DEF At
<1>9. QED
  BY <1>7, <1>8


-----------------------------------------------------------------------------
(* The pixel format both sides mean.                                        *)

(* The server reads from ovnc_client_set_pixel_format's message what the    *)
(* caller gave it.                                                          *)
LEMMA FormatArrives ==
  ASSUME NEW f \in PixelFormats
  PROVE  LET bytes == SetPixelFormatMessage(f)
         IN bytes[1] = 0 /\ FormatFromWire(bytes, 5) = f
<1> DEFINE head == <<0, 0, 0, 0>>
           body == FormatToWire(f)
           bytes == head \o body
<1>1. /\ body \in Seq(Byte) /\ Len(body) = 16
      /\ FormatFromWire(body, 1) = f
  BY FormatRoundTrip
<1>2. head \in Seq(Byte) /\ Len(head) = 4 /\ head[1] = 0
  BY DEF Byte
<1> HIDE DEF head, body
<1>3. \A i \in 1 .. 20 : bytes[i] = IF i <= 4 THEN head[i] ELSE body[i - 4]
  <2>1. head \in Seq(Byte) /\ body \in Seq(Byte)
    BY <1>1, <1>2
  <2>2. \A i \in 1 .. Len(head) + Len(body) :
          (head \o body)[i] = IF i <= Len(head) THEN head[i]
                                              ELSE body[i - Len(head)]
    BY <2>1, ConcatProperties
  <2>3. Len(head) = 4 /\ Len(body) = 16
    BY <1>1, <1>2
  <2> HIDE DEF bytes
  <2>4. \A i \in 1 .. 4 + 16 : bytes[i] = IF i <= 4 THEN head[i] ELSE body[i - 4]
    BY <2>2, <2>3 DEF bytes
  <2> QED
    BY <2>4
<1> HIDE DEF bytes
<1>4. bytes[1] = 0
  BY <1>2, <1>3
<1>5. FormatFromWire(bytes, 5) = FormatFromWire(body, 1)
  BY <1>3 DEF FormatFromWire, ReadU16
<1>6. SetPixelFormatMessage(f) = bytes
  BY DEF SetPixelFormatMessage, bytes, head, body
<1> QED
  BY <1>1, <1>4, <1>5, <1>6

LEMMA OtherMessages ==
  /\ \A i, w, h : UpdateRequestMessage(i, w, h)[1] = 3
  /\ \A n : SetEncodingsHeader(n)[1] = 2
BY DEF UpdateRequestMessage, SetEncodingsHeader

Sequence(q) == \E S : q \in Seq(S)

Sets(m) == m.bytes[1] = 0

(* Either the server has heard of the client's format, or the last message  *)
(* on its way that sets one tells it.                                       *)
Agreed(q) == /\ \A i \in 1..Len(q) : ~Sets(q[i])
             /\ server.format = fb.format

Telling(q) ==
  \E k \in 1..Len(q) :
    /\ Sets(q[k]) /\ FormatFromWire(q[k].bytes, 5) = fb.format
    /\ \A j \in k + 1 .. Len(q) : ~Sets(q[j])

Told ==
  /\ {"format", "data", "width", "height"} = DOMAIN fb
  /\ "format" \in DOMAIN server
  /\ todo \in Seq(CallRecords)
  /\ app \in DOMAIN Applications
  /\ Sequence(toServer)
  /\ Agreed(toServer) \/ Telling(toServer)

LEMMA Sequences ==
  ASSUME NEW q, Sequence(q)
  PROVE  /\ Len(q) \in Nat /\ (q = <<>> <=> Len(q) = 0)
         /\ \A e : /\ Sequence(Append(q, e)) /\ Len(Append(q, e)) = Len(q) + 1
                   /\ Append(q, e)[Len(q) + 1] = e
                   /\ \A i \in 1..Len(q) : Append(q, e)[i] = q[i]
         /\ q # <<>> => /\ Sequence(Tail(q)) /\ Len(Tail(q)) = Len(q) - 1
                        /\ Head(q) = q[1]
                        /\ \A i \in 1..Len(q) - 1 : Tail(q)[i] = q[i + 1]
<1>1. PICK S : q \in Seq(S)
  BY DEF Sequence
<1>2. Len(q) \in Nat /\ (q = <<>> <=> Len(q) = 0)
  BY <1>1
<1>3. ASSUME NEW e
      PROVE  /\ Sequence(Append(q, e)) /\ Len(Append(q, e)) = Len(q) + 1
             /\ Append(q, e)[Len(q) + 1] = e
             /\ \A i \in 1..Len(q) : Append(q, e)[i] = q[i]
  <2> DEFINE T == S \cup {e}
  <2>1. q \in Seq(T) /\ e \in T
    BY <1>1, SeqMonotonic
  <2> HIDE DEF T
  <2>2. Append(q, e) \in Seq(T)
    BY <2>1
  <2> QED
    BY <2>1, <2>2 DEF Sequence
<1>4. ASSUME q # <<>>
      PROVE  /\ Sequence(Tail(q)) /\ Len(Tail(q)) = Len(q) - 1
             /\ Head(q) = q[1]
             /\ \A i \in 1..Len(q) - 1 : Tail(q)[i] = q[i + 1]
  <2>1. Tail(q) \in Seq(S)
    BY <1>1, <1>4
  <2> QED
    BY <1>1, <1>4, <2>1 DEF Sequence
<1> QED
  BY <1>2, <1>3, <1>4

(* A message that sets no format may be sent at any time.                   *)
LEMMA OtherSent ==
  ASSUME Told, NEW m, ~Sets(m), toServer' = Append(toServer, m),
         server'.format = server.format, fb'.format = fb.format
  PROVE  Agreed(toServer)' \/ Telling(toServer)'
<1> DEFINE q == toServer
           n == Len(q)
<1>1. /\ n \in Nat /\ Len(q') = n + 1 /\ q'[n + 1] = m
      /\ \A i \in 1..n : q'[i] = q[i]
  BY Sequences DEF Told
<1>2. CASE Agreed(q)
  BY <1>1, <1>2 DEF Agreed
<1>3. CASE Telling(q)
  <2>1. PICK k \in 1..n :
          /\ Sets(q[k]) /\ FormatFromWire(q[k].bytes, 5) = fb.format
          /\ \A j \in k + 1 .. n : ~Sets(q[j])
    BY <1>3 DEF Telling
  <2>2. /\ k \in 1 .. n + 1 /\ q'[k] = q[k]
        /\ \A j \in k + 1 .. n + 1 : ~Sets(q'[j])
    BY <1>1, <2>1
  <2> QED
    BY <1>1, <2>1, <2>2 DEF Telling
<1> QED
  BY <1>2, <1>3 DEF Told

(* A message that sets the format the client goes on with settles it.       *)
LEMMA FormatSettled ==
  ASSUME Told, NEW f \in PixelFormats, fb'.format = f,
         toServer' = Append(toServer, Message(SetPixelFormatMessage(f)))
  PROVE  Telling(toServer)'
<1> DEFINE m == Message(SetPixelFormatMessage(f))
           n == Len(toServer)
<1>1. /\ n \in Nat /\ Len(toServer') = n + 1 /\ toServer'[n + 1] = m
  BY Sequences DEF Told
<1>2. Sets(m) /\ FormatFromWire(m.bytes, 5) = f
  BY FormatArrives DEF Sets, Message
<1> HIDE DEF m
<1>3. n + 1 \in 1 .. Len(toServer') /\ \A j \in n + 2 .. n + 1 : FALSE
  BY <1>1
<1> QED
  BY <1>1, <1>2, <1>3 DEF Telling

LEMMA HookCalls ==
  ASSUME app \in DOMAIN Applications, NEW name \in Hooks
  PROVE  \A calls \in Applications[app][name] : calls \in Seq(CallRecords)
BY ApplicationsAssumption

LEMMA ToldServerReads ==
  ASSUME Told, ServerReads
  PROVE  Told'
<1> DEFINE q == toServer
           m == Head(q)
<1>1. /\ q # <<>> /\ q' = Tail(q) /\ server' = Heard(m)
      /\ fb' = fb /\ todo' = todo /\ app' = app
  BY DEF ServerReads, client
<1>2. /\ Len(q) \in Nat /\ Len(q) > 0 /\ Sequence(q') /\ Len(q') = Len(q) - 1
      /\ m = q[1] /\ \A i \in 1..Len(q) - 1 : q'[i] = q[i + 1]
  BY <1>1, Sequences DEF Told
<1>3. /\ "format" \in DOMAIN server'
      /\ Sets(m) => server'.format = FormatFromWire(m.bytes, 5)
      /\ ~Sets(m) => server'.format = server.format
  <2>1. "format" \in DOMAIN server
    BY DEF Told
  <2> QED
    BY <1>1, <2>1 DEF Heard, Sets
<1> HIDE DEF m
<1>4. CASE Agreed(q)
  <2>1. ~Sets(m) /\ \A i \in 1..Len(q') : ~Sets(q'[i])
    BY <1>2, <1>4 DEF Agreed
  <2> QED
    BY <1>1, <1>2, <1>3, <1>4, <2>1 DEF Agreed, Told
<1>5. CASE Telling(q)
  <2>1. PICK k \in 1..Len(q) :
          /\ Sets(q[k]) /\ FormatFromWire(q[k].bytes, 5) = fb.format
          /\ \A j \in k + 1 .. Len(q) : ~Sets(q[j])
    BY <1>5 DEF Telling
  <2>2. CASE k = 1
    <3>1. server'.format = fb'.format
      BY <1>1, <1>2, <1>3, <2>1, <2>2
    <3>2. \A i \in 1..Len(q') : ~Sets(q'[i])
      BY <1>2, <2>1, <2>2
    <3> QED
      BY <1>1, <1>2, <1>3, <3>1, <3>2 DEF Agreed, Told
  <2>3. CASE k > 1
    <3>1. /\ k - 1 \in 1 .. Len(q') /\ q'[k - 1] = q[k]
          /\ \A j \in (k - 1) + 1 .. Len(q') : ~Sets(q'[j])
      BY <1>2, <2>1, <2>3, SMTT(30)
    <3>2. Telling(q)'
      BY <1>1, <2>1, <3>1 DEF Telling
    <3> QED
      BY <1>1, <1>2, <1>3, <3>2 DEF Told
  <2> QED
    BY <2>1, <2>2, <2>3
<1> QED
  BY <1>4, <1>5 DEF Told


LEMMA ToldInit == Init => Told
<1> SUFFICES ASSUME Init PROVE Told
  OBVIOUS
<1>1. PICK c \in Configs, a \in DOMAIN Applications :
        /\ fb.format = IF c.pixel_format = NULL THEN ServerFormat
                                                ELSE c.pixel_format
        /\ {"format", "data", "width", "height"} = DOMAIN fb
        /\ toServer = InitialMessages(c)
        /\ app = a /\ todo \in Applications[a]["main"]
        /\ server.format = ServerFormat /\ "format" \in DOMAIN server
  BY DEF Init
<1>2. todo \in Seq(CallRecords) /\ app \in DOMAIN Applications
  BY <1>1, HookCalls DEF Hooks
<1> DEFINE m == Message(SetPixelFormatMessage(c.pixel_format))
           e == SetEncodingsMessage(c.encodings)
           S == {m, e}
           first == IF c.pixel_format # NULL THEN <<m>> ELSE <<>>
           second == IF c.encodings.count > 0 THEN <<e>> ELSE <<>>
<1>3. toServer = first \o second
  BY <1>1 DEF InitialMessages
<1>4. ~Sets(e)
  BY OtherMessages DEF Sets, SetEncodingsMessage
<1>5. c.pixel_format # NULL
        => Sets(m) /\ FormatFromWire(m.bytes, 5) = c.pixel_format
  <2>1. c.pixel_format # NULL => c.pixel_format \in PixelFormats
    BY ConfigsAssumption
  <2> QED
    BY <2>1, FormatArrives DEF Sets, Message
<1> HIDE DEF m, e
<1>6. /\ first \in Seq(S) /\ second \in Seq(S)
      /\ Len(first) = IF c.pixel_format # NULL THEN 1 ELSE 0
      /\ Len(second) = IF c.encodings.count > 0 THEN 1 ELSE 0
      /\ c.pixel_format # NULL => first[1] = m
      /\ c.encodings.count > 0 => second[1] = e
  <2>1. \A z \in S : /\ <<z>> \in Seq(S) /\ Len(<<z>>) = 1 /\ <<z>>[1] = z
    OBVIOUS
  <2>2. <<>> \in Seq(S) /\ Len(<<>>) = 0
    OBVIOUS
  <2>3. m \in S /\ e \in S
    OBVIOUS
  <2> HIDE DEF S
  <2> QED
    BY <2>1, <2>2, <2>3
<1> HIDE DEF S, first, second
<1>7. /\ toServer \in Seq(S) /\ Len(toServer) = Len(first) + Len(second)
      /\ \A i \in 1 .. Len(first) + Len(second) :
           toServer[i] = IF i <= Len(first) THEN first[i]
                                           ELSE second[i - Len(first)]
  BY <1>3, <1>6, ConcatProperties
<1>8. CASE c.pixel_format = NULL
  <2>1. server.format = fb.format /\ Len(first) = 0
    BY <1>1, <1>6, <1>8
  <2>2. \A i \in 1 .. Len(toServer) : ~Sets(toServer[i])
    BY <1>4, <1>6, <1>7, <2>1
  <2> QED
    BY <1>1, <1>2, <1>7, <2>1, <2>2 DEF Told, Agreed, Sequence
<1>9. CASE c.pixel_format # NULL
  <2>1. /\ Len(first) = 1 /\ 1 \in 1 .. Len(toServer) /\ toServer[1] = m
        /\ \A j \in 1 + 1 .. Len(toServer) : toServer[j] = e
    BY <1>6, <1>7, <1>9
  <2>2. Telling(toServer)
    BY <1>1, <1>4, <1>5, <1>9, <2>1 DEF Telling
  <2> QED
    BY <1>1, <1>2, <1>7, <2>2 DEF Told, Sequence
<1> QED
  BY <1>8, <1>9

(* Steps that leave formats and messages alone.                             *)
LEMMA Apart ==
  ASSUME Told, UNCHANGED <<app, toServer>>, server'.format = server.format,
         "format" \in DOMAIN server', fb'.format = fb.format,
         DOMAIN fb' = DOMAIN fb, todo' \in Seq(CallRecords)
  PROVE  Told'
BY DEF Told, Agreed, Telling

LEMMA ToldCalls ==
  ASSUME Told, Calls
  PROVE  Told'
<1> DEFINE call == Head(todo)
<1>1. CASE CallbackReturn
  BY <1>1, Apart DEF CallbackReturn, service, Told
<1>2. ASSUME todo # <<>>
      PROVE  call \in CallRecords /\ Tail(todo) \in Seq(CallRecords)
  BY <1>2 DEF Told
<1>3. ASSUME Called, todo # <<>>, NEW m, ~Sets(m), Send(m), UNCHANGED fb
      PROVE  Told'
  <2>1. /\ todo' = Tail(todo) /\ app' = app /\ server' = server /\ fb' = fb
        /\ toServer' = Append(toServer, m)
    BY <1>3 DEF Called, service, Send
  <2>2. Agreed(toServer)' \/ Telling(toServer)'
    BY <1>3, <2>1, OtherSent
  <2>3. Sequence(toServer')
    BY <2>1, Sequences DEF Told
  <2> QED
    BY <1>2, <1>3, <2>1, <2>2, <2>3 DEF Told
<1>4. CASE RequestUpdate
  <2>1. ~Sets(Message(UpdateRequestMessage(call.incremental, fb.width, fb.height)))
    BY OtherMessages DEF Sets, Message
  <2> QED
    BY <1>3, <1>4, <2>1 DEF RequestUpdate, Calling
<1>5. CASE SetEncodings
  <2>1. ~Sets(SetEncodingsMessage(call.list))
    BY OtherMessages DEF Sets, SetEncodingsMessage
  <2> QED
    BY <1>3, <1>5, <2>1 DEF SetEncodings, Calling
<1>6. CASE SendPointerEvent
  <2>1. ~Sets(Message(<<5>>))
    BY DEF Sets, Message
  <2> QED
    BY <1>3, <1>6, <2>1 DEF SendPointerEvent, Calling
<1>7. CASE SetPixelFormat
  <2> DEFINE f == call.format
  <2>1. /\ todo # <<>> /\ call.call = "set_pixel_format"
        /\ todo' = Tail(todo) /\ app' = app /\ server' = server
    BY <1>7 DEF SetPixelFormat, Calling, Called, service
  <2>2. f \in PixelFormats /\ todo' \in Seq(CallRecords)
    BY <1>2, <2>1 DEF CallRecords
  <2>3. \/ UNCHANGED <<fb, toServer>>
        \/ Send(Message(SetPixelFormatMessage(f))) /\ fb' = Reformatted(f)
    BY <1>7 DEF SetPixelFormat, FormatSent
  <2>4. CASE UNCHANGED <<fb, toServer>>
    BY <2>1, <2>2, <2>4, Apart DEF Told
  <2>5. CASE Send(Message(SetPixelFormatMessage(f))) /\ fb' = Reformatted(f)
    <3>1. toServer' = Append(toServer, Message(SetPixelFormatMessage(f)))
      BY <2>5 DEF Send
    <3>2. fb'.format = f /\ DOMAIN fb' = DOMAIN fb
      BY <2>5 DEF Reformatted, Told
    <3>3. Telling(toServer)'
      BY <2>2, <3>1, <3>2, FormatSettled
    <3>4. Sequence(toServer')
      BY <3>1, Sequences DEF Told
    <3> QED
      BY <2>1, <2>2, <3>2, <3>3, <3>4 DEF Told
  <2> QED
    BY <2>3, <2>4, <2>5
<1> QED
  BY <1>1, <1>4, <1>5, <1>6, <1>7 DEF Calls

LEMMA ToldLoop ==
  ASSUME Told, Loop
  PROVE  Told'
<1>0. /\ "format" \in DOMAIN server /\ todo \in Seq(CallRecords)
      /\ app \in DOMAIN Applications
  BY DEF Told
<1>1. ASSUME NEW name \in Hooks, NEW next, Invoke(name, next)
      PROVE  todo' \in Seq(CallRecords)
  BY <1>0, <1>1, HookCalls DEF Invoke
<1>2. CASE HandleBell
  <2>1. todo' \in Seq(CallRecords) /\ UNCHANGED <<fb, app, toServer, server>>
    BY <1>1, <1>2 DEF HandleBell, Hooks, service
  <2> QED
    BY <2>1, <1>0, Apart
<1>3. CASE HandleFbUpdate
  <2>1. UNCHANGED <<fb, app, todo, toServer, server>>
    BY <1>3 DEF HandleFbUpdate, service
  <2> QED
    BY <2>1, <1>0, Apart
<1>4. CASE UpdateFinished
  <2>1. todo' \in Seq(CallRecords) /\ UNCHANGED <<fb, app, toServer, server>>
    BY <1>1, <1>4 DEF UpdateFinished, Hooks, service
  <2> QED
    BY <2>1, <1>0, Apart
<1>5. CASE DecodeRect
  <2> DEFINE item == Head(toClient)
             r == Rect(item.header)
  <2>1. /\ UNCHANGED <<app, toServer, server>>
        /\ DecodeRaw(r, item) \/ DecodeDesktopSize(r) \/ DecodeCursor(r, item)
           \/ Stops("unsupported")
    BY <1>5 DEF DecodeRect, service
  <2>2. ASSUME NEW reason, Stops(reason)
        PROVE  fb' = fb /\ todo' = todo
    BY <2>2 DEF Stops
  <2>3. ASSUME NEW name \in Hooks, RectDone(name)
        PROVE  todo' \in Seq(CallRecords)
    BY <1>1, <2>3 DEF RectDone
  <2>4. fb'.format = fb.format /\ DOMAIN fb' = DOMAIN fb
        /\ todo' \in Seq(CallRecords)
    <3>1. CASE DecodeRaw(r, item)
      <4>1. \/ Stops("refused") \/ Stops("garbled")
            \/ /\ fb' = [fb EXCEPT !.data = Stored(r, Understood(item))]
               /\ RectDone("framebuffer_update")
        BY <3>1 DEF DecodeRaw
      <4> QED
        BY <4>1, <1>0, <2>2, <2>3 DEF Hooks, Told
    <3>2. CASE DecodeDesktopSize(r)
      <4>1. fb' = Resized(r) /\ RectDone("desktop_resize")
        BY <3>2 DEF DecodeDesktopSize
      <4> QED
        BY <4>1, <2>3 DEF Hooks, Told, Resized
    <3>3. CASE DecodeCursor(r, item)
      <4>1. Stops("garbled") \/ (RectDone("cursor_update") /\ fb' = fb)
        BY <3>3, Zenon DEF DecodeCursor
      <4> QED
        BY <4>1, <1>0, <2>2, <2>3 DEF Hooks
    <3> QED
      BY <1>0, <2>1, <2>2, <3>1, <3>2, <3>3
  <2> QED
    BY <2>1, <2>4, <1>0, Apart
<1> QED
  BY <1>2, <1>3, <1>4, <1>5 DEF Loop

LEMMA ToldStep == Told /\ [Next]_vars => Told'
<1> SUFFICES ASSUME Told, [Next]_vars PROVE Told'
  OBVIOUS
<1>1. "format" \in DOMAIN server /\ todo \in Seq(CallRecords)
  BY DEF Told
<1>2. CASE ServerUpdates
  <2>1. UNCHANGED <<fb, todo, app, toServer>>
    BY <1>2 DEF ServerUpdates, client
  <2>2. \E d, a, t, z : server' = [server EXCEPT !.dirty = d, !.asked = a,
                                                 !.told = t, !.resized = z]
    BY <1>2 DEF ServerUpdates
  <2> QED
    BY <2>1, <2>2, <1>1, Apart
<1>3. CASE ServerWrites
  BY <1>1, <1>3, Apart DEF ServerWrites, client
<1>4. CASE ServerRings
  BY <1>1, <1>4, Apart DEF ServerRings, client
<1>5. CASE ScreenChanges
  <2>1. UNCHANGED <<fb, todo, app, toServer>>
    BY <1>5 DEF ScreenChanges, client
  <2>2. \E d : server' = [server EXCEPT !.dirty = d]
    BY <1>5 DEF ScreenChanges
  <2> QED
    BY <2>1, <2>2, <1>1, Apart
<1>6. CASE ScreenResized
  <2>1. UNCHANGED <<fb, todo, app, toServer>>
    BY <1>6 DEF ScreenResized, client
  <2>2. \E d, z : server' = [server EXCEPT !.dirty = d, !.resized = z]
    BY <1>6 DEF ScreenResized
  <2> QED
    BY <2>1, <2>2, <1>1, Apart
<1>7. CASE UNCHANGED vars
  BY <1>1, <1>7, Apart DEF vars, client, service
<1> QED
  BY <1>2, <1>3, <1>4, <1>5, <1>6, <1>7, ToldCalls, ToldLoop, ToldServerReads
     DEF Next, Serving, Idle

(* Once the server has read all the client sent, both mean the same pixel   *)
(* format, field by field: whatever formats the application sets, from      *)
(* whichever callback and in whatever order, and whatever the server sends  *)
(* meanwhile.                                                               *)
THEOREM FormatsComeToAgree == Spec => []FormatsAgree
<1>1. Told => FormatsAgree
  <2>1. Told /\ toServer = <<>> => Len(toServer) = 0
    BY Sequences DEF Told
  <2> QED
    BY <2>1 DEF Told, Agreed, Telling, FormatsAgree
<1> QED
  BY <1>1, ToldInit, ToldStep, PTL DEF Spec

=============================================================================
