------------------------------- MODULE WireProofs -------------------------------
(***************************************************************************)
(* What the formats of Wire preserve, for every value of the width each    *)
(* field has in the C structures: what the write helpers and               *)
(* ovnc_pixel_format_to_wire put on the wire is what the read helpers and  *)
(* ovnc_pixel_format_from_wire take from it.                               *)
(***************************************************************************)
EXTENDS Wire, TLAPS

Within(v, low, high) == v \in Int /\ low <= v /\ v <= high

LEMMA Divided ==
  ASSUME NEW v \in Int
  PROVE  /\ v \div 256 \in Int /\ Within(v % 256, 0, 255)
         /\ v = 256 * (v \div 256) + (v % 256)
         /\ v \div 65536 \in Int
         /\ (v \div 256) \div 256 = v \div 65536
BY SMT DEF Within

LEMMA Quotient ==
  ASSUME NEW q \in Int, NEW r \in Int, Within(r, 0, 255),
         Within(256 * q + r, 0, 65535)
  PROVE  Within(q, 0, 255)
BY SMT DEF Within

LEMMA SmallRemainder ==
  ASSUME NEW q \in Int, Within(q, 0, 255)
  PROVE  q % 256 = q
BY SMT DEF Within

LEMMA LowHigh ==
  ASSUME NEW v \in Int, Within(v, 0, 65535)
  PROVE  /\ High(v) = v \div 256
         /\ Within(High(v), 0, 255) /\ Within(Low(v), 0, 255)
         /\ v = 256 * High(v) + Low(v)
<1>1. /\ v \div 256 \in Int /\ v % 256 \in Int
      /\ Within(v % 256, 0, 255)
      /\ v = 256 * (v \div 256) + (v % 256)
  BY Divided DEF Within
<1>2. Within(v \div 256, 0, 255)
  BY <1>1, Quotient
<1>3. QED
  BY <1>1, <1>2, SmallRemainder DEF High, Low

(* ovnc__read_u16 returns what ovnc__write_u16 wrote.                       *)
THEOREM U16RoundTrip ==
  ASSUME NEW v \in Int, Within(v, 0, 65535)
  PROVE  ReadU16(WriteU16(v), 1) = v
BY LowHigh DEF ReadU16, WriteU16, Within

-----------------------------------------------------------------------------
(* Four bytes.                                                              *)

LEMMA Halves ==
  ASSUME NEW v \in Int
  PROVE  /\ v \div 65536 \in Int
         /\ Within(High(v), 0, 255) /\ Within(Low(v), 0, 255)
         /\ v = 65536 * (v \div 65536) + 256 * High(v) + Low(v)
<1> DEFINE q == v \div 256
<1>1. /\ q \in Int /\ Within(v % 256, 0, 255)
      /\ v = 256 * q + (v % 256)
  BY Divided
<1>2. /\ Within(q % 256, 0, 255)
      /\ q = 256 * (q \div 256) + (q % 256)
      /\ q \div 256 = v \div 65536 /\ v \div 65536 \in Int
  BY <1>1, Divided
<1>3. High(v) = q % 256 /\ Low(v) = v % 256
  BY DEF High, Low
<1> HIDE DEF q
<1>4. QED
  BY <1>1, <1>2, <1>3, SMT DEF Within

(* ovnc__read_u32 and ovnc__read_s32 return what ovnc__write_u32 and        *)
(* ovnc__write_s32 wrote, for every value of the type: the two share their  *)
(* bytes, and the encodings below zero, which ask for the cursor and for    *)
(* resizing, arrive as they are.                                            *)
THEOREM FourBytesRoundTrip ==
  ASSUME NEW v \in Int
  PROVE  /\ Within(v \div 65536, 0, 65535) => ReadU32(WriteU32(v), 1) = v
         /\ Within(v \div 65536, -32768, 32767) => ReadS32(WriteU32(v), 1) = v
<1> DEFINE t == v \div 65536
           q == t \div 256
<1>1. /\ t \in Int /\ Within(High(v), 0, 255) /\ Within(Low(v), 0, 255)
      /\ v = 65536 * t + 256 * High(v) + Low(v)
  BY Halves
<1>2. WriteU32(v) = <<High(t), Low(t), High(v), Low(v)>>
  BY DEF WriteU32
<1>3. /\ q \in Int /\ Within(Low(t), 0, 255)
      /\ t = 256 * q + Low(t) /\ High(t) = q % 256
  BY <1>1, Divided DEF Low, High
<1>4. Within(t, 0, 65535) => High(t) = q
  BY <1>1, LowHigh
<1>5. SUFFICES /\ Within(t, 0, 65535) => ReadU32(WriteU32(v), 1) = v
               /\ Within(t, -32768, 32767) => ReadS32(WriteU32(v), 1) = v
  OBVIOUS
<1> HIDE DEF t, q
<1>6. v = ((q * 256 + Low(t)) * 256 + High(v)) * 256 + Low(v)
  BY <1>1, <1>3, SMT DEF Within
<1>7. ASSUME Within(t, -32768, 32767)
      PROVE  (IF High(t) < 128 THEN High(t) ELSE High(t) - 256) = q
  <2>1. Within(q, -128, 127)
    BY <1>1, <1>3, <1>7, SMT DEF Within
  <2>2. QED
    BY <1>3, <2>1, SMT DEF Within
<1>8. ASSUME Within(t, 0, 65535)
      PROVE  ReadU32(WriteU32(v), 1) = v
  BY <1>2, <1>4, <1>6, <1>8 DEF ReadU32, Assembled
<1>9. ASSUME Within(t, -32768, 32767)
      PROVE  ReadS32(WriteU32(v), 1) = v
  BY <1>2, <1>6, <1>7, <1>9 DEF ReadS32, Assembled
<1>10. QED
  BY <1>8, <1>9

LEMMA S32Half ==
  ASSUME NEW v \in S32
  PROVE  v \in Int /\ Within(v \div 65536, -32768, 32767)
<1>1. v \in Int /\ v \div 65536 \in S16
  BY DEF S32
<1>2. \A t \in S16 : Within(t, -32768, 32767)
  BY SMT DEF S16, Within
<1>3. QED
  BY <1>1, <1>2

-----------------------------------------------------------------------------
(* Structures and messages.                                                 *)

(* ovnc_pixel_format_from_wire returns, from a message it stands anywhere   *)
(* in, the format that ovnc_pixel_format_to_wire laid out, in its ten       *)
(* fields.                                                                  *)
THEOREM FormatRoundTrip ==
  ASSUME NEW f \in PixelFormats
  PROVE  /\ FormatToWire(f) \in Seq(Byte) /\ Len(FormatToWire(f)) = 16
         /\ FormatFromWire(FormatToWire(f), 1) = f
<1>1. /\ f.red_max \in Int /\ Within(f.red_max, 0, 65535)
      /\ f.green_max \in Int /\ Within(f.green_max, 0, 65535)
      /\ f.blue_max \in Int /\ Within(f.blue_max, 0, 65535)
      /\ f.bits_per_pixel \in Byte /\ f.depth \in Byte
      /\ f.big_endian \in Byte /\ f.true_color \in Byte
      /\ f.red_shift \in Byte /\ f.green_shift \in Byte
      /\ f.blue_shift \in Byte
  <2>1. f.red_max \in U16 /\ f.green_max \in U16 /\ f.blue_max \in U16
    BY DEF PixelFormats
  <2>2. ASSUME NEW v \in U16
        PROVE  v \in Int /\ Within(v, 0, 65535)
    BY DEF U16, Within
  <2>3. QED
    BY <2>1, <2>2 DEF PixelFormats
<1>2. ASSUME NEW v \in Int, Within(v, 0, 65535)
      PROVE  High(v) \in Byte /\ Low(v) \in Byte /\ High(v) * 256 + Low(v) = v
  <2>1. /\ Within(High(v), 0, 255) /\ Within(Low(v), 0, 255)
        /\ v = 256 * High(v) + Low(v)
    BY <1>2, LowHigh
  <2>2. QED
    BY <2>1 DEF Within, Byte
<1>3. FormatToWire(f) \in Seq(Byte) /\ Len(FormatToWire(f)) = 16
  <2>1. 0 \in Byte
    BY DEF Byte
  <2>2. /\ High(f.red_max) \in Byte /\ Low(f.red_max) \in Byte
        /\ High(f.green_max) \in Byte /\ Low(f.green_max) \in Byte
        /\ High(f.blue_max) \in Byte /\ Low(f.blue_max) \in Byte
    BY <1>1, <1>2
  <2>3. QED
    BY <1>1, <2>1, <2>2 DEF FormatToWire
<1>4. FormatFromWire(FormatToWire(f), 1) = f
  BY <1>1, <1>2 DEF FormatToWire, FormatFromWire, ReadU16, PixelFormats
<1>5. QED
  BY <1>3, <1>4

(* Of a request's flag the server hears the low byte: it is told            *)
(* "incremental" only by a caller who said so, and a 0 stays 0; the cut can *)
(* only turn an incremental request into a whole one.  The size arrives as  *)
(* it is.                                                                   *)
THEOREM RequestHeard ==
  ASSUME NEW i \in Int, NEW w \in Int, NEW h \in Int,
         Within(w, 0, 65535), Within(h, 0, 65535)
  PROVE  LET message == UpdateRequestMessage(i, w, h)
         IN  /\ message[2] # 0 => i # 0
             /\ ReadU16(message, 7) = w
             /\ ReadU16(message, 9) = h
<1> DEFINE message == UpdateRequestMessage(i, w, h)
<1>1. /\ message[2] = Low(i)
      /\ ReadU16(message, 7) = High(w) * 256 + Low(w)
      /\ ReadU16(message, 9) = High(h) * 256 + Low(h)
  BY DEF UpdateRequestMessage, ReadU16
<1>2. Low(0) = 0
  BY DEF Low
<1>3. /\ Within(High(w), 0, 255) /\ w = 256 * High(w) + Low(w)
      /\ Within(High(h), 0, 255) /\ h = 256 * High(h) + Low(h)
  BY LowHigh
<1> HIDE DEF message
<1>4. ReadU16(message, 7) = w /\ ReadU16(message, 9) = h
  BY <1>1, <1>3 DEF Within
<1>5. message[2] # 0 => i # 0
  BY <1>1, <1>2
<1>6. QED
  BY <1>4, <1>5 DEF message

(* The server reads the number of encodings the caller gave cut to 16 bits: *)
(* what follows the header is read as encodings as far as that, and as      *)
(* further messages beyond it.                                              *)
THEOREM CountHeard ==
  ASSUME NEW n \in Nat
  PROVE  /\ ReadU16(SetEncodingsHeader(n), 3) = n - 65536 * (n \div 65536)
         /\ n < 65536 => ReadU16(SetEncodingsHeader(n), 3) = n
<1> DEFINE heard == ReadU16(SetEncodingsHeader(n), 3)
<1>1. heard = High(n) * 256 + Low(n)
  BY DEF SetEncodingsHeader, ReadU16
<1>2. /\ n \in Int /\ n \div 65536 \in Int
      /\ Within(High(n), 0, 255) /\ Within(Low(n), 0, 255)
      /\ n = 65536 * (n \div 65536) + 256 * High(n) + Low(n)
  BY Halves
<1> HIDE DEF heard
<1>3. heard = n - 65536 * (n \div 65536)
  BY <1>1, <1>2, SMT DEF Within
<1>4. n < 65536 => n \div 65536 = 0
  BY SMT
<1>5. QED
  BY <1>3, <1>4 DEF heard

(* Two bytes of any buffer make a 16-bit value.                             *)
LEMMA U16FromBytes ==
  ASSUME NEW buf, NEW p \in Nat, buf[p] \in Byte, buf[p + 1] \in Byte
  PROVE  ReadU16(buf, p) \in U16
<1>1. PICK high, low : high = buf[p] /\ low = buf[p + 1]
  OBVIOUS
<1>2. high \in 0 .. 255 /\ low \in 0 .. 255
  BY <1>1 DEF Byte
<1>3. high * 256 + low \in U16
  <2> DEFINE v == high * 256 + low
             max == 65536 - 1
  <2>1. v \in Int /\ max \in Int /\ 0 <= v /\ v <= max
    BY <1>2
  <2>2. U16 = 0 .. max
    BY DEF U16
  <2> HIDE DEF v, max
  <2>3. v \in 0 .. max
    BY <2>1
  <2>4. QED
    BY <2>2, <2>3 DEF v
<1>4. ReadU16(buf, p) = high * 256 + low
  BY <1>1 DEF ReadU16
<1>5. QED
  BY <1>3, <1>4

(* Whatever 16 bytes a server sends, ovnc__pixel_format_from_wire makes a   *)
(* format of them whose fields fit their types.                             *)
THEOREM AnyFormat ==
  ASSUME NEW buf \in [1 .. 16 -> Byte]
  PROVE  FormatFromWire(buf, 1) \in PixelFormats
<1>1. \A p \in 1 .. 16 : buf[p] \in Byte
  OBVIOUS
<1>2. /\ ReadU16(buf, 5) \in U16 /\ ReadU16(buf, 7) \in U16
      /\ ReadU16(buf, 9) \in U16
  <2>1. \A p \in {5, 7, 9} : buf[p] \in Byte /\ buf[p + 1] \in Byte
    BY <1>1
  <2>2. QED
    BY <2>1, U16FromBytes
<1>3. FormatFromWire(buf, 1) =
        [bits_per_pixel |-> buf[1], depth |-> buf[2],
         big_endian |-> buf[3], true_color |-> buf[4],
         red_max |-> ReadU16(buf, 5), green_max |-> ReadU16(buf, 7),
         blue_max |-> ReadU16(buf, 9),
         red_shift |-> buf[11], green_shift |-> buf[12],
         blue_shift |-> buf[13]]
  BY DEF FormatFromWire
<1>4. QED
  BY <1>1, <1>2, <1>3 DEF PixelFormats

(* handle_color_map_entries reads every colour from the num_colors * 6      *)
(* bytes it received, and nothing else.                                     *)
THEOREM ColorsFromData ==
  ASSUME NEW n \in Nat, NEW data \in [1 .. 6 * n -> Byte]
  PROVE  ColorMap(data, n)
           \in [0 .. n - 1 -> [red : U16, green : U16, blue : U16]]
<1>1. ASSUME NEW i \in 0 .. n - 1
      PROVE  /\ ReadU16(data, 6 * i + 1) \in U16
             /\ ReadU16(data, 6 * i + 3) \in U16
             /\ ReadU16(data, 6 * i + 5) \in U16
  <2>1. ASSUME NEW d \in {1, 3, 5}
        PROVE  ReadU16(data, 6 * i + d) \in U16
    <3>1. /\ 6 * i + d \in 1 .. 6 * n /\ 6 * i + d + 1 \in 1 .. 6 * n
          /\ 6 * i + d \in Nat
      OBVIOUS
    <3>2. data[6 * i + d] \in Byte /\ data[6 * i + d + 1] \in Byte
      BY <3>1
    <3>3. QED
      BY <3>1, <3>2, U16FromBytes
  <2>2. QED
    BY <2>1
<1>2. QED
  BY <1>1 DEF ColorMap

=============================================================================
