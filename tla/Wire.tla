---------------------------------- MODULE Wire ----------------------------------
(***************************************************************************)
(* The wire formats of libopenvnc at their real widths: the big-endian     *)
(* helpers of src/src/ovnc_internal.h, PIXEL_FORMAT                        *)
(* (src/src/common/ovnc_pixel.c), and the layouts that                     *)
(* src/src/protocol/ovnc_messages.c reads and writes.  A buffer is a       *)
(* sequence of bytes; p is the position of its byte 0 in the C code.       *)
(***************************************************************************)
EXTENDS Integers, Sequences

Byte == 0 .. 255
U16 == 0 .. 65536 - 1
S16 == {v \in Int : -32768 <= v /\ v <= 32767}
S32 == {v \in Int : v \div 65536 \in S16}

High(v) == (v \div 256) % 256
Low(v) == v % 256

WriteU16(v) == <<High(v), Low(v)>>
ReadU16(buf, p) == buf[p] * 256 + buf[p + 1]

(* Signed and unsigned values share the bytes: \div rounds down, as the     *)
(* shift of the two's complement does.                                      *)
WriteU32(v) == <<High(v \div 65536), Low(v \div 65536), High(v), Low(v)>>

Assembled(top, buf, p) ==
  ((top * 256 + buf[p + 1]) * 256 + buf[p + 2]) * 256 + buf[p + 3]

ReadU32(buf, p) == Assembled(buf[p], buf, p)

(* memcpy keeps the bits, so the first byte carries the sign.               *)
ReadS32(buf, p) ==
  Assembled(IF buf[p] < 128 THEN buf[p] ELSE buf[p] - 256, buf, p)

-----------------------------------------------------------------------------
(* Pixel formats.                                                           *)

PixelFormats ==
  [bits_per_pixel : Byte, depth : Byte, big_endian : Byte, true_color : Byte,
   red_max : U16, green_max : U16, blue_max : U16,
   red_shift : Byte, green_shift : Byte, blue_shift : Byte]

BytesPerPixel(f) ==
  CASE f.bits_per_pixel = 8  -> 1
    [] f.bits_per_pixel = 16 -> 2
    [] f.bits_per_pixel = 32 -> 4
    [] OTHER -> -1

(* ovnc_pixel_format_init_default: 32 bits, 8 per channel, blue lowest.     *)
DefaultFormat ==
  [bits_per_pixel |-> 32, depth |-> 24, big_endian |-> 0, true_color |-> 1,
   red_max |-> 255, green_max |-> 255, blue_max |-> 255,
   red_shift |-> 16, green_shift |-> 8, blue_shift |-> 0]

FormatToWire(f) ==
  <<f.bits_per_pixel, f.depth, f.big_endian, f.true_color,
    High(f.red_max), Low(f.red_max), High(f.green_max), Low(f.green_max),
    High(f.blue_max), Low(f.blue_max),
    f.red_shift, f.green_shift, f.blue_shift, 0, 0, 0>>

FormatFromWire(buf, p) ==
  [bits_per_pixel |-> buf[p], depth |-> buf[p + 1],
   big_endian |-> buf[p + 2], true_color |-> buf[p + 3],
   red_max |-> ReadU16(buf, p + 4), green_max |-> ReadU16(buf, p + 6),
   blue_max |-> ReadU16(buf, p + 8),
   red_shift |-> buf[p + 10], green_shift |-> buf[p + 11],
   blue_shift |-> buf[p + 12]]

-----------------------------------------------------------------------------
(* Messages of the client, as ovnc__send_* lay them out.                    *)

SetPixelFormatMessage(f) == <<0, 0, 0, 0>> \o FormatToWire(f)

(* The count is cut to 16 bits; the entries that follow are not.            *)
SetEncodingsHeader(n) == <<2, 0, High(n), Low(n)>>

(* Mutant: every request is incremental.                                    *)
UpdateRequestMessage_Incremental(incremental, w, h) ==
  <<3, 1, 0, 0, 0, 0, High(w), Low(w), High(h), Low(h)>>

UpdateRequestMessage(incremental, w, h) ==
  <<3, Low(incremental), 0, 0, 0, 0, High(w), Low(w), High(h), Low(h)>>

-----------------------------------------------------------------------------
(* Messages of the server, as the handlers read them.                       *)

(* The header of a rectangle: position, size, encoding.                     *)
Rect(buf) == [x |-> ReadU16(buf, 1), y |-> ReadU16(buf, 3),
              width |-> ReadU16(buf, 5), height |-> ReadU16(buf, 7)]
Encoding(buf) == ReadS32(buf, 9)

(* handle_color_map_entries takes six bytes apart for each colour.          *)
ColorMap(data, n) ==
  [i \in 0 .. n - 1 |-> [red   |-> ReadU16(data, 6 * i + 1),
                         green |-> ReadU16(data, 6 * i + 3),
                         blue  |-> ReadU16(data, 6 * i + 5)]]
=============================================================================
