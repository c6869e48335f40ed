----------------------------- MODULE ClientUpdates -----------------------------
(***************************************************************************)
(* A connected client and its server exchanging updates: the calls of      *)
(* src/src/client/ovnc_client.c that send (request_update,                 *)
(* set_pixel_format, set_encodings, input), the decoding of                *)
(* FramebufferUpdate into the framebuffer (src/src/protocol), and an       *)
(* application like src/examples/simple_client.c that calls the library    *)
(* from its callbacks.  Both ends are single-threaded and block in a send  *)
(* while the connection's buffer is full.  Memory is OvncClient's subject; *)
(* here allocations succeed and what matters is what the pixels show.      *)
(***************************************************************************)
EXTENDS Integers, Sequences, FiniteSets, Wire

CONSTANTS
  Sizes,         \* <<width, height>> of the server's screen over time
  Colours,       \* what a pixel of the screen may show
  ServerFormat,  \* the pixel format of ServerInit
  Configs,       \* [pixel_format, encodings] the client may be created with
  Applications,  \* for each, what it calls in main and in each callback
  CursorShapes,  \* <<width, height>> of the cursors the server may send
  Buffer,        \* messages a direction of the connection holds
  MaxChanges,    \* bound: changes of the screen, bells
  NULL

Raw == 0
Cursor == -239
DesktopSize == -223

(* The types decode_rect has a case for.                                    *)
Implemented == {Raw, Cursor, DesktopSize}

ASSUME BufferAssumption == Buffer \in Nat \ {0}
ASSUME SizesAssumption == Sizes \subseteq (U16 \X U16)
ASSUME CursorsAssumption == CursorShapes \subseteq (U16 \X U16)

EncodingLists == [types : SUBSET S32, count : Nat]

(* The calls an application may make, and the places it makes them from.    *)
CallRecords == [call : {"request_update"}, incremental : Int]
               \cup [call : {"set_pixel_format"}, format : PixelFormats]
               \cup [call : {"set_encodings"}, list : EncodingLists]
               \cup [call : {"send_pointer_event"}]

Hooks == {"main", "framebuffer_update", "framebuffer_update_finished",
          "desktop_resize", "cursor_update", "bell"}

ASSUME ConfigsAssumption ==
  /\ ServerFormat \in PixelFormats
  /\ Configs \subseteq [pixel_format : PixelFormats \cup {NULL},
                        encodings : EncodingLists]
ASSUME ApplicationsAssumption ==
  \A a \in DOMAIN Applications :
    Applications[a] \in [Hooks -> SUBSET Seq(CallRecords)]

VARIABLES
  fb,        \* client->framebuffer; data as one array of pixels
  pc,        \* where the client's thread is
  then,      \* where the running callback returns to
  app,       \* which application it is
  todo,      \* the calls it makes before the running callback returns
  update,    \* rectangles left of the current update; ghost: what it shows
  toServer, toClient,  \* the two directions of the connection
  sending,   \* what the server still has to write
  server,    \* what the server knows of the client: told is the size it
             \* last told, listed (ghost) every type ever asked for
  screen,    \* the server's screen
  changes    \* changes so far

client  == <<fb, pc, then, app, todo, update>>
service == <<sending, server, screen, changes>>
vars == <<client, toServer, toClient, service>>

-----------------------------------------------------------------------------
Points(s) == (0 .. s.width - 1) \X (0 .. s.height - 1)

Screen(size, pixel(_)) ==
  LET s == [width |-> size[1], height |-> size[2]]
  IN [width |-> s.width, height |-> s.height,
      pixels |-> [p \in Points(s) |-> pixel(p)]]

(* What calloc returns.                                                     *)
Blank(w, h) == [k \in 0 .. w * h - 1 |-> "blank"]

Message(bytes) == [bytes |-> bytes, entries |-> 0, types |-> {}]

SetEncodingsMessage(list) ==
  [bytes |-> SetEncodingsHeader(list.count), entries |-> list.count,
   types |-> list.types]

(* What send_initial_messages has sent when connect returns.                *)
InitialMessages(c) ==
  (IF c.pixel_format # NULL
   THEN <<Message(SetPixelFormatMessage(c.pixel_format))>> ELSE <<>>)
  \o (IF c.encodings.count > 0
      THEN <<SetEncodingsMessage(c.encodings)>> ELSE <<>>)

(* They are all under way when connect returns, so they must fit.           *)
ASSUME InitialAssumption ==
  \A c \in Configs : Len(InitialMessages(c)) <= Buffer

(* An application waits if it asks with the last of its calls and calls     *)
(* again when the update is finished, with no more than the connection      *)
(* holds: in main next to the initial messages.                             *)
AsksLast(calls) ==
  /\ calls # <<>>
  /\ \A i \in 1..Len(calls) :
       calls[i].call = "request_update" <=> i = Len(calls)

Patient ==
  {a \in DOMAIN Applications :
     /\ \A name \in Hooks \ {"main", "framebuffer_update_finished"} :
          Applications[a][name] \subseteq {<<>>}
     /\ \A calls \in Applications[a]["main"] :
          /\ AsksLast(calls)
          /\ \A c \in Configs : Len(InitialMessages(c)) + Len(calls) <= Buffer
     /\ \A calls \in Applications[a]["framebuffer_update_finished"] :
          AsksLast(calls) /\ Len(calls) <= Buffer}

(* The calls change the format (one that is not refused by bytes_per_pixel).*)
Reformats(calls) ==
  \E i \in 1..Len(calls) : /\ calls[i].call = "set_pixel_format"
                          /\ BytesPerPixel(calls[i].format) >= 0

(* A change of format meets no update under way if it is never made, or by  *)
(* an application that waits.                                               *)
Careful ==
  {a \in DOMAIN Applications :
     a \in Patient \/ \A name \in Hooks : \A calls \in Applications[a][name] :
                         ~Reformats(calls)}

(* ... and asks for the whole picture in the new format.                    *)
Thorough ==
  {a \in Careful :
     \A name \in Hooks : \A calls \in Applications[a][name] :
       Reformats(calls) => Low(calls[Len(calls)].incremental) = 0}

CountFits(list) == list.count < 65536

(* No list of encodings is longer than SetEncodings can say.                *)
CountsFit ==
  /\ \A c \in Configs : CountFits(c.encodings)
  /\ \A a \in DOMAIN Applications, name \in Hooks :
       \A calls \in Applications[a][name] : \A i \in 1..Len(calls) :
         calls[i].call = "set_encodings" => CountFits(calls[i].list)

NoUpdate == [left |-> 0, shows |-> NULL, stale |-> {}]

Init ==
  \E size \in Sizes, c \in Configs, a \in DOMAIN Applications, start \in Colours :
    /\ screen = Screen(size, LAMBDA p : start)
    /\ fb = [width |-> size[1], height |-> size[2],
             format |-> IF c.pixel_format = NULL THEN ServerFormat
                                                 ELSE c.pixel_format,
             data |-> Blank(size[1], size[2])]
    /\ toServer = InitialMessages(c)
    /\ app = a
    /\ todo \in Applications[a]["main"]
    /\ pc = "callback" /\ then = "message"
    /\ update = NoUpdate
    /\ toClient = <<>> /\ sending = <<>> /\ changes = 0
    /\ server = [format |-> ServerFormat, encodings |-> {}, listed |-> {},
                 asked |-> {}, dirty |-> Points(screen), told |-> size,
                 resized |-> FALSE, inStep |-> TRUE]

-----------------------------------------------------------------------------
(* The application's calls.  Each sends one message, blocking while the     *)
(* connection is full.                                                      *)

Calling(name) == pc = "callback" /\ todo # <<>> /\ Head(todo).call = name

Send(message) ==
  /\ Len(toServer) < Buffer
  /\ toServer' = Append(toServer, message)

Called == /\ todo' = Tail(todo)
          /\ UNCHANGED <<pc, then, app, update, toClient, service>>

(* rect is NULL: the whole framebuffer as the client knows it.              *)
RequestUpdate ==
  /\ Calling("request_update")
  /\ Send(Message(UpdateRequestMessage(Head(todo).incremental,
                                       fb.width, fb.height)))
  /\ Called
  /\ UNCHANGED fb

SameSize(f) == BytesPerPixel(f) = BytesPerPixel(fb.format)

(* Mutant: a format of the same size is a local matter.                     *)
FormatSent_IfSize(f) ==
  IF SameSize(f) THEN UNCHANGED toServer
                 ELSE Send(Message(SetPixelFormatMessage(f)))

FormatSent(f) == Send(Message(SetPixelFormatMessage(f)))

(* The new format counts from here on.  Pixels of another size are given up *)
(* for blank ones; of the same size the bytes stay and mean something else. *)
Reformatted(f) ==
  [fb EXCEPT !.format = f,
             !.data = IF ~SameSize(f) THEN Blank(fb.width, fb.height)
                      ELSE IF f = fb.format THEN @
                      ELSE [k \in DOMAIN @ |-> "garbage"]]

SetPixelFormat ==
  /\ Calling("set_pixel_format")
  /\ LET f == Head(todo).format
     IN IF BytesPerPixel(f) < 0 THEN UNCHANGED <<fb, toServer>>
        ELSE FormatSent(f) /\ fb' = Reformatted(f)
  /\ Called

SetEncodings ==
  /\ Calling("set_encodings")
  /\ Send(SetEncodingsMessage(Head(todo).list))
  /\ Called
  /\ UNCHANGED fb

SendPointerEvent ==
  /\ Calling("send_pointer_event")
  /\ Send(Message(<<5>>))
  /\ Called
  /\ UNCHANGED fb

CallbackReturn ==
  /\ pc = "callback"
  /\ todo = <<>>
  /\ pc' = then
  /\ UNCHANGED <<fb, then, app, todo, update, toServer, toClient, service>>

(* A callback in which the application calls nothing is left at once.       *)
Invoke(name, next) ==
  /\ todo' \in Applications[app][name]
  /\ pc' = IF todo' = <<>> THEN next ELSE "callback"
  /\ then' = next

-----------------------------------------------------------------------------
(* The message loop.                                                        *)

Receives(at, kind) == /\ pc = at
                      /\ toClient # <<>>
                      /\ Head(toClient).kind = kind
                      /\ toClient' = Tail(toClient)

HandleBell ==
  /\ Receives("message", "bell")
  /\ Invoke("bell", "message")
  /\ UNCHANGED <<fb, app, update, toServer, service>>

HandleFbUpdate ==
  /\ Receives("message", "update")
  /\ update' = Head(toClient).update
  /\ pc' = "rects"
  /\ UNCHANGED <<fb, then, app, todo, toServer, service>>

(* The session ends, or the next bytes are taken for what they are not.     *)
Stops(reason) ==
  /\ pc' = reason
  /\ UNCHANGED <<fb, then, todo>>

(* Mutant: every rectangle counts as a finished update.                     *)
RectDone_Finishes(callback) == Invoke("framebuffer_update_finished", "rects")

RectDone(callback) == Invoke(callback, "rects")

(* Mutant: the stride of the rectangle, not of the framebuffer.             *)
Offset_Narrow(r, y) == (r.y + y) * r.width + r.x

(* Row y of a rectangle in the array, and its bound check (in pixels: both  *)
(* sides of the code's are multiples of the pixel size).                    *)
Offset(r, y) == (r.y + y) * fb.width + r.x

(* Mutant: the row must end before the last pixel.                          *)
RowFits_Below(r, y) == Offset(r, y) + r.width < Cardinality(DOMAIN fb.data)

RowFits(r, y) == Offset(r, y) + r.width <= Cardinality(DOMAIN fb.data)

(* The array after all rows; a later row overwrites an earlier one.         *)
Stored(r, pixels) ==
  [k \in DOMAIN fb.data |->
     LET rows == {y \in 0 .. r.height - 1 :
                    k \in Offset(r, y) .. Offset(r, y) + r.width - 1}
         last == CHOOSE y \in rows : \A z \in rows : z <= y
     IN IF rows = {} THEN fb.data[k]
        ELSE pixels[<<k - Offset(r, last), last>>]]

(* Pixels of the same size but another format are stored as they come.      *)
Understood(item) ==
  [p \in DOMAIN item.pixels |->
     IF item.format = fb.format THEN item.pixels[p] ELSE "garbage"]

DecodeRaw(r, item) ==
  IF \E y \in 0 .. r.height - 1 : ~RowFits(r, y) THEN Stops("refused")
  ELSE IF r.width * r.height * BytesPerPixel(fb.format) # item.bytes
       THEN Stops("garbled")
  ELSE /\ fb' = [fb EXCEPT !.data = Stored(r, Understood(item))]
       /\ RectDone("framebuffer_update")

(* Mutant: the old block is kept for the new geometry.                      *)
Resized_SameData(r) == [fb EXCEPT !.width = r.width, !.height = r.height]

Resized(r) == [fb EXCEPT !.width = r.width, !.height = r.height,
                         !.data = Blank(r.width, r.height)]

DecodeDesktopSize(r) ==
  /\ fb' = Resized(r)
  /\ RectDone("desktop_resize")

MaskBytes(r) == ((r.width + 7) \div 8) * r.height

(* Mutant: the rows of the mask are not padded to whole bytes.              *)
CursorBytes_Unpadded(r) ==
  r.width * r.height * BytesPerPixel(fb.format) + (r.width * r.height) \div 8

CursorBytes(r) == r.width * r.height * BytesPerPixel(fb.format) + MaskBytes(r)

DecodeCursor(r, item) ==
  IF CursorBytes(r) # item.bytes THEN Stops("garbled")
  ELSE RectDone("cursor_update") /\ UNCHANGED fb

DecodeRect ==
  /\ update.left > 0
  /\ Receives("rects", "rect")
  /\ LET item == Head(toClient)
         r == Rect(item.header)
         encoding == Encoding(item.header)
     IN CASE encoding = Raw -> DecodeRaw(r, item)
          [] encoding = DesktopSize -> DecodeDesktopSize(r)
          [] encoding = Cursor -> DecodeCursor(r, item)
          [] OTHER -> Stops("unsupported")
  /\ update' = [update EXCEPT !.left = @ - 1]
  /\ UNCHANGED <<app, toServer, service>>

UpdateFinished ==
  /\ pc = "rects"
  /\ update.left = 0
  /\ Invoke("framebuffer_update_finished", "message")
  /\ update' = NoUpdate
  /\ UNCHANGED <<fb, app, toServer, toClient, service>>

-----------------------------------------------------------------------------
(* The server: it answers requests, in the format and with the encodings    *)
(* the client asked for.                                                    *)

(* A client that stops closes the connection.                               *)
Connected == pc \notin {"refused", "unsupported", "garbled"}

ServerFree == sending = <<>> /\ server.inStep /\ Connected

(* A full request makes everything in it worth sending.                     *)
Heard(m) ==
  LET area == Points([width |-> ReadU16(m.bytes, 7),
                      height |-> ReadU16(m.bytes, 9)])
  IN CASE m.bytes[1] = 0 ->
            [server EXCEPT !.format = FormatFromWire(m.bytes, 5)]
       [] m.bytes[1] = 2 ->
            IF ReadU16(m.bytes, 3) = m.entries
            THEN [server EXCEPT !.encodings = m.types,
                                !.listed = @ \cup m.types]
            ELSE [server EXCEPT !.inStep = FALSE]
       [] m.bytes[1] = 3 ->
            [server EXCEPT !.asked = @ \cup area,
                           !.dirty = IF m.bytes[2] = 0
                                     THEN @ \cup (area \cap Points(screen))
                                     ELSE @]
       [] OTHER -> server

ServerReads ==
  /\ ServerFree
  /\ toServer # <<>>
  /\ server' = Heard(Head(toServer))
  /\ toServer' = Tail(toServer)
  /\ UNCHANGED <<client, toClient, sending, screen, changes>>

RectItem(x, y, w, h, encoding, bytes, pixels) ==
  [kind |-> "rect",
   header |-> WriteU16(x) \o WriteU16(y) \o WriteU16(w) \o WriteU16(h)
              \o WriteU32(encoding),
   bytes |-> bytes, format |-> server.format, pixels |-> pixels]

(* Pixels may come in any encoding the client listed; Raw it need not list. *)
PixelEncodings == {Raw} \cup (server.encodings \ {Cursor, DesktopSize})

(* bytes is Raw's length: of another encoding no one counts them.           *)
PixelItem(encoding, x, y, w, h, pixels) ==
  RectItem(x, y, w, h, encoding, w * h * BytesPerPixel(server.format),
           [p \in (0 .. w - 1) \X (0 .. h - 1) |->
              pixels[<<x + p[1], y + p[2]>>]])

ResizeItem == RectItem(0, 0, screen.width, screen.height, DesktopSize, 0, <<>>)

CursorItem(w, h) ==
  RectItem(0, 0, w, h, Cursor,
           w * h * BytesPerPixel(server.format) + ((w + 7) \div 8) * h, <<>>)

(* The pixels sent: the smallest rectangle around what has to be, at once   *)
(* or row by row.                                                           *)
Least(S) == CHOOSE m \in S : \A n \in S : m <= n
Most(S)  == CHOOSE m \in S : \A n \in S : m >= n

Cover(S) ==
  LET x0 == Least({p[1] : p \in S})
      y0 == Least({p[2] : p \in S})
      w  == Most({p[1] : p \in S}) - x0 + 1
      h  == Most({p[2] : p \in S}) - y0 + 1
  IN IF S = {} THEN {[points |-> {}, items |-> <<>>]}
     ELSE LET box == (x0 .. x0 + w - 1) \X (y0 .. y0 + h - 1)
          IN UNION {{[points |-> box,
                      items |-> <<PixelItem(e, x0, y0, w, h, screen.pixels)>>],
                     [points |-> box,
                      items |-> [y \in 1 .. h |->
                                   PixelItem(e, x0, y0 + y - 1, w, 1,
                                             screen.pixels)]]}
                    : e \in PixelEncodings}

CursorItems ==
  {<<>>} \cup (IF Cursor \in server.encodings
               THEN {<<CursorItem(c[1], c[2])>> : c \in CursorShapes} ELSE {})

(* A resize, and what may precede it in its update: the old screen, in      *)
(* whatever colour.                                                         *)
OldItems ==
  LET w == server.told[1]
      h == server.told[2]
  IN {<<>>} \cup {<<PixelItem(e, 0, 0, w, h,
                             [p \in (0 .. w - 1) \X (0 .. h - 1) |-> c])>>
                  : e \in PixelEncodings, c \in Colours}

ResizeItems ==
  IF server.resized THEN {old \o <<ResizeItem>> : old \in OldItems} ELSE {<<>>}

(* After a resize the new screen may wait for another update.               *)
ServerUpdates ==
  LET due == server.dirty \cap server.asked \cap Points(screen)
  IN /\ ServerFree
     /\ server.asked # {}
     /\ server.resized \/ due # {}
     /\ \E resize \in ResizeItems, cursor \in CursorItems,
           cover \in Cover(due) \cup IF server.resized THEN Cover({}) ELSE {} :
          LET items == resize \o cursor \o cover.items
              stale == server.dirty \ cover.points
          IN /\ sending' = <<[kind |-> "update",
                              update |-> [left |-> Len(items),
                                          shows |-> screen,
                                          stale |-> stale]]>> \o items
             /\ server' = [server EXCEPT !.dirty = stale, !.asked = {},
                              !.told = <<screen.width, screen.height>>,
                              !.resized = FALSE]
     /\ UNCHANGED <<client, toServer, toClient, screen, changes>>

ServerWrites ==
  /\ Connected
  /\ sending # <<>>
  /\ Len(toClient) < Buffer
  /\ toClient' = Append(toClient, Head(sending))
  /\ sending' = Tail(sending)
  /\ UNCHANGED <<client, toServer, server, screen, changes>>

ServerRings ==
  /\ ServerFree
  /\ changes < MaxChanges
  /\ changes' = changes + 1
  /\ sending' = <<[kind |-> "bell"]>>
  /\ UNCHANGED <<client, toServer, toClient, server, screen>>

ScreenChanges ==
  /\ Connected
  /\ changes < MaxChanges
  /\ changes' = changes + 1
  /\ \E p \in Points(screen), c \in Colours :
       /\ c # screen.pixels[p]
       /\ screen' = [screen EXCEPT !.pixels[p] = c]
       /\ server' = [server EXCEPT !.dirty = @ \cup {p}]
  /\ UNCHANGED <<client, toServer, toClient, sending>>

(* A server resizes only for a client that can follow, and takes the old    *)
(* contents for lost.                                                       *)
ScreenResized ==
  /\ Connected
  /\ changes < MaxChanges
  /\ changes' = changes + 1
  /\ DesktopSize \in server.encodings
  /\ \E size \in Sizes :
       /\ size # <<screen.width, screen.height>>
       /\ \E c \in Colours :
            screen' = Screen(size, LAMBDA p : IF p \in Points(screen)
                                              THEN screen.pixels[p] ELSE c)
       /\ server' = [server EXCEPT !.dirty = Points(screen'),
                                   !.resized = TRUE]
  /\ UNCHANGED <<client, toServer, toClient, sending>>

(* Nothing is under way: the client waits for the server and it for         *)
(* changes, or the session is over.                                         *)
Idle ==
  /\ \/ pc = "message" /\ toClient = <<>> /\ toServer = <<>> /\ sending = <<>>
     \/ ~Connected
  /\ UNCHANGED vars

-----------------------------------------------------------------------------
Calls == \/ RequestUpdate \/ SetPixelFormat \/ SetEncodings
         \/ SendPointerEvent \/ CallbackReturn

Loop == HandleBell \/ HandleFbUpdate \/ DecodeRect \/ UpdateFinished

Serving == ServerReads \/ ServerUpdates \/ ServerWrites

Next == Calls \/ Loop \/ Serving \/ ServerRings \/ ScreenChanges
        \/ ScreenResized \/ Idle

Spec == Init /\ [][Next]_vars

(* The client's thread runs while it can, its callbacks included, and the   *)
(* server serves its client.  The screen need never change.                 *)
Fairness == /\ WF_vars(Calls) /\ WF_vars(Loop)
            /\ WF_vars(ServerReads) /\ WF_vars(ServerUpdates)
            /\ WF_vars(ServerWrites)

FairSpec == Spec /\ Fairness

-----------------------------------------------------------------------------
(* Properties.                                                              *)

(* Every variable keeps its type; data has one pixel for each place of the  *)
(* geometry.                                                                *)
TypeOK ==
  /\ <<fb.width, fb.height>> \in Sizes
  /\ fb.data \in [0 .. fb.width * fb.height - 1
                    -> Colours \cup {"blank", "garbage"}]
  /\ fb.format \in PixelFormats
  /\ pc \in {"callback", "message", "rects",
             "refused", "unsupported", "garbled"}
  /\ then \in {"message", "rects"}
  /\ update.left \in Nat
  /\ Len(toServer) <= Buffer /\ Len(toClient) <= Buffer
  /\ server.dirty \subseteq Points(screen)

(* Neither end ever takes bytes of one field for another: the client reads  *)
(* as many bytes per rectangle as the server wrote in the format it knew    *)
(* then, and the server as many encodings as were sent.                     *)
InStep == pc # "garbled" /\ server.inStep

(* A server that keeps to the protocol is never disconnected for a          *)
(* rectangle out of bounds, whatever resizes happen before, between and     *)
(* inside its updates and the client's requests; and for an encoding only   *)
(* if the application once listed one that the library has no decoder for   *)
(* (README.md:58), however late the server hears of another list.           *)
NeverRefused ==
  /\ pc # "refused"
  /\ pc = "unsupported" => ~(server.listed \subseteq Implemented)

At(x, y) == fb.data[y * fb.width + x]

(* When framebuffer_update_finished is about to run, the framebuffer shows  *)
(* the screen of the moment the update was made, in the right place and     *)
(* format, except where the server knows it does not                        *)
(* (api-design.md:16: in the callback the rectangles are up to date).       *)
FinishedShows ==
  pc = "rects" /\ update.left = 0 =>
    /\ fb.width = update.shows.width /\ fb.height = update.shows.height
    /\ \A p \in Points(update.shows) \ update.stale :
         At(p[1], p[2]) = update.shows.pixels[p]

(* Once the server has read all the client sent, both mean the same pixel   *)
(* format, field by field.                                                  *)
FormatsAgree == toServer = <<>> => server.format = fb.format

(* The client never waits to send while the server, not reading, waits to   *)
(* send to it, if the application sends no more between two updates than    *)
(* the connection holds.                                                    *)
NoStandstill ==
  app \in Patient =>
    ~ /\ pc = "callback" /\ todo # <<>> /\ Len(toServer) = Buffer
      /\ sending # <<>> /\ Len(toClient) = Buffer

Shows == /\ fb.width = screen.width /\ fb.height = screen.height
         /\ \A p \in Points(screen) : At(p[1], p[2]) = screen.pixels[p]

(* With an application that is Patient and Thorough and lists only what     *)
(* the library decodes, the client catches up: after the last change of the *)
(* screen, resizes and format changes included, the framebuffer comes to    *)
(* show it again.                                                           *)
CatchesUp ==
  app \in Patient \cap Thorough /\ [](server.listed \subseteq Implemented)
    => []<>Shows

(* What a resize leaves of the old picture: the upper left part common to   *)
(* both sizes (rfb-protocol.md:753).                                        *)
KeepsUpperLeft ==
  [][\A x \in 0 .. fb.width - 1, y \in 0 .. fb.height - 1 :
       (<<fb'.width, fb'.height>> # <<fb.width, fb.height>>
          /\ x < fb'.width /\ y < fb'.height)
         => fb'.data[y * fb'.width + x] = At(x, y)]_vars
=============================================================================
