------------------------------ MODULE OvncClient ------------------------------
(***************************************************************************)
(* The libopenvnc client object (src/src/client/ovnc_client.c) with the    *)
(* parts of the handshake, message and encoding layers that change its     *)
(* state: the life cycle, every resource it allocates, the framebuffer     *)
(* geometry, and the calls into the application's callbacks, from which    *)
(* the application may call back into the library.                         *)
(*                                                                         *)
(* One application thread drives the client.  The server is the            *)
(* environment: it sends any message, in any order, and may vanish.        *)
(***************************************************************************)
EXTENDS Integers, FiniteSets

CONSTANTS
  Dims,          \* widths, heights and coordinates the server may send
  Formats,       \* bits_per_pixel values a pixel format may carry
  Blocks,        \* heap blocks calloc may return for pixel data
  MaxRects,      \* bound: rectangles in one FramebufferUpdate
  MaxConnects,   \* bound: calls of ovnc_client_connect
  Fallible,      \* the allocation sites whose allocation may fail
  CallbackSets,  \* the sets of callbacks the application may install
  Closing,       \* callbacks in which the application may disconnect
  Reformatting,  \* callbacks in which it may set the pixel format
  NULL

Sites == {"create", "transport", "init", "resize", "reformat", "temp"}

Callbacks == {"framebuffer_update", "framebuffer_update_finished",
              "cursor_update", "desktop_resize", "color_map_update", "bell",
              "server_cut_text", "disconnected", "alloc_framebuffer"}

(* The callbacks the message loop starts: alloc_framebuffer is answered in  *)
(* place, by the operators below.                                           *)
Events == Callbacks \ {"alloc_framebuffer"}

ASSUME DimsAssumption == Dims \subseteq Nat
ASSUME FormatsAssumption == Formats \subseteq Nat
ASSUME BoundsAssumption == MaxRects \in Nat /\ MaxConnects \in Nat
ASSUME SitesAssumption == Fallible \subseteq Sites
ASSUME CallbacksAssumption ==
  /\ CallbackSets \subseteq SUBSET Callbacks
  /\ Closing \subseteq Events
  /\ Reformatting \subseteq Events
ASSUME NullAssumption ==
  NULL \notin Nat \cup Blocks \cup Callbacks \cup {"app"}

(* What the library allocates besides pixel data.                           *)
Parts == {"client", "host", "pixel_format", "encodings", "transport",
          "socket", "tmp"}
Resources == Parts \cup Blocks

ASSUME BlocksAssumption == Blocks \cap (Parts \cup {"app"}) = {}

VARIABLES
  state,               \* client->state; NONE before create, FREED after destroy
  config,              \* the deep-copied configuration and the callbacks
  transport,           \* client->transport: none (NULL), idle (no socket), open
  platform_init_count, \* the counter of platform/ovnc_socket_posix.c
  live,                \* the resources allocated and not yet released
  fb,                  \* client->framebuffer
  capacity,            \* ghost: bytes really allocated behind framebuffer.data
  pc,                  \* where the application thread is
  api,                 \* the message-processing call in progress
  rects,               \* rectangles of the current update still to decode
  frame,               \* the callback running, and what follows its return
  ret,                 \* the value of the last library call
  peer,                \* the server: up, or gone with nothing left to receive
  connects,            \* calls of ovnc_client_connect so far
  notified,            \* ghost: times the disconnected callback was called
  closedBy,            \* ghost: app if the application ended the session
  damage               \* ghost: overrun once a row went past the framebuffer

object  == <<state, config, transport, platform_init_count>>
picture == <<fb, capacity>>
control == <<pc, api, rects, frame, ret>>
ghosts  == <<notified, closedBy, damage>>
vars == <<object, live, picture, control, peer, connects, ghosts>>

-----------------------------------------------------------------------------
(* Sizes, callbacks, failures.                                              *)

BytesPerPixel(bits) ==
  CASE bits = 8 -> 1 [] bits = 16 -> 2 [] bits = 32 -> 4 [] OTHER -> -1

Size(w, h, bits) == w * h * BytesPerPixel(bits)

(* data_size follows from the rest of the geometry.                         *)
Sized(shape) ==
  [shape EXCEPT !.data_size = Size(shape.width, shape.height, shape.bits)]

AppAllocates == "alloc_framebuffer" \in config.callbacks

(* What framebuffer.data may become: memory of the application, or a block. *)
NewData == IF AppAllocates THEN {"app"} ELSE Blocks \ live

Invoke(callback, then) ==
  IF callback \in config.callbacks
  THEN pc' = "callback" /\ frame' = [name |-> callback, then |-> then]
  ELSE pc' = then /\ frame' = [name |-> NULL, then |-> then]

(* A handler keeps its temporary buffers while its callback runs.           *)
Hold(callback) ==
  live' = IF callback \in config.callbacks THEN live \cup {"tmp"} ELSE live

(* Mutant: a session that failed goes on.                                   *)
Fail_GoesOn(err) ==
  /\ ret' = err
  /\ Invoke("disconnected", "handled")
  /\ notified' = notified + 1
  /\ rects' = 0

(* Mutant: the failure is reported, but the client is not closed.           *)
Fail_NoClose(err) ==
  /\ ret' = err
  /\ Invoke("disconnected", "app")
  /\ notified' = notified + 1
  /\ rects' = 0

(* Mutant: a connection closed by the server is not worth a report.         *)
Fail_Silent(err) ==
  /\ ret' = err
  /\ IF err = "IO" THEN pc' = "teardown" /\ UNCHANGED <<frame, notified>>
     ELSE Invoke("disconnected", "teardown") /\ notified' = notified + 1
  /\ rects' = 0

(* A handler returned err: process_message and run report it, then close.   *)
Fail(err) ==
  /\ ret' = err
  /\ Invoke("disconnected", "teardown")
  /\ notified' = IF "disconnected" \in config.callbacks THEN notified + 1
                                                         ELSE notified
  /\ rects' = 0

Released == {"transport", "socket"}

CleanedUp == IF platform_init_count > 0 THEN platform_init_count - 1 ELSE 0

(* Mutant: an error path of connect forgets ovnc__platform_cleanup.         *)
ConnectFailed_NoCleanup(err) ==
  /\ transport' = "none"
  /\ live' = live \ Released
  /\ pc' = "app"
  /\ ret' = err
  /\ UNCHANGED <<state, config, platform_init_count, api, rects, frame, peer,
                 connects, ghosts>>

(* Mutant: an error path of connect leaves client->transport set.           *)
ConnectFailed_Stale(err) ==
  /\ live' = live \ Released
  /\ platform_init_count' = CleanedUp
  /\ pc' = "app"
  /\ ret' = err
  /\ UNCHANGED <<state, config, transport, api, rects, frame, peer, connects,
                 ghosts>>

(* Every error path of ovnc_client_connect once the transport exists.       *)
ConnectFailed(err) ==
  /\ transport' = "none"
  /\ live' = live \ Released
  /\ platform_init_count' = CleanedUp
  /\ pc' = "app"
  /\ ret' = err
  /\ UNCHANGED <<state, config, api, rects, frame, peer, connects, ghosts>>

(* Mutant: disconnect frees the transport and keeps the pointer.            *)
Disconnect_Stale ==
  IF state = "CONNECTED"
  THEN /\ state' = "DISCONNECTED"
       /\ live' = live \ Released
       /\ platform_init_count' = CleanedUp
       /\ UNCHANGED transport
  ELSE UNCHANGED <<state, transport, live, platform_init_count>>

(* ovnc_client_disconnect, which does nothing unless CONNECTED.             *)
Disconnect ==
  IF state = "CONNECTED"
  THEN /\ state' = "DISCONNECTED"
       /\ transport' = "none"
       /\ live' = live \ Released
       /\ platform_init_count' = CleanedUp
  ELSE UNCHANGED <<state, transport, live, platform_init_count>>

(* Mutant: the memory is allocated before data_size is updated.             *)
Replace_OldSize(d, shape) ==
  /\ fb' = [shape EXCEPT !.data = d]
  /\ live' = (live \ ({fb.data} \cap Blocks)) \cup ({d} \cap Blocks)
  /\ capacity' = fb.data_size

(* The framebuffer takes a new shape and new, zeroed memory for it; a block  *)
(* of the library's that this replaces is freed.                            *)
Replace(d, shape) ==
  /\ fb' = [shape EXCEPT !.data = d]
  /\ live' = (live \ ({fb.data} \cap Blocks)) \cup ({d} \cap Blocks)
  /\ capacity' = shape.data_size

(* The thread is in the application's code, at the top level or in one of   *)
(* the given callbacks.                                                     *)
InApp(callbacks) ==
  \/ pc = "app"
  \/ pc = "callback" /\ frame.name \in callbacks

Failing == pc = "teardown" \/ (pc = "callback" /\ frame.then = "teardown")

-----------------------------------------------------------------------------
Init ==
  /\ state = "NONE"
  /\ config = [pixel_format |-> NULL, encodings |-> FALSE, callbacks |-> {}]
  /\ transport = "none"
  /\ platform_init_count = 0
  /\ live = {}
  /\ fb = [width |-> 0, height |-> 0, bits |-> 0, data_size |-> 0,
           data |-> NULL]
  /\ capacity = 0
  /\ pc = "app" /\ api = "none" /\ rects = 0 /\ ret = "OK"
  /\ frame = [name |-> NULL, then |-> "app"]
  /\ peer = "up"
  /\ connects = 0
  /\ notified = 0 /\ closedBy = "nobody" /\ damage = "none"

(***************************************************************************)
(* Life cycle: create, connect step by step, destroy.                      *)
(***************************************************************************)

(* create's allocations, and what it frees when the one named fails.        *)
AllocatedBefore(r) ==
  CASE r = "client" -> {}
    [] r = "host" -> {"client"}
    [] r = "pixel_format" -> {"client", "host"}
    [] r = "encodings" -> {"client", "host", "pixel_format"}

(* Mutant: the last error path of create forgets the pixel format.          *)
FreedOnFailureOf_Short(r) ==
  CASE r = "client" -> {}
    [] r = "host" -> {"client"}
    [] r = "pixel_format" -> {"host", "client"}
    [] r = "encodings" -> {"host", "client"}

FreedOnFailureOf(r) ==
  CASE r = "client" -> {}
    [] r = "host" -> {"client"}
    [] r = "pixel_format" -> {"host", "client"}
    [] r = "encodings" -> {"pixel_format", "host", "client"}

Copies(c) == {"client", "host"}
             \cup (IF c.pixel_format = NULL THEN {} ELSE {"pixel_format"})
             \cup (IF c.encodings THEN {"encodings"} ELSE {})

Create ==
  /\ state = "NONE"
  /\ \E c \in [pixel_format : Formats \cup {NULL}, encodings : BOOLEAN,
               callbacks : CallbackSets] :
       \/ /\ state' = "CREATED"
          /\ config' = c
          /\ live' = live \cup Copies(c)
          /\ ret' = "OK"
       \/ /\ "create" \in Fallible
          /\ \E r \in Copies(c) :
               live' = live \cup ((AllocatedBefore(r) \cap Copies(c))
                                   \ FreedOnFailureOf(r))
          /\ ret' = "NOMEM"
          /\ UNCHANGED <<state, config>>
  /\ UNCHANGED <<transport, platform_init_count, picture, pc, api, rects,
                 frame, peer, connects, ghosts>>

(* Mutant: a disconnected client may connect again.                         *)
MayConnect_Again == state \in {"CREATED", "DISCONNECTED"}

MayConnect == state = "CREATED"

Connect ==
  /\ pc = "app"
  /\ MayConnect
  /\ connects < MaxConnects
  /\ connects' = connects + 1
  /\ peer' = "up"
  /\ \/ /\ platform_init_count' = platform_init_count + 1
        /\ transport' = "idle"
        /\ live' = live \cup {"transport"}
        /\ pc' = "transport_connect"
        /\ UNCHANGED ret
     \/ /\ "transport" \in Fallible
        /\ ret' = "NOMEM"
        /\ UNCHANGED <<platform_init_count, transport, live, pc>>
  /\ UNCHANGED <<state, config, picture, api, rects, frame, ghosts>>

TransportConnect ==
  /\ pc = "transport_connect"
  /\ UNCHANGED picture
  /\ \/ /\ transport' = "open"
        /\ live' = live \cup {"socket"}
        /\ pc' = "negotiate"
        /\ UNCHANGED <<state, config, platform_init_count, api, rects, frame,
                       ret, peer, connects, ghosts>>
     \/ \E err \in {"CONNECTION_REFUSED", "TIMEOUT"} : ConnectFailed(err)

(* Version, security and SecurityResult; OvncHandshake opens this step.     *)
Negotiate ==
  /\ pc = "negotiate"
  /\ UNCHANGED picture
  /\ \/ /\ peer = "up"
        /\ pc' = "initialization"
        /\ UNCHANGED <<object, live, api, rects, frame, ret, peer, connects,
                       ghosts>>
     \/ \E err \in {"IO", "CONNECTION_REFUSED"} : ConnectFailed(err)

(* The configured format, or else the server's.                             *)
Active(f) == IF config.pixel_format = NULL THEN f ELSE config.pixel_format

Announced(w, h, f) == [fb EXCEPT !.width = w, !.height = h, !.bits = Active(f)]

(* The geometry is stored before the format is judged, data_size before the *)
(* allocation, and a failed calloc leaves data NULL.                        *)
DoInitialization ==
  /\ pc = "initialization"
  /\ \/ UNCHANGED picture /\ ConnectFailed("IO")
     \/ /\ peer = "up"
        /\ \E w, h \in Dims, f \in Formats :
             \/ /\ BytesPerPixel(Active(f)) < 0
                /\ fb' = Announced(w, h, f)
                /\ UNCHANGED capacity
                /\ ConnectFailed("PROTOCOL")
             \/ /\ BytesPerPixel(Active(f)) >= 0
                /\ "init" \in Fallible
                /\ fb' = [Sized(Announced(w, h, f)) EXCEPT
                            !.data = IF AppAllocates THEN @ ELSE NULL]
                /\ capacity' = IF AppAllocates THEN capacity ELSE 0
                /\ ConnectFailed("NOMEM")
             \/ /\ BytesPerPixel(Active(f)) >= 0
                /\ \E d \in NewData :
                     /\ fb' = [Sized(Announced(w, h, f)) EXCEPT !.data = d]
                     /\ live' = live \cup ({d} \cap Blocks)
                /\ capacity' = Sized(Announced(w, h, f)).data_size
                /\ pc' = "initial_messages"
                /\ UNCHANGED <<object, api, rects, frame, ret, peer,
                               connects, ghosts>>

SendInitialMessages ==
  /\ pc = "initial_messages"
  /\ UNCHANGED picture
  /\ \/ /\ state' = "CONNECTED"
        /\ pc' = "app"
        /\ ret' = "OK"
        /\ UNCHANGED <<config, transport, platform_init_count, live, api,
                       rects, frame, peer, connects, ghosts>>
     \/ /\ config.pixel_format # NULL \/ config.encodings
        /\ ConnectFailed("IO")

AppDisconnect ==
  /\ InApp(Closing)
  /\ state = "CONNECTED"
  /\ Disconnect
  /\ closedBy' = IF Failing THEN closedBy ELSE "app"
  /\ ret' = IF pc = "app" THEN "OK" ELSE ret
  /\ UNCHANGED <<config, picture, pc, api, rects, frame, peer, connects,
                 notified, damage>>

Destroy ==
  /\ pc = "app"
  /\ state \in {"CREATED", "CONNECTED", "DISCONNECTED"}
  /\ state' = "FREED"
  /\ live' = live \ (Copies(config)
                     \cup (IF AppAllocates THEN {} ELSE {fb.data})
                     \cup (IF state = "CONNECTED" THEN Released ELSE {}))
  /\ transport' = "none"
  /\ platform_init_count' = IF state = "CONNECTED" THEN CleanedUp
                                                   ELSE platform_init_count
  /\ UNCHANGED <<config, picture, control, peer, connects, ghosts>>

(***************************************************************************)
(* Messages.  A receive succeeds only while the server is there; it may    *)
(* fail at any time, and blocks otherwise.                                 *)
(***************************************************************************)

StartProcessing ==
  /\ pc = "app"
  /\ state = "CONNECTED"
  /\ api' \in {"process_message", "run"}
  /\ pc' = "message"
  /\ UNCHANGED <<object, live, picture, rects, frame, ret, peer, connects,
                 ghosts>>

Receiving == pc = "message" \/ (pc = "rects" /\ rects > 0)

CanReceive(at) == pc = at /\ transport # "none" /\ peer = "up"

ReceiveFails ==
  /\ Receiving
  /\ transport # "none"
  /\ Fail("IO")
  /\ UNCHANGED <<object, live, picture, api, peer, connects, closedBy, damage>>

(* ovnc__transport_recv dereferences the transport it is given.             *)
ReceiveOnNull ==
  /\ Receiving
  /\ transport = "none"
  /\ pc' = "crashed"
  /\ UNCHANGED <<object, live, picture, api, rects, frame, ret, peer, connects,
                 ghosts>>

UnknownMessage ==
  /\ CanReceive("message")
  /\ Fail("PROTOCOL")
  /\ UNCHANGED <<object, live, picture, api, peer, connects, closedBy, damage>>

OutOfMemory ==
  /\ \/ CanReceive("message")                     \* colour map, cut text
     \/ CanReceive("rects") /\ rects > 0          \* cursor
  /\ "temp" \in Fallible
  /\ Fail("NOMEM")
  /\ UNCHANGED <<object, live, picture, api, peer, connects, closedBy, damage>>

HandleBell ==
  /\ CanReceive("message")
  /\ Invoke("bell", "handled")
  /\ UNCHANGED <<object, live, picture, api, rects, ret, peer, connects,
                 ghosts>>

HandleColorMapEntries ==
  /\ CanReceive("message")
  /\ Invoke("color_map_update", "handled")
  /\ Hold("color_map_update")
  /\ UNCHANGED <<object, picture, api, rects, ret, peer, connects, ghosts>>

HandleServerCutText ==
  /\ CanReceive("message")
  /\ Invoke("server_cut_text", "handled")
  /\ Hold("server_cut_text") \/ UNCHANGED live    \* an empty text: no buffer
  /\ UNCHANGED <<object, picture, api, rects, ret, peer, connects, ghosts>>

HandleFbUpdate ==
  /\ CanReceive("message")
  /\ rects' \in 0..MaxRects
  /\ pc' = "rects"
  /\ UNCHANGED <<object, live, picture, api, frame, ret, peer, connects,
                 ghosts>>

UpdateFinished ==
  /\ pc = "rects"
  /\ rects = 0
  /\ Invoke("framebuffer_update_finished", "handled")
  /\ UNCHANGED <<object, live, picture, api, rects, ret, peer, connects,
                 ghosts>>

(***************************************************************************)
(* Rectangles.                                                             *)
(***************************************************************************)

(* Mutant: the loop over the rectangles runs once too often.                *)
RectStarts_OneMore == CanReceive("rects")

RectStarts == CanReceive("rects") /\ rects > 0

RectDone(callback) == rects' = rects - 1 /\ Invoke(callback, "rects")

RowEnd(r, y) ==
  LET bpp == BytesPerPixel(fb.bits)
  IN (r.y + y) * fb.width * bpp + r.x * bpp + r.width * bpp

(* Mutant: only the start of the row is checked.                            *)
RowAccepted_Start(r, y) ==
  RowEnd(r, y) - r.width * BytesPerPixel(fb.bits) <= fb.data_size

RowAccepted(r, y) == RowEnd(r, y) <= fb.data_size

(* The rows are received one by one, each checked against data_size first;  *)
(* the first row refused ends the session.                                  *)
DecodeRaw ==
  /\ RectStarts
  /\ \E r \in [x : Dims, y : Dims, width : Dims, height : Dims] :
       LET rows == 0 .. r.height - 1
           stored == {y \in rows : \A i \in 0..y : RowAccepted(r, i)}
       IN /\ damage' = IF \E y \in stored : /\ r.width > 0
                                           /\ RowEnd(r, y) > capacity
                       THEN "overrun" ELSE damage
          /\ \/ /\ stored = rows
                /\ RectDone("framebuffer_update")
                /\ UNCHANGED <<ret, notified>>
             \/ stored # rows /\ Fail("PROTOCOL")
  /\ UNCHANGED <<object, live, picture, api, peer, connects, closedBy>>

Resized(w, h) == Sized([fb EXCEPT !.width = w, !.height = h])

(* Mutant: the geometry changes before calloc too.                          *)
NotResized_Early(w, h) == Resized(w, h)

(* With alloc_framebuffer the geometry changes before the application is    *)
(* asked; without it nothing changes unless calloc succeeds.                *)
NotResized(w, h) == IF AppAllocates THEN Resized(w, h) ELSE fb

DecodeDesktopSize ==
  /\ RectStarts
  /\ \E w, h \in Dims :
       \/ /\ \E d \in NewData : Replace(d, Resized(w, h))
          /\ RectDone("desktop_resize")
          /\ UNCHANGED <<ret, notified>>
       \/ /\ "resize" \in Fallible
          /\ fb' = NotResized(w, h)
          /\ Fail("NOMEM")
          /\ UNCHANGED <<live, capacity>>
  /\ UNCHANGED <<object, api, peer, connects, closedBy, damage>>

(* Pixels and a bitmask with padded rows; nothing is allocated for neither. *)
CursorSize(w, h) == Size(w, h, fb.bits) + ((w + 7) \div 8) * h

DecodeCursor ==
  /\ RectStarts
  /\ \E w, h \in Dims : IF CursorSize(w, h) = 0 THEN UNCHANGED live
                                                ELSE Hold("cursor_update")
  /\ RectDone("cursor_update")
  /\ UNCHANGED <<object, picture, api, ret, peer, connects, ghosts>>

UnsupportedEncoding ==
  /\ RectStarts
  /\ Fail("ENCODING_UNSUPPORTED")
  /\ UNCHANGED <<object, live, picture, api, peer, connects, closedBy, damage>>

(***************************************************************************)
(* Returning from callbacks and from the calls.                            *)
(***************************************************************************)

CallbackReturn ==
  /\ pc = "callback"
  /\ pc' = frame.then
  /\ frame' = [frame EXCEPT !.name = NULL]
  /\ live' = live \ {"tmp"}
  /\ UNCHANGED <<object, picture, api, rects, ret, peer, connects, ghosts>>

(* Mutant: run does not look at the state again.                            *)
MessageHandled_Forever ==
  /\ pc = "handled"
  /\ IF api = "run"
     THEN pc' = "message" /\ UNCHANGED ret
     ELSE pc' = "app" /\ ret' = "OK"
  /\ UNCHANGED <<object, live, picture, api, rects, frame, peer, connects,
                 ghosts>>

MessageHandled ==
  /\ pc = "handled"
  /\ IF api = "run" /\ state = "CONNECTED"
     THEN pc' = "message" /\ UNCHANGED ret
     ELSE pc' = "app" /\ ret' = "OK"
  /\ UNCHANGED <<object, live, picture, api, rects, frame, peer, connects,
                 ghosts>>

Teardown ==
  /\ pc = "teardown"
  /\ Disconnect
  /\ pc' = "app"
  /\ UNCHANGED <<config, picture, api, rects, frame, ret, peer, connects,
                 ghosts>>

(***************************************************************************)
(* set_pixel_format: the message is sent first, and nothing changes if that *)
(* fails; then the local format, the data_size and the buffer change, in   *)
(* that order.                                                             *)
(***************************************************************************)
(* Mutant: the format changes and data_size does not.                       *)
Reformatted_Stale(f) == [fb EXCEPT !.bits = f]

Reformatted(f) == Sized([fb EXCEPT !.bits = f])

SetPixelFormat ==
  /\ InApp(Reformatting)
  /\ state = "CONNECTED"
  /\ \E f \in {g \in Formats : BytesPerPixel(g) > 0} :
       \/ /\ BytesPerPixel(f) = BytesPerPixel(fb.bits)
          /\ fb' = [fb EXCEPT !.bits = f]
          /\ UNCHANGED <<live, capacity>>
       \/ /\ BytesPerPixel(f) # BytesPerPixel(fb.bits)
          /\ \/ \E d \in NewData : Replace(d, Reformatted(f))
             \/ /\ "reformat" \in Fallible
                /\ fb' = Reformatted(f)
                /\ UNCHANGED <<live, capacity>>
  /\ UNCHANGED <<object, control, peer, connects, ghosts>>

(* The server closes the connection: nothing more will be received.         *)
ServerCloses ==
  /\ transport = "open"
  /\ peer = "up"
  /\ peer' = "gone"
  /\ UNCHANGED <<object, live, picture, control, connects, ghosts>>

(* After destroy, or after the crash, the program takes no further step.    *)
Finished == (state = "FREED" \/ pc = "crashed") /\ UNCHANGED vars

-----------------------------------------------------------------------------
Connecting == Connect \/ TransportConnect \/ Negotiate \/ DoInitialization
              \/ SendInitialMessages

Message == \/ UnknownMessage \/ OutOfMemory \/ HandleBell
           \/ HandleColorMapEntries \/ HandleServerCutText \/ HandleFbUpdate

Rectangle == DecodeRaw \/ DecodeDesktopSize \/ DecodeCursor
             \/ UnsupportedEncoding

Returning == UpdateFinished \/ MessageHandled \/ Teardown

App == Create \/ StartProcessing \/ AppDisconnect \/ SetPixelFormat \/ Destroy

Next ==
  \/ App \/ Connecting \/ Message \/ Rectangle \/ Returning
  \/ ReceiveFails \/ ReceiveOnNull \/ CallbackReturn \/ ServerCloses
  \/ Finished

Spec == Init /\ [][Next]_vars

(* The thread runs the library's own steps, callbacks return, and a receive *)
(* on a connection the server has closed fails.                             *)
Fairness ==
  /\ WF_vars(Returning)
  /\ WF_vars(CallbackReturn)
  /\ WF_vars(peer = "gone" /\ ReceiveFails)

FairSpec == Spec /\ Fairness

-----------------------------------------------------------------------------
(* Properties.                                                              *)

Framebuffers == [width : Nat, height : Nat, bits : Nat, data_size : Int,
                 data : Blocks \cup {NULL, "app"}]

(* Every variable keeps its type.                                           *)
TypeOK ==
  /\ state \in {"NONE", "CREATED", "CONNECTED", "DISCONNECTED", "FREED"}
  /\ config \in [pixel_format : Formats \cup {NULL}, encodings : BOOLEAN,
                 callbacks : SUBSET Callbacks]
  /\ transport \in {"none", "idle", "open"}
  /\ platform_init_count \in Nat
  /\ live \subseteq Resources
  /\ fb \in Framebuffers
  /\ capacity \in Int
  /\ pc \in {"app", "transport_connect", "negotiate", "initialization",
             "initial_messages", "message", "rects", "callback", "handled",
             "teardown", "crashed"}
  /\ api \in {"none", "process_message", "run"}
  /\ rects \in Nat
  /\ frame \in [name : Events \cup {NULL},
                then : {"app", "rects", "handled", "teardown"}]
  /\ ret \in {"OK", "NOMEM", "IO", "PROTOCOL", "CONNECTION_REFUSED",
              "TIMEOUT", "ENCODING_UNSUPPORTED"}
  /\ peer \in {"up", "gone"}
  /\ connects \in Nat
  /\ notified \in Nat
  /\ closedBy \in {"nobody", "app"}
  /\ damage \in {"none", "overrun"}

(* What the client object and the running call still hold a pointer to.     *)
Owned ==
  (IF state \in {"NONE", "FREED"} THEN {}
   ELSE Copies(config) \cup ({fb.data} \cap Blocks))
  \cup (IF transport = "none" THEN {} ELSE {"transport"})
  \cup (IF transport = "open" THEN {"socket"} ELSE {})

(* No allocation outlives its last pointer: whatever is allocated is still  *)
(* reachable, so that destroy, disconnect or the handler will free it       *)
(* ("Free framebuffer if we allocated it", ovnc_client.c:78).               *)
NoLeak == live \subseteq Owned \cup (IF pc = "callback" THEN {"tmp"} ELSE {})

(* Nothing is freed while the client can still use it or free it again: the *)
(* frees of create, connect's error paths, disconnect, a resize and destroy *)
(* never overlap.                                                           *)
NoDangling == Owned \subseteq live

(* Every ovnc__platform_init is undone exactly once, whichever path ends    *)
(* the connection (connect's three error paths, disconnect, teardown after  *)
(* the application has already disconnected, destroy).                      *)
PlatformBalanced == platform_init_count = IF transport = "none" THEN 0 ELSE 1

(* While connected, data_size is the product of the geometry, across        *)
(* resizes, format changes and the failures of either.                      *)
GeometryMatches ==
  state = "CONNECTED" => fb = Sized(fb)

(* While the session is in service the buffer is as large as data_size      *)
(* says: the bound checks of ovnc__decode_raw and the application's reads   *)
(* rely on data_size alone.                                                 *)
FramebufferBacked ==
  state = "CONNECTED" /\ ~Failing => fb.data_size <= capacity

(* What the library keeps after the session, for get_framebuffer, is backed *)
(* too, unless the application owns the memory.                             *)
LastPictureBacked ==
  state \in {"CONNECTED", "DISCONNECTED"} /\ ~AppAllocates
    => fb.data \in live /\ fb.data_size <= capacity

(* No received row is written past the end of the buffer, whatever the      *)
(* server sends between whatever resizes and format changes.                *)
NoOverrun == damage = "none"

Processing == pc \in {"message", "rects", "callback", "handled", "teardown"}
Handshaking == pc \in {"negotiate", "initialization", "initial_messages"}

(* The transport follows the state: connect's steps own one, a connected    *)
(* client has an open one, and everything else has none.                    *)
TransportMatchesState ==
  /\ pc = "transport_connect" => transport = "idle"
  /\ state = "CONNECTED" \/ Handshaking => transport = "open"
  /\ ~(state = "CONNECTED" \/ Handshaking \/ pc = "transport_connect")
       => transport = "none"

(* The message loop never receives on a transport that is gone              *)
(* (ovnc__recv_server_message and its handlers read client->transport again *)
(* after every callback).                                                   *)
TransportUsable == Receiving => transport = "open"

(* A session the application did not close itself is reported to it exactly *)
(* once, and one it closed is not reported.                                 *)
LossReportedOnce ==
  pc = "app" /\ state = "DISCONNECTED" /\ "disconnected" \in config.callbacks
    => notified = IF closedBy = "app" THEN 0 ELSE 1

(* Where the thread can be in each state, and what the framebuffer is       *)
(* before there is a session: with it, the invariants above are inductive.  *)
ThreadMatchesState ==
  /\ pc = "transport_connect" \/ Handshaking => state = "CREATED"
  /\ Processing => state \in {"CONNECTED", "DISCONNECTED"}
  /\ state = "NONE" => fb.data = NULL
  /\ pc = "initial_messages" => fb = Sized(fb)

(* A processing call that returns an error leaves no half-open session: the *)
(* client is disconnected and the server's side of it released.             *)
ErrorEndsSession ==
  [][(Processing /\ pc' = "app" /\ ret' # "OK")
       => (state' = "DISCONNECTED" /\ "socket" \notin live')]_vars

(* The callbacks and the life cycle follow the promise of ClientSession.    *)
Session == INSTANCE ClientSession WITH
             phase <- state, running <- frame.name, told <- notified > 0
SessionSpec == Session!Spec

(* Once the server is gone, ovnc_client_run does return, and leaves the     *)
(* client disconnected.                                                     *)
RunReturns ==
  (peer = "gone" /\ api = "run" /\ Processing)
    ~> (pc = "app" /\ state # "CONNECTED")
=============================================================================
