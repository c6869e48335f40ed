# libopenvnc in TLA+

A verification development for libopenvnc, a C11 RFB (VNC) client library
(`src/src`, public headers in `src/include/ovnc`). It models the client object
and what it allocates, the handshake, the exchange of updates with a server, the
wire formats, the sending of messages over a socket and the opening of a
connection. TLC checks the models on small instances; TLAPS proves every invariant,
action property and refinement of the passing runs for every value of the
constants, and leaves liveness to TLC.

## 1. The system

| Component | Source | State it keeps | Operations |
|---|---|---|---|
| Client object | `client/ovnc_client.c`, `ovnc_internal.h` | state, transport pointer, copies of the configuration, callbacks, `conn_info`, framebuffer | create, connect, disconnect, destroy, process_message, run, set_pixel_format, set_encodings, request_update, send_* |
| Handshake | `protocol/ovnc_handshake.c` | `conn_info`, framebuffer geometry and data | version, security, result, init, initial messages |
| Server messages | `protocol/ovnc_messages.c` 127-277 | temporary buffers | FramebufferUpdate, SetColorMapEntries, Bell, ServerCutText |
| Client messages | `protocol/ovnc_messages.c` 10-121 | none | SetPixelFormat, SetEncodings, update request, key, pointer, cut text |
| Rectangle decoding | `protocol/ovnc_encoding.c`, `ovnc_enc_raw.c` | framebuffer | Raw, DesktopSize, Cursor |
| Pixel format | `common/ovnc_pixel.c` | none | bytes per pixel, wire conversion |
| Transport | `transport/ovnc_transport.c` | the socket | create, connect, send, recv, close, destroy |
| POSIX sockets | `platform/ovnc_socket_posix.c` | `platform_init_count` | connect with timeout, send_all, recv_all, close |
| Win32 sockets | `platform/ovnc_socket_win32.c` | Winsock start-up | the same interface; all but start-up and close are stubs |
| Server API | `server/ovnc_server.c` | none | stubs |
| Error strings | `common/ovnc_error.c` | none | a table |
| Example | `examples/simple_client.c` | none | connects, asks for updates from its callback |

**Interactions.** The application calls the client object. `ovnc_client_connect`
creates a transport, connects it (address loop of the socket layer) and runs the
handshake over it. `ovnc_client_run` and `ovnc_client_process_message` receive one
message, hand it to its handler, which decodes rectangles into the framebuffer
and calls the application back, all in the same thread. A callback may call into
the client again. Every receive and every send reads `client->transport` anew.
`src/docs/api-design.md` allows other threads to send.

**Hard behaviours.** Callbacks that disconnect or change the pixel format in the
middle of a message; allocations that fail between two changes that belong
together; a failed connect that is retried; the server that stops at any byte; a
resize and a format change that both replace the framebuffer, while updates in
the old geometry or format may be under way; a message count and a field order
that depend on the negotiated version; partial sends and receives; two peers
that block sending to each other; threads that send at once or while the I/O
thread tears down; the address loop with its timeouts and its error paths. There is no persistence and
no retransmission, hence no crash recovery. `PROJECT.json` lists each hazard at
its line, with the properties that watch it or the reason why none does.

**What makes each component correct.** Client object: nothing leaks, nothing is
freed in use, state, transport and platform counter agree, a lost session is
reported once. Framebuffer: `data_size` fits geometry and memory, nothing is
written beyond it, and when an update is finished it shows what the server sent.
Handshake: both sides read each field as what it is, agree on
version and type, and connect reports what happened. Messages: they arrive whole
and in order. Connection: no descriptor leaks or is closed twice, time is
bounded. Wire formats: what is decoded is what was encoded. Updates: client and
server stay in step, nobody waits for ever, and the picture catches up.

## 2. The modules

| Module | Models | Role |
|---|---|---|
| `OvncClient` | client object, transport ownership, server messages, rectangles | detailed specification |
| `ClientSession` | what `ovnc_client.h` promises about life cycle and callbacks | abstract specification of `OvncClient` |
| `MCClient` | instances of `OvncClient` | five cfgs |
| `OvncClientProofs`, `OvncSessionProofs` | theorems about `OvncClient` | TLAPS |
| `OvncHandshake` | `ovnc_handshake.c` field by field against a server | checked directly, two cfgs |
| `OvncHandshakeProofs` | theorems about `OvncHandshake` | TLAPS |
| `Wire` | byte order, PIXEL_FORMAT and message layouts at their widths | operators, used by `ClientUpdates` |
| `WireProofs` | what the layouts preserve | TLAPS |
| `ClientUpdates` | a connected client, its application and its server | uses `Wire` |
| `MCUpdates` | applications, formats and sizes for it | two cfgs |
| `ClientUpdatesProofs` | theorems about Raw rectangles and pixel formats | TLAPS |
| `ClientPicturesProofs` | theorems about whole updates: sizes, waiting, lengths, pictures | TLAPS |
| `OvncStream` | senders, `send_all`, `recv_all` byte by byte | detailed specification |
| `MessageQueue` | a connection as a queue of whole messages | abstract specification of `OvncStream` |
| `MCStream` | instances of `OvncStream` | two cfgs |
| `OvncStreamProofs` | theorems about `OvncStream` | TLAPS |
| `SocketConnect` | `ovnc__socket_connect` system call by system call | checked directly, one cfg |
| `SocketConnectProofs` | theorems about `SocketConnect` | TLAPS |

`OvncClient` keeps connect's result of the lower layers nondeterministic
(`TransportConnect`, `Negotiate`); `SocketConnect` and `OvncHandshake` open these
steps. `ClientUpdates` begins where a successful connect ends, with the initial
messages on their way. Mutated forms of operators (`RowAccepted_Start` and so on, marked
"Mutant") stand before the operator they change. They are no part of the
specification; each shows that a property fails when the code has a plausible bug.

### OvncClient

One application thread and a server that sends any message in any order.
`pc` says where the thread is; `frame` is the running callback and the place its
return leads to. `live` is the set of things allocated and not freed: the parts
`create` allocates, transport and socket, the temporary buffer of a handler, and
the blocks `calloc` returned for pixel data. `fb` is `client->framebuffer`, and
`capacity` a ghost variable with the bytes really behind `fb.data`.

One action is one step between two points where the environment can act: a
receive, a callback, a return to the application. `DecodeRaw` is the whole
rectangle with the per-row bound check of `ovnc_enc_raw.c:17`. `Fail` is the error
path common to process_message and run. Connect is five actions, because a failure after each undoes
something else. `Fallible` selects the allocation sites that may fail,
`Closing` and `Reformatting` the callbacks in which the application disconnects
or sets the pixel format.

Abstracted: pixel values, names, texts and colours; the order in which
fields of one message are received (a receive that fails anywhere in it has one
effect). `OvncHandshake`'s results are reduced to one success and typical errors.

Excluded: callbacks that destroy the client or process messages recursively, and
calls into the library from `alloc_framebuffer`.

### OvncHandshake

The two byte streams are sequences of fields with kind and value. Every receive
of the client takes the next field whatever its kind, so a client that expects
another field than was sent is visible (`InStep`). The server name is one field
read in pieces, since its length decides the number of receives; `NameMax` and
`Chunk` stand for 256-byte arrays. The server follows
`src/docs/rfb-version-differences.md`, may announce any version or something that
is no version at all. The connection may break anywhere (`Vanish`): the server is
gone, and of the fields under way any number from the end is lost, the name
also in its middle. The reason text of
a refusal is one field; whether `malloc` for it succeeds does not change what is
reported. The client's allocations and both sources of the pixel format may fail.

### Wire and ClientUpdates

`Wire` has the read and write helpers of `ovnc_internal.h` on sequences of bytes,
with the widths they have, and the layouts built from them: PIXEL_FORMAT, the client's
messages whose contents matter to the server, the header of a rectangle, the
entries of a colour map.

`ClientUpdates` puts three parties together. The client is the code: its sending
calls and the message loop down to each rectangle (`DecodeRaw` with the offset,
the stride and the bound check of every row, `DecodeDesktopSize`, `DecodeCursor` with
the bytes it consumes). `fb.data` is one array of pixels, as in the code, so a row
at a wrong offset shows in a wrong place; `fb.format` is the format the client
believes in. A pixel that was stored in another format than it is read in is
"garbage", one that was never received "blank". The application is a set of
calls for `main` and for each callback; the example program is one
(`Example`), another reacts to everything at once (`Eager`), a third changes
format and encodings between updates (`Choosy`). The server is external: it keeps
the format and encodings it was told, the places asked for and those
it knows the client's picture not to show (`dirty`), sends what is asked and
dirty as one rectangle or row by row, resizes only for a client that said it
can follow, and neither reads nor computes while it writes. For pixels it uses any
encoding the client listed, or Raw, which need not be listed; before the resize of an update it may
draw the old screen. A rectangle in an encoding other than the three of `decode_rect`
(`Implemented`) stops the client as "unsupported", and a client that stops closes the
connection (`Connected`). The ghost `listed` holds every encoding the server was ever asked
for: one configuration lists ZRLE, as the example of `src/docs/api-design.md:698` does, which README.md of
the repository says is not implemented. `toServer` and `toClient`
are the two directions, of `Buffer` messages each; a full one blocks its sender.
Decoding a rectangle header or a message goes through `Wire`.

Abstracted: a message of the client is one item, a rectangle another with its
header, the number of its bytes and its pixels; the transfer of single bytes is
`OvncStream`'s, memory `OvncClient`'s (allocations succeed here). Requests are
those with a NULL rectangle.

What the two ends can rely on depends on the application, so the module names three
kinds of them, by the calls they make:

- `Patient` ones ask for an update with the last call of `main` and of
  framebuffer_update_finished and nowhere else, and send no more in between than
  the connection holds. The example program is one. `NoStandstill` and `CatchesUp` are about
  these.
- `Careful` ones are patient or never change the pixel format. RFB has no answer to
  SetPixelFormat, so a client that changes it with a request outstanding cannot tell
  in which format an update under way is, and `src/docs` promise nothing; the code applies the
  new format at once. `InStep` holds for applications of this kind whose lists of encodings are
  within 16 bits (`CountsFit`, since `ovnc__send_set_encodings` cuts the count).
- `Thorough` ones are careful and ask for the whole picture after a change of format, since the
  client then drops its pixels or keeps them in the old format, which the server does not know.
  `FinishedShows` holds for these.

`NeverRefused` has two halves. No rectangle is refused as out of bounds, for any application; and
one is refused for its encoding only if the application once listed an encoding the library
cannot decode, since nothing in `set_encodings` keeps it from doing so. `CatchesUp` is about
sessions in which it lists none.

`Patient` is part of two properties; the other two are hypotheses of theorems, and an ASSUME of
`MCUpdates` has TLC check that the checked applications satisfy them.

### OvncStream

A message is a header and perhaps a body, each passed to `ovnc__transport_send`
in one call (`ovnc__send_client_cut_text` is the sender with two). Bytes carry
whose they are. `SendSome` and `RecvSome` move any part of what is asked for.
`SendFails` is any error of `send()` but EINTR, at any moment, with the transport open or gone: the call
returns the error with its message sent in part (`Returned`), the client stays CONNECTED, and the
next call starts a message inside the truncated one. The ghost `failed` has the messages
whose call returned an error; `Framing` allows only these to be cut short, and in `MessageQueue` they
are not queued.
The receiving end is a `recv_all` loop as the client has it, standing for the peer's.
`Disconnect` is the teardown in another thread. A thread that reads a transport
which is gone has crashed.

### SocketConnect

One action per system call, the network's answer, a clock that ticks while
`poll()` or a blocking `connect()` waits, and other threads that open descriptors.
`waited` is the time of the running `poll()`, `elapsed` of all. `PollTimeout` is
the conversion `(int)timeout_ms`; `IntMax` stands for INT_MAX. F_GETFL and
F_SETFL are one step, since both failures leave the socket blocking. The ghost `ended` lists how
each address ended, so that `Honest` can say which of them the error is about: the last that was waited
for, and the initial CONNECTION_REFUSED if none was, also when `getaddrinfo()` or `socket()` failed.

## 3. Runs

| Run | Distinct states | Question |
|---|---|---|
| `client_disciplined` | 110 474 | Memory, framebuffer, session promise and return of `run`, with an application that disconnects only where a message is finished |
| `client_free` | 1 480 382 | What still holds with every allocation failing, any callback disconnecting and connect retried |
| `client_retry` | violation | Does a retried connect leak the first framebuffer? |
| `client_reformat` | violation | Is the buffer still large enough when set_pixel_format cannot allocate? |
| `client_close` | violation | May a callback disconnect in the middle of an update? |
| `handshake_all` | 331 968 | Versions, offers, names around the array bound, failures, a connection that breaks anywhere |
| `handshake_unknown` | violation | Is an unknown version treated as 3.3? |
| `stream_one` | 194 904 | One sender, partial transfers, errors of `send()`, disconnect |
| `stream_threads` | violation | Are messages of two threads kept apart, or is sending at least safe against the I/O thread's teardown? |
| `updates_all` | 1 184 546 | Do both ends stay in step, does the callback see what was sent, does nobody wait for ever, does the picture catch up? |
| `updates_resize` | violation | Does a resize keep the upper left part of the picture? |
| `socket_connect` | 2 086 332 | Descriptors, blocking mode, result and time of connecting |

### Bounds and why they are enough

- Client: dimensions and coordinates 0, 1, 2 give empty, fitting and overhanging
  rectangles, and resizes that grow and shrink; formats 8 and 16 differ in size,
  24 is refused by bytes_per_pixel. Two rectangles put one callback between two
  uses of the transport. Blocks: one more than can be live at a time, so a leak
  never blocks an allocation. A second connect is enough for what the first left.
- Handshake: minors 3, 5, 7, 8, 14 are every branch of the mapping and both kinds of
  unknown version; majors 3, 4, and the garbled greeting (1000). Name lengths are 0,
  below, at and just above the array, and rests of one chunk, less and more.
- Updates: screens of 1x2, 2x1 and 2x2 pixels have rows that end together and
  apart and shrink in one direction while they grow in the other. The four formats
  are of two sizes, two differ in nothing but their shifts (same size, other
  meaning), and one is refused by bytes_per_pixel. The cursor is nine pixels wide, so
  that its mask is padded. The encodings are none, three, and a list with ZRLE of 65535, the most
  a count of 16 bits can say. `Buffer = 2` is the least that holds
  the initial message of each configuration and the first request, and what
  an application of `Patient` sends between two updates; a smaller one lets both
  ends block before the first update. `MaxChanges = 2` changes of the screen
  allow a resize after a change, and a second resize before the first is
  shown. With 3 the applications of `Patient` keep every invariant as well (4.69
  million states). An application that does not wait, like `Eager`, reaches a
  standstill with 3: both ends block in a send, neither reads. This is why
  `NoStandstill` and `CatchesUp` are about those that wait.
- Stream: a message larger than the kernel's buffer, an empty body, three
  messages from one sender, requests of the reader longer and shorter than a message.
- SocketConnect: three addresses, so that an attempt has one before and one
  after; timeouts 0, 1, INT_MAX, and one beyond it. Two descriptors: one can be
  reused by another thread while the loop holds the other. The clock saturates
  above the longest bounded call (3 times 7).

### Fairness

- Client: the thread runs the library's own steps, callbacks return, and a receive
  fails once the server has closed (TCP reports it). A receive from a silent
  server blocks for ever; nothing is assumed about it, and create, connect and
  the application's calls need never happen.
- Handshake: both sides go on as long as they can. Without the server's fairness
  connect may block for ever, since no receive has a timeout.
- Stream: threads that are sending run (`Advance`), and the reader reads on. `send()` has to fail
  only on a socket that is closed; no other error need happen, and nobody has to
  begin a message.
- Updates: the client's thread goes on with its calls and with what it can
  receive, callbacks included, and the server reads, answers and writes as long as
  it can. The screen need never change, the bell never ring.
- SocketConnect: the thread runs and time passes. The network need not answer, a
  blocking `connect()` need not end, a signal need not arrive.

### What the runs found

1. `client_retry`: do_initialization overwrites `framebuffer.data`; when
   send_initial_messages fails, a second connect loses the first block
   (`ovnc_handshake.c:273`).
2. `client_reformat`: a failed reallocation in set_pixel_format leaves a connected
   client whose `data_size` is larger than its buffer (`ovnc_client.c:286`).
3. `client_close`: a callback of one rectangle disconnects and the next rectangle
   is received on a NULL transport (`ovnc_messages.c:138`).
4. `handshake_unknown`: 3.14 is taken for 3.8; the document says 3.3.
5. `stream_threads`: sending is documented as thread-safe; no lock keeps messages
   apart or the transport alive, and one execution breaks both
   (`ovnc_socket_posix.c:116`, `ovnc_client.c:139`).
6. `updates_resize`: decode_desktop_size clears the picture
   (`ovnc_encoding.c:28`), where `src/docs/rfb-protocol.md:753` says that its upper left
   part is kept. `CatchesUp` shows that the picture comes back all the same with a
   server that counts it as lost.

## 4. Proofs

The named assumptions of `OvncClient` say that dimensions and formats are
naturals, that NULL, blocks and the application's memory are different things, and that
the callback constants are sets of callbacks; those of `SocketConnect` that
timeouts are 32-bit in the sense of `IntMax` and that the invalid descriptor is
none; those of `OvncHandshake` that versions, types and sizes are naturals; those of
`ClientUpdates` that formats, sizes and calls have their types, that sizes fit the
16 bits of the wire, and that the initial messages fit in the connection, as they are all
under way when connect returns; those of `OvncStream`
that a message has a header. A theorem that needs more states it under ASSUME.

`OvncClientProofs`:

- `TypeCorrect`: `Spec => []TypeOK`.
- `ConsistencyHolds` (and, one by one, `PlatformIsBalanced`, `TransportFollowsState`,
  `GeometryIsMatched`, `ThreadFollowsState`): for every application and every failing
  allocation. Alone none is inductive: that a destroy frees nothing in
  use needs the transport to follow the state, which needs to know where the thread
  is in each state. `Consistent` is their conjunction; the step lemma has one
  step per action.
- `FramebufferIsBacked`, `RawStaysInside`: under the assumption that the
  reallocation of set_pixel_format does not fail (the `client_reformat` run shows why it
  is needed), the buffer is as large as `data_size` and no row leaves it. The
  inductive invariant `Backed` adds the framebuffer between do_initialization and
  the end of connect.

`OvncSessionProofs`:

- `TransportIsUsable`, `ImplementsSession`: if the application disconnects in none of
  the callbacks after which the handler receives again (`MidUpdate`), the loop never
  receives on a missing transport and the client implements `ClientSession`. The
  `client_close` run shows that the assumption is needed. `Disciplined` says where
  a callback returns to and in which state; with it every action maps to a step of
  `ClientSession` or to a stutter.
- `LossIsReportedOnce`, `ErrorsEndSession`: for every application. `Reported` counts
  the reports before, during and after the error path.
- `NothingLeaks`: for a client that is connected at most once
  (`client_retry` refutes it for two connects). `Accounted` adds that before the
  handshake no block stands behind the framebuffer that it could replace.
- `LastPictureIsBacked`: the picture that get_framebuffer still returns after a session,
  under the assumption of `FramebufferIsBacked`.

`OvncHandshakeProofs`:

- `HandshakeTypes`, `StaysInStep`, `HandsOver`, `NameSurvives`, `BlamesRightly` for every set of
  versions, types, names and buffer sizes, and `Agrees` if no server announces a minor
  version below 3 (the client answers 3.3 to an older one). All follow from one
  inductive invariant, `InPhase`: for each place where the client can be, what may
  be under way in each direction and where the server is then, intact or after the
  connection broke. It has one lemma per action, and `VanishStep` for the break.

`WireProofs`: the round trips of 16- and 32-bit values and of pixel formats
(`U16RoundTrip`, `FourBytesRoundTrip`, `FormatRoundTrip`), that any 16 bytes make a format
(`AnyFormat`), that colours are read from the received data only
(`ColorsFromData`), and what is left of a value the code cuts to fewer bits
(`RequestHeard`, `CountHeard`).

`ClientUpdatesProofs`:

- `InsideAccepted`, `StoredInPlace`: a Raw rectangle inside the framebuffer is never refused,
  changes the places it covers to its pixels and no others, for every size.
  They rest on `InRow`: an index belongs to one row and column only.
- `FormatsComeToAgree`: for every application, also one that changes the format with an
  update under way. The inductive invariant `Told` says that the server has the client's
  format, or the last message under way that sets one carries it; `FormatArrives`
  takes it through the bytes.

`ClientPicturesProofs`, about everything that is under way between server and client
(`Stream`, the items in the connection and those the server still has to write):

- `UpdatesTypes` and `NoRectRefused`, for every application, from `Fitting`, and for encodings `Known`: the
  encoding of every rectangle under way was once listed or is implemented. That a rectangle
  is accepted depends on the size the framebuffer will have when it is decoded, after the
  resizes in front of it. `Sizing(G)` is a run of sizes along the stream, from the client's
  at its head to the server's at its end; each item fits the size before it, and an update
  ends at the size of the screen it shows. A new item extends the run, a decoded
  one takes its head off. An update has its resize at any place (`Updates(items, stale, d)`, with d the
  place): rectangles before it fit the old size, those after it the new one.
- `NeverStandsStill`, from `Phases`. An application that waits has one request: still to be
  called, on its way, heard or being answered. `Waiting` says that these exclude each other
  and how much room is left to the client; `Belonging` that every rectangle under way
  belongs to an update, so that the client never waits for one that does not come.
- `BothInStep`, for `Careful` applications with `CountsFit`, from `Matched`. The
  length of a rectangle is right if server and client mean the same format, which holds for
  the rectangles under way because the server hears of a new format before it is asked again
  (`ToldFirst`), and with a patient application there is none under way when it changes.
- `FinishedPictures`, for `Thorough` applications with `CountsFit`, from `Painted`. `Painting(P)` is
  again a run along the stream: what the picture will show after each item, place by place, as far
  as it is known. What the server believes the client to show (all but
  `dirty`) is what the last one shows; at the end of an update it is the screen at the time of the
  update, but for `stale`. A change of format is paid for by the whole request that
  follows it (`AsksAll`, `Settled`, `Current`). A client that stopped draws nothing more, so nothing is said of it.

The four build on each other: `Painted` needs the formats of `Matched`, that needs the order of
events of `Phases`, and all need the sizes of `Fitting`. What they are proved for, TLC finds to hold in
`updates_all`.

`OvncStreamProofs`:

- `StreamTypes` for any number of senders; `OneSenderFrames` for one, with any shapes of
  messages, any partial transfers, and errors of `send()` and a disconnect at any moment. The inductive
  invariant `InFrame` adds to the framing of the stream that its end is where the
  sender goes on, or the middle of a message in `failed`.
- `ImplementsQueue`: the refinement of `MessageQueue`, for any number of senders, step by step:
  a send() that takes the last byte of a message is `Send`, a completed recv_all
  is `Deliver` of the messages that end in it, if any, a call that fails is `Fail`, and all else stutters. `Whole` maps bytes to messages
  by the rank of their ends; `WholeConcat`, which says that it distributes over
  concatenation, rests on the enumeration of a finite set of numbers in order (`Ranks`, `Enumerated`,
  `InOrder`).
- `DeliveredInSequence`: a consequence for the reader. Of every sender the messages
  1, 2, ... end in this order, each once and without those whose call returned an error, also when several
  threads send and their bytes mix. The invariant `Tally` counts what is delivered and in the queue.

`SocketConnectProofs`:

- `ConnectTypes`, and `NoDescriptorLeak` from `Linked`, which says what the loop knows of
  its socket at each system call; the theorem also has `ReadyWhenDone`.
- `NothingOfOthersCloses`: the action property `OthersUntouched`, from the same
  invariant.
- `CallWithinTimeout`: the waits of a call sum to at most timeout times addresses. The
  inductive invariant `Timed` accounts one timeout to each attempt that is over.
- `FailureIsHonest`: a failed connect has tried every address and reports how the last one it
  waited for ended. `Founded` ties `err` to `ended` all along the loop.

Only model-checked: liveness (`RunReturns`, `HandshakeEnds`, `SendsEnd`, `Returns`, `CatchesUp`),
which needs fairness and ENABLED and is out of the prover's reach.

## 5. Not modelled

- The Win32 sockets: connect, send_all and recv_all are stubs that return
  OVNC_ERR_NOT_IMPLEMENTED, so there is no connection whose behaviour could be modelled;
  real are a counted start-up and closesocket.
- SIGPIPE: `send()` is called with flags 0, so on a connection the peer has reset the
  signal ends the process unless the application ignores it. The models have no signals; `send()`
  returns its error.
- Bytes that a reset drops from the kernel's buffers. They are the end of the stream, so that less of it
  arrives, as when the reader stops.
- Servers other than those described in section 2: ones that break the protocol (`OvncClient` has these, as far as
  memory and life cycle go), resize twice in one update, draw the old screen before a resize in more than one
  rectangle or colour, or mix encodings within one answer. The contents of encodings the library has no
  decoder for are nothing but their number.
- The server API: stubs without behaviour. The error table: a constant.
- The unit tests; `Wire` and its theorems state the same for all values.
- The fields of key, pointer and cut-text messages, which are passed on unread, and
  requests for a part of the framebuffer.
- Several clients in one process, and with them races on `platform_init_count`.
  On POSIX nothing depends on the counter; `PlatformBalanced` shows that every
  client counts and uncounts itself once.
- `conn_info` after the handshake, which the library does not read again.
- The getters, `set_user_data`, callbacks that destroy the client or process messages
  recursively.
- Builds whose `size_t` has 32 bits, where `length + 1` of a cut text can wrap.

## 6. What could follow

1. A model of `platform_init_count` with several clients, once the Win32 sockets do
   more than count.
2. `OvncStream` with both directions byte by byte; `ClientUpdates` has them message
   by message.
