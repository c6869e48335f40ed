---------------------------- MODULE OvncSessionProofs ----------------------------
(***************************************************************************)
(* What OvncClient promises about sessions: it implements ClientSession,   *)
(* it receives on an open transport only, it reports a loss exactly once,  *)
(* and it ends with a session what belongs to it.                          *)
(***************************************************************************)
EXTENDS OvncClientProofs

USE DimsAssumption, FormatsAssumption, BoundsAssumption, SitesAssumption,
    CallbacksAssumption, NullAssumption, BlocksAssumption

(* The callbacks after which the handler of FramebufferUpdate goes on to    *)
(* receive the next rectangle.                                              *)
MidUpdate == {"framebuffer_update", "cursor_update", "desktop_resize"}

(* Where the thread is and what was reported, when the application does not *)
(* disconnect from one of these.                                            *)
Disciplined ==
  /\ pc # "callback" => frame.name = NULL
  /\ pc = "callback" => frame.name \in Events /\ frame.then # "app"
  /\ pc \in {"message", "rects"} => state = "CONNECTED"
  /\ pc = "callback" /\ frame.then = "rects"
       => state = "CONNECTED" /\ frame.name \in MidUpdate
  /\ notified > 0 => Failing \/ state \in {"DISCONNECTED", "FREED"}

LEMMA DisciplinedStep ==
  ASSUME TypeOK, Consistent, Disciplined, [Next]_vars,
         Closing \cap MidUpdate = {}
  PROVE  Disciplined'
<1> USE DEF Disciplined, MidUpdate, Events, Callbacks, Failing
<1>0. /\ notified \in Nat /\ frame \in [name : Events \cup {NULL},
                                        then : {"app", "rects", "handled", "teardown"}]
      /\ ThreadMatchesState /\ TransportMatchesState
  BY DEF TypeOK, Consistent
<1>1. CASE Create \/ Connect
  BY <1>0, <1>1 DEF Create, Connect, MayConnect, ThreadMatchesState, Processing,
     Handshaking, ghosts
<1>2. CASE TransportConnect \/ Negotiate \/ SendInitialMessages
  BY <1>0, <1>2 DEF TransportConnect, Negotiate, SendInitialMessages,
     ConnectFailed, ThreadMatchesState, Processing, Handshaking, ghosts, object
<1>3. CASE DoInitialization
  BY <1>0, <1>3 DEF DoInitialization, ConnectFailed, ThreadMatchesState,
     Processing, Handshaking, ghosts, object
<1>4. CASE AppDisconnect
  BY <1>0, <1>4 DEF AppDisconnect, InApp, Disconnect
<1>5. CASE Destroy
  BY <1>0, <1>5 DEF Destroy, control, ghosts
<1>6. CASE StartProcessing \/ HandleFbUpdate
  BY <1>0, <1>6 DEF StartProcessing, HandleFbUpdate, CanReceive, object, ghosts
<1>7. CASE HandleBell \/ HandleColorMapEntries \/ HandleServerCutText
           \/ UpdateFinished
  BY <1>0, <1>7 DEF HandleBell, HandleColorMapEntries, HandleServerCutText,
     UpdateFinished, Invoke, CanReceive, object, ghosts
<1>8. CASE \/ ReceiveFails \/ UnknownMessage \/ OutOfMemory
           \/ UnsupportedEncoding
  BY <1>0, <1>8 DEF ReceiveFails, Receiving, UnknownMessage, OutOfMemory,
     UnsupportedEncoding, RectStarts, CanReceive, Fail, Invoke, object
<1>9. CASE ReceiveOnNull
  BY <1>0, <1>9 DEF ReceiveOnNull, Receiving, TransportMatchesState
<1>10. CASE DecodeRaw
  BY <1>0, <1>10 DEF DecodeRaw, RectStarts, RectDone, CanReceive, Fail, Invoke,
     object
<1>11. CASE DecodeDesktopSize
  BY <1>0, <1>11 DEF DecodeDesktopSize, RectStarts, RectDone, CanReceive, Fail,
     Invoke, object
<1>12. CASE DecodeCursor
  BY <1>0, <1>12 DEF DecodeCursor, RectStarts, RectDone, CanReceive, Invoke,
     object, ghosts
<1>13. CASE CallbackReturn
  BY <1>0, <1>13 DEF CallbackReturn, object, ghosts
<1>14. CASE MessageHandled
  BY <1>0, <1>14 DEF MessageHandled, object, ghosts
<1>15. CASE Teardown
  BY <1>0, <1>15 DEF Teardown, Disconnect, ghosts, ThreadMatchesState, Processing
<1>16. CASE SetPixelFormat \/ ServerCloses \/ UNCHANGED vars
  BY <1>0, <1>16 DEF SetPixelFormat, ServerCloses, vars, object, control, ghosts
<1> QED
  BY NextCases, <1>1, <1>2, <1>3, <1>4, <1>5, <1>6, <1>7, <1>8, <1>9, <1>10,
     <1>11, <1>12, <1>13, <1>14, <1>15, <1>16

LEMMA DisciplinedInit == Init => Disciplined
BY DEF Init, Disciplined, Failing

(* The message loop never receives on a transport that is gone, if the      *)
(* application disconnects from no callback in the middle of an update.     *)
THEOREM TransportIsUsable ==
  ASSUME Closing \cap MidUpdate = {}
  PROVE  Spec => []TransportUsable
<1>1. TypeOK /\ Consistent /\ Disciplined /\ [Next]_vars => Disciplined'
  BY DisciplinedStep
<1>2. Consistent /\ Disciplined => TransportUsable
  BY DEF Consistent, TransportMatchesState, Disciplined, TransportUsable,
     Receiving
<1>3. TypeOK /\ TypeOK' /\ Consistent /\ [Next]_vars => Consistent'
  BY ConsistentStep
<1> QED
  BY <1>1, <1>2, <1>3, ConsistentInit, DisciplinedInit, TypeCorrect, PTL
  DEF Spec

-----------------------------------------------------------------------------
(* The implementation of ClientSession.                                     *)

(* Every step of the client is a step of the session or a stutter of it.    *)
LEMMA SessionStep ==
  ASSUME TypeOK, TypeOK', Consistent, Consistent', Disciplined, Disciplined',
         [Next]_vars
  PROVE  [Session!Next]_Session!vars
<1> USE DEF Session!vars
<1>0. /\ notified \in Nat /\ notified' \in Nat
      /\ frame \in [name : Events \cup {NULL},
                    then : {"app", "rects", "handled", "teardown"}]
      /\ NULL \notin Events /\ "disconnected" \in Events
  BY DEF TypeOK, Events, Callbacks
<1>1. CASE Create
  BY <1>0, <1>1 DEF Create, ghosts, Session!Next, Session!Create
<1>2. CASE Connect \/ TransportConnect \/ Negotiate \/ DoInitialization
  BY <1>2 DEF Connect, TransportConnect, Negotiate, DoInitialization,
     ConnectFailed, object, ghosts
<1>3. CASE SendInitialMessages
  <2>1. state = "CREATED"
    BY <1>3 DEF SendInitialMessages, Consistent, ThreadMatchesState,
       Handshaking
  <2> QED
    BY <1>3, <2>1 DEF SendInitialMessages, ConnectFailed, ghosts,
       Session!Next, Session!Open
<1>4. CASE AppDisconnect
  BY <1>4 DEF AppDisconnect, Disconnect, Session!Next, Session!Close
<1>5. CASE Destroy
  BY <1>5 DEF Destroy, control, ghosts, Disciplined, Session!Next, Session!Free
<1>6. CASE StartProcessing \/ HandleFbUpdate \/ MessageHandled
  BY <1>6 DEF StartProcessing, HandleFbUpdate, MessageHandled, object, ghosts
<1>7. ASSUME pc \in {"message", "rects"}
      PROVE  /\ state = "CONNECTED" /\ frame.name = NULL
             /\ notified = 0
  BY <1>0, <1>7 DEF Disciplined, Failing
<1>8. ASSUME NEW callback \in Events \ {"disconnected"}, NEW then,
             pc \in {"message", "rects"}, Invoke(callback, then),
             UNCHANGED <<object, notified>>
      PROVE  [Session!Next]_Session!vars
  BY <1>0, <1>7, <1>8 DEF Invoke, object, Session!Next, Session!Deliver
<1>9. ASSUME NEW err, pc \in {"message", "rects"}, Fail(err), UNCHANGED object
      PROVE  [Session!Next]_Session!vars
  <2>1. CASE "disconnected" \in config.callbacks
    BY <1>0, <1>7, <1>9, <2>1 DEF Fail, Invoke, object, Session!Next,
       Session!Deliver
  <2>2. CASE "disconnected" \notin config.callbacks
    BY <1>0, <1>7, <1>9, <2>2 DEF Fail, Invoke, object
  <2> QED
    BY <2>1, <2>2
<1>10. CASE HandleBell \/ HandleColorMapEntries \/ HandleServerCutText
            \/ UpdateFinished
  BY <1>8, <1>10 DEF HandleBell, HandleColorMapEntries, HandleServerCutText,
     UpdateFinished, CanReceive, ghosts, Events, Callbacks
<1>11. CASE \/ ReceiveFails \/ UnknownMessage \/ OutOfMemory
            \/ UnsupportedEncoding
  BY <1>9, <1>11 DEF ReceiveFails, Receiving, UnknownMessage, OutOfMemory,
     UnsupportedEncoding, RectStarts, CanReceive
<1>12. CASE ReceiveOnNull
  BY <1>12 DEF ReceiveOnNull, object, ghosts
<1>13. CASE DecodeRaw \/ DecodeDesktopSize \/ DecodeCursor
  BY <1>8, <1>9, <1>13 DEF DecodeRaw, DecodeDesktopSize, DecodeCursor,
     RectStarts, CanReceive, RectDone, ghosts, Events, Callbacks
<1>14. CASE CallbackReturn
  BY <1>0, <1>14 DEF CallbackReturn, object, ghosts, Disciplined,
     Session!Next, Session!Return
<1>15. CASE Teardown
  BY <1>15 DEF Teardown, Disconnect, ghosts, Session!Next, Session!Close
<1>16. CASE SetPixelFormat \/ ServerCloses \/ UNCHANGED vars
  BY <1>16 DEF SetPixelFormat, ServerCloses, vars, object, control, ghosts
<1> QED
  BY NextCases, <1>1, <1>2, <1>3, <1>4, <1>5, <1>6, <1>10, <1>11, <1>12,
     <1>13, <1>14, <1>15, <1>16

(* The client implements the promise of ClientSession: one life, at most one *)
(* connection in it, callbacks one at a time and within it, and none after   *)
(* the news of its loss, if the application disconnects from no callback in  *)
(* the middle of an update.                                                  *)
THEOREM ImplementsSession ==
  ASSUME Closing \cap MidUpdate = {}
  PROVE  Spec => SessionSpec
<1>1. Init => Session!Init
  BY DEF Init, Session!Init
<1>2. TypeOK /\ Consistent /\ Disciplined /\ [Next]_vars => Disciplined'
  BY DisciplinedStep
<1>3. TypeOK /\ TypeOK' /\ Consistent /\ Consistent' /\ Disciplined
        /\ Disciplined' /\ [Next]_vars => [Session!Next]_Session!vars
  BY SessionStep
<1>4. TypeOK /\ TypeOK' /\ Consistent /\ [Next]_vars => Consistent'
  BY ConsistentStep
<1> QED
  BY <1>1, <1>2, <1>3, <1>4, ConsistentInit, DisciplinedInit, TypeCorrect, PTL
  DEF Spec, SessionSpec, Session!Spec

-----------------------------------------------------------------------------
(* What the application is told of the end of a session, and what the end   *)
(* of a failed one releases: for every application.                         *)

(* How often the loss has been reported, before, during and after it; and   *)
(* which steps the failing call still has to take.                          *)
Reported ==
  /\ state \notin {"DISCONNECTED", "FREED"} /\ ~Failing
       => notified = 0 /\ closedBy = "nobody"
  /\ Failing => /\ closedBy = "nobody"
                /\ notified = IF "disconnected" \in config.callbacks THEN 1
                                                                     ELSE 0
  /\ state = "DISCONNECTED" /\ ~Failing /\ "disconnected" \in config.callbacks
       => notified = IF closedBy = "app" THEN 0 ELSE 1
  /\ pc = "callback" => frame.then # "app"
  /\ "socket" \in live => transport = "open"

LEMMA ReportedStep ==
  ASSUME TypeOK, Consistent, Reported, [Next]_vars
  PROVE  Reported'
<1> USE DEF Reported, Failing
<1>0. /\ notified \in Nat
      /\ frame \in [name : Events \cup {NULL},
                    then : {"app", "rects", "handled", "teardown"}]
      /\ "socket" \notin Blocks
      /\ ThreadMatchesState /\ TransportMatchesState
  BY DEF TypeOK, Consistent, Parts
<1>1. CASE Create
  BY <1>0, <1>1 DEF Create, Copies, AllocatedBefore, ThreadMatchesState,
     Processing, ghosts
<1>2. CASE Connect
  BY <1>0, <1>2 DEF Connect, MayConnect, TransportMatchesState,
     ThreadMatchesState, Processing, Handshaking, ghosts
<1>3. CASE TransportConnect \/ Negotiate \/ SendInitialMessages
  BY <1>0, <1>3 DEF TransportConnect, Negotiate, SendInitialMessages,
     ConnectFailed, Released, ThreadMatchesState, Processing, Handshaking,
     ghosts, object
<1>4. CASE DoInitialization
  BY <1>0, <1>4 DEF DoInitialization, ConnectFailed, Released,
     ThreadMatchesState, Processing, Handshaking, ghosts, object
<1>5. CASE AppDisconnect
  BY <1>0, <1>5 DEF AppDisconnect, InApp, Disconnect, Released
<1>6. CASE Destroy
  BY <1>0, <1>6 DEF Destroy, Released, TransportMatchesState, Handshaking,
     control, ghosts
<1>7. CASE StartProcessing \/ HandleFbUpdate \/ MessageHandled \/ ReceiveOnNull
  BY <1>0, <1>7 DEF StartProcessing, HandleFbUpdate, MessageHandled,
     ReceiveOnNull, Receiving, CanReceive, object, ghosts
<1>8. CASE HandleBell \/ HandleColorMapEntries \/ HandleServerCutText
           \/ UpdateFinished \/ DecodeCursor
  BY <1>0, <1>8 DEF HandleBell, HandleColorMapEntries, HandleServerCutText,
     UpdateFinished, DecodeCursor, RectStarts, RectDone, Hold, Invoke,
     CanReceive, object, ghosts
<1>9. ASSUME pc \in {"message", "rects"}, transport # "none"
      PROVE  /\ state = "CONNECTED" /\ transport = "open" /\ ~Failing
             /\ notified = 0 /\ closedBy = "nobody"
  BY <1>0, <1>9 DEF TransportMatchesState, Handshaking
<1>10. CASE \/ ReceiveFails \/ UnknownMessage \/ OutOfMemory
            \/ UnsupportedEncoding
  BY <1>0, <1>9, <1>10 DEF ReceiveFails, Receiving, UnknownMessage,
     OutOfMemory, UnsupportedEncoding, RectStarts, CanReceive, Fail, Invoke,
     object
<1>11. CASE DecodeRaw
  BY <1>0, <1>9, <1>11 DEF DecodeRaw, RectStarts, RectDone, CanReceive, Fail,
     Invoke, object
<1>12. CASE DecodeDesktopSize
  BY <1>0, <1>9, <1>12 DEF DecodeDesktopSize, Replace, RectStarts, RectDone,
     CanReceive, Fail, Invoke, object
<1>13. CASE CallbackReturn
  BY <1>0, <1>13 DEF CallbackReturn, object, ghosts
<1>14. CASE Teardown
  BY <1>0, <1>14 DEF Teardown, Disconnect, Released, ThreadMatchesState,
     Processing, ghosts
<1>15. CASE SetPixelFormat
  BY <1>0, <1>15 DEF SetPixelFormat, Replace, object, control, ghosts
<1>16. CASE ServerCloses \/ UNCHANGED vars
  BY <1>0, <1>16 DEF ServerCloses, vars, object, control, ghosts
<1> QED
  BY NextCases, <1>1, <1>2, <1>3, <1>4, <1>5, <1>6, <1>7, <1>8, <1>10, <1>11,
     <1>12, <1>13, <1>14, <1>15, <1>16

LEMMA ReportedInit == Init => Reported
BY DEF Init, Reported, Failing

(* However a session ends, the application is told of it exactly once if it  *)
(* did not close the session itself, and not at all if it did.               *)
THEOREM LossIsReportedOnce == Spec => []LossReportedOnce
<1>1. TypeOK /\ Consistent /\ Reported /\ [Next]_vars => Reported'
  BY ReportedStep
<1>2. Reported => LossReportedOnce
  BY DEF Reported, LossReportedOnce, Failing
<1>3. TypeOK /\ TypeOK' /\ Consistent /\ [Next]_vars => Consistent'
  BY ConsistentStep
<1> QED
  BY <1>1, <1>2, <1>3, ConsistentInit, ReportedInit, TypeCorrect, PTL DEF Spec

(* A processing call returns from two places only: with OK when a message    *)
(* was handled, and with an error behind the teardown.                       *)
LEMMA ReturnStep ==
  ASSUME TypeOK, Consistent, Reported, [Next]_vars,
         Processing, pc' = "app", ret' # "OK"
  PROVE  state' = "DISCONNECTED" /\ "socket" \notin live'
<1> USE DEF Processing
<1>1. pc # "app" /\ frame.then \in {"app", "rects", "handled", "teardown"}
  BY DEF TypeOK
<1>2. CASE Teardown
  <2>1. state \in {"CONNECTED", "DISCONNECTED"}
    BY <1>2 DEF Teardown, Consistent, ThreadMatchesState
  <2>2. state = "DISCONNECTED" => "socket" \notin live
    BY <1>2 DEF Teardown, Consistent, TransportMatchesState, Handshaking,
       Reported
  <2> QED
    BY <1>2, <2>1, <2>2 DEF Teardown, Disconnect, Released
<1>3. CASE MessageHandled
  BY <1>3 DEF MessageHandled
<1>4. CASE CallbackReturn
  BY <1>4 DEF CallbackReturn, Reported
<1>5. ~(\/ Connect \/ TransportConnect \/ Negotiate \/ DoInitialization
        \/ SendInitialMessages \/ Destroy \/ StartProcessing)
  BY <1>1 DEF Connect, TransportConnect, Negotiate, DoInitialization,
     SendInitialMessages, Destroy, StartProcessing
<1>6. ~(\/ Create \/ AppDisconnect \/ SetPixelFormat \/ ServerCloses
        \/ UNCHANGED vars)
  BY <1>1 DEF Create, AppDisconnect, SetPixelFormat, ServerCloses, vars, control
<1>7. ~(\/ ReceiveFails \/ ReceiveOnNull \/ UnknownMessage \/ OutOfMemory
        \/ HandleBell \/ HandleColorMapEntries \/ HandleServerCutText
        \/ HandleFbUpdate \/ UpdateFinished \/ DecodeCursor
        \/ UnsupportedEncoding)
  BY DEF ReceiveFails, ReceiveOnNull, UnknownMessage, OutOfMemory, HandleBell,
     HandleColorMapEntries, HandleServerCutText, HandleFbUpdate,
     UpdateFinished, DecodeCursor, RectDone, UnsupportedEncoding, Fail, Invoke
<1>8. ~(DecodeRaw \/ DecodeDesktopSize)
  BY DEF DecodeRaw, DecodeDesktopSize, RectDone, Fail, Invoke
<1> QED
  BY NextCases, <1>2, <1>3, <1>4, <1>5, <1>6, <1>7, <1>8

(* A processing call that returns an error leaves the client disconnected    *)
(* and its socket closed, whatever the callbacks did meanwhile.              *)
THEOREM ErrorsEndSession == Spec => ErrorEndsSession
<1>1. TypeOK /\ Consistent /\ Reported /\ [Next]_vars
        => [(Processing /\ pc' = "app" /\ ret' # "OK")
              => (state' = "DISCONNECTED" /\ "socket" \notin live')]_vars
  BY ReturnStep
<1>2. TypeOK /\ Consistent /\ Reported /\ [Next]_vars => Reported'
  BY ReportedStep
<1>3. TypeOK /\ TypeOK' /\ Consistent /\ [Next]_vars => Consistent'
  BY ConsistentStep
<1> QED
  BY <1>1, <1>2, <1>3, ConsistentInit, ReportedInit, TypeCorrect, PTL
  DEF Spec, ErrorEndsSession

-----------------------------------------------------------------------------
(* The memory of the picture.                                               *)

(* Nothing is allocated that has no owner, and before the one handshake of   *)
(* the client there is no block that its framebuffer could replace.          *)
Accounted ==
  /\ NoLeak
  /\ AppAllocates => fb.data \notin Blocks
  /\ connects = 0 => pc = "app" /\ state # "CONNECTED"
  /\ connects = 0 \/ pc \in {"transport_connect", "negotiate", "initialization"}
       => fb.data \notin Blocks

(* The data of a shape the operations announce is what it was, or new.       *)
LEMMA ShapeData ==
  ASSUME TypeOK
  PROVE  /\ \A w, h \in Dims : Resized(w, h).data = fb.data
         /\ \A f \in Formats : Reformatted(f).data = fb.data
         /\ \A w, h \in Dims, f \in Formats :
              /\ Announced(w, h, f).data = fb.data
              /\ Sized(Announced(w, h, f)).data = fb.data
<1>1. /\ \A w, h \in Dims : [fb EXCEPT !.width = w, !.height = h].data = fb.data
      /\ \A f \in Formats : [fb EXCEPT !.bits = f].data = fb.data
      /\ \A w, h \in Dims, f \in Formats : Announced(w, h, f).data = fb.data
  BY DEF TypeOK, Framebuffers, Announced
<1>2. /\ \A w, h \in Dims : [fb EXCEPT !.width = w, !.height = h] \in Framebuffers
      /\ \A f \in Formats : [fb EXCEPT !.bits = f] \in Framebuffers
  BY DEF TypeOK, Framebuffers
<1>3. \A shape \in Framebuffers : Sized(shape).data = shape.data
  BY DEF Sized, Framebuffers
<1>4. \A w, h \in Dims, f \in Formats :
        Sized(Announced(w, h, f)).data = Announced(w, h, f).data
  BY <1>3, ShapeTypes
<1>5. \A w, h \in Dims : Resized(w, h).data = fb.data
  BY <1>1, <1>2, <1>3 DEF Resized
<1>6. \A f \in Formats : Reformatted(f).data = fb.data
  BY <1>1, <1>2, <1>3 DEF Reformatted
<1> QED
  BY <1>1, <1>4, <1>5, <1>6

LEMMA ReplaceData ==
  ASSUME NEW d, NEW shape \in Framebuffers, Replace(d, shape)
  PROVE  /\ fb' \in [width : Nat, height : Nat, bits : Nat, data_size : Int,
                     data : {d}]
         /\ fb'.data = d /\ fb'.data_size = capacity' /\ capacity' \in Int
BY DEF Replace, Framebuffers

LEMMA AccountedStep ==
  ASSUME TypeOK, TypeOK', Consistent, Accounted, [Next]_vars, MaxConnects <= 1
  PROVE  Accounted'
<1> USE DEF Accounted, NoLeak, Owned, AppAllocates
<1>0. /\ connects \in Nat /\ NULL \notin Blocks /\ "app" \notin Blocks
      /\ Blocks \cap Parts = {}
      /\ ThreadMatchesState /\ TransportMatchesState
  BY DEF TypeOK, Consistent
<1>1. CASE Create
  BY <1>0, <1>1 DEF Create, Copies, AllocatedBefore, FreedOnFailureOf,
     ThreadMatchesState, TransportMatchesState, Processing, Handshaking, picture
<1>2. CASE Connect
  BY <1>0, <1>2 DEF Connect, MayConnect, TransportMatchesState, Handshaking,
     picture
<1>3. CASE TransportConnect \/ Negotiate \/ SendInitialMessages
  BY <1>0, <1>3 DEF TransportConnect, Negotiate, SendInitialMessages,
     ConnectFailed, Released, ThreadMatchesState, Handshaking, picture, object
<1>4. CASE DoInitialization
  <2>1. CASE UNCHANGED picture /\ ConnectFailed("IO")
    BY <1>0, <1>4, <2>1 DEF DoInitialization, ConnectFailed, Released,
       ThreadMatchesState, picture
  <2>2. ASSUME NEW w \in Dims, NEW h \in Dims, NEW f \in Formats,
               \/ /\ fb' = Announced(w, h, f)
                  /\ ConnectFailed("PROTOCOL")
               \/ /\ fb' = [Sized(Announced(w, h, f)) EXCEPT
                              !.data = IF AppAllocates THEN @ ELSE NULL]
                  /\ ConnectFailed("NOMEM")
        PROVE  Accounted'
    <3>1. fb'.data \in {fb.data, NULL}
      BY <2>2, ShapeData, ShapeTypes, SizedType DEF Framebuffers
    <3> QED
      BY <1>0, <1>4, <2>2, <3>1 DEF DoInitialization, ConnectFailed, Released,
         ThreadMatchesState, Handshaking
  <2>3. ASSUME NEW w \in Dims, NEW h \in Dims, NEW f \in Formats,
               NEW d \in NewData,
               fb' = [Sized(Announced(w, h, f)) EXCEPT !.data = d],
               live' = live \cup ({d} \cap Blocks),
               pc' = "initial_messages",
               UNCHANGED <<object, connects>>
        PROVE  Accounted'
    <3>1. fb'.data = d
      BY <2>3, ShapeTypes, SizedType DEF Framebuffers
    <3>2. state = "CREATED" /\ pc = "initialization" /\ fb.data \notin Blocks
      BY <1>0, <1>4 DEF DoInitialization, ThreadMatchesState, Handshaking
    <3>3. NoLeak'
      BY <2>3, <3>1, <3>2 DEF object
    <3>4. AppAllocates' => fb'.data \notin Blocks
      BY <1>0, <2>3, <3>1 DEF NewData, object
    <3> QED
      BY <2>3, <3>2, <3>3, <3>4
  <2> QED
    BY <1>4, <2>1, <2>2, <2>3 DEF DoInitialization
<1>5. CASE AppDisconnect
  BY <1>0, <1>5 DEF AppDisconnect, InApp, Disconnect, Released, picture,
     ThreadMatchesState, TransportMatchesState
<1>6. CASE Destroy
  BY <1>0, <1>6 DEF Destroy, Released, TransportMatchesState, Handshaking,
     picture, control
<1>7. CASE StartProcessing \/ HandleFbUpdate \/ MessageHandled \/ ReceiveOnNull
  BY <1>0, <1>7 DEF StartProcessing, HandleFbUpdate, MessageHandled,
     ReceiveOnNull, Receiving, CanReceive, object, picture
<1>8. CASE HandleBell \/ HandleColorMapEntries \/ HandleServerCutText
           \/ UpdateFinished \/ DecodeCursor
  BY <1>0, <1>8 DEF HandleBell, HandleColorMapEntries, HandleServerCutText,
     UpdateFinished, DecodeCursor, RectStarts, RectDone, Hold, Invoke,
     CanReceive, object, picture
<1>9. CASE \/ ReceiveFails \/ UnknownMessage \/ OutOfMemory
           \/ UnsupportedEncoding \/ DecodeRaw
  BY <1>0, <1>9 DEF ReceiveFails, Receiving, UnknownMessage, OutOfMemory,
     UnsupportedEncoding, DecodeRaw, RectStarts, RectDone, CanReceive, Fail,
     Invoke, object, picture
<1>10. CASE DecodeDesktopSize
  <2>1. PICK w \in Dims, h \in Dims :
          \/ \E d \in NewData : Replace(d, Resized(w, h))
          \/ fb' = NotResized(w, h) /\ UNCHANGED live
    BY <1>10 DEF DecodeDesktopSize
  <2>2. /\ pc = "rects" /\ UNCHANGED <<object, connects>>
        /\ pc' \in {"rects", "callback", "teardown"}
    BY <1>10 DEF DecodeDesktopSize, RectStarts, CanReceive, RectDone, Fail,
       Invoke
  <2>3. CASE \E d \in NewData : Replace(d, Resized(w, h))
    <3>1. PICK d \in NewData : Replace(d, Resized(w, h))
      BY <2>3
    <3>2. fb'.data = d /\ live' = (live \ ({fb.data} \cap Blocks))
                                    \cup ({d} \cap Blocks)
      BY <3>1, ReplaceData, ShapeTypes DEF Replace
    <3>3. NoLeak'
      BY <1>0, <2>2, <3>2 DEF object, ThreadMatchesState, Processing
    <3>4. AppAllocates' => fb'.data \notin Blocks
      BY <1>0, <2>2, <3>2 DEF NewData, object
    <3> QED
      BY <2>2, <3>3, <3>4
  <2>4. CASE fb' = NotResized(w, h) /\ UNCHANGED live
    <3>1. fb'.data = fb.data
      BY <2>4, ShapeData DEF NotResized
    <3> QED
      BY <1>0, <2>2, <2>4, <3>1 DEF object
  <2> QED
    BY <2>1, <2>3, <2>4
<1>11. CASE SetPixelFormat
  <2>1. PICK f \in Formats :
          \/ fb' = [fb EXCEPT !.bits = f] /\ UNCHANGED live
          \/ \E d \in NewData : Replace(d, Reformatted(f))
          \/ fb' = Reformatted(f) /\ UNCHANGED live
    BY <1>11 DEF SetPixelFormat
  <2>2. /\ state = "CONNECTED" /\ pc \in {"app", "callback"}
        /\ UNCHANGED <<object, pc, connects>>
    BY <1>11 DEF SetPixelFormat, InApp, control
  <2>3. CASE \E d \in NewData : Replace(d, Reformatted(f))
    <3>1. PICK d \in NewData : Replace(d, Reformatted(f))
      BY <2>3
    <3>2. fb'.data = d /\ live' = (live \ ({fb.data} \cap Blocks))
                                    \cup ({d} \cap Blocks)
      BY <3>1, ReplaceData, ShapeTypes DEF Replace
    <3> QED
      BY <1>0, <2>2, <3>2 DEF NewData, object
  <2>4. CASE ~ \E d \in NewData : Replace(d, Reformatted(f))
    <3>1. fb'.data = fb.data
      BY <2>1, <2>4, ShapeData DEF TypeOK, Framebuffers
    <3> QED
      BY <1>0, <2>1, <2>2, <2>4, <3>1 DEF object
  <2> QED
    BY <2>3, <2>4
<1>12. CASE CallbackReturn
  BY <1>0, <1>12 DEF CallbackReturn, object, picture, Copies, Parts,
     ThreadMatchesState, Processing, TypeOK
<1>13. CASE Teardown
  BY <1>0, <1>13 DEF Teardown, Disconnect, Released, picture,
     ThreadMatchesState, TransportMatchesState, Processing, Handshaking
<1>14. CASE ServerCloses \/ UNCHANGED vars
  BY <1>0, <1>14 DEF ServerCloses, vars, object, picture, control
<1> QED
  BY NextCases, <1>1, <1>2, <1>3, <1>4, <1>5, <1>6, <1>7, <1>8, <1>9, <1>10,
     <1>11, <1>12, <1>13, <1>14

(* A client that is connected at most once leaks nothing, whichever          *)
(* allocation fails, whoever ends the session, and in whatever callback.     *)
THEOREM NothingLeaks ==
  ASSUME MaxConnects <= 1
  PROVE  Spec => []NoLeak
<1>1. Init => Accounted
  BY DEF Init, Accounted, NoLeak, Owned, AppAllocates
<1>2. TypeOK /\ TypeOK' /\ Consistent /\ Accounted /\ [Next]_vars => Accounted'
  BY AccountedStep
<1>3. TypeOK /\ TypeOK' /\ Consistent /\ [Next]_vars => Consistent'
  BY ConsistentStep
<1>4. Accounted => NoLeak
  BY DEF Accounted
<1> QED
  BY <1>1, <1>2, <1>3, <1>4, ConsistentInit, TypeCorrect, PTL DEF Spec

(* The library's own buffer, in service, about to enter it, and after it:    *)
(* allocated, and as large as data_size says.                                *)
Kept ==
  (state \in {"CONNECTED", "DISCONNECTED"} \/ pc = "initial_messages")
    /\ ~AppAllocates
    => fb.data \in Blocks /\ fb.data_size <= capacity

LEMMA KeptStep ==
  ASSUME TypeOK, Consistent, Kept, [Next]_vars, "reformat" \notin Fallible
  PROVE  Kept'
<1> USE DEF Kept, AppAllocates
<1>0. ThreadMatchesState /\ TransportMatchesState
  BY DEF Consistent
<1>1. CASE Create
  BY <1>0, <1>1 DEF Create, picture, ThreadMatchesState, Handshaking
<1>2. CASE Connect \/ TransportConnect \/ Negotiate
  BY <1>0, <1>2 DEF Connect, MayConnect, TransportConnect, Negotiate,
     ConnectFailed, object, picture, ThreadMatchesState, Handshaking
<1>3. CASE DoInitialization
  <2>1. CASE pc' = "initial_messages"
    <3>1. PICK w \in Dims, h \in Dims, f \in Formats, d \in NewData :
            /\ fb' = [Sized(Announced(w, h, f)) EXCEPT !.data = d]
            /\ capacity' = Sized(Announced(w, h, f)).data_size
            /\ UNCHANGED object
      BY <1>3, <2>1 DEF DoInitialization, ConnectFailed
    <3>2. Sized(Announced(w, h, f)) \in Framebuffers
      BY ShapeTypes, SizedType
    <3>3. fb'.data = d /\ fb'.data_size = capacity' /\ capacity' \in Int
      BY <3>1, <3>2 DEF Framebuffers
    <3> QED
      BY <3>1, <3>3 DEF NewData, object
  <2>2. CASE pc' # "initial_messages"
    BY <1>0, <1>3, <2>2 DEF DoInitialization, ConnectFailed,
       ThreadMatchesState, Handshaking
  <2> QED
    BY <2>1, <2>2
<1>4. CASE SendInitialMessages
  BY <1>0, <1>4 DEF SendInitialMessages, ConnectFailed, picture,
     ThreadMatchesState, Handshaking
<1>5. CASE AppDisconnect \/ Destroy
  BY <1>5 DEF AppDisconnect, Disconnect, Destroy, picture, control
<1>6. CASE \/ StartProcessing \/ HandleBell \/ HandleColorMapEntries
           \/ HandleServerCutText \/ HandleFbUpdate \/ UpdateFinished
  BY <1>6 DEF StartProcessing, HandleBell, HandleColorMapEntries,
     HandleServerCutText, HandleFbUpdate, UpdateFinished, Invoke, object,
     picture
<1>7. CASE \/ ReceiveFails \/ UnknownMessage \/ OutOfMemory
           \/ UnsupportedEncoding \/ DecodeRaw \/ DecodeCursor
  BY <1>7 DEF ReceiveFails, UnknownMessage, OutOfMemory, UnsupportedEncoding,
     DecodeRaw, DecodeCursor, RectDone, Fail, Invoke, object, picture
<1>8. CASE CallbackReturn
  BY <1>8, <1>0 DEF CallbackReturn, object, picture, TypeOK
<1>9. CASE \/ MessageHandled \/ ReceiveOnNull \/ ServerCloses
           \/ UNCHANGED vars
  BY <1>9 DEF MessageHandled, ReceiveOnNull, ServerCloses, vars, object,
     picture, control
<1>10. CASE Teardown
  BY <1>0, <1>10 DEF Teardown, Disconnect, picture, ThreadMatchesState, Processing
<1>11. CASE DecodeDesktopSize
  <2>1. PICK w \in Dims, h \in Dims :
          \/ \E d \in NewData : Replace(d, Resized(w, h))
          \/ fb' = NotResized(w, h) /\ UNCHANGED capacity
    BY <1>11 DEF DecodeDesktopSize
  <2>2. /\ pc = "rects" /\ UNCHANGED object /\ state = "CONNECTED"
    BY <1>0, <1>11 DEF DecodeDesktopSize, RectStarts, CanReceive,
       TransportMatchesState, Handshaking
  <2>3. CASE \E d \in NewData : Replace(d, Resized(w, h))
    BY <2>2, <2>3, ReplaceData, ShapeTypes DEF NewData, object
  <2>4. CASE fb' = NotResized(w, h) /\ UNCHANGED capacity
    BY <2>2, <2>4 DEF NotResized, object
  <2> QED
    BY <2>1, <2>3, <2>4
<1>12. CASE SetPixelFormat
  <2>1. PICK f \in Formats :
          \/ fb' = [fb EXCEPT !.bits = f] /\ UNCHANGED capacity
          \/ \E d \in NewData : Replace(d, Reformatted(f))
    BY <1>12 DEF SetPixelFormat
  <2>2. UNCHANGED object /\ state = "CONNECTED"
    BY <1>12 DEF SetPixelFormat
  <2>3. CASE fb' = [fb EXCEPT !.bits = f] /\ UNCHANGED capacity
    <3>1. fb'.data = fb.data /\ fb'.data_size = fb.data_size
      BY <2>3 DEF TypeOK, Framebuffers
    <3> QED
      BY <2>2, <2>3, <3>1 DEF object
  <2>4. CASE \E d \in NewData : Replace(d, Reformatted(f))
    BY <2>2, <2>4, ReplaceData, ShapeTypes DEF NewData, object
  <2> QED
    BY <2>1, <2>3, <2>4
<1> QED
  BY NextCases, <1>1, <1>2, <1>3, <1>4, <1>5, <1>6, <1>7, <1>8, <1>9, <1>10,
     <1>11, <1>12

(* What get_framebuffer returns after a session is still allocated and as    *)
(* large as it says, unless the application owns it or the reallocation of   *)
(* ovnc_client_set_pixel_format fails.                                       *)
THEOREM LastPictureIsBacked ==
  ASSUME "reformat" \notin Fallible
  PROVE  Spec => []LastPictureBacked
<1>1. Init => Kept
  BY DEF Init, Kept
<1>2. TypeOK /\ Consistent /\ Kept /\ [Next]_vars => Kept'
  BY KeptStep
<1>3. TypeOK /\ TypeOK' /\ Consistent /\ [Next]_vars => Consistent'
  BY ConsistentStep
<1>4. Consistent /\ Kept => LastPictureBacked
  BY DEF Consistent, NoDangling, Owned, Kept, LastPictureBacked
<1> QED
  BY <1>1, <1>2, <1>3, <1>4, ConsistentInit, TypeCorrect, PTL DEF Spec
=============================================================================
