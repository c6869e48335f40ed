--------------------------- MODULE OvncClientProofs ---------------------------
(***************************************************************************)
(* Theorems about OvncClient, for every set of dimensions, formats, heap   *)
(* blocks, callbacks and fallible allocations.                             *)
(***************************************************************************)
EXTENDS OvncClient, TLAPS

USE DimsAssumption, FormatsAssumption, BoundsAssumption, SitesAssumption,
    CallbacksAssumption, NullAssumption, BlocksAssumption

(* The byte count of a picture is an integer.                               *)
LEMMA SizeType ==
  ASSUME NEW w \in Nat, NEW h \in Nat, NEW bits \in Nat
  PROVE  Size(w, h, bits) \in Int /\ BytesPerPixel(bits) \in Int
BY DEF Size, BytesPerPixel

LEMMA SizedType ==
  ASSUME NEW shape \in Framebuffers
  PROVE  Sized(shape) \in Framebuffers
<1>1. Size(shape.width, shape.height, shape.bits) \in Int
  BY SizeType DEF Framebuffers
<1> QED
  BY <1>1 DEF Sized, Framebuffers

(* The shapes the operations give the framebuffer are well formed.          *)
LEMMA ShapeTypes ==
  ASSUME TypeOK
  PROVE  /\ \A w, h \in Dims : Resized(w, h) \in Framebuffers
         /\ \A f \in Formats : Reformatted(f) \in Framebuffers
         /\ \A w, h \in Dims, f \in Formats :
              Announced(w, h, f) \in Framebuffers
<1>1. /\ \A w, h \in Dims :
            [fb EXCEPT !.width = w, !.height = h] \in Framebuffers
      /\ \A f \in Formats : [fb EXCEPT !.bits = f] \in Framebuffers
  BY DEF TypeOK, Framebuffers
<1>2. \A f \in Formats : Active(f) \in Nat
  BY DEF TypeOK, Active
<1>3. \A w, h \in Dims, f \in Formats : Announced(w, h, f) \in Framebuffers
  BY <1>2 DEF TypeOK, Framebuffers, Announced
<1> QED
  BY <1>1, <1>3, SizedType DEF Resized, Reformatted

(* New memory for a well-formed shape makes a well-formed framebuffer.      *)
LEMMA ReplaceType ==
  ASSUME NEW d \in NewData, NEW shape \in Framebuffers, Replace(d, shape)
  PROVE  fb' \in Framebuffers /\ capacity' \in Int
BY DEF Replace, NewData, Framebuffers

(* Sizing a shape again, after its memory was replaced, changes nothing.    *)
LEMMA SizedAgain ==
  ASSUME NEW shape \in Framebuffers, NEW d
  PROVE  LET new == [Sized(shape) EXCEPT !.data = d]
         IN new = Sized(new) /\ new.data = d
BY DEF Sized, Framebuffers

(* The next-state relation, one disjunct per operation.                     *)
LEMMA NextCases ==
  ASSUME [Next]_vars
  PROVE  \/ Create \/ Connect \/ TransportConnect \/ Negotiate
         \/ DoInitialization \/ SendInitialMessages \/ AppDisconnect
         \/ Destroy \/ StartProcessing \/ ReceiveFails \/ ReceiveOnNull
         \/ UnknownMessage \/ OutOfMemory \/ HandleBell
         \/ HandleColorMapEntries \/ HandleServerCutText \/ HandleFbUpdate
         \/ UpdateFinished \/ DecodeRaw \/ DecodeDesktopSize \/ DecodeCursor
         \/ UnsupportedEncoding \/ CallbackReturn \/ MessageHandled
         \/ Teardown \/ SetPixelFormat \/ ServerCloses \/ UNCHANGED vars
BY DEF Next, App, Connecting, Message, Rectangle, Returning, Finished

(* Steps allocate nothing but the library's own parts and pixel blocks.      *)
LEMMA AllocatesResources ==
  ASSUME TypeOK, [Next]_vars
  PROVE  live' \subseteq Resources
<1> USE DEF Resources, Parts
<1>0. live \subseteq Resources
  BY DEF TypeOK
<1>1. CASE Create
  BY <1>0, <1>1 DEF Create, Copies, AllocatedBefore
<1>2. CASE Connect
  BY <1>0, <1>2 DEF Connect
<1>3. CASE TransportConnect
  BY <1>0, <1>3 DEF TransportConnect, ConnectFailed
<1>4. CASE DoInitialization
  BY <1>0, <1>4 DEF DoInitialization, ConnectFailed, object
<1>5. CASE Negotiate \/ SendInitialMessages
  BY <1>0, <1>5 DEF Negotiate, SendInitialMessages, ConnectFailed
<1>6. CASE AppDisconnect \/ Teardown
  BY <1>0, <1>6 DEF AppDisconnect, Teardown, Disconnect
<1>7. CASE Destroy
  BY <1>0, <1>7 DEF Destroy
<1>8. CASE HandleColorMapEntries \/ HandleServerCutText
  BY <1>0, <1>8 DEF HandleColorMapEntries, HandleServerCutText, Hold
<1>9. CASE DecodeCursor
  BY <1>0, <1>9 DEF DecodeCursor, Hold
<1>10. CASE DecodeDesktopSize
  BY <1>0, <1>10 DEF DecodeDesktopSize, Replace
<1>11. CASE SetPixelFormat
  BY <1>0, <1>11 DEF SetPixelFormat, Replace
<1>12. CASE CallbackReturn
  BY <1>0, <1>12 DEF CallbackReturn
<1>13. CASE \/ StartProcessing \/ ReceiveFails \/ ReceiveOnNull
            \/ UnknownMessage \/ OutOfMemory \/ HandleBell \/ HandleFbUpdate
            \/ UpdateFinished \/ DecodeRaw \/ UnsupportedEncoding
            \/ MessageHandled \/ ServerCloses \/ UNCHANGED vars
  BY <1>0, <1>13 DEF StartProcessing, ReceiveFails, ReceiveOnNull,
     UnknownMessage, OutOfMemory, HandleBell, HandleFbUpdate, UpdateFinished,
     DecodeRaw, UnsupportedEncoding, MessageHandled, ServerCloses, vars
<1> QED
  BY NextCases, <1>1, <1>2, <1>3, <1>4, <1>5, <1>6, <1>7, <1>8, <1>9, <1>10,
     <1>11, <1>12, <1>13

-----------------------------------------------------------------------------
(* Type correctness.                                                        *)

THEOREM TypeCorrect == Spec => []TypeOK
<1>1. Init => TypeOK
  BY DEF Init, TypeOK, Framebuffers
<1>2. TypeOK /\ [Next]_vars => TypeOK'
  <2> SUFFICES ASSUME TypeOK, [Next]_vars PROVE TypeOK'
    OBVIOUS
  <2>0. live' \subseteq Resources
    BY AllocatesResources
  <2> USE DEF TypeOK, Callbacks, Events
  <2>1. CASE Create
    BY <2>0, <2>1 DEF Create, Copies, AllocatedBefore, picture, ghosts
  <2>2. CASE Connect
    BY <2>0, <2>2 DEF Connect, picture, ghosts
  <2>3. CASE TransportConnect
    BY <2>0, <2>3 DEF TransportConnect, ConnectFailed, CleanedUp, picture, ghosts
  <2>4. CASE Negotiate
    BY <2>0, <2>4 DEF Negotiate, ConnectFailed, CleanedUp, object, picture, ghosts
  <2>5. CASE DoInitialization
    <3>1. CASE UNCHANGED picture /\ ConnectFailed("IO")
      BY <2>0, <3>1 DEF ConnectFailed, CleanedUp, picture, ghosts
    <3>2. ASSUME NEW w \in Dims, NEW h \in Dims, NEW f \in Formats,
                 \/ /\ fb' = Announced(w, h, f)
                    /\ UNCHANGED capacity
                    /\ ConnectFailed("PROTOCOL")
                 \/ /\ fb' = [Sized(Announced(w, h, f)) EXCEPT
                                !.data = IF AppAllocates THEN @ ELSE NULL]
                    /\ capacity' = IF AppAllocates THEN capacity ELSE 0
                    /\ ConnectFailed("NOMEM")
                 \/ /\ \E d \in NewData :
                         fb' = [Sized(Announced(w, h, f)) EXCEPT !.data = d]
                    /\ capacity' = Sized(Announced(w, h, f)).data_size
                    /\ pc' = "initial_messages"
                    /\ UNCHANGED <<object, api, rects, frame, ret, peer,
                                   connects, ghosts>>
          PROVE  TypeOK'
      <4>1. /\ Announced(w, h, f) \in Framebuffers
            /\ Sized(Announced(w, h, f)) \in Framebuffers
        BY ShapeTypes, SizedType
      <4>2. fb' \in Framebuffers /\ capacity' \in Int
        BY <3>2, <4>1 DEF Framebuffers, NewData, AppAllocates
      <4> QED
        BY <2>0, <3>2, <4>2 DEF ConnectFailed, CleanedUp, object, ghosts
    <3> QED
      BY <2>5, <3>1, <3>2 DEF DoInitialization
  <2>6. CASE SendInitialMessages
    BY <2>0, <2>6 DEF SendInitialMessages, ConnectFailed, CleanedUp, picture, ghosts
  <2>7. CASE AppDisconnect
    BY <2>0, <2>7 DEF AppDisconnect, Disconnect, CleanedUp, InApp, picture
  <2>8. CASE Destroy
    BY <2>0, <2>8 DEF Destroy, CleanedUp, picture, control, ghosts
  <2>9. CASE StartProcessing
    BY <2>0, <2>9 DEF StartProcessing, object, picture, ghosts
  <2>10. CASE ReceiveFails
    BY <2>0, <2>10 DEF ReceiveFails, Fail, Invoke, object, picture
  <2>11. CASE ReceiveOnNull
    BY <2>0, <2>11 DEF ReceiveOnNull, object, picture, ghosts
  <2>12. CASE UnknownMessage
    BY <2>0, <2>12 DEF UnknownMessage, Fail, Invoke, object, picture
  <2>13. CASE OutOfMemory
    BY <2>0, <2>13 DEF OutOfMemory, Fail, Invoke, object, picture
  <2>14. CASE HandleBell
    BY <2>0, <2>14 DEF HandleBell, Invoke, object, picture, ghosts
  <2>15. CASE HandleColorMapEntries
    BY <2>0, <2>15 DEF HandleColorMapEntries, Hold, Invoke, object, picture, ghosts
  <2>16. CASE HandleServerCutText
    BY <2>0, <2>16 DEF HandleServerCutText, Hold, Invoke, object, picture, ghosts
  <2>17. CASE HandleFbUpdate
    BY <2>0, <2>17 DEF HandleFbUpdate, object, picture, ghosts
  <2>18. CASE UpdateFinished
    BY <2>0, <2>18 DEF UpdateFinished, Invoke, object, picture, ghosts
  <2>19. CASE DecodeRaw
    BY <2>0, <2>19 DEF DecodeRaw, RectStarts, RectDone, Fail, Invoke, object, picture
  <2>20. CASE DecodeDesktopSize
    <3>1. \A w, h \in Dims : Resized(w, h) \in Framebuffers
      BY ShapeTypes
    <3>2. fb' \in Framebuffers /\ capacity' \in Int
      <4>1. PICK w \in Dims, h \in Dims :
              \/ \E d \in NewData : Replace(d, Resized(w, h))
              \/ fb' = NotResized(w, h) /\ UNCHANGED capacity
        BY <2>20 DEF DecodeDesktopSize
      <4> QED
        BY <3>1, <4>1, ReplaceType DEF NotResized, AppAllocates
    <3> QED
      BY <2>0, <2>20, <3>2
      DEF DecodeDesktopSize, RectStarts, RectDone, Fail, Invoke, object
  <2>21. CASE DecodeCursor
    BY <2>0, <2>21 DEF DecodeCursor, RectStarts, RectDone, Hold, Invoke, object,
       picture, ghosts
  <2>22. CASE UnsupportedEncoding
    BY <2>0, <2>22 DEF UnsupportedEncoding, RectStarts, Fail, Invoke, object, picture
  <2>23. CASE CallbackReturn
    BY <2>0, <2>23 DEF CallbackReturn, object, picture, ghosts
  <2>24. CASE MessageHandled
    BY <2>0, <2>24 DEF MessageHandled, object, picture, ghosts
  <2>25. CASE Teardown
    BY <2>0, <2>25 DEF Teardown, Disconnect, CleanedUp, picture, ghosts
  <2>26. CASE SetPixelFormat
    <3>1. PICK f \in Formats :
            \/ fb' = [fb EXCEPT !.bits = f] /\ UNCHANGED capacity
            \/ \E d \in NewData : Replace(d, Reformatted(f))
            \/ fb' = Reformatted(f) /\ UNCHANGED capacity
      BY <2>26 DEF SetPixelFormat
    <3>2. Reformatted(f) \in Framebuffers
      BY ShapeTypes
    <3>3. fb' \in Framebuffers /\ capacity' \in Int
      BY <3>1, <3>2, ReplaceType DEF Framebuffers
    <3> QED
      BY <2>0, <2>26, <3>3 DEF SetPixelFormat, object, control, ghosts
  <2>27. CASE ServerCloses
    BY <2>0, <2>27 DEF ServerCloses, object, picture, control, ghosts
  <2>28. CASE UNCHANGED vars
    BY <2>0, <2>28 DEF vars, object, picture, control, ghosts
  <2> QED
    BY NextCases, <2>1, <2>2, <2>3, <2>4, <2>5, <2>6, <2>7, <2>8, <2>9,
       <2>10, <2>11, <2>12, <2>13, <2>14, <2>15, <2>16, <2>17, <2>18, <2>19,
       <2>20, <2>21, <2>22, <2>23, <2>24, <2>25, <2>26, <2>27, <2>28
<1> QED
  BY <1>1, <1>2, PTL DEF Spec

-----------------------------------------------------------------------------
(* Resources and the connection.                                            *)

(* The inductive invariant: what is owned is allocated, every initialisation *)
(* of the platform is undone, the transport and the thread follow the state, *)
(* and data_size follows the geometry.                                       *)
Consistent ==
  /\ NoDangling
  /\ PlatformBalanced
  /\ TransportMatchesState
  /\ GeometryMatches
  /\ ThreadMatchesState

LEMMA ConsistentStep ==
  ASSUME TypeOK, TypeOK', Consistent, [Next]_vars
  PROVE  Consistent'
<1> USE DEF Consistent, PlatformBalanced, TransportMatchesState,
            GeometryMatches, ThreadMatchesState, Handshaking, Processing
<1>1. CASE Create
  <2>1. NoDangling'
    BY <1>1 DEF Create, NoDangling, Owned, picture
  <2> QED
    BY <1>1, <2>1 DEF Create, picture
<1>2. CASE Connect
  <2>1. NoDangling'
    BY <1>2 DEF Connect, NoDangling, Owned, picture
  <2> QED
    BY <1>2, <2>1 DEF Connect, MayConnect, picture, TypeOK
<1>3. CASE TransportConnect
  <2>1. NoDangling'
    BY <1>3 DEF TransportConnect, ConnectFailed, NoDangling, Owned, picture,
       Released, Copies, Parts
  <2> QED
    BY <1>3, <2>1 DEF TransportConnect, ConnectFailed, CleanedUp, picture
<1>4. CASE Negotiate
  <2>1. NoDangling'
    BY <1>4 DEF Negotiate, ConnectFailed, NoDangling, Owned, picture,
       Released, Copies, Parts, object
  <2> QED
    BY <1>4, <2>1 DEF Negotiate, ConnectFailed, CleanedUp, picture, object
<1>5. CASE DoInitialization
  <2>1. CASE UNCHANGED picture /\ ConnectFailed("IO")
    <3>1. NoDangling'
      BY <2>1, <1>5 DEF DoInitialization, ConnectFailed, NoDangling, Owned,
         Released, Copies, Parts, picture
    <3> QED
      BY <2>1, <3>1, <1>5 DEF DoInitialization, ConnectFailed, CleanedUp,
         picture
  <2>2. ASSUME NEW w \in Dims, NEW h \in Dims, NEW f \in Formats,
               \/ /\ fb' = Announced(w, h, f)
                  /\ ConnectFailed("PROTOCOL")
               \/ /\ fb' = [Sized(Announced(w, h, f)) EXCEPT
                              !.data = IF AppAllocates THEN @ ELSE NULL]
                  /\ ConnectFailed("NOMEM")
        PROVE  Consistent'
    <3>1. Announced(w, h, f).data = fb.data /\ Announced(w, h, f) \in Framebuffers
      BY ShapeTypes DEF Announced, TypeOK, Framebuffers
    <3>2. fb'.data \in {fb.data, NULL}
      BY <2>2, <3>1 DEF Sized, Framebuffers, AppAllocates
    <3>3. NoDangling'
      BY <2>2, <3>2, <1>5 DEF DoInitialization, ConnectFailed, NoDangling,
         Owned, Released, Copies, Parts
    <3> QED
      BY <2>2, <3>3, <1>5 DEF DoInitialization, ConnectFailed, CleanedUp
  <2>3. ASSUME NEW w \in Dims, NEW h \in Dims, NEW f \in Formats,
               NEW d \in NewData,
               fb' = [Sized(Announced(w, h, f)) EXCEPT !.data = d],
               live' = live \cup ({d} \cap Blocks),
               pc' = "initial_messages",
               UNCHANGED object
        PROVE  Consistent'
    <3>1. fb' = Sized(fb') /\ fb'.data = d
      BY <2>3, ShapeTypes, SizedAgain
    <3>2. NoDangling'
      BY <2>3, <3>1 DEF NoDangling, Owned, object
    <3> QED
      BY <2>3, <3>1, <3>2, <1>5 DEF DoInitialization, object
  <2> QED
    BY <1>5, <2>1, <2>2, <2>3 DEF DoInitialization
<1>6. CASE SendInitialMessages
  <2>1. NoDangling'
    BY <1>6 DEF SendInitialMessages, ConnectFailed, NoDangling, Owned,
       picture, Released, Copies, Parts
  <2> QED
    BY <1>6, <2>1 DEF SendInitialMessages, ConnectFailed, CleanedUp, picture
<1>7. CASE AppDisconnect
  <2>1. NoDangling'
    BY <1>7 DEF AppDisconnect, Disconnect, NoDangling, Owned, picture,
       Released, Copies, Parts
  <2> QED
    BY <1>7, <2>1 DEF AppDisconnect, Disconnect, CleanedUp, picture
<1>8. CASE Destroy
  <2>1. NoDangling'
    BY <1>8 DEF Destroy, NoDangling, Owned
  <2> QED
    BY <1>8, <2>1 DEF Destroy, CleanedUp, picture, control
<1>9. CASE HandleColorMapEntries \/ HandleServerCutText
  <2>1. NoDangling'
    BY <1>9 DEF HandleColorMapEntries, HandleServerCutText, Hold, NoDangling,
       Owned, picture, object
  <2> QED
    BY <1>9, <2>1 DEF HandleColorMapEntries, HandleServerCutText, Invoke,
       CanReceive, picture, object
<1>10. CASE DecodeCursor
  <2>1. NoDangling'
    BY <1>10 DEF DecodeCursor, Hold, NoDangling, Owned, picture, object
  <2> QED
    BY <1>10, <2>1 DEF DecodeCursor, RectDone, RectStarts, CanReceive, Invoke,
       picture, object
<1>11. CASE DecodeDesktopSize
  <2>1. /\ pc = "rects" /\ state = "CONNECTED"
        /\ UNCHANGED object
        /\ pc' \in {"rects", "callback", "teardown"}
    BY <1>11 DEF DecodeDesktopSize, RectStarts, CanReceive, RectDone, Fail,
       Invoke
  <2>2. fb' = Sized(fb') /\ NoDangling'
    <3>1. PICK w \in Dims, h \in Dims :
            \/ \E d \in NewData : Replace(d, Resized(w, h))
            \/ fb' = NotResized(w, h) /\ UNCHANGED live
      BY <1>11 DEF DecodeDesktopSize
    <3> DEFINE shape == [fb EXCEPT !.width = w, !.height = h]
    <3>2. shape \in Framebuffers /\ Resized(w, h) = Sized(shape)
      BY DEF TypeOK, Framebuffers, Resized
    <3>3. CASE \E d \in NewData : Replace(d, Resized(w, h))
      <4>1. PICK d \in NewData : Replace(d, Resized(w, h))
        BY <3>3
      <4>2. fb' = Sized(fb') /\ fb'.data = d
        BY <4>1, <3>2, SizedAgain DEF Replace
      <4>3. NoDangling'
        BY <4>1, <4>2, <2>1 DEF Replace, NoDangling, Owned, Copies, Parts,
           object
      <4> QED
        BY <4>2, <4>3
    <3>4. CASE fb' = NotResized(w, h) /\ UNCHANGED live
      <4>1. Sized(shape) = Sized(Sized(shape)) /\ Sized(shape).data = fb.data
        BY <3>2 DEF Sized, Framebuffers
      <4>2. fb' = Sized(fb') /\ fb'.data = fb.data
        BY <3>2, <3>4, <4>1, <2>1 DEF NotResized, AppAllocates
      <4> QED
        BY <4>2, <3>4, <2>1 DEF NoDangling, Owned, object
    <3> QED
      BY <3>1, <3>3, <3>4
  <2> QED
    BY <2>1, <2>2 DEF object
<1>12. CASE SetPixelFormat
  <2>1. /\ state = "CONNECTED" /\ UNCHANGED <<object, pc>>
        /\ pc \in {"app", "callback"}
    BY <1>12 DEF SetPixelFormat, InApp, control
  <2>2. PICK f \in Formats :
          \/ /\ BytesPerPixel(f) = BytesPerPixel(fb.bits)
             /\ fb' = [fb EXCEPT !.bits = f]
             /\ UNCHANGED live
          \/ \E d \in NewData : Replace(d, Reformatted(f))
          \/ fb' = Reformatted(f) /\ UNCHANGED live
    BY <1>12 DEF SetPixelFormat
  <2> DEFINE shape == [fb EXCEPT !.bits = f]
  <2>3. shape \in Framebuffers /\ Reformatted(f) = Sized(shape)
    BY DEF TypeOK, Framebuffers, Reformatted
  <2>4. CASE /\ BytesPerPixel(f) = BytesPerPixel(fb.bits)
             /\ fb' = [fb EXCEPT !.bits = f]
             /\ UNCHANGED live
    <3>1. Size(fb.width, fb.height, f) = Size(fb.width, fb.height, fb.bits)
      BY <2>4 DEF Size
    <3>2. fb' = Sized(fb') /\ fb'.data = fb.data
      <4>1. fb.data_size = Size(fb.width, fb.height, fb.bits)
        BY <2>1 DEF Sized, TypeOK, Framebuffers
      <4>2. /\ fb' \in Framebuffers
            /\ fb'.width = fb.width /\ fb'.height = fb.height
            /\ fb'.bits = f /\ fb'.data_size = fb.data_size
            /\ fb'.data = fb.data
        BY <2>3, <2>4 DEF TypeOK, Framebuffers
      <4>3. fb'.data_size = Size(fb'.width, fb'.height, fb'.bits)
        BY <3>1, <4>1, <4>2
      <4> QED
        BY <4>2, <4>3 DEF Sized, Framebuffers
    <3>3. NoDangling'
      BY <3>2, <2>1, <2>4 DEF NoDangling, Owned, object
    <3> QED
      BY <2>1, <3>2, <3>3 DEF object
  <2>5. CASE \E d \in NewData : Replace(d, Reformatted(f))
    <3>1. PICK d \in NewData : Replace(d, Reformatted(f))
      BY <2>5
    <3>2. fb' = Sized(fb') /\ fb'.data = d
      BY <3>1, <2>3, SizedAgain DEF Replace
    <3>3. NoDangling'
      BY <3>1, <3>2, <2>1 DEF Replace, NoDangling, Owned, Copies, Parts, object
    <3> QED
      BY <2>1, <3>2, <3>3 DEF object
  <2>6. CASE fb' = Reformatted(f) /\ UNCHANGED live
    <3>1. fb' = Sized(fb') /\ fb'.data = fb.data
      BY <2>3, <2>6 DEF Sized, Framebuffers
    <3>2. NoDangling'
      BY <3>1, <2>1, <2>6 DEF NoDangling, Owned, object
    <3> QED
      BY <2>1, <3>1, <3>2 DEF object
  <2> QED
    BY <2>2, <2>4, <2>5, <2>6
<1>13. CASE CallbackReturn
  <2>1. NoDangling'
    BY <1>13 DEF CallbackReturn, NoDangling, Owned, picture, object, Copies,
       Parts
  <2> QED
    BY <1>13, <2>1 DEF CallbackReturn, picture, object, TypeOK
<1>14. CASE Teardown
  <2>1. NoDangling'
    BY <1>14 DEF Teardown, Disconnect, NoDangling, Owned, picture, Released,
       Copies, Parts
  <2> QED
    BY <1>14, <2>1 DEF Teardown, Disconnect, CleanedUp, picture
<1>15. CASE \/ StartProcessing \/ ReceiveFails \/ ReceiveOnNull
            \/ UnknownMessage \/ OutOfMemory \/ HandleBell \/ HandleFbUpdate
            \/ UpdateFinished \/ DecodeRaw \/ UnsupportedEncoding
            \/ MessageHandled \/ ServerCloses
  <2>1. UNCHANGED <<object, live, picture>>
    BY <1>15 DEF StartProcessing, ReceiveFails, ReceiveOnNull, UnknownMessage,
       OutOfMemory, HandleBell, HandleFbUpdate, UpdateFinished, DecodeRaw,
       UnsupportedEncoding, MessageHandled, ServerCloses
  <2>2. NoDangling'
    BY <2>1 DEF NoDangling, Owned, object, picture
  <2>3. \/ UNCHANGED pc
        \/ /\ pc = "app" /\ state = "CONNECTED"
           /\ pc' = "message"
        \/ Processing /\ (Processing' \/ pc' = "app" \/ pc' = "crashed")
    BY <1>15 DEF StartProcessing, ReceiveFails, ReceiveOnNull, Receiving,
       UnknownMessage, OutOfMemory, HandleBell, HandleFbUpdate,
       UpdateFinished, DecodeRaw, UnsupportedEncoding, MessageHandled,
       ServerCloses, CanReceive, RectStarts, RectDone, Fail, Invoke, control
  <2> QED
    BY <2>1, <2>2, <2>3 DEF object, picture
<1>16. CASE UNCHANGED vars
  BY <1>16 DEF vars, object, picture, control, NoDangling, Owned
<1> QED
  BY NextCases, <1>1, <1>2, <1>3, <1>4, <1>5, <1>6, <1>7, <1>8, <1>9, <1>10,
     <1>11, <1>12, <1>13, <1>14, <1>15, <1>16

LEMMA ConsistentInit == Init => Consistent
BY DEF Init, Consistent, NoDangling, Owned, PlatformBalanced,
   TransportMatchesState, GeometryMatches, ThreadMatchesState, Handshaking,
   Processing

(* Whatever fails, is retried, or is closed from within whichever callback:  *)
(* nothing in use is ever freed, platform_init is undone exactly once, the   *)
(* transport follows the state, and data_size follows the geometry.          *)
THEOREM ConsistencyHolds ==
  Spec => [](NoDangling /\ PlatformBalanced /\ TransportMatchesState
             /\ GeometryMatches /\ ThreadMatchesState)
<1>1. TypeOK /\ TypeOK' /\ Consistent /\ [Next]_vars => Consistent'
  BY ConsistentStep
<1>2. Consistent => /\ NoDangling /\ PlatformBalanced /\ TransportMatchesState
                    /\ GeometryMatches /\ ThreadMatchesState
  BY DEF Consistent
<1> QED
  BY <1>1, <1>2, ConsistentInit, TypeCorrect, PTL DEF Spec

(* connect's error paths, disconnect and destroy together uncount a client   *)
(* exactly once.                                                             *)
THEOREM PlatformIsBalanced == Spec => []PlatformBalanced
BY ConsistencyHolds, PTL

(* Transport and socket exist exactly while the state needs them.            *)
THEOREM TransportFollowsState == Spec => []TransportMatchesState
BY ConsistencyHolds, PTL

(* Every resize and format change leaves data_size what the geometry says.   *)
THEOREM GeometryIsMatched == Spec => []GeometryMatches
BY ConsistencyHolds, PTL

(* The state a getter reports fits what the thread is doing.                 *)
THEOREM ThreadFollowsState == Spec => []ThreadMatchesState
BY ConsistencyHolds, PTL

-----------------------------------------------------------------------------
(* The framebuffer, if set_pixel_format never runs out of memory.            *)

(* FramebufferBacked, and the same for a framebuffer about to enter service. *)
Backed ==
  /\ FramebufferBacked
  /\ pc = "initial_messages" => fb.data_size <= capacity

LEMMA BackedStep ==
  ASSUME TypeOK, Consistent, Backed, [Next]_vars, "reformat" \notin Fallible
  PROVE  Backed'
<1> USE DEF Backed, FramebufferBacked, Failing, TypeOK
<1>1. CASE Create
  BY <1>1 DEF Create, picture, Consistent, ThreadMatchesState, Handshaking
<1>2. CASE Connect \/ TransportConnect \/ Negotiate
  BY <1>2 DEF Connect, MayConnect, TransportConnect, Negotiate, ConnectFailed, object,
     picture, Consistent, ThreadMatchesState, Handshaking
<1>3. CASE DoInitialization
  <2>1. CASE pc' = "initial_messages"
    <3>1. PICK w \in Dims, h \in Dims, f \in Formats, d \in NewData :
            /\ fb' = [Sized(Announced(w, h, f)) EXCEPT !.data = d]
            /\ capacity' = Sized(Announced(w, h, f)).data_size
      BY <1>3, <2>1 DEF DoInitialization, ConnectFailed
    <3>2. Sized(Announced(w, h, f)) \in Framebuffers
      BY ShapeTypes, SizedType
    <3>3. fb'.data_size = capacity' /\ capacity' \in Int
      BY <3>1, <3>2 DEF Framebuffers
    <3> QED
      BY <3>3
  <2>2. CASE pc' # "initial_messages"
    BY <1>3, <2>2 DEF DoInitialization, ConnectFailed, Consistent,
       ThreadMatchesState, Handshaking
  <2> QED
    BY <2>1, <2>2
<1>4. CASE SendInitialMessages
  BY <1>4 DEF SendInitialMessages, ConnectFailed, picture, Consistent,
     ThreadMatchesState, Handshaking
<1>5. CASE AppDisconnect \/ Destroy
  BY <1>5 DEF AppDisconnect, Disconnect, Destroy, picture, control
<1>6. CASE \/ StartProcessing \/ HandleBell \/ HandleColorMapEntries
           \/ HandleServerCutText \/ HandleFbUpdate \/ UpdateFinished
  BY <1>6 DEF StartProcessing, HandleBell, HandleColorMapEntries,
     HandleServerCutText, HandleFbUpdate, UpdateFinished, CanReceive, Invoke,
     object, picture
<1>7. CASE ReceiveFails \/ UnknownMessage \/ OutOfMemory \/ UnsupportedEncoding
  BY <1>7 DEF ReceiveFails, UnknownMessage, OutOfMemory, UnsupportedEncoding,
     Fail, Invoke, object, picture
<1>8. CASE ReceiveOnNull \/ ServerCloses \/ UNCHANGED vars
  BY <1>8 DEF ReceiveOnNull, Receiving, ServerCloses, vars, object, picture,
     control
<1>9. CASE DecodeRaw \/ DecodeCursor
  BY <1>9 DEF DecodeRaw, DecodeCursor, RectStarts, RectDone, CanReceive, Fail,
     Invoke, object, picture
<1>10. CASE DecodeDesktopSize
  <2>1. PICK w \in Dims, h \in Dims :
          \/ \E d \in NewData : Replace(d, Resized(w, h))
          \/ Fail("NOMEM")
    BY <1>10 DEF DecodeDesktopSize
  <2>2. Resized(w, h) \in Framebuffers
    BY ShapeTypes
  <2>3. CASE \E d \in NewData : Replace(d, Resized(w, h))
    <3>1. fb'.data_size = capacity' /\ capacity' \in Int
      BY <2>2, <2>3 DEF Replace, Framebuffers
    <3> QED
      BY <3>1
  <2>4. CASE Fail("NOMEM")
    BY <2>4 DEF Fail, Invoke
  <2> QED
    BY <2>1, <2>3, <2>4
<1>11. CASE CallbackReturn
  BY <1>11 DEF CallbackReturn, object, picture
<1>12. CASE MessageHandled
  BY <1>12 DEF MessageHandled, object, picture
<1>13. CASE Teardown
  BY <1>13 DEF Teardown, Disconnect, picture
<1>14. CASE SetPixelFormat
  <2>1. PICK f \in Formats :
          \/ fb' = [fb EXCEPT !.bits = f] /\ UNCHANGED capacity
          \/ \E d \in NewData : Replace(d, Reformatted(f))
    BY <1>14 DEF SetPixelFormat
  <2>2. UNCHANGED <<object, pc, frame>> /\ pc \in {"app", "callback"}
    BY <1>14 DEF SetPixelFormat, InApp, control
  <2>3. CASE fb' = [fb EXCEPT !.bits = f] /\ UNCHANGED capacity
    <3>1. fb'.data_size = fb.data_size
      BY <2>3 DEF Framebuffers
    <3> QED
      BY <2>2, <2>3, <3>1 DEF object
  <2>4. CASE \E d \in NewData : Replace(d, Reformatted(f))
    <3>1. Reformatted(f) \in Framebuffers
      BY ShapeTypes
    <3>2. fb'.data_size = capacity' /\ capacity' \in Int
      BY <2>4, <3>1 DEF Replace, Framebuffers
    <3> QED
      BY <3>2
  <2> QED
    BY <2>1, <2>3, <2>4
<1> QED
  BY NextCases, <1>1, <1>2, <1>3, <1>4, <1>5, <1>6, <1>7, <1>8, <1>9, <1>10,
     <1>11, <1>12, <1>13, <1>14

(* If the reallocation of ovnc_client_set_pixel_format cannot fail, the      *)
(* buffer in service is as large as data_size says, whatever the server and  *)
(* the callbacks do.                                                         *)
THEOREM FramebufferIsBacked ==
  ASSUME "reformat" \notin Fallible
  PROVE  Spec => []FramebufferBacked
<1>1. Init => Backed
  BY DEF Init, Backed, FramebufferBacked
<1>2. TypeOK /\ Consistent /\ Backed /\ [Next]_vars => Backed'
  BY BackedStep
<1>3. TypeOK /\ TypeOK' /\ Consistent /\ [Next]_vars => Consistent'
  BY ConsistentStep
<1>4. Backed => FramebufferBacked
  BY DEF Backed
<1> QED
  BY <1>1, <1>2, <1>3, <1>4, ConsistentInit, TypeCorrect, PTL DEF Spec

(* Under the same assumption no row the server sends is written past it.     *)
THEOREM RawStaysInside ==
  ASSUME "reformat" \notin Fallible
  PROVE  Spec => []NoOverrun
<1>1. Init => NoOverrun
  BY DEF Init, NoOverrun
<1>2. TypeOK /\ Consistent /\ FramebufferBacked /\ NoOverrun /\ [Next]_vars
        => NoOverrun'
  <2> SUFFICES ASSUME TypeOK, Consistent, FramebufferBacked, NoOverrun,
                      [Next]_vars
               PROVE  NoOverrun'
    OBVIOUS
  <2>1. CASE DecodeRaw
    <3>1. state = "CONNECTED" /\ ~Failing
      BY <2>1 DEF DecodeRaw, RectStarts, CanReceive, Consistent,
         TransportMatchesState, Handshaking, Failing
    <3>2. fb.data_size <= capacity /\ fb.data_size \in Int /\ capacity \in Int
      BY <3>1 DEF FramebufferBacked, TypeOK, Framebuffers
    <3>3. PICK r \in [x : Dims, y : Dims, width : Dims, height : Dims] :
            LET rows == 0 .. r.height - 1
                stored == {y \in rows : \A i \in 0..y : RowAccepted(r, i)}
            IN damage' = IF \E y \in stored : /\ r.width > 0
                                              /\ RowEnd(r, y) > capacity
                         THEN "overrun" ELSE damage
      BY <2>1 DEF DecodeRaw
    <3>4. ASSUME NEW y \in 0 .. r.height - 1, RowAccepted(r, y)
          PROVE  ~(RowEnd(r, y) > capacity)
      <4>1. RowEnd(r, y) <= fb.data_size
        BY <3>4 DEF RowAccepted
      <4>2. RowEnd(r, y) \in Int
        <5>1. BytesPerPixel(fb.bits) \in Int
          BY DEF BytesPerPixel
        <5>2. /\ r.x \in Nat /\ r.y \in Nat /\ r.width \in Nat
              /\ r.height \in Nat
          BY <3>3
        <5>3. y \in Int /\ fb.width \in Int
          BY <5>2 DEF TypeOK, Framebuffers
        <5> QED
          BY <5>1, <5>2, <5>3 DEF RowEnd
      <4> QED
        BY <4>1, <4>2, <3>2
    <3>5. \A y \in 0 .. r.height - 1 : y \in 0..y
      OBVIOUS
    <3> QED
      BY <3>3, <3>4, <3>5 DEF NoOverrun
  <2>2. CASE ~DecodeRaw
    BY NextCases, <2>2
    DEF NoOverrun, ghosts, vars, Create, Connect, TransportConnect, Negotiate,
        DoInitialization, ConnectFailed, SendInitialMessages, AppDisconnect,
        Destroy, StartProcessing, ReceiveFails, ReceiveOnNull, UnknownMessage,
        OutOfMemory, HandleBell, HandleColorMapEntries, HandleServerCutText,
        HandleFbUpdate, UpdateFinished, DecodeDesktopSize, DecodeCursor,
        UnsupportedEncoding, CallbackReturn, MessageHandled, Teardown,
        SetPixelFormat, ServerCloses
  <2> QED
    BY <2>1, <2>2
<1>3. TypeOK /\ TypeOK' /\ Consistent /\ [Next]_vars => Consistent'
  BY ConsistentStep
<1> QED
  BY <1>1, <1>2, <1>3, ConsistentInit, TypeCorrect, FramebufferIsBacked, PTL
  DEF Spec
=============================================================================
