-------------------------------- MODULE MCStream --------------------------------
(* Instances of OvncStream: one-part messages (SetPixelFormat, KeyEvent...)  *)
(* and ClientCutText, whose text may be empty, long, or larger than SockBuf. *)
EXTENDS OvncStream

Shapes == {[header |-> 2, body |-> 0], [header |-> 1, body |-> 1],
           [header |-> 2, body |-> 4]}
=============================================================================
