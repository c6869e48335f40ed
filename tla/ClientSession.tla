----------------------------- MODULE ClientSession -----------------------------
(***************************************************************************)
(* What include/ovnc/ovnc_client.h promises an application about a client  *)
(* and its callbacks, without messages, framebuffers or resources: one     *)
(* life, at most one connection in it, callbacks one at a time and only    *)
(* within a session, and nothing after the news of its loss.               *)
(***************************************************************************)
CONSTANTS Events,   \* the callbacks the library may start
          NULL      \* no callback is running

VARIABLES phase,    \* NONE, CREATED, CONNECTED, DISCONNECTED or FREED
          running,  \* the callback being run
          told      \* the application was told that the session was lost

vars == <<phase, running, told>>

Init == phase = "NONE" /\ running = NULL /\ told = FALSE

Create == /\ phase = "NONE"
          /\ phase' = "CREATED"
          /\ UNCHANGED <<running, told>>

Open == /\ phase = "CREATED"
        /\ phase' = "CONNECTED"
        /\ UNCHANGED <<running, told>>

(* A callback is started within the session, and the last one tells of its  *)
(* loss.                                                                    *)
Deliver == /\ phase = "CONNECTED"
           /\ running = NULL
           /\ ~told
           /\ running' \in Events
           /\ told' = (running' = "disconnected")
           /\ UNCHANGED phase

Return == /\ running # NULL
          /\ running' = NULL
          /\ UNCHANGED <<phase, told>>

(* By the application, even from within a callback, or by the library.      *)
Close == /\ phase = "CONNECTED"
         /\ phase' = "DISCONNECTED"
         /\ UNCHANGED <<running, told>>

Free == /\ phase \in {"CREATED", "CONNECTED", "DISCONNECTED"}
        /\ running = NULL
        /\ phase' = "FREED"
        /\ UNCHANGED <<running, told>>

Next == Create \/ Open \/ Deliver \/ Return \/ Close \/ Free

Spec == Init /\ [][Next]_vars
=============================================================================
