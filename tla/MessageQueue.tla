------------------------------ MODULE MessageQueue ------------------------------
(***************************************************************************)
(* What a call that sends a message promises: if it returns OK the message *)
(* is on its way, once and after those sent before, and arrives as long as *)
(* the connection is there; if it returns an error the message never       *)
(* arrives.                                                                *)
(***************************************************************************)
EXTENDS Naturals, Sequences

CONSTANT Senders

VARIABLES open,      \* the connection is open, or gone
          calls,     \* calls of each sender that have returned
          failed,    \* the messages whose call returned an error
          queue,     \* messages sent and not delivered
          delivered  \* messages delivered

vars == <<open, calls, failed, queue, delivered>>

Init == /\ open = "open"
        /\ calls = [s \in Senders |-> 0]
        /\ failed = {}
        /\ queue = <<>>
        /\ delivered = <<>>

Send(s) ==
  /\ open = "open"
  /\ calls' = [calls EXCEPT ![s] = @ + 1]
  /\ queue' = Append(queue, [from |-> s, msg |-> calls'[s]])
  /\ UNCHANGED <<open, failed, delivered>>

Fail(s) ==
  /\ calls' = [calls EXCEPT ![s] = @ + 1]
  /\ failed' = failed \cup {[from |-> s, msg |-> calls'[s]]}
  /\ UNCHANGED <<open, queue, delivered>>

Deliver ==
  \E n \in 1..Len(queue) :
    /\ delivered' = delivered \o SubSeq(queue, 1, n)
    /\ queue' = SubSeq(queue, n + 1, Len(queue))
    /\ UNCHANGED <<open, calls, failed>>

Close ==
  /\ open = "open"
  /\ open' = "gone"
  /\ UNCHANGED <<calls, failed, queue, delivered>>

(* What was under way when the connection went may never arrive.            *)
Lose ==
  /\ open = "gone"
  /\ queue' = <<>>
  /\ UNCHANGED <<open, calls, failed, delivered>>

Next == Deliver \/ Close \/ Lose \/ \E s \in Senders : Send(s) \/ Fail(s)

Spec == Init /\ [][Next]_vars
=============================================================================
