-------------------------- MODULE SocketConnectProofs --------------------------
(***************************************************************************)
(* Theorems about SocketConnect, for any number of addresses and           *)
(* descriptors, any timeout, whatever fails and whatever other threads do. *)
(***************************************************************************)
EXTENDS SocketConnect, SequenceTheorems, TLAPS

(* The numbers up to the next one.                                          *)
LEMMA UpToNext ==
  ASSUME NEW n \in Nat
  PROVE  /\ \A k \in 1 .. n + 1 : k \in 1..n \/ k = n + 1
         /\ \A k \in 1..n : k \in 1 .. n + 1
         /\ \A k \in 1 .. n + 1 : k <= n + 1
         /\ n + 1 \in 1 .. n + 1
OBVIOUS

(* ... and what is left of some when one is taken.                          *)
LEMMA OneTaken ==
  ASSUME NEW a \in Nat, NEW l \in Nat, NEW n \in Nat
  PROVE  /\ n = a - l => n + 1 = a - (l - 1) /\ n = a - (l - 1) - 1
         /\ n = a - l - 1 => n + 1 = a - l
         /\ n = a - l /\ ~(l > 0) => n = a
OBVIOUS

USE DescriptorsAssumption, AddressesAssumption, TimeoutsAssumption,
    ElapsedAssumption, CallsAssumption DEF attempt, result, clock

(* The next-state relation, one disjunct per operation.                     *)
LEMMA NextCases ==
  ASSUME [Next]_vars
  PROVE  \/ Getaddrinfo \/ Exhausted \/ Socket \/ MakeNonBlocking \/ Connect
         \/ ConnectBlocking \/ ConnectStarts
         \/ Answered \/ TimedOut \/ PollFails \/ Restore \/ TransportDestroy
         \/ NetworkAnswers \/ Tick \/ OtherOpens \/ UNCHANGED vars
BY DEF Next, Steps, Finished

LEMMA VerdictType ==
  /\ DOMAIN Verdict = {"refused", "timeout", "interrupted"}
  /\ Verdict["refused"] = "CONNECTION_REFUSED"
  /\ Verdict["timeout"] = "TIMEOUT" /\ Verdict["interrupted"] = "IO"
  /\ Endings = {"refused", "timeout", "interrupted", "no socket",
                "failed at once"}
BY DEF Verdict, Endings

(* One more address has ended.                                              *)
LEMMA OneMoreEnded ==
  ASSUME ended \in Seq(Endings), NEW how \in Endings
  PROVE  /\ Append(ended, how) \in Seq(Endings) /\ Len(ended) \in Nat
         /\ Len(Append(ended, how)) = Len(ended) + 1
         /\ Append(ended, how)[Len(ended) + 1] = how
         /\ \A k \in 1..Len(ended) : Append(ended, how)[k] = ended[k]
BY AppendProperties

(* Every step keeps the types.                                              *)
LEMMA TypeKept ==
  ASSUME TypeOK, [Next]_vars
  PROVE  TypeOK'
<1> USE DEF TypeOK, Attempting
<1>0. \A how \in {"refused", "timeout", "interrupted", "no socket",
                  "failed at once"} : Append(ended, how) \in Seq(Endings)
  BY OneMoreEnded, VerdictType
<1>1. CASE Getaddrinfo
  BY <1>1 DEF Getaddrinfo
<1>2. CASE Exhausted
  BY <1>2 DEF Exhausted, More
<1>3. CASE Socket
  <2>1. ended' \in Seq(Endings)
    BY <1>0, <1>3 DEF Socket
  <2>2. /\ addresses' = addresses /\ timeout' = timeout /\ err' = err
        /\ waited' = waited /\ elapsed' = elapsed /\ seen' = seen
        /\ left > 0 /\ left' = left - 1
    BY <1>3, ZenonT(30) DEF Socket, More, clock
  <2>4. left' \in 0..addresses
    BY <2>2
  <2>3. \/ UNCHANGED <<pc, owner, sock, mode, tcp, out>>
        \/ \E f \in Descriptors :
             /\ owner' = [owner EXCEPT ![f] = "us"] /\ sock' = f
             /\ mode' = "blocking" /\ tcp' = "none" /\ out' = out
             /\ pc' \in {"fcntl", "connect"}
    BY <1>3 DEF Socket, Opened
  <2> QED
    BY <2>1, <2>2, <2>3, <2>4
<1>4. CASE MakeNonBlocking
  BY <1>4 DEF MakeNonBlocking
<1>5. CASE Connect
  BY <1>0, <1>5 DEF Connect, Connected, GiveUp
<1>6. CASE Answered
  BY <1>0, <1>6 DEF Answered, GiveUp
<1>7. CASE TimedOut
  BY <1>0, <1>7 DEF TimedOut, GiveUp
<1>8. CASE PollFails
  BY <1>0, <1>8 DEF PollFails, GiveUp
<1>9. CASE Restore
  BY <1>9 DEF Restore
<1>10. CASE TransportDestroy
  BY <1>10 DEF TransportDestroy
<1>11. CASE NetworkAnswers
  BY <1>11 DEF NetworkAnswers
<1>12. CASE Tick
  BY <1>12 DEF Tick
<1>13. CASE OtherOpens
  BY <1>13 DEF OtherOpens
<1>14. CASE ConnectBlocking
  BY <1>0, <1>14 DEF ConnectBlocking, Connected, GiveUp
<1>15. CASE ConnectStarts
  BY <1>15 DEF ConnectStarts
<1>16. CASE UNCHANGED vars
  BY <1>16 DEF vars
<1> QED
  BY <1>1, <1>2, <1>3, <1>4, <1>5, <1>6, <1>7, <1>8, <1>9,
     <1>10, <1>11, <1>12, <1>13, <1>14, <1>15,
     <1>16, NextCases

(* Every variable of the model of ovnc__socket_connect keeps its type.      *)
THEOREM ConnectTypes == Spec => []TypeOK
<1>1. Init => TypeOK
  BY DEF Init, TypeOK
<1>2. TypeOK /\ [Next]_vars => TypeOK'
  BY TypeKept
<1> QED
  BY <1>1, <1>2, PTL DEF Spec

-----------------------------------------------------------------------------
(* What the loop knows of its socket at each system call, and what its      *)
(* caller may do with *out.                                                 *)
Linked ==
  /\ pc \in Attempting => sock \in Descriptors
  /\ pc = "restore" => tcp = "connected"
  /\ pc = "done" => out \in Descriptors
  /\ pc # "done" => out = Invalid

Held == Linked /\ DescriptorsHeld /\ ReadyWhenDone

(* Every step keeps the accounts of descriptors.                            *)
LEMMA HeldKept ==
  ASSUME TypeOK, Held, [Next]_vars
  PROVE  Held'
<1> USE DEF TypeOK, Held, Linked, DescriptorsHeld, ReadyWhenDone, Ours,
            Attempting
<1>1. CASE Getaddrinfo
  BY <1>1 DEF Getaddrinfo
<1>2. CASE Exhausted
  BY <1>2 DEF Exhausted, More
<1>3. CASE Socket
  BY <1>3 DEF Socket, More, Opened
<1>4. CASE MakeNonBlocking
  BY <1>4 DEF MakeNonBlocking
<1>5. CASE Connect
  BY <1>5 DEF Connect, Connected, GiveUp
<1>6. CASE Answered
  BY <1>6 DEF Answered, GiveUp
<1>7. CASE TimedOut
  BY <1>7 DEF TimedOut, GiveUp
<1>8. CASE PollFails
  BY <1>8 DEF PollFails, GiveUp
<1>9. CASE Restore
  BY <1>9 DEF Restore
<1>10. CASE TransportDestroy
  BY <1>10 DEF TransportDestroy
<1>11. CASE NetworkAnswers
  BY <1>11 DEF NetworkAnswers
<1>12. CASE Tick
  BY <1>12 DEF Tick
<1>13. CASE OtherOpens
  BY <1>13 DEF OtherOpens
<1>14. CASE ConnectBlocking
  BY <1>14 DEF ConnectBlocking, Connected, GiveUp
<1>15. CASE ConnectStarts
  BY <1>15 DEF ConnectStarts
<1>16. CASE UNCHANGED vars
  BY <1>16 DEF vars
<1> QED
  BY <1>1, <1>2, <1>3, <1>4, <1>5, <1>6, <1>7, <1>8, <1>9,
     <1>10, <1>11, <1>12, <1>13, <1>14, <1>15,
     <1>16, NextCases

(* Held holds at every step, types included.                                *)
LEMMA AlwaysHeld == Spec => [](TypeOK /\ Held)
<1>1. Init => TypeOK /\ Held
  BY DEF Init, TypeOK, Held, Linked, DescriptorsHeld, ReadyWhenDone, Ours,
         Attempting
<1>2. TypeOK /\ Held /\ [Next]_vars => (TypeOK /\ Held)'
  BY TypeKept, HeldKept
<1> QED
  BY <1>1, <1>2, PTL DEF Spec

(* The loop of ovnc__socket_connect holds one descriptor at most, closes    *)
(* each one it does not hand out, and hands out a connected, blocking one.  *)
THEOREM NoDescriptorLeak == Spec => [](DescriptorsHeld /\ ReadyWhenDone)
<1>1. Held => DescriptorsHeld /\ ReadyWhenDone
  BY DEF Held
<1> QED
  BY <1>1, AlwaysHeld, PTL

(* No step closes a descriptor that is not the library's own.               *)
LEMMA StepLeavesOthers ==
  ASSUME TypeOK, Held, [Next]_vars, NEW f \in Descriptors, owner[f] = "other"
  PROVE  owner'[f] = "other"
<1> USE DEF TypeOK, Held, Linked, DescriptorsHeld, Ours, Attempting
<1>1. CASE Getaddrinfo
  BY <1>1 DEF Getaddrinfo
<1>2. CASE Exhausted
  BY <1>2 DEF Exhausted, More
<1>3. CASE Socket
  BY <1>3 DEF Socket, More, Opened
<1>4. CASE MakeNonBlocking
  BY <1>4 DEF MakeNonBlocking
<1>5. CASE Connect
  BY <1>5 DEF Connect, Connected, GiveUp
<1>6. CASE Answered
  BY <1>6 DEF Answered, GiveUp
<1>7. CASE TimedOut
  BY <1>7 DEF TimedOut, GiveUp
<1>8. CASE PollFails
  BY <1>8 DEF PollFails, GiveUp
<1>9. CASE Restore
  BY <1>9 DEF Restore
<1>10. CASE TransportDestroy
  BY <1>10 DEF TransportDestroy
<1>11. CASE NetworkAnswers
  BY <1>11 DEF NetworkAnswers
<1>12. CASE Tick
  BY <1>12 DEF Tick
<1>13. CASE OtherOpens
  BY <1>13 DEF OtherOpens
<1>14. CASE ConnectBlocking
  BY <1>14 DEF ConnectBlocking, Connected, GiveUp
<1>15. CASE ConnectStarts
  BY <1>15 DEF ConnectStarts
<1>16. CASE UNCHANGED vars
  BY <1>16 DEF vars
<1> QED
  BY <1>1, <1>2, <1>3, <1>4, <1>5, <1>6, <1>7, <1>8, <1>9,
     <1>10, <1>11, <1>12, <1>13, <1>14, <1>15,
     <1>16, NextCases

(* No socket is closed twice, so no descriptor of another thread is hit.    *)
THEOREM NothingOfOthersCloses == Spec => OthersUntouched
<1>1. TypeOK /\ Held /\ [Next]_vars =>
        \A f \in Descriptors : owner[f] = "other" => owner'[f] = "other"
  BY StepLeavesOthers
<1> QED
  BY <1>1, AlwaysHeld, PTL DEF Spec, OthersUntouched

-----------------------------------------------------------------------------
(* Where the time may have gone: the attempts that are over had the whole   *)
(* timeout each, and the poll() that runs has waited no longer than it may. *)
Budget == timeout * (addresses - left)

Timed ==
  /\ waited <= elapsed
  /\ pc = "getaddrinfo" => addresses = 0
  /\ pc = "connect" => mode = "nonblocking"
  /\ pc = "poll" => waited <= timeout /\ elapsed + timeout <= Budget + waited
  /\ pc \in {"fcntl", "connect"} => elapsed + timeout <= Budget
  /\ elapsed <= Budget

(* One attempt more is one timeout more.                                    *)
LEMMA OneMore ==
  ASSUME NEW t \in Nat, NEW a \in Int, NEW l \in Int
  PROVE  /\ t * (a - l) \in Int
         /\ t * (a - (l - 1)) = t * (a - l) + t
         /\ a = l => t * (a - l) = 0
OBVIOUS

(* Not all addresses need have been tried.                                  *)
LEMMA BudgetBound ==
  ASSUME NEW t \in Nat, NEW a \in Nat, NEW l \in 0..a
  PROVE  t * (a - l) <= t * a
OBVIOUS

(* The timeout stays as it is, and so does an fcntl that failed.            *)
LEMMA TimeoutKept ==
  ASSUME [Next]_vars
  PROVE  timeout' = timeout /\ seen \subseteq seen'
<1>1. CASE Getaddrinfo \/ Exhausted \/ Socket \/ MakeNonBlocking
  BY <1>1 DEF Getaddrinfo, Exhausted, Socket, MakeNonBlocking
<1>2. CASE Connect \/ ConnectBlocking \/ ConnectStarts
  BY <1>2 DEF Connect, ConnectBlocking, ConnectStarts, Connected
<1>3. CASE Answered \/ TimedOut \/ PollFails \/ Restore
  BY <1>3 DEF Answered, TimedOut, PollFails, Restore
<1>4. CASE TransportDestroy \/ NetworkAnswers \/ Tick \/ OtherOpens
  BY <1>4 DEF TransportDestroy, NetworkAnswers, Tick, OtherOpens
<1>5. CASE UNCHANGED vars
  BY <1>5 DEF vars
<1> QED
  BY <1>1, <1>2, <1>3, <1>4, <1>5, NextCases

(* Every step keeps to the budget.                                          *)
LEMMA TimedKept ==
  ASSUME TypeOK, Bounded, Bounded', Timed, [Next]_vars
  PROVE  Timed'
<1>1. timeout' = timeout /\ timeout \in Nat /\ 1 <= timeout /\ timeout <= IntMax
  BY TimeoutKept DEF TypeOK, Bounded
<1> USE <1>1 DEF TypeOK, Timed, Budget
<1>2. CASE Getaddrinfo
  BY <1>2, OneMore DEF Getaddrinfo
<1>3. CASE Exhausted
  BY <1>3, OneMore DEF Exhausted, More
<1>4. CASE Socket
  <2>1. /\ left > 0 /\ left' = left - 1 /\ addresses' = addresses
        /\ elapsed' = elapsed /\ waited' = waited /\ pc = "socket"
        /\ pc' \in {"socket", "fcntl", "connect"}
        /\ pc' = "connect" => ~(timeout > 0)
    BY <1>4 DEF Socket, More
  <2> QED
    BY <2>1, OneMore DEF Bounded
<1>5. CASE MakeNonBlocking
  BY <1>5, OneMore DEF MakeNonBlocking, Bounded
<1>6. CASE Connect
  BY <1>6, OneMore DEF Connect, Connected, GiveUp
<1>7. CASE Answered
  BY <1>7, OneMore DEF Answered, GiveUp
<1>8. CASE TimedOut
  BY <1>8, OneMore DEF TimedOut, GiveUp, PollTimeout
<1>9. CASE PollFails
  BY <1>9, OneMore DEF PollFails, GiveUp
<1>10. CASE Restore
  BY <1>10, OneMore DEF Restore
<1>11. CASE TransportDestroy
  BY <1>11, OneMore DEF TransportDestroy
<1>12. CASE NetworkAnswers
  BY <1>12, OneMore DEF NetworkAnswers
<1>13. CASE Tick
  BY <1>13, OneMore DEF Tick, PollTimeout
<1>14. CASE OtherOpens
  BY <1>14, OneMore DEF OtherOpens
<1>15. CASE ConnectBlocking
  BY <1>15, OneMore DEF ConnectBlocking, Connected, GiveUp
<1>16. CASE ConnectStarts
  BY <1>16, OneMore DEF ConnectStarts
<1>17. CASE UNCHANGED vars
  BY <1>17 DEF vars
<1> QED
  BY <1>2, <1>3, <1>4, <1>5, <1>6, <1>7, <1>8, <1>9, <1>10, <1>11, <1>12,
     <1>13, <1>14, <1>15, <1>16, <1>17, NextCases

(* A timeout that fits an int bounds the waits of the whole call, however   *)
(* many addresses there are and whatever the network does.                  *)
THEOREM CallWithinTimeout == Spec => []WithinTimeout
<1>1. Init => TypeOK /\ (Bounded => Timed)
  BY OneMore DEF Init, TypeOK, Bounded, Timed, Budget
<1>2. TypeOK /\ (Bounded => Timed) /\ [Next]_vars
        => (TypeOK /\ (Bounded => Timed))'
  <2>1. ASSUME TypeOK, [Next]_vars, Bounded' PROVE Bounded
    BY <2>1, TimeoutKept DEF Bounded
  <2> QED
    BY <2>1, TypeKept, TimedKept
<1>3. TypeOK /\ (Bounded => Timed) => WithinTimeout
  BY BudgetBound DEF TypeOK, Bounded, Timed, Budget, WithinTimeout
<1> QED
  BY <1>1, <1>2, <1>3, PTL DEF Spec

-----------------------------------------------------------------------------
(* What err stands for at every step of the loop, and which addresses the    *)
(* attempts so far belong to: all that were taken but the one under way.     *)
Reported ==
  \/ Awaited = {} /\ err = "CONNECTION_REFUSED"
  \/ \E k \in Awaited : /\ \A l \in Awaited : l <= k
                        /\ err = Verdict[ended[k]]

Founded ==
  /\ pc = "getaddrinfo" => addresses = 0 /\ left = 0
  /\ pc \in {"getaddrinfo", "socket"} => Len(ended) = addresses - left
  /\ pc \in Attempting => Len(ended) = addresses - left - 1
  /\ pc = "failed" => Len(ended) = addresses
  /\ pc \notin {"done", "released"} => Reported

(* An attempt that was waited for decides what is reported ...               *)
LEMMA Decides ==
  ASSUME ended \in Seq(Endings), NEW how \in DOMAIN Verdict,
         ended' = Append(ended, how), err' = Verdict[how]
  PROVE  Reported'
<1>1. /\ Len(ended) \in Nat /\ Len(ended') = Len(ended) + 1
      /\ ended'[Len(ended) + 1] = how
  BY OneMoreEnded DEF Endings
<1>2. Len(ended) + 1 \in Awaited' /\ \A l \in Awaited' : l <= Len(ended) + 1
  <2>1. Len(ended) + 1 \in 1 .. Len(ended) + 1
        /\ \A l \in 1 .. Len(ended) + 1 : l <= Len(ended) + 1
    BY <1>1, UpToNext
  <2> QED
    BY <1>1, <2>1 DEF Awaited
<1> QED
  BY <1>1, <1>2 DEF Reported

(* ... and any other leaves that alone.                                      *)
LEMMA Passes ==
  ASSUME ended \in Seq(Endings), Reported,
         ended' = Append(ended, "no socket")
           \/ ended' = Append(ended, "failed at once"),
         err' = err
  PROVE  Reported'
<1>1. /\ Len(ended) \in Nat /\ Len(ended') = Len(ended) + 1
      /\ ended'[Len(ended) + 1] \notin DOMAIN Verdict
      /\ \A k \in 1..Len(ended) : ended'[k] = ended[k]
  <2>1. PICK how \in {"no socket", "failed at once"} :
          ended' = Append(ended, how)
    OBVIOUS
  <2>2. how \in Endings /\ how \notin DOMAIN Verdict
    BY <2>1, VerdictType
  <2> QED
    BY <2>1, <2>2, OneMoreEnded
<1>2. \A k \in 1 .. Len(ended) + 1 : k \in 1..Len(ended) \/ k = Len(ended) + 1
  BY <1>1, UpToNext
<1>3. \A k \in 1..Len(ended) : k \in 1 .. Len(ended) + 1
  BY <1>1, UpToNext
<1>4. Awaited' = Awaited
  BY <1>1, <1>2, <1>3 DEF Awaited
<1>5. \A k \in Awaited : ended'[k] = ended[k]
  BY <1>1 DEF Awaited
<1> QED
  BY <1>4, <1>5 DEF Reported

(* Every step keeps it: err and the attempts change together.                *)
LEMMA FoundedKept ==
  ASSUME TypeOK, Founded, [Next]_vars
  PROVE  Founded'
<1>0. /\ addresses \in Nat /\ left \in Nat /\ left <= addresses
      /\ ended \in Seq(Endings) /\ Len(ended) \in Nat
  BY DEF TypeOK
<1>1. ASSUME ended' = ended, err' = err, Reported PROVE Reported'
  BY <1>1 DEF Reported, Awaited
<1>2. \A how \in Endings : Len(Append(ended, how)) = Len(ended) + 1
  BY <1>0, OneMoreEnded
<1>3. CASE Getaddrinfo
  BY <1>0, <1>1, <1>3 DEF Getaddrinfo, Founded, Attempting
<1>4. CASE Exhausted
  BY <1>0, <1>1, <1>4 DEF Exhausted, More, Founded, Attempting
<1>5. CASE Socket
  <2>1. /\ left > 0 /\ left' = left - 1 /\ addresses' = addresses
        /\ err' = err /\ pc = "socket"
    BY <1>5 DEF Socket, More
  <2>2. CASE ended' = Append(ended, "no socket") /\ pc' = pc
    <3>1. Reported'
      BY <1>0, <2>1, <2>2, Passes DEF Founded
    <3> QED
      <4>1. Len(ended') = Len(ended) + 1
        BY <1>2, <2>2, VerdictType
      <4> QED
        <5>1. Len(ended) = addresses - left
          BY <2>1 DEF Founded
        <5>2. Len(ended') = addresses' - left'
          BY <1>0, <2>1, <4>1, <5>1, OneTaken
        <5> QED
          BY <2>1, <2>2, <3>1, <5>2 DEF Founded, Attempting
  <2>3. CASE ended' = ended /\ pc' \in {"fcntl", "connect"}
    <3>1. Reported'
      BY <1>1, <2>1, <2>3 DEF Founded
    <3> QED
      BY <1>0, <2>1, <2>3, <3>1 DEF Founded, Attempting
  <2> QED
    BY <1>5, <2>2, <2>3 DEF Socket
<1>6. CASE MakeNonBlocking
  BY <1>1, <1>6 DEF MakeNonBlocking, Founded, Attempting
<1>7. CASE Connect \/ ConnectBlocking
  <2>1. /\ pc = "connect" /\ left' = left /\ addresses' = addresses
        /\ \/ pc' = "restore" /\ err' = err /\ ended' = ended
           \/ /\ pc' = "socket" /\ err' = err
              /\ ended' = Append(ended, "failed at once")
    BY <1>7 DEF Connect, ConnectBlocking, Connected, GiveUp
  <2>2. Reported'
    BY <1>0, <1>1, <2>1, Passes DEF Founded
  <2>3. pc' = "socket" => Len(ended') = Len(ended) + 1
    BY <1>2, <2>1, VerdictType
  <2> QED
    <3>1. Len(ended) = addresses - left - 1
      BY <2>1 DEF Founded, Attempting
    <3>2. pc' = "socket" => Len(ended') = addresses' - left'
      <4>1. Len(ended) + 1 = addresses - left
        BY <1>0, <3>1, OneTaken
      <4>2. addresses' = addresses /\ left' = left
        BY <2>1
      <4> QED
        BY <2>3, <4>1, <4>2
    <3>3. pc' = "restore" => Len(ended') = addresses' - left' - 1
      BY <2>1, <3>1
    <3> QED
      BY <2>1, <2>2, <3>2, <3>3 DEF Founded, Attempting
<1>8. CASE ConnectStarts
  BY <1>1, <1>8 DEF ConnectStarts, Founded, Attempting
<1>9. CASE Answered \/ TimedOut \/ PollFails
  <2>1. /\ pc = "poll" /\ left' = left /\ addresses' = addresses
        /\ \/ pc' = "restore" /\ err' = err /\ ended' = ended
           \/ /\ pc' = "socket"
              /\ \E how \in DOMAIN Verdict : /\ err' = Verdict[how]
                                            /\ ended' = Append(ended, how)
    BY <1>9, VerdictType DEF Answered, TimedOut, PollFails, GiveUp
  <2>2. Reported'
    BY <1>0, <1>1, <2>1, Decides DEF Founded
  <2>3. pc' = "socket" => Len(ended') = Len(ended) + 1
    BY <1>2, <2>1, VerdictType
  <2> QED
    <3>1. Len(ended) = addresses - left - 1
      BY <2>1 DEF Founded, Attempting
    <3>2. pc' = "socket" => Len(ended') = addresses' - left'
      <4>1. Len(ended) + 1 = addresses - left
        BY <1>0, <3>1, OneTaken
      <4>2. addresses' = addresses /\ left' = left
        BY <2>1
      <4> QED
        BY <2>3, <4>1, <4>2
    <3>3. pc' = "restore" => Len(ended') = addresses' - left' - 1
      BY <2>1, <3>1
    <3> QED
      BY <2>1, <2>2, <3>2, <3>3 DEF Founded, Attempting
<1>10. CASE Restore
  BY <1>10 DEF Restore, Founded, Attempting
<1>11. CASE TransportDestroy
  BY <1>11 DEF TransportDestroy, Founded, Attempting
<1>12. CASE NetworkAnswers
  BY <1>1, <1>12 DEF NetworkAnswers, Founded
<1>13. CASE Tick
  BY <1>1, <1>13 DEF Tick, Founded
<1>14. CASE OtherOpens
  BY <1>1, <1>14 DEF OtherOpens, Founded
<1>15. CASE UNCHANGED vars
  BY <1>1, <1>15 DEF vars, Founded
<1> QED
  BY <1>3, <1>4, <1>5, <1>6, <1>7, <1>8, <1>9, <1>10, <1>11, <1>12, <1>13,
     <1>14, <1>15, NextCases

(* A failed connect has tried every address, and reports how the last one it *)
(* waited for ended, CONNECTION_REFUSED if there was none: for any number of *)
(* addresses, whichever of them get a socket, fail at once, answer, are      *)
(* interrupted or never answer, in whatever order.                           *)
THEOREM FailureIsHonest == Spec => []Honest
<1>1. Init => TypeOK /\ Founded
  <2> SUFFICES ASSUME Init PROVE TypeOK /\ Founded
    OBVIOUS
  <2>1. ended = <<>> /\ ended \in Seq(Endings) /\ Len(ended) = 0
    BY DEF Init
  <2>2. Awaited = {}
    BY <2>1 DEF Awaited
  <2> QED
    BY <2>1, <2>2 DEF Init, TypeOK, Founded, Reported, Attempting
<1>2. TypeOK /\ Founded /\ [Next]_vars => (TypeOK /\ Founded)'
  BY TypeKept, FoundedKept
<1>3. Founded => Honest
  BY DEF Founded, Reported, Honest
<1> QED
  BY <1>1, <1>2, <1>3, PTL DEF Spec
=============================================================================
