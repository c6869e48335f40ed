----------------------------- MODULE SocketConnect -----------------------------
(***************************************************************************)
(* Opening a connection: ovnc__socket_connect of                           *)
(* src/src/platform/ovnc_socket_posix.c, system call by system call, and   *)
(* the release of its socket by ovnc__transport_destroy.  The descriptors  *)
(* belong to a process with other threads, the network answers when it     *)
(* likes or never, and time passes while poll() waits.                     *)
(***************************************************************************)
EXTENDS Integers, Sequences

CONSTANTS
  Descriptors,   \* file descriptors of the process
  Invalid,       \* OVNC_INVALID_SOCKET
  MaxAddresses,  \* bound: addresses getaddrinfo returns
  Timeouts,      \* values of connect_timeout_ms
  IntMax,        \* INT_MAX: the largest timeout poll() can be given
  MaxElapsed,    \* bound: the clock stops there
  Fallible       \* the system calls that may fail

Calls == {"socket", "nonblock", "poll", "restore"}

ASSUME DescriptorsAssumption == Invalid \notin Descriptors
ASSUME AddressesAssumption == MaxAddresses \in Nat
ASSUME TimeoutsAssumption ==
  /\ IntMax \in Nat
  /\ Timeouts \subseteq 0 .. 2 * IntMax + 1
ASSUME ElapsedAssumption == MaxElapsed \in Nat
ASSUME CallsAssumption == Fallible \subseteq Calls

VARIABLES
  pc,         \* the system call to make next
  timeout,    \* timeout_ms
  addresses,  \* addresses found
  left,       \* of which not yet tried
  sock,       \* the socket being connected
  mode,       \* whether sock blocks
  tcp,        \* the attempt on sock: none, pending, connected, refused
  out,        \* *out, which is transport->sock
  err,        \* the result
  owner,      \* who has each descriptor open
  waited,     \* how long the running poll() has waited
  elapsed,    \* ghost: how long all waits of the call have taken
  seen,       \* ghost: which fcntl failed
  ended       \* ghost: how each address so far ended, in their order

attempt == <<sock, mode, tcp>>
result == <<out, err>>
clock == <<waited, elapsed>>
vars == <<pc, timeout, addresses, left, attempt, result, owner, clock, seen,
          ended>>

Init ==
  /\ pc = "getaddrinfo"
  /\ timeout \in Timeouts
  /\ addresses = 0 /\ left = 0
  /\ sock = Invalid /\ mode = "blocking" /\ tcp = "none"
  /\ out = Invalid /\ err = "CONNECTION_REFUSED"
  /\ owner = [f \in Descriptors |-> "nobody"]
  /\ waited = 0 /\ elapsed = 0
  /\ seen = {} /\ ended = <<>>

-----------------------------------------------------------------------------
Getaddrinfo ==
  /\ pc = "getaddrinfo"
  /\ \/ pc' = "failed" /\ UNCHANGED <<addresses, left>>
     \/ /\ addresses' \in 1..MaxAddresses
        /\ left' = addresses'
        /\ pc' = "socket"
  /\ UNCHANGED <<timeout, attempt, result, owner, clock, seen, ended>>

(* Mutant: one address too many.                                            *)
More_OneTooMany == left >= 0

More == left > 0

(* No address is left: err says what the last attempt that set it saw.      *)
Exhausted ==
  /\ pc = "socket"
  /\ ~More
  /\ pc' = "failed"
  /\ UNCHANGED <<timeout, addresses, left, attempt, result, owner, clock, seen,
                 ended>>

(* Mutant: *out is set as soon as there is a socket.                        *)
Opened_Early(f) == out' = f

(* The caller learns of a socket only when it is connected.                 *)
Opened(f) == out' = out

Socket ==
  /\ pc = "socket"
  /\ More
  /\ left' = left - 1
  /\ \/ \E f \in Descriptors :
          /\ owner[f] = "nobody"
          /\ owner' = [owner EXCEPT ![f] = "us"]
          /\ sock' = f
          /\ Opened(f)
          /\ mode' = "blocking"
          /\ tcp' = "none"
          /\ pc' = IF timeout > 0 THEN "fcntl" ELSE "connect"
          /\ UNCHANGED ended
     \/ /\ \/ "socket" \in Fallible
           \/ \A f \in Descriptors : owner[f] # "nobody"
        /\ ended' = Append(ended, "no socket")
        /\ UNCHANGED <<pc, owner, sock, mode, tcp, out>>
  /\ UNCHANGED <<timeout, addresses, err, clock, seen>>

(* F_GETFL or F_SETFL may fail, and then the socket goes on blocking.       *)
MakeNonBlocking ==
  /\ pc = "fcntl"
  /\ pc' = "connect"
  /\ \/ mode' = "nonblocking" /\ UNCHANGED seen
     \/ /\ "nonblock" \in Fallible
        /\ seen' = seen \cup {"blocking"}
        /\ UNCHANGED mode
  /\ UNCHANGED <<timeout, addresses, left, sock, tcp, result, owner, clock,
                 ended>>

(* Mutant: the socket of a failed attempt is left open.                     *)
GiveUp_Open(verdict, how) ==
  /\ owner' = owner
  /\ err' = verdict
  /\ ended' = Append(ended, how)
  /\ pc' = "socket"

(* Mutant: the first address that fails decides.                            *)
GiveUp_First(verdict, how) ==
  /\ owner' = [owner EXCEPT ![sock] = "nobody"]
  /\ err' = verdict
  /\ ended' = Append(ended, how)
  /\ pc' = "failed"

(* The attempt failed: close its socket and try the next address.           *)
GiveUp(verdict, how) ==
  /\ owner' = [owner EXCEPT ![sock] = "nobody"]
  /\ err' = verdict
  /\ ended' = Append(ended, how)
  /\ pc' = "socket"

(* connect() itself succeeds or fails; a failure does not set err, which    *)
(* stays what it was: the first value, or an earlier address's error.       *)
Connected ==
  /\ pc = "connect"
  /\ \/ /\ tcp' = "connected"
        /\ pc' = "restore"
        /\ UNCHANGED <<err, owner, ended>>
     \/ /\ tcp' = "refused"
        /\ GiveUp(err, "failed at once")
  /\ UNCHANGED <<timeout, addresses, left, sock, mode, out, clock, seen>>

Connect == mode = "nonblocking" /\ Connected

(* ... which only the network can end on a socket that blocks.              *)
ConnectBlocking == mode = "blocking" /\ Connected

(* EINPROGRESS.                                                             *)
ConnectStarts ==
  /\ pc = "connect"
  /\ mode = "nonblocking"
  /\ tcp' = "pending"
  /\ pc' = "poll"
  /\ waited' = 0
  /\ UNCHANGED <<timeout, addresses, left, sock, mode, result, owner, elapsed,
                 seen, ended>>

(* (int)timeout_ms: what does not fit is negative, and poll() then waits    *)
(* for ever.                                                                *)
PollTimeout == IF timeout > IntMax THEN timeout - 2 * (IntMax + 1) ELSE timeout

Answered ==
  /\ pc = "poll"
  /\ \/ /\ tcp = "connected"
        /\ pc' = "restore"
        /\ UNCHANGED <<err, owner, ended>>
     \/ /\ tcp = "refused"
        /\ GiveUp("CONNECTION_REFUSED", "refused")
  /\ UNCHANGED <<timeout, addresses, left, attempt, out, clock, seen>>

TimedOut ==
  /\ pc = "poll"
  /\ tcp = "pending"
  /\ waited = PollTimeout
  /\ GiveUp("TIMEOUT", "timeout")
  /\ UNCHANGED <<timeout, addresses, left, attempt, out, clock, seen>>

(* Mutant: an interrupted poll() starts again, with the whole timeout.      *)
PollFails_Again ==
  /\ pc = "poll"
  /\ "poll" \in Fallible
  /\ waited' = 0
  /\ UNCHANGED <<pc, timeout, addresses, left, attempt, result, owner, elapsed,
                 seen, ended>>

(* A signal is enough.                                                      *)
PollFails ==
  /\ pc = "poll"
  /\ "poll" \in Fallible
  /\ GiveUp("IO", "interrupted")
  /\ UNCHANGED <<timeout, addresses, left, attempt, out, clock, seen>>

(* Mutant: only a connection that had to be waited for is made blocking.    *)
Restore_AfterPoll ==
  /\ pc = "restore"
  /\ pc' = "done"
  /\ out' = sock
  /\ err' = "OK"
  /\ mode' = IF waited > 0 THEN "blocking" ELSE mode
  /\ UNCHANGED <<timeout, addresses, left, sock, tcp, owner, clock, seen, ended>>

(* Back to blocking if fcntl works; a success either way.                   *)
Restore ==
  /\ pc = "restore"
  /\ pc' = "done"
  /\ out' = sock
  /\ err' = "OK"
  /\ \/ mode' = "blocking" /\ UNCHANGED seen
     \/ /\ mode = "nonblocking" /\ "restore" \in Fallible
        /\ seen' = seen \cup {"restore_failed"}
        /\ UNCHANGED mode
  /\ UNCHANGED <<timeout, addresses, left, sock, tcp, owner, clock, ended>>

(* ovnc__transport_destroy: after a failure, or when the client is done.    *)
TransportDestroy ==
  /\ pc \in {"done", "failed"}
  /\ pc' = "released"
  /\ owner' = IF out = Invalid THEN owner ELSE [owner EXCEPT ![out] = "nobody"]
  /\ out' = Invalid
  /\ UNCHANGED <<timeout, addresses, left, attempt, err, clock, seen, ended>>

-----------------------------------------------------------------------------
(* The environment: the network, the clock, other threads.                  *)

NetworkAnswers ==
  /\ tcp = "pending" /\ pc = "poll"
  /\ tcp' \in {"connected", "refused"}
  /\ UNCHANGED <<pc, timeout, addresses, left, sock, mode, result, owner,
                 clock, seen, ended>>

(* poll() waits, or a connect() that blocks; the clock saturates.           *)
Tick ==
  /\ \/ pc = "poll" /\ tcp = "pending" /\ waited # PollTimeout
     \/ pc = "connect" /\ mode = "blocking"
  /\ waited' = IF pc = "poll" /\ waited < MaxElapsed THEN waited + 1 ELSE waited
  /\ elapsed' = IF elapsed < MaxElapsed THEN elapsed + 1 ELSE elapsed
  /\ UNCHANGED <<pc, timeout, addresses, left, attempt, result, owner, seen,
                 ended>>

OtherOpens ==
  /\ \E f \in Descriptors : /\ owner[f] = "nobody"
                            /\ owner' = [owner EXCEPT ![f] = "other"]
  /\ UNCHANGED <<pc, timeout, addresses, left, attempt, result, clock, seen,
                 ended>>

Finished == pc = "released" /\ UNCHANGED vars

-----------------------------------------------------------------------------
Steps ==
  \/ Getaddrinfo \/ Exhausted \/ Socket \/ MakeNonBlocking \/ Connect
  \/ ConnectStarts \/ Answered \/ TimedOut \/ Restore

Next ==
  \/ Steps \/ ConnectBlocking \/ PollFails \/ TransportDestroy
  \/ NetworkAnswers \/ Tick \/ OtherOpens \/ Finished

Spec == Init /\ [][Next]_vars

(* The thread runs and time passes; the network need not answer, and no     *)
(* signal need interrupt a poll().                                          *)
FairSpec == Spec /\ WF_vars(Steps) /\ WF_vars(Tick)

-----------------------------------------------------------------------------
(* Properties.                                                              *)

(* How poll() may end an attempt that is then given up, and the error the    *)
(* attempt is reported by, if it is.                                         *)
Verdict == [refused     |-> "CONNECTION_REFUSED",
            timeout     |-> "TIMEOUT",
            interrupted |-> "IO"]

Endings == DOMAIN Verdict \cup {"no socket", "failed at once"}

Attempting == {"fcntl", "connect", "poll", "restore"}

(* Every variable keeps its type.                                           *)
TypeOK ==
  /\ pc \in Attempting \cup {"getaddrinfo", "socket", "done", "failed", "released"}
  /\ timeout \in Timeouts
  /\ addresses \in 0..MaxAddresses
  /\ left \in 0..addresses
  /\ sock \in Descriptors \cup {Invalid}
  /\ mode \in {"blocking", "nonblocking"}
  /\ tcp \in {"none", "pending", "connected", "refused"}
  /\ out \in Descriptors \cup {Invalid}
  /\ err \in {"OK", "CONNECTION_REFUSED", "TIMEOUT", "IO"}
  /\ owner \in [Descriptors -> {"nobody", "us", "other"}]
  /\ waited \in 0..MaxElapsed
  /\ elapsed \in 0..MaxElapsed
  /\ seen \subseteq {"blocking", "restore_failed"}
  /\ ended \in Seq(Endings)

Ours == {f \in Descriptors : owner[f] = "us"}

(* The descriptors open are exactly the one being connected, or the one     *)
(* handed out: no path out of the loop leaks a socket, hands out a closed   *)
(* one, or leaves one behind once the transport is destroyed.               *)
DescriptorsHeld ==
  Ours = IF pc \in Attempting THEN {sock} ELSE {out} \ {Invalid}

(* Nothing closes a descriptor that another thread has opened meanwhile:    *)
(* no socket is closed twice.                                               *)
OthersUntouched ==
  [][\A f \in Descriptors : owner[f] = "other" => owner'[f] = "other"]_vars

(* What is handed out is connected, and blocks, as the transfer loops need, *)
(* unless the fcntl that restores it failed.                                *)
ReadyWhenDone ==
  pc = "done" =>
    /\ tcp = "connected"
    /\ mode = "blocking" \/ "restore_failed" \in seen

(* The attempts up to here that got as far as poll().                       *)
Awaited == {k \in 1..Len(ended) : ended[k] \in DOMAIN Verdict}

(* A failure is reported only after every address has been tried, and what  *)
(* is reported is how the last of those that were waited for ended: neither *)
(* a later address without a socket nor one whose connect() fails at once   *)
(* replaces it.  If none was waited for it is CONNECTION_REFUSED, which may *)
(* then mean a failed getaddrinfo() or socket() as well.                    *)
Honest ==
  pc = "failed" =>
    /\ Len(ended) = addresses
    /\ \/ Awaited = {} /\ err = "CONNECTION_REFUSED"
       \/ \E k \in Awaited : /\ \A l \in Awaited : l <= k
                             /\ err = Verdict[ended[k]]

(* The timeout fits an int, and every socket could be made nonblocking.     *)
Bounded == timeout \in 1..IntMax /\ "blocking" \notin seen

(* Then it bounds the waits for the peer of the whole call, once per        *)
(* address; the time getaddrinfo() takes is not counted.                    *)
WithinTimeout == Bounded => elapsed <= timeout * addresses

(* ... and the call returns, whatever the network does or does not do.      *)
Returns == timeout \in 1..IntMax =>
             <>(pc \in {"done", "failed"} \/ "blocking" \in seen)
=============================================================================
