-------------------------------- MODULE Wire ---------------------------------
(***************************************************************************)
(* What the send operations promise, without modes, system calls or a      *)
(* buffer: the bytes of a request reach the program in order and each at   *)
(* most once, in pieces between those of other threads, and a request that *)
(* is answered with a number has put exactly that many on the wire.        *)
(***************************************************************************)
EXTENDS Integers, Sequences

CONSTANTS Senders, MaxLen, MaxCalls

VARIABLES
  stream,  \* the bytes the terminal has accepted, oldest first
  request  \* per sender: nothing, a pending request, or its answer

wireVars == <<stream, request>>

(* The byte at place pos of the n-th request of sender t.                  *)
Byte(t, n, pos) == [from |-> t, call |-> n, pos |-> pos]

Idle(n) == [status |-> "idle", call |-> n]

Pending(n, size, next, accepted) ==
  [status |-> "pending", call |-> n, size |-> size, next |-> next, accepted |-> accepted]

Answered(n, reply) == [status |-> "answered", call |-> n, reply |-> reply]

ErrPty == -2

Init ==
  /\ stream = <<>>
  /\ request = [t \in Senders |-> Idle(0)]

Ask(t, size) ==
  /\ request[t].status = "idle"
  /\ request' = [request EXCEPT ![t] = Pending(@.call + 1, size, 1, 0)]
  /\ UNCHANGED stream

(* The next k bytes are accepted.                                          *)
Accept(t, k) ==
  /\ request[t].status = "pending"
  /\ request[t].next + k - 1 <= request[t].size
  /\ stream' = stream \o [j \in 1 .. k |-> Byte(t, request[t].call, request[t].next + j - 1)]
  /\ request' = [request EXCEPT ![t].next = @ + k, ![t].accepted = @ + k]

(* The bytes before place i that have not been accepted never will.        *)
LeaveOut(t, i) ==
  /\ request[t].status = "pending"
  /\ request[t].next < i /\ i <= request[t].size
  /\ request' = [request EXCEPT ![t].next = i]
  /\ UNCHANGED stream

Answer(t, reply) ==
  /\ request[t].status = "pending"
  /\ request' = [request EXCEPT ![t] = Answered(@.call, reply)]
  /\ UNCHANGED stream

Finish(t) ==
  /\ request[t].status = "answered"
  /\ request' = [request EXCEPT ![t] = Idle(@.call)]
  /\ UNCHANGED stream

Next ==
  \E t \in Senders :
    \/ \E size \in 0 .. MaxLen + 1 : Ask(t, size)
    \/ \E k \in 1 .. MaxLen + 1 : Accept(t, k) \/ LeaveOut(t, k)
    \/ request[t].status = "pending" /\ Answer(t, request[t].accepted)
    \/ Answer(t, ErrPty)
    \/ Finish(t)

Spec == Init /\ [][Next]_wireVars

=============================================================================
