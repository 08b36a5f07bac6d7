-------------------------------- MODULE Send ---------------------------------
(***************************************************************************)
(* Input to the program: ptywrap_send and ptywrap_send_line of any number  *)
(* of threads, without a lock, on a master that does not block, and        *)
(* ptywrap_set_send_delay meanwhile (src/api.c).                           *)
(*                                                                         *)
(* A byte is known by its sender, the number of the call and its place in  *)
(* what the call is to send; the newline of ptywrap_send_line has the last *)
(* place. The time a delay takes is not modelled, its steps are.           *)
(***************************************************************************)
EXTENDS Integers, Sequences

CONSTANTS
  Senders,  \* the threads
  Capacity, \* what the terminal holds before write fails with EAGAIN
  Delays,   \* the arguments of ptywrap_set_send_delay
  MaxLen,   \* bound on the length of what is sent
  MaxCalls  \* bound on the calls of each thread

ASSUME SendAssumption ==
  /\ Capacity \in Nat \ {0}
  /\ Delays \subseteq Int
  /\ MaxLen \in Nat \ {0}
  /\ MaxCalls \in Nat

VARIABLES
  wire,          \* every byte the terminal accepted, oldest first
  unread,        \* how many of them the program has not read
  send_delay_ms, \* session->send_delay_ms
  sender         \* the calls

vars == <<wire, unread, send_delay_ms, sender>>

Byte(t, n, pos) == [from |-> t, call |-> n, pos |-> pos]

(* pc     "idle", "start" (the test of send_delay_ms), "write", "end" or   *)
(*        "return"                                                         *)
(* slow   the outcome of the test: byte by byte, with a delay              *)
(* call   the number of the call                                           *)
(* line   is it ptywrap_send_line?                                         *)
(* size   the bytes to send, the newline included                          *)
(* end    the last place of the ptywrap_send that is going on              *)
(* next   its next place                                                   *)
(* sum    the bytes written by this and by the earlier ptywrap_send        *)
(* reply  the value returned                                               *)
NoCall == [pc |-> "idle", slow |-> FALSE, call |-> 0, line |-> FALSE, size |-> 0,
           end |-> 0, next |-> 1, sum |-> 0, reply |-> 0]

(* PTYWRAP_ERR_PTY                                                         *)
ErrPty == -2

Init ==
  /\ wire = <<>>
  /\ unread = 0
  /\ send_delay_ms = 0
  /\ sender = [t \in Senders |-> NoCall]

Start(t, line, n) ==
  /\ sender[t].pc = "idle"
  /\ sender[t].call < MaxCalls
  /\ sender' = [sender EXCEPT ![t] =
       [NoCall EXCEPT !.pc = "start", !.call = sender[t].call + 1, !.line = line,
                      !.size = IF line THEN n + 1 ELSE n, !.end = n]]
  /\ UNCHANGED <<wire, unread, send_delay_ms>>

(* ptywrap_send, and ptywrap_send_str with a string of n bytes             *)
CallSend(t, n) == Start(t, FALSE, n)

(* ptywrap_send_line                                                       *)
CallSendLine(t, n) == Start(t, TRUE, n)

(* if (session->send_delay_ms > 0), tested once in each ptywrap_send       *)
ChooseMode(t) ==
  /\ sender[t].pc = "start"
  /\ sender' = [sender EXCEPT ![t].pc = "write", ![t].slow = send_delay_ms > 0]
  /\ UNCHANGED <<wire, unread, send_delay_ms>>

(* write accepts k bytes of the call.                                      *)
Accept(t, k) ==
  /\ k <= Capacity - unread
  /\ wire' = wire \o [j \in 1 .. k |-> Byte(t, sender[t].call, sender[t].next + j - 1)]
  /\ unread' = unread + k

Wrote(c, k) == [c EXCEPT !.next = @ + k, !.sum = @ + k]

Writing(t) == sender[t].pc = "write"

Left(c) == c.end - c.next + 1

(* Defective variant: a short write is followed by a write of the rest.   *)
Burst_Continues(t, k) ==
  /\ Writing(t) /\ ~ sender[t].slow
  /\ k <= Left(sender[t])
  /\ k > 0 \/ Left(sender[t]) = 0
  /\ Accept(t, k)
  /\ sender' = [sender EXCEPT ![t] =
       [Wrote(@, k) EXCEPT !.pc = IF k < Left(sender[t]) THEN "write" ELSE "end"]]
  /\ UNCHANGED send_delay_ms

(* Defective variant: the length asked for is returned.                   *)
Burst_CountsAll(t, k) ==
  /\ Writing(t) /\ ~ sender[t].slow
  /\ k <= Left(sender[t])
  /\ k > 0 \/ Left(sender[t]) = 0
  /\ Accept(t, k)
  /\ sender' = [sender EXCEPT ![t] = [Wrote(@, Left(@)) EXCEPT !.pc = "end"]]
  /\ UNCHANGED send_delay_ms

(* All at once; write may be short, and the rest is not tried.             *)
Burst(t, k) ==
  /\ Writing(t) /\ ~ sender[t].slow
  /\ k <= Left(sender[t])
  /\ k > 0 \/ Left(sender[t]) = 0
  /\ Accept(t, k)
  /\ sender' = [sender EXCEPT ![t] = [Wrote(@, k) EXCEPT !.pc = "end"]]
  /\ UNCHANGED send_delay_ms

(* Byte by byte, with a pause after each but the last.                     *)
SlowByte(t) ==
  /\ Writing(t) /\ sender[t].slow
  /\ Left(sender[t]) > 0
  /\ Accept(t, 1)
  /\ sender' = [sender EXCEPT ![t] = Wrote(@, 1)]
  /\ UNCHANGED send_delay_ms

(* What becomes of the call c once its ptywrap_send returned a number:     *)
(* ptywrap_send_line goes on with the newline, however many bytes of the   *)
(* text were written.                                                      *)
AfterSend(c) ==
  IF c.line /\ c.end < c.size
  THEN [c EXCEPT !.pc = "start", !.next = c.size, !.end = c.size]
  ELSE [c EXCEPT !.pc = "return", !.reply = c.sum]

(* The end of a ptywrap_send that wrote something or had nothing to write. *)
SendEnd(t) ==
  /\ sender[t].pc = "end" \/ (Writing(t) /\ sender[t].slow /\ Left(sender[t]) = 0)
  /\ sender' = [sender EXCEPT ![t] = AfterSend(@)]
  /\ UNCHANGED <<wire, unread, send_delay_ms>>

(* Defective variant: write is tried again after EAGAIN.                  *)
WriteFails_Retries(t) ==
  /\ Writing(t)
  /\ Left(sender[t]) > 0
  /\ unread = Capacity
  /\ UNCHANGED vars

(* write fails: EAGAIN when the terminal is full or another thread is      *)
(* writing, an error when the program is gone. PTYWRAP_ERR_PTY is returned *)
(* and the count of the bytes before is lost.                              *)
WriteFails(t) ==
  /\ Writing(t)
  /\ Left(sender[t]) > 0
  /\ sender' = [sender EXCEPT ![t].pc = "return", ![t].reply = ErrPty]
  /\ UNCHANGED <<wire, unread, send_delay_ms>>

Return(t) ==
  /\ sender[t].pc = "return"
  /\ sender' = [sender EXCEPT ![t] = [NoCall EXCEPT !.call = sender[t].call]]
  /\ UNCHANGED <<wire, unread, send_delay_ms>>

Step(t) ==
  \/ ChooseMode(t)
  \/ \E k \in 0 .. MaxLen : Burst(t, k)
  \/ SlowByte(t) \/ SendEnd(t) \/ WriteFails(t) \/ Return(t)

(* Defective variant: a negative delay is stored.                         *)
SetSendDelay_Raw(ms) ==
  /\ send_delay_ms' = ms
  /\ UNCHANGED <<wire, unread, sender>>

(* ptywrap_set_send_delay: a negative delay is none.                       *)
SetSendDelay(ms) ==
  /\ send_delay_ms' = IF ms < 0 THEN 0 ELSE ms
  /\ UNCHANGED <<wire, unread, sender>>

ProgramReads ==
  /\ unread > 0
  /\ unread' = unread - 1
  /\ UNCHANGED <<wire, send_delay_ms, sender>>

Next ==
  \/ \E t \in Senders :
       \/ \E n \in 0 .. MaxLen : CallSend(t, n) \/ CallSendLine(t, n)
       \/ Step(t)
  \/ \E ms \in Delays : SetSendDelay(ms)
  \/ ProgramReads

(* The threads are scheduled and write returns; nothing is assumed of the  *)
(* program, which may never read.                                          *)
Fairness == \A t \in Senders : WF_vars(Step(t))

Spec == Init /\ [][Next]_vars /\ Fairness

-----------------------------------------------------------------------------
(* Properties                                                              *)

(* The places of call n of sender t that were accepted.                    *)
Landed(t, n) ==
  {wire[j].pos : j \in {i \in DOMAIN wire : wire[i].from = t /\ wire[i].call = n}}

(* The counters stay within the capacity and the length of the call.       *)
TypeOK ==
  /\ wire \in Seq([from : Senders, call : 1 .. MaxCalls, pos : 1 .. MaxLen + 1])
  /\ unread \in 0 .. Capacity
  /\ send_delay_ms \in Nat
  /\ \A t \in Senders :
       /\ sender[t].pc \in {"idle", "start", "write", "end", "return"}
       /\ sender[t].call \in 0 .. MaxCalls
       /\ sender[t].end \in 0 .. sender[t].size /\ sender[t].size \in 0 .. MaxLen + 1
       /\ sender[t].next \in 1 .. sender[t].end + 1
       /\ sender[t].sum \in 0 .. sender[t].size

(* A ptywrap_send that fails without having slept has sent nothing, so     *)
(* that the caller may send the same data again. It would not hold if a    *)
(* short write were followed by another; with a delay it does not hold.    *)
FailedBurstSentNothing ==
  \A t \in Senders :
    sender[t].reply = ErrPty /\ ~ sender[t].slow /\ ~ sender[t].line
      => Landed(t, sender[t].call) = {}

(* Every call returns, also when the program never reads: no thread waits  *)
(* for room in the terminal.                                               *)
SendReturns == \A t \in Senders : sender[t].pc # "idle" ~> sender[t].pc = "idle"

(* What the caller of a send operation knows.                              *)
Request(t) ==
  LET c == sender[t] IN
    IF c.pc = "idle" THEN [status |-> "idle", call |-> c.call]
    ELSE IF c.pc = "return" THEN [status |-> "answered", call |-> c.call, reply |-> c.reply]
    ELSE [status |-> "pending", call |-> c.call, size |-> c.size, next |-> c.next,
          accepted |-> c.sum]

Abstract == INSTANCE Wire WITH
  stream <- wire, request <- [t \in Senders |-> Request(t)]

(* Bytes reach the terminal in order and at most once, and a number that   *)
(* is returned is the number of bytes that did, in either mode and when    *)
(* the mode is changed meanwhile.                                          *)
ImplementsWire == Abstract!Spec

=============================================================================
