------------------------------ MODULE SendProofs -----------------------------
(***************************************************************************)
(* Proofs about module Send, for any number of threads, any capacity of    *)
(* the terminal and any length of what is sent.                            *)
(***************************************************************************)
EXTENDS Send, TLAPS

Bytes == [from : Senders, call : 1 .. MaxCalls, pos : 1 .. MaxLen + 1]

(* The record of a call: its places and counters are within its size.      *)
CallOK(c) ==
  /\ c \in [pc : {"idle", "start", "write", "end", "return"}, slow : BOOLEAN,
            call : 0 .. MaxCalls, line : BOOLEAN, size : 0 .. MaxLen + 1, end : Nat,
            next : Nat, sum : Nat, reply : Int]
  /\ c.end <= c.size /\ c.next \in 1 .. c.end + 1 /\ c.sum <= c.next - 1
  /\ c.pc # "idle" => c.call >= 1
  /\ c.pc # "return" => c.reply >= 0
  /\ c.pc = "start" /\ ~ c.line => ~ c.slow

SenderInv ==
  /\ sender = [t \in Senders |-> sender[t]]
  /\ \A t \in Senders : CallOK(sender[t])

WireInv ==
  /\ wire \in Seq(Bytes)
  /\ unread \in 0 .. Capacity
  /\ send_delay_ms \in Nat

(* No byte of the call of sender t has been accepted.                      *)
NothingSent(t) == \A j \in DOMAIN wire : wire[j].from = t => wire[j].call # sender[t].call

(* Every byte belongs to a call that was made; and a call that has not     *)
(* written, or whose only write failed, has no byte on the wire.           *)
LandedInv ==
  /\ \A j \in DOMAIN wire : wire[j].call <= sender[wire[j].from].call
  /\ \A t \in Senders :
       ~ sender[t].line /\ ~ sender[t].slow
         /\ (sender[t].pc \in {"start", "write"} \/ sender[t].reply = ErrPty)
       => NothingSent(t)

Inv == SenderInv /\ WireInv /\ LandedInv

-----------------------------------------------------------------------------

LEMMA InitOK == Init => Inv
<1> SUFFICES ASSUME Init PROVE Inv
  OBVIOUS
<1>1. ASSUME NEW t \in Senders PROVE CallOK(sender[t]) /\ sender[t] = NoCall
  <2>1. CallOK(NoCall)
    BY SendAssumption DEF NoCall, CallOK
  <2> QED
    BY <2>1 DEF Init
<1>2. SenderInv
  BY <1>1 DEF Init, SenderInv
<1>3. WireInv
  BY SendAssumption DEF Init, WireInv
<1>4. LandedInv
  BY DEF Init, LandedInv, NothingSent
<1> QED
  BY <1>2, <1>3, <1>4 DEF Inv

(* What write appends.                                                     *)
LEMMA AcceptAppends ==
  ASSUME Inv, NEW t \in Senders, NEW k \in Nat, Accept(t, k), Writing(t),
         k <= Left(sender[t])
  PROVE  /\ wire' \in Seq(Bytes)
         /\ unread' \in 0 .. Capacity
         /\ k = 0 => wire' = wire
         /\ \A j \in DOMAIN wire' :
              \/ j \in DOMAIN wire /\ wire'[j] = wire[j]
              \/ wire'[j].from = t /\ wire'[j].call = sender[t].call /\ k > 0
<1> DEFINE new == [j \in 1 .. k |-> Byte(t, sender[t].call, sender[t].next + j - 1)]
<1>1. /\ sender[t].call \in 1 .. MaxCalls /\ sender[t].next \in Nat \ {0}
      /\ sender[t].next + k - 1 <= MaxLen + 1
  BY SendAssumption DEF Inv, SenderInv, CallOK, Writing, Left
<1>2. \A j \in 1 .. k : Byte(t, sender[t].call, sender[t].next + j - 1) \in Bytes
  <2> SUFFICES ASSUME NEW j \in 1 .. k
               PROVE  Byte(t, sender[t].call, sender[t].next + j - 1) \in Bytes
    OBVIOUS
  <2>1. sender[t].next + j - 1 \in 1 .. MaxLen + 1
    BY <1>1, SendAssumption
  <2> QED
    BY <1>1, <2>1 DEF Byte, Bytes
<1>3. new \in Seq(Bytes) /\ Len(new) = k /\ \A j \in 1 .. k : new[j] \in Bytes
  <2>1. new \in [1 .. k -> Bytes]
    BY <1>2
  <2> HIDE DEF new
  <2> QED
    BY <2>1
<1>4. \A j \in 1 .. k : new[j].from = t /\ new[j].call = sender[t].call
  BY DEF Byte
<1>5. wire' = wire \o new /\ wire \in Seq(Bytes)
  BY DEF Accept, Inv, WireInv
<1> HIDE DEF new
<1>6. \A j \in DOMAIN wire' :
        \/ j \in DOMAIN wire /\ wire'[j] = wire[j]
        \/ wire'[j].from = t /\ wire'[j].call = sender[t].call /\ k > 0
  <2> SUFFICES ASSUME NEW j \in DOMAIN wire', j \notin DOMAIN wire
               PROVE  wire'[j].from = t /\ wire'[j].call = sender[t].call /\ k > 0
    BY <1>3, <1>5
  <2>1. j - Len(wire) \in 1 .. k /\ wire'[j] = new[j - Len(wire)]
    BY <1>3, <1>5
  <2> QED
    BY <1>4, <2>1
<1>7. k = 0 => wire' = wire
  BY <1>3, <1>5
<1>8. unread' \in 0 .. Capacity
  BY SendAssumption DEF Accept, Inv, WireInv
<1> QED
  BY <1>3, <1>5, <1>6, <1>7, <1>8

(* A step of one thread leaves the calls of the others alone.              *)
LEMMA StepLocal ==
  ASSUME SenderInv, NEW t \in Senders, NEW n \in 0 .. MaxLen,
         CallSend(t, n) \/ CallSendLine(t, n) \/ Step(t)
  PROVE  /\ sender' = [sender EXCEPT ![t] = sender'[t]]
         /\ \A u \in Senders \ {t} : sender'[u] = sender[u]
         /\ send_delay_ms' = send_delay_ms
BY DEF SenderInv, CallSend, CallSendLine, Start, Step, ChooseMode, Burst, SlowByte, SendEnd,
       WriteFails, Return, Accept

(* The call record after each step.                                        *)
LEMMA CallStep ==
  ASSUME Inv, NEW t \in Senders, NEW n \in 0 .. MaxLen,
         CallSend(t, n) \/ CallSendLine(t, n) \/ Step(t)
  PROVE  CallOK(sender'[t])
<1> USE SendAssumption
<1> DEFINE c == sender[t]
<1>1. CallOK(c) /\ sender = [u \in Senders |-> sender[u]]
  BY DEF Inv, SenderInv
<1>a. /\ c.pc \in {"idle", "start", "write", "end", "return"}
      /\ c.slow \in BOOLEAN /\ c.line \in BOOLEAN /\ c.call \in 0 .. MaxCalls
      /\ c.size \in 0 .. MaxLen + 1 /\ c.end \in Nat /\ c.next \in Nat /\ c.sum \in Nat
      /\ c.reply \in Int
      /\ c.end <= c.size /\ c.next \in 1 .. c.end + 1 /\ c.sum <= c.next - 1
      /\ c.pc # "idle" => c.call >= 1
      /\ c.pc # "return" => c.reply >= 0
  BY <1>1 DEF CallOK
<1>b. c = [pc |-> c.pc, slow |-> c.slow, call |-> c.call, line |-> c.line, size |-> c.size,
           end |-> c.end, next |-> c.next, sum |-> c.sum, reply |-> c.reply]
  BY <1>1 DEF CallOK
<1>2. ASSUME NEW line \in BOOLEAN, Start(t, line, n)
      PROVE  CallOK(sender'[t])
  <2> DEFINE size == IF line THEN n + 1 ELSE n
  <2>1. sender'[t] = [pc |-> "start", slow |-> FALSE, call |-> c.call + 1, line |-> line,
                      size |-> size, end |-> n, next |-> 1, sum |-> 0, reply |-> 0]
    BY <1>1, <1>2 DEF Start, NoCall
  <2>2. /\ size \in 0 .. MaxLen + 1 /\ n \in 0 .. size /\ 1 \in 1 .. n + 1 /\ 0 \in 0 .. size
        /\ c.call + 1 \in 0 .. MaxCalls /\ c.call + 1 >= 1
    BY <1>a, <1>2 DEF Start
  <2> HIDE DEF size
  <2>3. CallOK([pc |-> "start", slow |-> FALSE, call |-> c.call + 1, line |-> line,
                size |-> size, end |-> n, next |-> 1, sum |-> 0, reply |-> 0])
    BY <2>2 DEF CallOK
  <2> QED
    BY <2>1, <2>3
<1>3. CASE ChooseMode(t)
  <2>1. sender'[t] = [c EXCEPT !.pc = "write", !.slow = send_delay_ms > 0] /\ c.pc = "start"
    BY <1>1, <1>3 DEF ChooseMode
  <2>2. sender'[t] = [pc |-> "write", slow |-> send_delay_ms > 0, call |-> c.call,
                      line |-> c.line, size |-> c.size, end |-> c.end, next |-> c.next,
                      sum |-> c.sum, reply |-> c.reply]
    BY <1>b, <2>1
  <2>3. CallOK([pc |-> "write", slow |-> send_delay_ms > 0, call |-> c.call,
                      line |-> c.line, size |-> c.size, end |-> c.end, next |-> c.next,
                      sum |-> c.sum, reply |-> c.reply])
    BY <1>a, <2>1 DEF CallOK
  <2> QED
    BY <2>2, <2>3
<1>4. ASSUME NEW k \in Nat, k <= Left(c), Writing(t),
             sender'[t] = [Wrote(c, k) EXCEPT !.pc = "end"] \/ sender'[t] = Wrote(c, k)
      PROVE  CallOK(sender'[t])
  <2> DEFINE rec(pc) == [pc |-> pc, slow |-> c.slow, call |-> c.call, line |-> c.line,
                         size |-> c.size, end |-> c.end, next |-> c.next + k,
                         sum |-> c.sum + k, reply |-> c.reply]
  <2>1. c.pc = "write"
    BY <1>4 DEF Writing
  <2>2. sender'[t] = rec("end") \/ sender'[t] = rec("write")
    BY <1>b, <1>4, <2>1 DEF Wrote
  <2>3. /\ c.next + k \in 1 .. c.end + 1 /\ c.sum + k \in 0 .. c.size
        /\ c.sum + k <= (c.next + k) - 1 /\ c.call >= 1 /\ c.reply >= 0
    BY <1>a, <1>4, <2>1 DEF Left
  <2>4. ASSUME NEW pc \in {"end", "write"} PROVE CallOK(rec(pc))
    BY <1>a, <2>3 DEF CallOK
  <2> QED
    BY <2>2, <2>4
<1>5. ASSUME NEW k \in 0 .. MaxLen, Burst(t, k)
      PROVE  CallOK(sender'[t])
  BY <1>1, <1>4, <1>5 DEF Burst
<1>6. CASE SlowByte(t)
  <2>1. Left(c) \in Int
    BY <1>1 DEF Left, CallOK
  <2> QED
    BY <1>1, <1>4, <1>6, <2>1 DEF SlowByte
<1>7. CASE SendEnd(t)
  <2>1. sender'[t] = AfterSend(c) /\ c.pc \in {"end", "write"}
    BY <1>1, <1>7 DEF SendEnd, Writing
  <2>2. CASE c.line /\ c.end < c.size
    <3>1. sender'[t] = [pc |-> "start", slow |-> c.slow, call |-> c.call, line |-> c.line,
                        size |-> c.size, end |-> c.size, next |-> c.size, sum |-> c.sum,
                        reply |-> c.reply]
      BY <1>b, <2>1, <2>2 DEF AfterSend
    <3>2. CallOK([pc |-> "start", slow |-> c.slow, call |-> c.call, line |-> c.line,
                        size |-> c.size, end |-> c.size, next |-> c.size, sum |-> c.sum,
                        reply |-> c.reply])
      <4>1. /\ c.size \in 0 .. c.size /\ c.size \in 1 .. c.size + 1
            /\ c.sum <= c.size - 1 /\ c.call >= 1 /\ c.reply >= 0
        BY <1>a, <2>1, <2>2
      <4> QED
        BY <1>a, <2>2, <4>1 DEF CallOK
    <3> QED
      BY <3>1, <3>2
  <2>3. CASE ~ (c.line /\ c.end < c.size)
    <3>1. sender'[t] = [pc |-> "return", slow |-> c.slow, call |-> c.call, line |-> c.line,
                        size |-> c.size, end |-> c.end, next |-> c.next, sum |-> c.sum,
                        reply |-> c.sum]
      BY <1>b, <2>1, <2>3 DEF AfterSend
    <3>2. CallOK([pc |-> "return", slow |-> c.slow, call |-> c.call, line |-> c.line,
                        size |-> c.size, end |-> c.end, next |-> c.next, sum |-> c.sum,
                        reply |-> c.sum])
      BY <1>a, <2>1 DEF CallOK
    <3> QED
      BY <3>1, <3>2
  <2> QED
    BY <2>2, <2>3
<1>8. CASE WriteFails(t)
  <2>1. sender'[t] = [c EXCEPT !.pc = "return", !.reply = ErrPty] /\ c.pc = "write"
    BY <1>1, <1>8 DEF WriteFails, Writing
  <2>2. sender'[t] = [pc |-> "return", slow |-> c.slow, call |-> c.call, line |-> c.line,
                      size |-> c.size, end |-> c.end, next |-> c.next, sum |-> c.sum,
                      reply |-> ErrPty]
    BY <1>b, <2>1
  <2>3. CallOK([pc |-> "return", slow |-> c.slow, call |-> c.call, line |-> c.line,
                      size |-> c.size, end |-> c.end, next |-> c.next, sum |-> c.sum,
                      reply |-> ErrPty])
    BY <1>a, <2>1 DEF CallOK, ErrPty
  <2> QED
    BY <2>2, <2>3
<1>9. CASE Return(t)
  <2>1. sender'[t] = [NoCall EXCEPT !.call = c.call]
    BY <1>1, <1>9 DEF Return
  <2>2. sender'[t] = [pc |-> "idle", slow |-> FALSE, call |-> c.call, line |-> FALSE,
                      size |-> 0, end |-> 0, next |-> 1, sum |-> 0, reply |-> 0]
    BY <2>1 DEF NoCall
  <2>3. CallOK([pc |-> "idle", slow |-> FALSE, call |-> c.call, line |-> FALSE,
                      size |-> 0, end |-> 0, next |-> 1, sum |-> 0, reply |-> 0])
    BY <1>a DEF CallOK
  <2> QED
    BY <2>2, <2>3
<1> QED
  BY <1>2, <1>3, <1>5, <1>6, <1>7, <1>8, <1>9 DEF CallSend, CallSendLine, Step


(* What a step of one thread puts on the wire belongs to its call, and      *)
(* nothing is put there but by a write.                                    *)
LEMMA WireStep ==
  ASSUME Inv, NEW t \in Senders, NEW n \in 0 .. MaxLen,
         CallSend(t, n) \/ CallSendLine(t, n) \/ Step(t)
  PROVE  /\ wire' \in Seq(Bytes)
         /\ unread' \in 0 .. Capacity
         /\ \A j \in DOMAIN wire' :
              \/ j \in DOMAIN wire /\ wire'[j] = wire[j]
              \/ /\ wire'[j].from = t /\ wire'[j].call = sender[t].call
                 /\ sender[t].pc = "write" /\ sender'[t].call = sender[t].call
                 /\ sender'[t].line = sender[t].line /\ sender'[t].slow = sender[t].slow
                 /\ sender[t].slow \/ sender'[t].pc = "end"
                 /\ sender'[t].reply >= 0
<1> USE SendAssumption
<1> DEFINE c == sender[t]
<1>1. /\ CallOK(c) /\ sender = [u \in Senders |-> sender[u]]
      /\ wire \in Seq(Bytes) /\ unread \in 0 .. Capacity
  BY DEF Inv, SenderInv, WireInv
<1>2. CASE wire' = wire /\ unread' = unread
  BY <1>1, <1>2
<1>3. ASSUME NEW k \in 0 .. MaxLen, Burst(t, k)
      PROVE  /\ wire' \in Seq(Bytes)
             /\ unread' \in 0 .. Capacity
             /\ \A j \in DOMAIN wire' :
                  \/ j \in DOMAIN wire /\ wire'[j] = wire[j]
                  \/ wire'[j].from = t /\ wire'[j].call = sender[t].call
             /\ sender[t].pc = "write" /\ sender'[t].call = sender[t].call
             /\ sender'[t].line = sender[t].line /\ sender'[t].slow = sender[t].slow
             /\ sender'[t].pc = "end"
             /\ sender'[t].reply >= 0
  <2>1. Accept(t, k) /\ Writing(t) /\ k <= Left(c) /\ k \in Nat
    BY <1>3 DEF Burst
  <2>2. sender'[t] = [Wrote(c, k) EXCEPT !.pc = "end"]
    BY <1>1, <1>3 DEF Burst
  <2>3. /\ sender'[t].call = c.call /\ sender'[t].line = c.line /\ sender'[t].slow = c.slow
        /\ sender'[t].pc = "end" /\ sender'[t].reply = c.reply
    BY <1>1, <2>2 DEF CallOK, Wrote
  <2> QED
    BY <1>1, <2>1, <2>3, AcceptAppends DEF Writing, CallOK
<1>4. CASE SlowByte(t)
  <2>1. Accept(t, 1) /\ Writing(t) /\ 1 <= Left(c) /\ c.slow
    BY <1>1, <1>4 DEF SlowByte, Left, CallOK
  <2>2. sender'[t] = Wrote(c, 1)
    BY <1>1, <1>4 DEF SlowByte
  <2>3. /\ sender'[t].call = c.call /\ sender'[t].line = c.line /\ sender'[t].slow = c.slow
        /\ sender'[t].reply = c.reply
    BY <1>1, <2>2 DEF CallOK, Wrote
  <2> QED
    BY <1>1, <2>1, <2>3, AcceptAppends DEF Writing, CallOK
<1> QED
  BY <1>2, <1>3, <1>4 DEF Step, CallSend, CallSendLine, Start, ChooseMode, SendEnd, WriteFails, Return

(* How the fields that LandedInv speaks of may change.                     *)
LEMMA FieldsStep ==
  ASSUME Inv, NEW t \in Senders, NEW n \in 0 .. MaxLen,
         CallSend(t, n) \/ CallSendLine(t, n) \/ Step(t)
  PROVE  \/ sender'[t].call = sender[t].call + 1
         \/ sender'[t].call = sender[t].call /\ sender'[t].pc = "idle" /\ sender'[t].reply = 0
         \/ /\ sender'[t].call = sender[t].call
            /\ sender'[t].line = sender[t].line
            /\ ~ sender'[t].line /\ ~ sender'[t].slow =>
                    /\ ~ sender[t].slow
                    /\ (sender'[t].pc \in {"start", "write"} => sender[t].pc \in {"start", "write"})
                    /\ (sender'[t].reply = ErrPty => sender[t].pc = "write")
<1> USE SendAssumption DEF Inv, SenderInv, CallOK
<1>1. CASE CallSend(t, n) \/ CallSendLine(t, n)
  <2>1. ASSUME NEW line \in BOOLEAN, Start(t, line, n)
        PROVE  sender'[t].call = sender[t].call + 1
    <3> DEFINE size == IF line THEN n + 1 ELSE n
    <3>1. sender'[t] = [NoCall EXCEPT !.pc = "start", !.call = sender[t].call + 1,
                                      !.line = line, !.size = size, !.end = n]
      BY <2>1 DEF Start
    <3> HIDE DEF size
    <3> QED
      BY <3>1 DEF NoCall
  <2> QED
    BY <1>1, <2>1 DEF CallSend, CallSendLine
<1>2. CASE ChooseMode(t)
  BY <1>2 DEF ChooseMode, ErrPty
<1>3. CASE \E k \in 0 .. MaxLen : Burst(t, k)
  BY <1>3 DEF Burst, Wrote, ErrPty, Writing
<1>4. CASE SlowByte(t)
  BY <1>4 DEF SlowByte, Wrote, ErrPty, Writing
<1>5. CASE SendEnd(t)
  BY <1>5 DEF SendEnd, AfterSend, ErrPty, Writing
<1>6. CASE WriteFails(t)
  BY <1>6 DEF WriteFails, Writing
<1>7. CASE Return(t)
  BY <1>7 DEF Return, NoCall
<1> QED
  BY <1>1, <1>2, <1>3, <1>4, <1>5, <1>6, <1>7 DEF Step


LEMMA LandedStep ==
  ASSUME Inv, NEW t \in Senders, NEW n \in 0 .. MaxLen,
         CallSend(t, n) \/ CallSendLine(t, n) \/ Step(t)
  PROVE  LandedInv'
<1>1. /\ \A u \in Senders \ {t} : sender'[u] = sender[u]
      /\ CallOK(sender[t])
      /\ \A j \in DOMAIN wire : wire[j].from \in Senders /\ wire[j].call \in Nat
      /\ \A j \in DOMAIN wire : wire[j].call <= sender[wire[j].from].call
  <2>1. \A j \in DOMAIN wire : wire[j] \in Bytes
    BY DEF Inv, WireInv
  <2>2. \A j \in DOMAIN wire : wire[j].from \in Senders /\ wire[j].call \in Nat
    BY <2>1, SendAssumption DEF Bytes
  <2>3. \A u \in Senders \ {t} : sender'[u] = sender[u]
    BY StepLocal DEF Inv
  <2> QED
    BY <2>2, <2>3 DEF Inv, SenderInv, LandedInv
<1>2. /\ \A j \in DOMAIN wire' :
           \/ j \in DOMAIN wire /\ wire'[j] = wire[j]
           \/ wire'[j].from = t /\ wire'[j].call = sender[t].call
              /\ sender'[t].call = sender[t].call
      /\ sender[t].call \in Nat
      /\ sender'[t].call \in {sender[t].call, sender[t].call + 1}
  <2>1. sender[t].call \in Nat
    BY <1>1, SendAssumption DEF CallOK
  <2>2. sender'[t].call \in {sender[t].call, sender[t].call + 1}
    BY FieldsStep
  <2>3. \A j \in DOMAIN wire' :
           \/ j \in DOMAIN wire /\ wire'[j] = wire[j]
           \/ wire'[j].from = t /\ wire'[j].call = sender[t].call
              /\ sender'[t].call = sender[t].call
    BY WireStep
  <2> QED
    BY <2>1, <2>2, <2>3
<1>3. \A j \in DOMAIN wire' : wire'[j].call <= sender'[wire'[j].from].call
  BY <1>1, <1>2
<1>4. ASSUME NEW u \in Senders \ {t},
             ~ sender'[u].line, ~ sender'[u].slow,
             sender'[u].pc \in {"start", "write"} \/ sender'[u].reply = ErrPty
      PROVE  NothingSent(u)'
  <2>1. NothingSent(u) /\ sender'[u] = sender[u]
    BY <1>1, <1>4 DEF Inv, LandedInv
  <2> QED
    BY <1>2, <2>1 DEF NothingSent
<1>5. ASSUME ~ sender'[t].line, ~ sender'[t].slow,
             sender'[t].pc \in {"start", "write"} \/ sender'[t].reply = ErrPty
      PROVE  NothingSent(t)'
  <2>1. \A j \in DOMAIN wire' : j \in DOMAIN wire /\ wire'[j] = wire[j]
    BY <1>5, WireStep DEF ErrPty
  <2>2. CASE sender'[t].call = sender[t].call + 1
    BY <1>1, <1>2, <2>1, <2>2 DEF NothingSent
  <2>3. CASE sender'[t].call = sender[t].call
    <3>1. ~ sender[t].line /\ ~ sender[t].slow /\ sender[t].pc \in {"start", "write"}
      BY <1>1, <1>2, <1>5, <2>3, FieldsStep DEF ErrPty
    <3>2. NothingSent(t)
      BY <3>1 DEF Inv, LandedInv
    <3> QED
      BY <2>1, <2>3, <3>2 DEF NothingSent
  <2> QED
    BY <1>2, <2>2, <2>3
<1> QED
  BY <1>3, <1>4, <1>5 DEF LandedInv

LEMMA StepOK == Inv /\ [Next]_vars => Inv'
<1> SUFFICES ASSUME Inv, [Next]_vars PROVE Inv'
  OBVIOUS
<1>1. CASE UNCHANGED vars
  BY <1>1 DEF vars, Inv, SenderInv, WireInv, LandedInv, NothingSent
<1>2. ASSUME NEW t \in Senders, NEW n \in 0 .. MaxLen,
             CallSend(t, n) \/ CallSendLine(t, n) \/ Step(t)
      PROVE  Inv'
  <2>1. SenderInv'
    <3>1. /\ sender' = [sender EXCEPT ![t] = sender'[t]]
          /\ \A u \in Senders \ {t} : sender'[u] = sender[u]
      BY <1>2, StepLocal DEF Inv
    <3>2. CallOK(sender'[t])
      BY <1>2, CallStep
    <3> QED
      BY <3>1, <3>2 DEF Inv, SenderInv
  <2>2. WireInv'
    BY <1>2, WireStep, StepLocal DEF Inv, WireInv
  <2>3. LandedInv'
    BY <1>2, LandedStep
  <2> QED
    BY <2>1, <2>2, <2>3 DEF Inv
<1>3. ASSUME NEW ms \in Delays, SetSendDelay(ms)
      PROVE  Inv'
  BY <1>3, SendAssumption
     DEF SetSendDelay, Inv, SenderInv, WireInv, LandedInv, NothingSent
<1>4. CASE ProgramReads
  BY <1>4, SendAssumption
     DEF ProgramReads, Inv, SenderInv, WireInv, LandedInv, NothingSent
<1>5. ASSUME NEW t \in Senders, Step(t) PROVE Inv'
  <2>1. 0 \in 0 .. MaxLen
    BY SendAssumption
  <2> QED
    BY <1>2, <1>5, <2>1
<1> QED
  BY <1>1, <1>2, <1>3, <1>4, <1>5 DEF Next

LEMMA InvHolds == Spec => []Inv
BY InitOK, StepOK, PTL DEF Spec

(* The bytes in the terminal never exceed its capacity, the stored delay   *)
(* is never negative, and no call writes past what it was given            *)
(* (ptywrap_send, ptywrap_set_send_delay, src/api.c).                      *)
THEOREM TypesHold == Spec => []TypeOK
<1>1. Inv => TypeOK
  BY SendAssumption DEF Inv, SenderInv, WireInv, CallOK, TypeOK, Bytes
<1> QED
  BY <1>1, InvHolds, PTL

(* Without a delay, a ptywrap_send that returns PTYWRAP_ERR_PTY has sent   *)
(* no byte, whatever the other threads send: it can be called again.       *)
THEOREM FailedBurstsSendNothing == Spec => []FailedBurstSentNothing
<1>1. Inv => FailedBurstSentNothing
  <2> SUFFICES ASSUME Inv, NEW t \in Senders,
                      sender[t].reply = ErrPty, ~ sender[t].slow, ~ sender[t].line
               PROVE  Landed(t, sender[t].call) = {}
    BY DEF FailedBurstSentNothing
  <2>1. NothingSent(t)
    BY DEF Inv, LandedInv
  <2> QED
    BY <2>1 DEF NothingSent, Landed
<1> QED
  BY <1>1, InvHolds, PTL

-----------------------------------------------------------------------------
(* The refinement                                                          *)

LEMMA CallRefines ==
  ASSUME Inv, NEW t \in Senders, NEW n \in 0 .. MaxLen,
         CallSend(t, n) \/ CallSendLine(t, n) \/ Step(t)
  PROVE  [Abstract!Next]_(Abstract!wireVars)
<1> USE SendAssumption
<1> DEFINE c == sender[t]
           requests == [u \in Senders |-> Request(u)]
<1>1. /\ CallOK(c) /\ sender = [u \in Senders |-> sender[u]]
      /\ \A u \in Senders \ {t} : sender'[u] = sender[u]
  BY StepLocal DEF Inv, SenderInv
<1>2. requests' = [requests EXCEPT ![t] = Request(t)']
  BY <1>1 DEF Request
<1>3. ASSUME wire' = wire, Request(t)' = Request(t)
      PROVE  UNCHANGED Abstract!wireVars
  BY <1>2, <1>3 DEF Abstract!wireVars
<1>4. ASSUME NEW line \in BOOLEAN, Start(t, line, n)
      PROVE  [Abstract!Next]_(Abstract!wireVars)
  <2> DEFINE size == IF line THEN n + 1 ELSE n
  <2>1. sender'[t] = [NoCall EXCEPT !.pc = "start", !.call = sender[t].call + 1,
                                    !.line = line, !.size = size, !.end = n]
        /\ c.pc = "idle" /\ wire' = wire
    BY <1>1, <1>4 DEF Start
  <2>2. size \in 0 .. MaxLen + 1
    OBVIOUS
  <2> HIDE DEF size
  <2>3. Request(t)' = Abstract!Pending(c.call + 1, size, 1, 0)
    BY <2>1 DEF NoCall, Request, Abstract!Pending
  <2>4. requests[t].status = "idle" /\ requests[t].call = c.call
    BY <2>1 DEF Request
  <2>5. Abstract!Ask(t, size)
    BY <1>2, <2>1, <2>3, <2>4 DEF Abstract!Ask
  <2> QED
    BY <2>2, <2>5 DEF Abstract!Next
<1>5. CASE ChooseMode(t)
  BY <1>1, <1>3, <1>5 DEF ChooseMode, Request, CallOK
<1>6. ASSUME NEW k \in Nat, k <= MaxLen + 1, k <= Left(c), Accept(t, k), Writing(t),
             \E pc \in {"write", "end"} :
               sender'[t] = [c EXCEPT !.pc = pc, !.next = c.next + k, !.sum = c.sum + k]
      PROVE  [Abstract!Next]_(Abstract!wireVars)
  <2>1. Request(t) = [status |-> "pending", call |-> c.call, size |-> c.size, next |-> c.next,
                      accepted |-> c.sum]
    BY <1>6 DEF Request, Writing
  <2>2. Request(t)' = [status |-> "pending", call |-> c.call, size |-> c.size,
                       next |-> c.next + k, accepted |-> c.sum + k]
    BY <1>1, <1>6 DEF Request, CallOK
  <2>3. CASE k = 0
    <3>1. wire' = wire
      BY <1>6, <2>3, AcceptAppends
    <3>2. Request(t)' = Request(t)
      BY <1>1, <2>1, <2>2, <2>3 DEF CallOK
    <3> QED
      BY <1>3, <3>1, <3>2
  <2>4. CASE k > 0
    <3>1. requests[t] = Request(t)
      OBVIOUS
    <3>2. Request(t)' = [Request(t) EXCEPT !.next = Request(t).next + k,
                                           !.accepted = Request(t).accepted + k]
      <4> DEFINE r == [status |-> "pending", call |-> c.call, size |-> c.size,
                       next |-> c.next, accepted |-> c.sum]
                  a == [status |-> "pending", call |-> c.call, size |-> c.size,
                        next |-> c.next + k, accepted |-> c.sum]
      <4>1. [r EXCEPT !.next = r.next + k, !.accepted = r.accepted + k]
              = [status |-> "pending", call |-> c.call, size |-> c.size,
                 next |-> c.next + k, accepted |-> c.sum + k]
        <5>1. [r EXCEPT !.next = r.next + k] = a
          OBVIOUS
        <5>2. [a EXCEPT !.accepted = r.accepted + k]
                = [status |-> "pending", call |-> c.call, size |-> c.size,
                   next |-> c.next + k, accepted |-> c.sum + k]
          OBVIOUS
        <5> HIDE DEF a, r
        <5> QED
          BY <5>1, <5>2
      <4>2. Request(t) = r
        BY <2>1
      <4> HIDE DEF r
      <4> QED
        BY <2>2, <4>1, <4>2
    <3>3. requests' = [requests EXCEPT ![t].next = @ + k, ![t].accepted = @ + k]
      BY <1>2, <2>1, <3>2
    <3>4. /\ Request(t).status = "pending" /\ Request(t).call = c.call
          /\ Request(t).next = c.next /\ Request(t).size = c.size
      BY <2>1
    <3>5. Request(t).next + k - 1 <= Request(t).size
      BY <1>1, <1>6, <3>4 DEF CallOK, Left
    <3>6. wire' = wire \o [j \in 1 .. k |->
                             Abstract!Byte(t, Request(t).call, Request(t).next + j - 1)]
      BY <1>6, <3>4 DEF Accept, Byte, Abstract!Byte
    <3>7. Abstract!Accept(t, k)
      BY <3>1, <3>3, <3>4, <3>5, <3>6 DEF Abstract!Accept
    <3> QED
      BY <1>6, <2>4, <3>7 DEF Abstract!Next
  <2> QED
    BY <2>3, <2>4
<1>7. ASSUME NEW k \in 0 .. MaxLen, Burst(t, k)
      PROVE  [Abstract!Next]_(Abstract!wireVars)
  <2>1. sender'[t] = [c EXCEPT !.pc = "end", !.next = c.next + k, !.sum = c.sum + k]
    <3>1. sender'[t] = [Wrote(c, k) EXCEPT !.pc = "end"]
      BY <1>1, <1>7 DEF Burst
    <3>2. Wrote(c, k) = [c EXCEPT !.next = c.next + k, !.sum = c.sum + k]
      BY DEF Wrote
    <3> QED
      BY <1>1, <3>1, <3>2 DEF CallOK
  <2>2. k \in Nat /\ k <= MaxLen + 1 /\ k <= Left(c) /\ Accept(t, k) /\ Writing(t)
    BY <1>7 DEF Burst
  <2> QED
    BY <1>6, <2>1, <2>2
<1>8. CASE SlowByte(t)
  <2>1. sender'[t] = [c EXCEPT !.pc = "write", !.next = c.next + 1, !.sum = c.sum + 1]
    <3>1. sender'[t] = Wrote(c, 1) /\ c.pc = "write"
      BY <1>1, <1>8 DEF SlowByte, Writing
    <3>2. Wrote(c, 1) = [c EXCEPT !.next = c.next + 1, !.sum = c.sum + 1]
      BY DEF Wrote
    <3> QED
      BY <1>1, <3>1, <3>2 DEF CallOK
  <2>2. 1 <= Left(c) /\ Accept(t, 1) /\ Writing(t) /\ 1 <= MaxLen + 1
    BY <1>1, <1>8 DEF SlowByte, Left, CallOK
  <2> QED
    BY <1>6, <2>1, <2>2
<1>9. CASE SendEnd(t)
  <2>1. sender'[t] = AfterSend(c) /\ c.pc \in {"end", "write"} /\ wire' = wire
    BY <1>1, <1>9 DEF SendEnd, Writing
  <2>2. Request(t) = [status |-> "pending", call |-> c.call, size |-> c.size, next |-> c.next,
                      accepted |-> c.sum]
    BY <2>1 DEF Request
  <2>3. CASE c.line /\ c.end < c.size
    <3>1. Request(t)' = [status |-> "pending", call |-> c.call, size |-> c.size,
                         next |-> c.size, accepted |-> c.sum]
      BY <1>1, <2>1, <2>3 DEF AfterSend, Request, CallOK
    <3>2. CASE c.next = c.size
      BY <1>3, <2>1, <2>2, <3>1, <3>2
    <3>3. CASE c.next # c.size
      <4>1. c.next < c.size /\ c.size \in 1 .. MaxLen + 1
        BY <1>1, <2>3, <3>3 DEF CallOK
      <4>2. requests' = [requests EXCEPT ![t].next = c.size]
        <5>1. Request(t)' = [Request(t) EXCEPT !.next = c.size]
          BY <2>2, <3>1
        <5> QED
          BY <1>2, <5>1
      <4>3. Abstract!LeaveOut(t, c.size)
        BY <2>1, <2>2, <4>1, <4>2 DEF Abstract!LeaveOut
      <4> QED
        BY <4>1, <4>3 DEF Abstract!Next
    <3> QED
      BY <3>2, <3>3
  <2>4. CASE ~ (c.line /\ c.end < c.size)
    <3>1. Request(t)' = Abstract!Answered(c.call, c.sum)
      BY <1>1, <2>1, <2>4 DEF AfterSend, Request, CallOK, Abstract!Answered
    <3>2. /\ requests[t].status = "pending" /\ requests[t].call = c.call
          /\ requests[t].accepted = c.sum
      BY <2>2
    <3>3. Abstract!Answer(t, requests[t].accepted)
      BY <1>2, <2>1, <3>1, <3>2 DEF Abstract!Answer
    <3> QED
      BY <3>2, <3>3 DEF Abstract!Next
  <2> QED
    BY <2>3, <2>4
<1>10. CASE WriteFails(t)
  <2>1. Request(t)' = Abstract!Answered(c.call, Abstract!ErrPty)
    BY <1>1, <1>10 DEF WriteFails, Request, CallOK, ErrPty, Abstract!ErrPty, Abstract!Answered
  <2>2. requests[t].status = "pending" /\ requests[t].call = c.call /\ wire' = wire
    BY <1>10 DEF WriteFails, Writing, Request
  <2>3. Abstract!Answer(t, Abstract!ErrPty)
    BY <1>2, <2>1, <2>2 DEF Abstract!Answer
  <2> QED
    BY <2>3 DEF Abstract!Next
<1>11. CASE Return(t)
  <2>1. Request(t)' = Abstract!Idle(c.call)
    BY <1>1, <1>11 DEF Return, Request, NoCall, Abstract!Idle
  <2>2. requests[t].status = "answered" /\ requests[t].call = c.call /\ wire' = wire
    BY <1>11 DEF Return, Request
  <2>3. Abstract!Finish(t)
    BY <1>2, <2>1, <2>2 DEF Abstract!Finish
  <2> QED
    BY <2>3 DEF Abstract!Next
<1> QED
  BY <1>4, <1>5, <1>7, <1>8, <1>9, <1>10, <1>11 DEF CallSend, CallSendLine, Step

(* The bytes of each call reach the terminal in order and at most once,    *)
(* and a call that returns a number has put exactly that many there,       *)
(* whatever the other threads send and whenever the delay is changed.      *)
THEOREM SendIsWire == Spec => ImplementsWire
<1>1. Init => Abstract!Init
  <2> SUFFICES ASSUME Init PROVE Abstract!Init
    OBVIOUS
  <2>1. \A t \in Senders : Request(t) = Abstract!Idle(0)
    BY DEF Init, Request, NoCall, Abstract!Idle
  <2> QED
    BY <2>1 DEF Init, Abstract!Init
<1>2. Inv /\ [Next]_vars => [Abstract!Next]_(Abstract!wireVars)
  <2> SUFFICES ASSUME Inv, [Next]_vars
               PROVE  [Abstract!Next]_(Abstract!wireVars)
    OBVIOUS
  <2>1. ASSUME wire' = wire, sender' = sender
        PROVE  UNCHANGED Abstract!wireVars
    BY <2>1 DEF Request, Abstract!wireVars
  <2>2. CASE (\E ms \in Delays : SetSendDelay(ms)) \/ ProgramReads \/ UNCHANGED vars
    BY <2>1, <2>2 DEF SetSendDelay, ProgramReads, vars
  <2>3. 0 \in 0 .. MaxLen
    BY SendAssumption
  <2> QED
    BY <2>2, <2>3, CallRefines DEF Next
<1> QED
  BY <1>1, <1>2, InvHolds, PTL DEF Spec, ImplementsWire, Abstract!Spec

=============================================================================
