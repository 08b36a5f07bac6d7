---------------------------- MODULE SessionProofs ---------------------------
(***************************************************************************)
(* Proofs about module Session, for any number of application threads and  *)
(* any amount of output.                                                   *)
(***************************************************************************)
EXTENDS Session, TLAPS

(* What is allocated is determined by how far the owner has come.          *)
AllHeld == IF direct THEN Resources \ {"container_id"} ELSE Resources

HeldInv ==
  /\ owner \in {"alloc", "null", "gone"} => held = {}
  /\ owner = "mutex" => held = {"memory"}
  /\ owner = "pty" => held = {"memory", "mutex"}
  /\ owner = "terminal" => held = {"memory", "mutex", "master_fd", "slave_name"}
  /\ owner = "id" => ~direct /\ held = Resources \ {"container_id"}
  /\ owner \in {"spawn", "start", "open", "join", "close"} => held = AllHeld
  /\ owner = "free" => held = AllHeld \ {"master_fd", "slave_name"}

(* The reader thread exists from the end of the creation to the join.      *)
ReaderInv ==
  /\ owner \in {"alloc", "mutex", "pty", "terminal", "id", "spawn", "start", "null"}
       => reader.pc = "none"
  /\ owner \in {"open", "join"}
       => reader.pc \in {"loop", "read", "lock", "process", "exited"}
  /\ owner \in {"close", "free", "gone"} => reader.pc = "exited"
  /\ owner = "open" => running

(* A thread is in its critical section exactly when it holds the lock.     *)
LockInv ==
  /\ lock \in {"free", "reader"} \cup Clients
  /\ lock = "reader" <=> reader.pc = "process"
  /\ \A c \in Clients : lock = c <=> client[c].pc = "copy"

(* Queries are made of an open session only, and copy what is there.       *)
ClientInv ==
  /\ client = [c \in Clients |->
                 [pc |-> client[c].pc, copied |-> client[c].copied,
                  calls |-> client[c].calls]]
  /\ \A c \in Clients :
       /\ client[c].pc \in {"idle", "lock", "copy", "return"}
       /\ owner # "open" => client[c].pc = "idle"
       /\ client[c].copied \in Seq(Nat)
       /\ client[c].pc = "lock" => client[c].copied = <<>>
       /\ client[c].pc = "copy" =>
            \A j \in DOMAIN client[c].copied : client[c].copied[j] = applied

Inv ==
  /\ owner \in {"alloc", "mutex", "pty", "terminal", "id", "spawn", "start", "null",
                "open", "join", "close", "free", "gone"}
  /\ direct \in BOOLEAN
  /\ applied \in Nat
  /\ reader = [pc |-> reader.pc, n |-> reader.n, i |-> reader.i]
  /\ HeldInv
  /\ ReaderInv
  /\ LockInv
  /\ ClientInv

LEMMA InitOK == Init => Inv
<1> SUFFICES ASSUME Init PROVE Inv
  OBVIOUS
<1>1. HeldInv /\ ReaderInv
  BY DEF Init, HeldInv, ReaderInv, NoReader
<1>2. LockInv
  BY SessionAssumption DEF Init, LockInv, NoReader
<1>3. ClientInv
  <2>1. \A c \in Clients : client[c].pc = "idle" /\ client[c].copied = <<>>
    BY DEF Init
  <2>2. client = [c \in Clients |-> [pc |-> client[c].pc, copied |-> client[c].copied,
                                     calls |-> client[c].calls]]
    BY DEF Init
  <2>3. \A c \in Clients : client[c].copied \in Seq(Nat)
    <3>1. <<>> \in Seq(Nat)
      OBVIOUS
    <3> QED
      BY <2>1, <3>1, Zenon
  <2>4. \A c \in Clients : client[c].pc \notin {"lock", "copy", "return"}
    BY <2>1
  <2> QED
    BY <2>1, <2>2, <2>3, <2>4 DEF ClientInv
<1> QED
  BY <1>1, <1>2, <1>3 DEF Init, Inv, NoReader

LEMMA CreateOK ==
  ASSUME Inv, Create
  PROVE  Inv'
<1>1. /\ UNCHANGED <<direct, lock, applied, client>>
      /\ owner # "open" /\ owner' \notin {"join", "close", "free", "gone", "alloc"}
      /\ reader.pc = "none"
      /\ \/ UNCHANGED <<reader, running>> /\ owner' # "open"
         \/ owner' = "open" /\ running' /\ reader' = [NoReader EXCEPT !.pc = "loop"]
  BY DEF Create, Alloc, InitMutex, PtyCreate, TerminalInit, CopyId, Spawn, ReaderStart,
         Fail, CreateFailed, RestUnchanged, Inv, ReaderInv
<1>2. owner' \in {"mutex", "pty", "terminal", "id", "spawn", "start", "null", "open"}
  BY DEF Create, Alloc, InitMutex, PtyCreate, TerminalInit, CopyId, Spawn, ReaderStart,
         Fail, CreateFailed
<1>3. HeldInv'
  BY <1>1 DEF Create, Alloc, InitMutex, PtyCreate, TerminalInit, CopyId, Spawn, ReaderStart,
         Fail, CreateFailed, PtyClose, Inv, HeldInv, AllHeld, Resources
<1>4. ReaderInv'
  BY <1>1, <1>2 DEF ReaderInv, NoReader
<1>5. LockInv'
  BY <1>1 DEF Inv, LockInv, NoReader
<1>6. ClientInv'
  BY <1>1 DEF Inv, ClientInv
<1> QED
  BY <1>1, <1>2, <1>3, <1>4, <1>5, <1>6 DEF Inv, NoReader

LEMMA DestroyOK ==
  ASSUME Inv, StopReader \/ Destroy
  PROVE  Inv'
<1>1. /\ UNCHANGED <<direct, lock, applied, client, reader>>
      /\ owner' \in {"join", "close", "free", "gone"}
      /\ owner' = "join" => owner = "open"
      /\ owner' # "join" => reader.pc = "exited"
      /\ \A c \in Clients : client[c].pc = "idle"
  BY DEF StopReader, Destroy, JoinReader, ClosePty, FreeSession, RestUnchanged,
         Inv, ReaderInv, ClientInv
<1>2. HeldInv'
  BY <1>1 DEF StopReader, Destroy, JoinReader, ClosePty, FreeSession, PtyClose,
         Inv, HeldInv, ReaderInv, AllHeld, Resources
<1>3. ReaderInv'
  BY <1>1 DEF Inv, ReaderInv
<1>4. LockInv' /\ ClientInv'
  BY <1>1 DEF Inv, LockInv, ClientInv
<1> QED
  BY <1>1, <1>2, <1>3, <1>4 DEF Inv

LEMMA ReadOK ==
  ASSUME Inv, Read
  PROVE  Inv'
<1>1. /\ UNCHANGED <<owner, direct, held, running, client>>
      /\ owner \in {"open", "join"}
  BY DEF Read, ReaderCheck, ReaderRead, ReaderAgain, ReaderEof, ReaderLock, ReaderByte,
         ReaderUnlock, OwnerUnchanged, Inv, ReaderInv
<1>2. /\ reader' = [pc |-> reader'.pc, n |-> reader'.n, i |-> reader'.i]
      /\ reader'.pc \in {"loop", "read", "lock", "process", "exited"}
  BY DEF Read, ReaderCheck, ReaderRead, ReaderAgain, ReaderEof, ReaderLock, ReaderByte,
         ReaderUnlock, Inv, NoReader
<1>3. HeldInv' /\ ReaderInv'
  BY <1>1, <1>2 DEF Inv, HeldInv, ReaderInv, AllHeld
<1>4. LockInv'
  BY <1>1, SessionAssumption
     DEF Read, ReaderCheck, ReaderRead, ReaderAgain, ReaderEof, ReaderLock, ReaderByte,
         ReaderUnlock, Inv, LockInv, NoReader
<1>5. applied' \in Nat /\ (applied' # applied => reader.pc = "process")
  BY DEF Read, ReaderCheck, ReaderRead, ReaderAgain, ReaderEof, ReaderLock, ReaderByte,
         ReaderUnlock, Inv
<1>6. ClientInv'
  <2>1. \A c \in Clients : client[c].pc = "copy" => reader.pc # "process"
    BY SessionAssumption DEF Inv, LockInv
  <2> QED
    BY <1>1, <1>5, <2>1 DEF Inv, ClientInv
<1> QED
  BY <1>1, <1>2, <1>3, <1>4, <1>5, <1>6 DEF Inv

LEMMA ProgramOK ==
  ASSUME Inv, Program
  PROVE  Inv'
<1>1. UNCHANGED <<owner, direct, held, running, reader, lock, applied, client>>
  BY DEF Program, OpenSlave, Write, CloseSlave, RestOfProgramUnchanged
<1> QED
  BY <1>1 DEF Inv, HeldInv, AllHeld, ReaderInv, LockInv, ClientInv

LEMMA CallOK ==
  ASSUME Inv, NEW c \in Clients, Call(c)
  PROVE  Inv'
<1>1. /\ UNCHANGED <<owner, direct, held, running, reader, lock, applied>>
      /\ owner = "open"
      /\ client[c].pc = "idle"
      /\ client' = [client EXCEPT ![c] = [pc |-> "lock", copied |-> <<>>,
                                         calls |-> client[c].calls + 1]]
  BY DEF Call, QueryUnchanged
<1>2. /\ client'[c] = [pc |-> "lock", copied |-> <<>>, calls |-> client[c].calls + 1]
      /\ \A d \in Clients \ {c} : client'[d] = client[d]
      /\ client' = [d \in Clients |-> client'[d]]
  BY <1>1 DEF Inv, ClientInv
<1>3. ClientInv'
  <2>1. \A d \in Clients : client'[d] = [pc |-> client'[d].pc, copied |-> client'[d].copied,
                                         calls |-> client'[d].calls]
    BY <1>2 DEF Inv, ClientInv
  <2>2. client' = [d \in Clients |-> [pc |-> client'[d].pc, copied |-> client'[d].copied,
                                      calls |-> client'[d].calls]]
    BY <1>2, <2>1
  <2>3. <<>> \in Seq(Nat)
    OBVIOUS
  <2>4. \A d \in Clients \ {c} :
          /\ client[d].pc \in {"idle", "lock", "copy", "return"}
          /\ client[d].copied \in Seq(Nat)
          /\ client[d].pc = "lock" => client[d].copied = <<>>
          /\ client[d].pc = "copy" =>
               \A j \in DOMAIN client[d].copied : client[d].copied[j] = applied
    BY DEF Inv, ClientInv
  <2> QED
    BY <1>1, <1>2, <2>2, <2>3, <2>4 DEF ClientInv
<1>4. LockInv'
  BY <1>1, <1>2 DEF Inv, LockInv
<1> QED
  BY <1>1, <1>3, <1>4 DEF Inv, HeldInv, AllHeld, ReaderInv

LEMMA QueryOK ==
  ASSUME Inv, NEW c \in Clients, Query(c)
  PROVE  Inv'
<1>1. /\ UNCHANGED <<owner, direct, held, running, reader, applied>>
      /\ client[c].pc # "idle" /\ owner = "open"
  BY DEF Query, Lock, Copy, Unlock, Return, QueryUnchanged, Inv, ClientInv
<1>2. /\ client = [d \in Clients |-> client[d]]
      /\ client[c] = [pc |-> client[c].pc, copied |-> client[c].copied,
                      calls |-> client[c].calls]
      /\ client[c].copied \in Seq(Nat)
      /\ applied \in Nat
  BY DEF Inv, ClientInv
<1>3. /\ client' = [d \in Clients |-> client'[d]]
      /\ \A d \in Clients \ {c} : client'[d] = client[d]
      /\ client'[c] = [pc |-> client'[c].pc, copied |-> client'[c].copied,
                       calls |-> client'[c].calls]
      /\ client'[c].pc \in {"idle", "copy", "return"}
  BY <1>2 DEF Query, Lock, Copy, Unlock, Return, Inv, ClientInv
<1>4. /\ client'[c].copied \in Seq(Nat)
      /\ client'[c].pc = "copy" =>
           \A j \in DOMAIN client'[c].copied : client'[c].copied[j] = applied
  <2>1. CASE Lock(c)
    BY <1>2, <2>1 DEF Lock, Inv, ClientInv
  <2>2. CASE Copy(c)
    <3>1. /\ client'[c].copied = Append(client[c].copied, applied)
          /\ \A j \in DOMAIN client[c].copied : client[c].copied[j] = applied
      BY <1>2, <2>2 DEF Copy, Inv, ClientInv
    <3> QED
      BY <1>2, <3>1
  <2>3. CASE Unlock(c) \/ Return(c)
    BY <1>2, <2>3 DEF Unlock, Return
  <2> QED
    BY <2>1, <2>2, <2>3 DEF Query
<1>5. ClientInv'
  <2>1. \A d \in Clients : client'[d] = [pc |-> client'[d].pc, copied |-> client'[d].copied,
                                         calls |-> client'[d].calls]
    BY <1>3 DEF Inv, ClientInv
  <2> QED
    BY <1>1, <1>3, <1>4, <2>1 DEF Inv, ClientInv
<1>6. LockInv'
  <2>1. c \notin {"free", "reader"}
    BY SessionAssumption
  <2>2. CASE Lock(c)
    BY <1>1, <1>2, <1>3, <2>1, <2>2, SessionAssumption DEF Lock, Inv, LockInv
  <2>3. CASE Copy(c) \/ Return(c)
    BY <1>1, <1>2, <1>3, <2>3 DEF Copy, Return, Inv, LockInv
  <2>4. CASE Unlock(c)
    BY <1>1, <1>2, <1>3, <2>1, <2>4, SessionAssumption DEF Unlock, Inv, LockInv
  <2> QED
    BY <2>2, <2>3, <2>4 DEF Query
<1> QED
  BY <1>1, <1>5, <1>6 DEF Inv, HeldInv, AllHeld, ReaderInv

LEMMA StepOK == Inv /\ [Next]_vars => Inv'
<1> SUFFICES ASSUME Inv, [Next]_vars PROVE Inv'
  OBVIOUS
<1>1. CASE UNCHANGED vars
  BY <1>1 DEF vars, Inv, HeldInv, AllHeld, ReaderInv, LockInv, ClientInv
<1>2. CASE Next
  BY <1>2, CreateOK, DestroyOK, ReadOK, ProgramOK, CallOK, QueryOK DEF Next
<1> QED
  BY <1>1, <1>2

(* What is allocated, where the reader thread is, who holds buffer_lock    *)
(* and what each query has copied stay consistent through every step of    *)
(* creation, reading, querying and destruction.                            *)
THEOREM InvHolds == Spec => []Inv
BY InitOK, StepOK, PTL DEF Spec

-----------------------------------------------------------------------------

(* The reader thread never touches a session, a PTY or a mutex that was    *)
(* released, because reader_stop joins it first.                           *)
THEOREM NeverUsedAfterFree == Spec => []NoUseAfterFree
<1>1. Inv => NoUseAfterFree
  <2> SUFFICES ASSUME Inv PROVE NoUseAfterFree
    OBVIOUS
  <2>1. reader.pc \in {"loop", "read", "lock", "process"}
          => {"memory", "mutex", "master_fd", "buffer"} \subseteq held
    BY DEF Inv, HeldInv, ReaderInv, AllHeld, Resources
  <2>2. ASSUME NEW c \in Clients, client[c].pc # "idle"
        PROVE  {"memory", "mutex", "buffer"} \subseteq held
    BY <2>2 DEF Inv, HeldInv, ClientInv, AllHeld, Resources
  <2>3. lock # "free" => "mutex" \in held
    BY <2>1, <2>2 DEF Inv, LockInv
  <2> QED
    BY <2>1, <2>2, <2>3 DEF NoUseAfterFree
<1> QED
  BY <1>1, InvHolds, PTL

(* Whichever step of a creation fails, and at the end of every destruction *)
(* everything the session had is released.                                 *)
THEOREM NeverLeaks == Spec => []NothingLeaked
<1>1. Inv => NothingLeaked
  BY DEF Inv, HeldInv, ReaderInv, NothingLeaked
<1> QED
  BY <1>1, InvHolds, PTL

(* What a query copies under the lock is one screen.                       *)
THEOREM QueriesNeverTorn == Spec => []NoTornQuery
<1>1. Inv => NoTornQuery
  BY SessionAssumption DEF Inv, LockInv, ClientInv, NoTornQuery
<1> QED
  BY <1>1, InvHolds, PTL

-----------------------------------------------------------------------------
(* Sizes, and the refinement                                               *)

(* The reader's counters belong to the chunk in hand, and every byte the   *)
(* program wrote is applied, in hand or pending.                           *)
CountInv ==
  /\ reader.n \in 0 .. ReadSize /\ reader.i \in 0 .. reader.n
  /\ reader.pc # "process" => reader.i = 0
  /\ reader.pc \in {"lock", "process"} <=> reader.n > 0
  /\ pending \in Nat /\ applied \in Nat /\ reader.i <= applied
  /\ applied + (reader.n - reader.i) + pending <= MaxOutput

(* A query copies at most its places, and all of them before it returns.   *)
CopyInv ==
  \A c \in Clients :
    /\ client[c].calls \in 0 .. MaxCalls
    /\ Len(client[c].copied) <= Width
    /\ client[c].pc = "return" => Len(client[c].copied) = Width
    /\ \A j \in DOMAIN client[c].copied : client[c].copied[j] \in 0 .. MaxOutput

RestInv ==
  /\ held \subseteq Resources
  /\ running \in BOOLEAN
  /\ slave \in {"unopened", "open", "closed"}

LEMMA CountInit == Init => CountInv
  BY SessionAssumption DEF Init, CountInv, NoReader

LEMMA CountStep ==
  ASSUME Inv, CountInv, [Next]_vars
  PROVE  CountInv'
<1> USE SessionAssumption DEF CountInv
<1>0. reader = [pc |-> reader.pc, n |-> reader.n, i |-> reader.i]
  BY DEF Inv
<1>1. CASE Create
  <2>1. applied' = applied /\ pending' = pending /\ reader.pc = "none"
    BY <1>1 DEF Create, Alloc, InitMutex, PtyCreate, TerminalInit, CopyId, Spawn, ReaderStart,
         RestUnchanged, Inv, ReaderInv
  <2>2. reader' = reader \/ reader' = [NoReader EXCEPT !.pc = "loop"]
    BY <1>1 DEF Create, Alloc, InitMutex, PtyCreate, TerminalInit, CopyId, Spawn, ReaderStart
  <2> QED
    BY <2>1, <2>2 DEF NoReader
<1>2. CASE StopReader \/ Destroy
  BY <1>2 DEF StopReader, Destroy, JoinReader, ClosePty, FreeSession, RestUnchanged
<1>3. CASE Read
  <2>1. CASE ReaderCheck
    BY <1>0, <2>1 DEF ReaderCheck
  <2>2. CASE ReaderAgain \/ ReaderEof
    BY <1>0, <2>2 DEF ReaderAgain, ReaderEof
  <2>3. ASSUME NEW k \in ReadSizes, ReaderRead(k) PROVE CountInv'
    BY <2>3 DEF ReaderRead, ReadSizes
  <2>4. CASE ReaderLock
    BY <1>0, <2>4 DEF ReaderLock
  <2>5. CASE ReaderByte
    BY <1>0, <2>5 DEF ReaderByte
  <2>6. CASE ReaderUnlock
    BY <1>0, <2>6 DEF ReaderUnlock, NoReader
  <2> QED
    BY <1>3, <2>1, <2>2, <2>3, <2>4, <2>5, <2>6 DEF Read
<1>4. CASE Program
  BY <1>4 DEF Program, OpenSlave, Write, CloseSlave, RestOfProgramUnchanged, written
<1>5. ASSUME NEW c \in Clients, Call(c) \/ Query(c) PROVE CountInv'
  BY <1>5 DEF Call, Query, Lock, Copy, Unlock, Return, QueryUnchanged
<1>6. CASE UNCHANGED vars
  BY <1>6 DEF vars
<1> QED
  BY <1>1, <1>2, <1>3, <1>4, <1>5, <1>6 DEF Next

LEMMA CopyInit == Init => CopyInv
<1> SUFFICES ASSUME Init, NEW c \in Clients
             PROVE  /\ client[c].calls \in 0 .. MaxCalls
                    /\ Len(client[c].copied) <= Width
                    /\ client[c].pc = "return" => Len(client[c].copied) = Width
                    /\ \A j \in DOMAIN client[c].copied : client[c].copied[j] \in 0 .. MaxOutput
  BY DEF CopyInv
<1>1. client[c].pc = "idle" /\ client[c].copied = <<>> /\ client[c].calls = 0
  BY DEF Init
<1> QED
  BY <1>1, SessionAssumption

LEMMA CopyStep ==
  ASSUME Inv, CountInv, CopyInv, [Next]_vars
  PROVE  CopyInv'
<1> USE SessionAssumption
<1>1. ASSUME client' = client PROVE CopyInv'
  BY <1>1 DEF CopyInv
<1>2. CASE Create \/ StopReader \/ Destroy \/ Read \/ Program \/ UNCHANGED vars
  <2>1. client' = client
    BY <1>2 DEF Create, Alloc, InitMutex, PtyCreate, TerminalInit, CopyId, Spawn, ReaderStart,
      StopReader, Destroy, JoinReader, ClosePty, FreeSession, RestUnchanged, Read, ReaderCheck,
      ReaderRead, ReaderAgain, ReaderEof, ReaderLock, ReaderByte, ReaderUnlock, Program, OpenSlave,
      Write, CloseSlave, RestOfProgramUnchanged, vars
  <2> QED
    BY <1>1, <2>1
<1>3. ASSUME NEW c \in Clients, Call(c) \/ Query(c)
      PROVE  CopyInv'
  <2>1. /\ client = [d \in Clients |-> client[d]]
        /\ client[c] = [pc |-> client[c].pc, copied |-> client[c].copied,
                        calls |-> client[c].calls]
        /\ client[c].copied \in Seq(Nat)
        /\ applied \in 0 .. MaxOutput
    BY DEF Inv, ClientInv, CountInv
  <2>2. /\ client[c].calls \in 0 .. MaxCalls
        /\ Len(client[c].copied) <= Width
        /\ client[c].pc = "return" => Len(client[c].copied) = Width
        /\ \A j \in DOMAIN client[c].copied : client[c].copied[j] \in 0 .. MaxOutput
    BY DEF CopyInv
  <2>3. \A d \in Clients \ {c} : client'[d] = client[d]
    BY <1>3, <2>1 DEF Call, Query, Lock, Copy, Unlock, Return
  <2>4. /\ client'[c].calls \in 0 .. MaxCalls
        /\ Len(client'[c].copied) <= Width
        /\ client'[c].pc = "return" => Len(client'[c].copied) = Width
        /\ \A j \in DOMAIN client'[c].copied : client'[c].copied[j] \in 0 .. MaxOutput
    <3>1. CASE Call(c)
      BY <2>1, <2>2, <3>1 DEF Call
    <3>2. CASE Lock(c)
      BY <2>1, <2>2, <3>2 DEF Lock
    <3>3. CASE Copy(c)
      <4>1. /\ client'[c].copied = Append(client[c].copied, applied)
            /\ client'[c].calls = client[c].calls
            /\ client'[c].pc = "copy"
            /\ Len(client[c].copied) < Width
        BY <2>1, <3>3 DEF Copy
      <4>2. Len(client'[c].copied) <= Width
        BY <2>1, <2>2, <4>1
      <4>3. \A j \in DOMAIN client'[c].copied : client'[c].copied[j] \in 0 .. MaxOutput
        BY <2>1, <2>2, <4>1
      <4> QED
        BY <2>2, <4>1, <4>2, <4>3
    <3>4. CASE Unlock(c)
      BY <2>1, <2>2, <3>4 DEF Unlock
    <3>5. CASE Return(c)
      BY <2>1, <2>2, <3>5 DEF Return
    <3> QED
      BY <1>3, <3>1, <3>2, <3>3, <3>4, <3>5 DEF Query
  <2> QED
    BY <2>3, <2>4 DEF CopyInv
<1> QED
  BY <1>2, <1>3 DEF Next

LEMMA RestInit == Init => RestInv
  BY DEF Init, RestInv

LEMMA RestStep ==
  ASSUME Inv, RestInv, [Next]_vars
  PROVE  RestInv'
<1> USE DEF RestInv
<1>1. CASE Create
  BY <1>1 DEF Create, Alloc, InitMutex, PtyCreate, TerminalInit, CopyId, Spawn, ReaderStart,
       Fail, CreateFailed, RestUnchanged, Resources
<1>2. CASE StopReader \/ Destroy
  BY <1>2 DEF StopReader, Destroy, JoinReader, ClosePty, FreeSession, RestUnchanged
<1>3. CASE Read
  BY <1>3 DEF Read, ReaderCheck, ReaderRead, ReaderAgain, ReaderEof, ReaderLock, ReaderByte,
       ReaderUnlock, OwnerUnchanged
<1>4. CASE Program
  BY <1>4 DEF Program, OpenSlave, Write, CloseSlave, RestOfProgramUnchanged
<1>5. ASSUME NEW c \in Clients, Call(c) \/ Query(c) PROVE RestInv'
  BY <1>5 DEF Call, Query, Lock, Copy, Unlock, Return, QueryUnchanged
<1>6. CASE UNCHANGED vars
  BY <1>6 DEF vars
<1> QED
  BY <1>1, <1>2, <1>3, <1>4, <1>5, <1>6 DEF Next

AllInv == Inv /\ CountInv /\ CopyInv /\ RestInv

LEMMA AllHolds == Spec => []AllInv
<1>1. Init => AllInv
  BY InitOK, CountInit, CopyInit, RestInit DEF AllInv
<1>2. AllInv /\ [Next]_vars => AllInv'
  BY StepOK, CountStep, CopyStep, RestStep DEF AllInv
<1> QED
  BY <1>1, <1>2, PTL DEF Spec

(* Every variable keeps its range: the reader never holds more than one    *)
(* buffer of bytes, no byte is applied that the program did not write, and *)
(* no query copies more than its places.                                   *)
THEOREM TypesHold == Spec => []TypeOK
<1>1. AllInv => TypeOK
  <2> SUFFICES ASSUME AllInv PROVE TypeOK
    OBVIOUS
  <2>1. reader \in [pc : {"none", "loop", "read", "lock", "process", "exited"},
                    n : 0 .. ReadSize, i : 0 .. ReadSize]
    <3>1. reader.pc \in {"none", "loop", "read", "lock", "process", "exited"}
      BY DEF AllInv, Inv, ReaderInv
    <3>2. reader.n \in 0 .. ReadSize /\ reader.i \in 0 .. ReadSize
      BY SessionAssumption DEF AllInv, CountInv
    <3> QED
      BY <3>1, <3>2 DEF AllInv, Inv
  <2>2. ASSUME NEW c \in Clients
        PROVE  client[c] \in [pc : {"idle", "lock", "copy", "return"},
                              copied : UNION {[1 .. l -> 0 .. MaxOutput] : l \in 0 .. Width},
                              calls : 0 .. MaxCalls]
    <3> DEFINE l == Len(client[c].copied)
    <3>1. /\ client[c].pc \in {"idle", "lock", "copy", "return"}
          /\ client[c].copied \in Seq(Nat)
          /\ client[c] = [pc |-> client[c].pc, copied |-> client[c].copied,
                          calls |-> client[c].calls]
      BY DEF AllInv, Inv, ClientInv
    <3>2. /\ client[c].calls \in 0 .. MaxCalls
          /\ l <= Width
          /\ \A j \in DOMAIN client[c].copied : client[c].copied[j] \in 0 .. MaxOutput
      BY DEF AllInv, CopyInv
    <3>3. l \in 0 .. Width
      BY <3>1, <3>2, SessionAssumption
    <3>4. client[c].copied \in [1 .. l -> 0 .. MaxOutput]
      BY <3>1, <3>2
    <3>5. client[c].copied \in UNION {[1 .. m -> 0 .. MaxOutput] : m \in 0 .. Width}
      BY <3>3, <3>4
    <3> QED
      BY <3>1, <3>2, <3>5
  <2>3. client = [c \in Clients |-> client[c]]
    BY DEF AllInv, Inv, ClientInv
  <2>4. applied \in 0 .. MaxOutput /\ pending \in 0 .. MaxOutput
    BY SessionAssumption DEF AllInv, CountInv
  <2> QED
    BY <2>1, <2>2, <2>3, <2>4 DEF AllInv, Inv, LockInv, RestInv, TypeOK
<1> QED
  BY <1>1, AllHolds, PTL

-----------------------------------------------------------------------------

(* The state of a query, for the abstract screen.                          *)
LEMMA RequestCases ==
  ASSUME AllInv, NEW c \in Clients
  PROVE  /\ client[c].pc = "idle" => Request(c) = Abstract!Idle
         /\ client[c].pc = "lock" => Request(c) = Abstract!Waiting
         /\ client[c].pc = "copy" /\ Len(client[c].copied) < Width
              => Request(c) = Abstract!Waiting
         /\ client[c].pc = "copy" /\ Len(client[c].copied) = Width
              => Request(c) = [status |-> "answered", value |-> client[c].copied]
         /\ client[c].pc = "return"
              => Request(c) = [status |-> "answered", value |-> client[c].copied]
BY SessionAssumption DEF AllInv, Inv, ClientInv, CopyInv, Request, Abstract!Idle, Abstract!Waiting

(* Nothing is shown, asked or closed by a step that leaves these alone.    *)
LEMMA StutterOK ==
  ASSUME Phase' = Phase, Shown' = Shown, client' = client
  PROVE  UNCHANGED Abstract!screenVars
<1>1. \A c \in Clients : Request(c)' = Request(c)
  BY DEF Request
<1> QED
  BY <1>1 DEF Abstract!screenVars

LEMMA OwnerRefines ==
  ASSUME AllInv, Create \/ StopReader \/ Destroy
  PROVE  [Abstract!Next]_(Abstract!screenVars)
<1>1. client' = client /\ applied' = applied
  BY DEF Create, Alloc, InitMutex, PtyCreate, TerminalInit, CopyId, Spawn, ReaderStart,
      StopReader, Destroy, JoinReader, ClosePty, FreeSession, RestUnchanged
<1>2. Shown' = Shown
  <2>1. reader' = reader \/ (reader.pc = "none" /\ reader'.i = 0)
    BY DEF AllInv, Inv, ReaderInv, Create, Alloc, InitMutex, PtyCreate, TerminalInit, CopyId,
        Spawn, ReaderStart, StopReader, Destroy, JoinReader, ClosePty, FreeSession, NoReader
  <2> QED
    BY <1>1, <2>1 DEF Shown, AllInv, CountInv
<1>3. [c \in Clients |-> Request(c)]' = [c \in Clients |-> Request(c)]
  BY <1>1 DEF Request
<1>4. CASE Phase' = Phase
  BY <1>2, <1>3, <1>4 DEF Abstract!screenVars
<1>5. CASE Phase' # Phase
  <2>1. \/ Phase = "new" /\ Phase' = "open"
        \/ Phase \in {"new", "open"} /\ Phase' = "closed" /\ owner # "open"
    BY <1>5 DEF Phase, Create, Alloc, InitMutex, PtyCreate, TerminalInit, CopyId, Spawn,
        ReaderStart, StopReader, Destroy, JoinReader, ClosePty, FreeSession, Fail, CreateFailed,
        AllInv, Inv, ReaderInv
  <2>2. CASE Phase = "new" /\ Phase' = "open"
    BY <1>2, <1>3, <2>2 DEF Abstract!Next, Abstract!Open
  <2>3. CASE Phase \in {"new", "open"} /\ Phase' = "closed" /\ owner # "open"
    <3>1. \A c \in Clients : Request(c) = Abstract!Idle
      BY <2>3, RequestCases DEF AllInv, Inv, ClientInv
    <3>2. Abstract!Close
      BY <1>2, <1>3, <2>3, <3>1 DEF Abstract!Close
    <3> QED
      BY <3>2 DEF Abstract!Next
  <2> QED
    BY <2>1, <2>2, <2>3
<1> QED
  BY <1>4, <1>5

LEMMA ReadRefines ==
  ASSUME AllInv, Read
  PROVE  [Abstract!Next]_(Abstract!screenVars)
<1>1. client' = client /\ owner' = owner /\ owner \in {"open", "join"}
  BY DEF Read, ReaderCheck, ReaderRead, ReaderAgain, ReaderEof, ReaderLock, ReaderByte,
      ReaderUnlock, OwnerUnchanged, AllInv, Inv, ReaderInv
<1>2. Phase' = Phase /\ Phase = "open"
  BY <1>1 DEF Phase
<1>3. CASE ReaderUnlock
  <2>1. /\ Shown' = applied /\ Shown = applied - reader.n /\ reader.n > 0
        /\ applied \in 0 .. MaxOutput /\ reader.n \in Nat /\ reader.n <= applied
    BY <1>3, SessionAssumption DEF ReaderUnlock, NoReader, Shown, AllInv, CountInv
  <2>2. Shown' \in Shown + 1 .. MaxOutput
    BY <2>1, SessionAssumption
  <2>3. [c \in Clients |-> Request(c)]' = [c \in Clients |-> Request(c)]
    BY <1>1 DEF Request
  <2> QED
    BY <1>2, <2>2, <2>3 DEF Abstract!Next, Abstract!Show
<1>4. CASE ~ReaderUnlock
  <2>1. Shown' = Shown
    <3>1. CASE ReaderByte
      BY <3>1, SessionAssumption DEF ReaderByte, Shown, AllInv, Inv, CountInv
    <3>2. CASE ~ReaderByte
      <4>1. applied' = applied
        BY <1>4, <3>2 DEF Read, ReaderCheck, ReaderRead, ReaderAgain, ReaderEof, ReaderLock
      <4>2. reader'.i = reader.i
        BY <1>4, <3>2 DEF Read, ReaderCheck, ReaderRead, ReaderAgain, ReaderEof, ReaderLock,
             AllInv, Inv, CountInv
      <4> QED
        BY <4>1, <4>2 DEF Shown
    <3> QED
      BY <3>1, <3>2
  <2> QED
    BY <1>1, <1>2, <2>1, StutterOK
<1> QED
  BY <1>3, <1>4

LEMMA QueryRefines ==
  ASSUME AllInv, AllInv', NEW c \in Clients, Call(c) \/ Query(c)
  PROVE  [Abstract!Next]_(Abstract!screenVars)
<1> DEFINE calls == [d \in Clients |-> Request(d)]
<1>1. /\ UNCHANGED <<owner, reader, applied>> /\ owner = "open"
  BY DEF Call, Query, Lock, Copy, Unlock, Return, QueryUnchanged, AllInv, Inv, ClientInv
<1>2. Phase' = Phase /\ Phase = "open" /\ Shown' = Shown
  BY <1>1 DEF Phase, Shown
<1>3. /\ \A d \in Clients \ {c} : client'[d] = client[d]
      /\ client = [d \in Clients |-> client[d]]
      /\ client[c] = [pc |-> client[c].pc, copied |-> client[c].copied,
                      calls |-> client[c].calls]
      /\ client[c].copied \in Seq(Nat) /\ applied \in Nat
  BY DEF Call, Query, Lock, Copy, Unlock, Return, AllInv, Inv, ClientInv
<1>4. \A d \in Clients \ {c} : Request(d)' = Request(d)
  BY <1>3 DEF Request
<1>5. calls' = [calls EXCEPT ![c] = Request(c)']
  BY <1>4
<1>6. ASSUME Request(c)' = Request(c)
      PROVE  UNCHANGED Abstract!screenVars
  BY <1>2, <1>5, <1>6 DEF Abstract!screenVars
<1>7. CASE Call(c)
  <2>1. Request(c) = Abstract!Idle
    BY <1>7, RequestCases DEF Call
  <2>2. client'[c].pc = "lock"
    BY <1>3, <1>7 DEF Call
  <2>3. Request(c)' = Abstract!Waiting
    BY <2>2 DEF Request, Abstract!Waiting
  <2>4. Abstract!Ask(c)
    BY <1>2, <1>5, <2>1, <2>3 DEF Abstract!Ask
  <2> QED
    BY <2>4 DEF Abstract!Next
<1>8. CASE Lock(c)
  <2>1. Request(c) = Abstract!Waiting
    BY <1>8, RequestCases DEF Lock
  <2>2. client[c].copied = <<>> /\ client'[c].pc = "copy" /\ client'[c].copied = <<>>
    BY <1>3, <1>8 DEF Lock, AllInv, Inv, ClientInv
  <2>3. Request(c)' = Abstract!Waiting
    BY <2>2, SessionAssumption DEF Request, Abstract!Waiting
  <2> QED
    BY <1>6, <2>1, <2>3
<1>9. CASE Copy(c)
  <2>1. /\ client[c].pc = "copy" /\ Len(client[c].copied) < Width
        /\ client'[c].pc = "copy" /\ client'[c].copied = Append(client[c].copied, applied)
    BY <1>3, <1>9 DEF Copy
  <2>2. Request(c) = Abstract!Waiting
    BY <2>1, RequestCases
  <2>3. CASE Len(client'[c].copied) < Width
    <3>1. Request(c)' = Abstract!Waiting
      BY <2>1, <2>3 DEF Request, Abstract!Waiting
    <3> QED
      BY <1>6, <2>2, <3>1
  <2>4. CASE ~(Len(client'[c].copied) < Width)
    <3>1. Request(c)' = [status |-> "answered", value |-> client'[c].copied]
      BY <2>1, <2>4 DEF Request
    <3>2. Shown = applied
      <4>1. reader.pc # "process"
        BY <2>1, SessionAssumption DEF AllInv, Inv, LockInv
      <4> QED
        BY <4>1, <1>3 DEF AllInv, CountInv, Shown
    <3>3. client'[c].copied = [j \in 1 .. Width |-> Shown]
      <4>1. /\ client'[c].copied \in Seq(Nat) /\ Len(client'[c].copied) = Width
        BY <1>3, <2>1, <2>4, SessionAssumption
      <4>2. \A j \in 1 .. Width : client'[c].copied[j] = applied
        BY <1>1, <2>1, <4>1 DEF AllInv, Inv, ClientInv
      <4> QED
        BY <3>2, <4>1, <4>2
    <3>4. Abstract!Answer(c)
      BY <1>2, <1>5, <2>2, <3>1, <3>3 DEF Abstract!Answer, Abstract!Answered
    <3> QED
      BY <3>4 DEF Abstract!Next
  <2> QED
    BY <2>3, <2>4
<1>10. CASE Unlock(c)
  <2>1. /\ client[c].pc = "copy" /\ Len(client[c].copied) = Width
        /\ client'[c].pc = "return" /\ client'[c].copied = client[c].copied
    BY <1>3, <1>10 DEF Unlock
  <2>2. Request(c) = [status |-> "answered", value |-> client[c].copied]
    BY <2>1, RequestCases
  <2>3. Request(c)' = [status |-> "answered", value |-> client[c].copied]
    BY <2>1, SessionAssumption DEF Request
  <2> QED
    BY <1>6, <2>2, <2>3
<1>11. CASE Return(c)
  <2>1. client[c].pc = "return" /\ client'[c].pc = "idle"
    BY <1>3, <1>11 DEF Return
  <2>2. Request(c).status = "answered"
    BY <2>1, RequestCases
  <2>3. Request(c)' = Abstract!Idle
    BY <2>1 DEF Request, Abstract!Idle
  <2>4. Abstract!Return(c)
    BY <1>2, <1>5, <2>2, <2>3 DEF Abstract!Return
  <2> QED
    BY <2>4 DEF Abstract!Next
<1> QED
  BY <1>7, <1>8, <1>9, <1>10, <1>11 DEF Query

(* A session is an atomic screen: whatever the threads do and in whatever  *)
(* order, every answer of a query is the screen of one moment between the  *)
(* call and the return, never the middle of a chunk of output.             *)
THEOREM SessionIsAtomicScreen == Spec => ImplementsAtomicScreen
<1>1. Init => Abstract!Init
  <2> SUFFICES ASSUME Init PROVE Abstract!Init
    OBVIOUS
  <2>1. Phase = "new" /\ Shown = 0
    BY DEF Init, Phase, Shown, NoReader
  <2>2. \A c \in Clients : Request(c) = Abstract!Idle
    BY DEF Init, Request, Abstract!Idle
  <2> QED
    BY <2>1, <2>2 DEF Abstract!Init
<1>2. AllInv /\ AllInv' /\ [Next]_vars => [Abstract!Next]_(Abstract!screenVars)
  <2> SUFFICES ASSUME AllInv, AllInv', [Next]_vars
               PROVE  [Abstract!Next]_(Abstract!screenVars)
    OBVIOUS
  <2>1. CASE Program \/ UNCHANGED vars
    <3>1. UNCHANGED <<owner, reader, applied, client>>
      BY <2>1 DEF Program, OpenSlave, Write, CloseSlave, RestOfProgramUnchanged, vars
    <3> QED
      BY <3>1, StutterOK DEF Phase, Shown
  <2> QED
    BY <2>1, OwnerRefines, ReadRefines, QueryRefines DEF Next
<1> QED
  BY <1>1, <1>2, AllHolds, PTL DEF Spec, ImplementsAtomicScreen, Abstract!Spec

=============================================================================
