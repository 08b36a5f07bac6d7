------------------------------ MODULE Session -------------------------------
(***************************************************************************)
(* The life of one session: ptywrap_create or ptywrap_create_direct, the   *)
(* background reader thread, the queries of any number of application      *)
(* threads and ptywrap_destroy (src/api.c, src/reader.c, src/pty.c).       *)
(*                                                                         *)
(* What a byte does to the terminal is the business of module Terminal.    *)
(* Here the terminal is the number of bytes applied to it, and it changes  *)
(* with every byte, so that a copy that is not protected shows.            *)
(*                                                                         *)
(* A session is opened and destroyed by one thread, its owner, as the API  *)
(* requires: no thread uses a session before it is created or while or     *)
(* after it is destroyed.                                                  *)
(***************************************************************************)
EXTENDS Naturals, Sequences

CONSTANTS
  Clients,   \* the application threads that query the session
  Width,     \* the number of places a query copies under one lock
  ReadSize,  \* sizeof(buf) in reader_thread_func
  MaxOutput, \* bound on the bytes the program writes
  MaxCalls   \* bound on the queries of each client

ASSUME SessionAssumption ==
  /\ Width \in Nat \ {0}
  /\ ReadSize \in Nat \ {0}
  /\ MaxOutput \in Nat
  /\ MaxCalls \in Nat
  /\ Clients \cap {"free", "reader"} = {}

VARIABLES
  owner,    \* what the owner does next
  direct,   \* created by ptywrap_create_direct, without a container_id
  held,     \* the resources of the session that are allocated
  running,  \* session->reader_running
  reader,   \* the reader thread: pc, bytes read (n), bytes processed (i)
  lock,     \* who holds buffer_lock
  applied,  \* bytes applied to the terminal
  slave,    \* the slave side of the PTY, as its last user left it
  pending,  \* bytes written to the slave and not read yet
  client    \* the queries: pc, places copied, calls made

vars == <<owner, direct, held, running, reader, lock, applied, slave, pending, client>>

Resources == {"memory", "mutex", "master_fd", "slave_name", "buffer", "container_id"}

NoReader == [pc |-> "none", n |-> 0, i |-> 0]

Init ==
  /\ owner = "alloc"
  /\ direct \in BOOLEAN
  /\ held = {}
  /\ running = FALSE
  /\ reader = NoReader
  /\ lock = "free"
  /\ applied = 0
  /\ slave = "unopened"
  /\ pending = 0
  /\ client = [c \in Clients |-> [pc |-> "idle", copied |-> <<>>, calls |-> 0]]

-----------------------------------------------------------------------------
(* Creation. Every step may fail; the error path of each releases what the *)
(* code releases there, and NULL is returned.                              *)

Fail(released) == owner' = "null" /\ held' = held \ released

RestUnchanged == UNCHANGED <<direct, lock, applied, slave, pending, client>>

(* calloc of the session                                                   *)
Alloc ==
  /\ owner = "alloc"
  /\ \/ owner' = "mutex" /\ held' = {"memory"}
     \/ Fail({})
  /\ UNCHANGED <<running, reader>> /\ RestUnchanged

(* pthread_mutex_init                                                      *)
InitMutex ==
  /\ owner = "mutex"
  /\ \/ owner' = "pty" /\ held' = held \cup {"mutex"}
     \/ Fail({"memory"})
  /\ UNCHANGED <<running, reader>> /\ RestUnchanged

(* pty_create: on an error it has closed the master itself.                *)
PtyCreate ==
  /\ owner = "pty"
  /\ \/ owner' = "terminal" /\ held' = held \cup {"master_fd", "slave_name"}
     \/ Fail({"mutex", "memory"})
  /\ UNCHANGED <<running, reader>> /\ RestUnchanged

PtyClose == {"master_fd", "slave_name"}

TerminalInit ==
  /\ owner = "terminal"
  /\ \/ /\ owner' = IF direct THEN "spawn" ELSE "id"
        /\ held' = held \cup {"buffer"}
     \/ Fail(PtyClose \cup {"mutex", "memory"})
  /\ UNCHANGED <<running, reader>> /\ RestUnchanged

(* strdup of the container id                                              *)
CopyId ==
  /\ owner = "id"
  /\ \/ owner' = "spawn" /\ held' = held \cup {"container_id"}
     \/ Fail(PtyClose \cup {"buffer", "mutex", "memory"})
  /\ UNCHANGED <<running, reader>> /\ RestUnchanged

(* Defective variant: the container id is not freed.                      *)
CreateFailed_KeepsId == Fail(PtyClose \cup {"buffer", "mutex", "memory"})

(* The error paths after the container id was copied (or was not needed).  *)
CreateFailed ==
  Fail(PtyClose \cup {"buffer", "mutex", "memory"}
         \cup (IF direct THEN {} ELSE {"container_id"}))

(* container_attach or direct_spawn: fork may fail; the parent knows       *)
(* nothing of what becomes of the child.                                   *)
Spawn ==
  /\ owner = "spawn"
  /\ \/ owner' = "start" /\ UNCHANGED held
     \/ CreateFailed
  /\ UNCHANGED <<running, reader>> /\ RestUnchanged

(* reader_start                                                            *)
ReaderStart ==
  /\ owner = "start"
  /\ \/ /\ owner' = "open"
        /\ running' = TRUE
        /\ reader' = [NoReader EXCEPT !.pc = "loop"]
        /\ UNCHANGED held
     \/ /\ CreateFailed
        /\ UNCHANGED <<running, reader>>
  /\ RestUnchanged

Create ==
  Alloc \/ InitMutex \/ PtyCreate \/ TerminalInit \/ CopyId \/ Spawn \/ ReaderStart

-----------------------------------------------------------------------------
(* ptywrap_destroy                                                         *)

(* Defective variant: reader_running is not cleared.                      *)
StopReader_StaysRunning ==
  /\ owner = "open"
  /\ \A c \in Clients : client[c].pc = "idle"
  /\ owner' = "join"
  /\ UNCHANGED <<held, running, reader>> /\ RestUnchanged

(* reader_stop, first half; the owner starts it when no query is going on. *)
StopReader ==
  /\ owner = "open"
  /\ \A c \in Clients : client[c].pc = "idle"
  /\ IF running THEN owner' = "join" /\ running' = FALSE
                ELSE owner' = "close" /\ UNCHANGED running
  /\ UNCHANGED <<held, reader>> /\ RestUnchanged

(* Defective variant: the thread is not joined.                           *)
JoinReader_NoWait ==
  /\ owner = "join"
  /\ owner' = "close"
  /\ UNCHANGED <<held, running, reader>> /\ RestUnchanged

(* reader_stop, second half: pthread_join                                  *)
JoinReader ==
  /\ owner = "join"
  /\ reader.pc = "exited"
  /\ owner' = "close"
  /\ UNCHANGED <<held, running, reader>> /\ RestUnchanged

ClosePty ==
  /\ owner = "close"
  /\ owner' = "free"
  /\ held' = held \ PtyClose
  /\ UNCHANGED <<running, reader>> /\ RestUnchanged

(* terminal_free, the container id, the mutex and the session itself       *)
FreeSession ==
  /\ owner = "free"
  /\ owner' = "gone"
  /\ held' = held \ {"buffer", "container_id", "mutex", "memory"}
  /\ UNCHANGED <<running, reader>> /\ RestUnchanged

Destroy == JoinReader \/ ClosePty \/ FreeSession

-----------------------------------------------------------------------------
(* The reader thread                                                       *)

OwnerUnchanged == UNCHANGED <<owner, direct, held, running>>

(* while (sess->reader_running)                                            *)
ReaderCheck ==
  /\ reader.pc = "loop"
  /\ reader' = [reader EXCEPT !.pc = IF running THEN "read" ELSE "exited"]
  /\ OwnerUnchanged /\ UNCHANGED <<lock, applied, slave, pending, client>>

(* Defective variant: more bytes than were written.                       *)
ReaderRead_TooMany(k) ==
  /\ reader.pc = "read"
  /\ reader' = [pc |-> "lock", n |-> k, i |-> 0]
  /\ pending' = pending - k
  /\ OwnerUnchanged /\ UNCHANGED <<lock, applied, slave, client>>

(* read returns k bytes of what the program wrote.                         *)
ReaderRead(k) ==
  /\ reader.pc = "read"
  /\ k <= pending
  /\ reader' = [pc |-> "lock", n |-> k, i |-> 0]
  /\ pending' = pending - k
  /\ OwnerUnchanged /\ UNCHANGED <<lock, applied, slave, client>>

(* read fails with EAGAIN: the thread sleeps and polls again. A PTY whose  *)
(* slave was never opened has nothing to read and has not ended.           *)
ReaderAgain ==
  /\ reader.pc = "read"
  /\ slave # "closed" /\ pending = 0
  /\ reader' = [reader EXCEPT !.pc = "loop"]
  /\ OwnerUnchanged /\ UNCHANGED <<lock, applied, slave, pending, client>>

(* Defective variant: the last output is not waited for.                  *)
ReaderEof_Early ==
  /\ reader.pc = "read"
  /\ slave = "closed"
  /\ reader' = [reader EXCEPT !.pc = "exited"]
  /\ OwnerUnchanged /\ UNCHANGED <<lock, applied, slave, pending, client>>

(* read fails with EIO, or returns 0, when the slave was closed by its     *)
(* last user and everything it wrote has been read.                        *)
ReaderEof ==
  /\ reader.pc = "read"
  /\ slave = "closed" /\ pending = 0
  /\ reader' = [reader EXCEPT !.pc = "exited"]
  /\ OwnerUnchanged /\ UNCHANGED <<lock, applied, slave, pending, client>>

(* Defective variant: the buffer is updated without the lock.             *)
ReaderLock_Skipped ==
  /\ reader.pc = "lock"
  /\ reader' = [reader EXCEPT !.pc = "process"]
  /\ OwnerUnchanged /\ UNCHANGED <<lock, applied, slave, pending, client>>

ReaderLock ==
  /\ reader.pc = "lock"
  /\ lock = "free"
  /\ lock' = "reader"
  /\ reader' = [reader EXCEPT !.pc = "process"]
  /\ OwnerUnchanged /\ UNCHANGED <<applied, slave, pending, client>>

(* One iteration of terminal_process_bytes.                                *)
ReaderByte ==
  /\ reader.pc = "process"
  /\ reader.i < reader.n
  /\ applied' = applied + 1
  /\ reader' = [reader EXCEPT !.i = @ + 1]
  /\ OwnerUnchanged /\ UNCHANGED <<lock, slave, pending, client>>

ReaderUnlock ==
  /\ reader.pc = "process"
  /\ reader.i = reader.n
  /\ lock' = "free"
  /\ reader' = [NoReader EXCEPT !.pc = "loop"]
  /\ OwnerUnchanged /\ UNCHANGED <<applied, slave, pending, client>>

ReadSizes == 1 .. ReadSize

Read ==
  \/ ReaderCheck \/ ReaderAgain \/ ReaderEof
  \/ \E k \in ReadSizes : ReaderRead(k)
  \/ ReaderLock \/ ReaderByte \/ ReaderUnlock

-----------------------------------------------------------------------------
(* The program at the other end of the PTY                                 *)

(* What the program has written.                                           *)
written == applied + (reader.n - reader.i) + pending

RestOfProgramUnchanged ==
  UNCHANGED <<owner, direct, held, running, reader, lock, applied, client>>

OpenSlave ==
  /\ slave = "unopened"
  /\ owner \in {"start", "open", "join", "close"} /\ "master_fd" \in held
  /\ slave' = "open"
  /\ UNCHANGED pending /\ RestOfProgramUnchanged

Write ==
  /\ slave = "open" /\ "master_fd" \in held
  /\ written < MaxOutput
  /\ pending' = pending + 1
  /\ UNCHANGED slave /\ RestOfProgramUnchanged

CloseSlave ==
  /\ slave = "open"
  /\ slave' = "closed"
  /\ UNCHANGED pending /\ RestOfProgramUnchanged

Program == OpenSlave \/ Write \/ CloseSlave

-----------------------------------------------------------------------------
(* The queries: ptywrap_get_row, ptywrap_get_row_text, ptywrap_get_cursor, *)
(* ptywrap_get_cell and the loop of screenshot_to_markdown copy from the   *)
(* terminal between a lock and an unlock.                                  *)

QueryUnchanged == UNCHANGED <<owner, direct, held, running, reader, applied, slave, pending>>

Call(c) ==
  /\ owner = "open"
  /\ client[c].pc = "idle"
  /\ client[c].calls < MaxCalls
  /\ client' = [client EXCEPT ![c] = [pc |-> "lock", copied |-> <<>>, calls |-> @.calls + 1]]
  /\ UNCHANGED lock /\ QueryUnchanged

(* Defective variant: the query does not lock.                            *)
Lock_Skipped(c) ==
  /\ client[c].pc = "lock"
  /\ client' = [client EXCEPT ![c].pc = "copy"]
  /\ UNCHANGED lock /\ QueryUnchanged

Lock(c) ==
  /\ client[c].pc = "lock"
  /\ lock = "free"
  /\ lock' = c
  /\ client' = [client EXCEPT ![c].pc = "copy"]
  /\ QueryUnchanged

Copy(c) ==
  /\ client[c].pc = "copy"
  /\ Len(client[c].copied) < Width
  /\ client' = [client EXCEPT ![c].copied = Append(@, applied)]
  /\ UNCHANGED lock /\ QueryUnchanged

Unlock(c) ==
  /\ client[c].pc = "copy"
  /\ Len(client[c].copied) = Width
  /\ lock' = "free"
  /\ client' = [client EXCEPT ![c].pc = "return"]
  /\ QueryUnchanged

Return(c) ==
  /\ client[c].pc = "return"
  /\ client' = [client EXCEPT ![c].pc = "idle", ![c].copied = <<>>]
  /\ UNCHANGED lock /\ QueryUnchanged

Query(c) == Lock(c) \/ Copy(c) \/ Unlock(c) \/ Return(c)

-----------------------------------------------------------------------------

Next ==
  \/ Create
  \/ StopReader
  \/ Destroy
  \/ Read
  \/ Program
  \/ \E c \in Clients : Call(c) \/ Query(c)

(* The threads of the process are scheduled, a mutex that stays free is    *)
(* acquired, and read returns at once (pty_create makes the master         *)
(* non-blocking). Nothing is assumed of the program, of when a thread      *)
(* makes its next call, or of who gets a contended mutex.                  *)
Fairness ==
  /\ WF_vars(Destroy)
  /\ WF_vars(Read)
  /\ \A c \in Clients : WF_vars(Query(c))

Spec == Init /\ [][Next]_vars /\ Fairness

-----------------------------------------------------------------------------
(* Safety                                                                  *)

TypeOK ==
  /\ owner \in {"alloc", "mutex", "pty", "terminal", "id", "spawn", "start", "null",
                "open", "join", "close", "free", "gone"}
  /\ direct \in BOOLEAN
  /\ held \subseteq Resources
  /\ running \in BOOLEAN
  /\ reader \in [pc : {"none", "loop", "read", "lock", "process", "exited"},
                n : 0 .. ReadSize, i : 0 .. ReadSize]
  /\ lock \in {"free", "reader"} \cup Clients
  /\ applied \in 0 .. MaxOutput
  /\ slave \in {"unopened", "open", "closed"}
  /\ pending \in 0 .. MaxOutput
  /\ client \in [Clients -> [pc : {"idle", "lock", "copy", "return"},
                            copied : UNION {[1 .. l -> 0 .. MaxOutput] : l \in 0 .. Width},
                            calls : 0 .. MaxCalls]]

(* No thread uses what has been released: the reader tests reader_running, *)
(* reads from the master, locks and updates the buffer only while each of  *)
(* them exists, and nobody holds or waits for a mutex that was destroyed.  *)
(* It depends on reader_stop joining the thread before ptywrap_destroy     *)
(* closes or frees anything.                                               *)
NoUseAfterFree ==
  /\ reader.pc \in {"loop", "read", "lock", "process"} => {"memory", "mutex"} \subseteq held
  /\ reader.pc = "read" => "master_fd" \in held
  /\ reader.pc = "process" => "buffer" \in held
  /\ \A c \in Clients :
       client[c].pc \in {"lock", "copy"} => {"memory", "mutex", "buffer"} \subseteq held
  /\ lock # "free" => "mutex" \in held

(* A creation that returns NULL and a destruction that returns have        *)
(* released everything the session had, whichever step failed and whether  *)
(* or not there was a container id; and no reader thread is left.          *)
NothingLeaked ==
  owner \in {"null", "gone"} => held = {} /\ reader.pc \in {"none", "exited"}

(* The places a query copies all come from the same screen, the one that   *)
(* is there until it unlocks: the reader is not in the middle of a chunk,  *)
(* and no two queries copy at the same time.                               *)
NoTornQuery ==
  \A c \in Clients : client[c].pc = "copy" =>
    /\ lock = c
    /\ reader.pc # "process"
    /\ \A j \in DOMAIN client[c].copied : client[c].copied[j] = applied

-----------------------------------------------------------------------------
(* Liveness                                                                *)

(* ptywrap_destroy returns: the join does not wait for the program, which  *)
(* may never write and never exit, nor for a mutex.                        *)
DestroyReturns == owner = "join" ~> owner = "gone"

(* Every byte the program writes reaches the terminal unless the session   *)
(* is destroyed first, also the last ones of a program that exits.         *)
OutputShown ==
  \A k \in 1 .. MaxOutput : written = k /\ owner = "open" ~> applied >= k \/ owner # "open"

-----------------------------------------------------------------------------
(* Refinement                                                              *)

Phase ==
  IF owner \in {"open", "join"} THEN "open"
  ELSE IF owner \in {"null", "close", "free", "gone"} THEN "closed" ELSE "new"

(* The bytes of the chunk that is being processed do not count yet.        *)
Shown == applied - reader.i

(* A query is answered when it has copied all its places.                  *)
Request(c) ==
  IF client[c].pc = "idle" THEN [status |-> "idle"]
  ELSE IF client[c].pc = "lock" \/ Len(client[c].copied) < Width THEN [status |-> "waiting"]
  ELSE [status |-> "answered", value |-> client[c].copied]

Abstract == INSTANCE AtomicScreen WITH
  phase <- Phase, shown <- Shown, call <- [c \in Clients |-> Request(c)]

(* A session is an atomic screen: no query sees a torn row, a cursor that  *)
(* does not belong to it, or the middle of a chunk of output.              *)
ImplementsAtomicScreen == Abstract!Spec

=============================================================================
