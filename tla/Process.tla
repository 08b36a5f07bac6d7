------------------------------- MODULE Process -------------------------------
(***************************************************************************)
(* Several sessions in one process, each created, queried and destroyed by *)
(* a thread of its own: pseudo-terminals, the name of the slave, fork,     *)
(* inherited descriptors, and waitpid (src/pty.c, src/container.c).        *)
(*                                                                         *)
(* A pseudo-terminal and the child that is to run on it are named by their *)
(* session. The kernel hands out a pid again once its child was waited     *)
(* for. The child never calls setsid, so that it has no controlling        *)
(* terminal and a hangup does not kill it.                                 *)
(***************************************************************************)
EXTENDS Naturals

CONSTANTS
  Sessions,
  Pids,       \* the process ids of the kernel
  NoPid,      \* exec_pid of a session without a child
  Concurrent  \* may two threads create a session at the same time?

ASSUME ProcessAssumption ==
  /\ NoPid \notin Pids
  /\ "parent" \notin Sessions /\ "none" \notin Sessions
  /\ Concurrent \in BOOLEAN

VARIABLES
  stage,      \* the session, from "new" to "open", and "null" or "gone"
  holders,    \* the processes that have the session's PTY master open
  ptsname,    \* the static buffer of ptsname: the terminal named in it
  slave_name, \* session->slave_name: the terminal it names
  exec_pid,   \* session->exec_pid
  child,      \* "none", "starting", "running", "zombie" or "reaped"
  stdin,      \* the terminal the child opened
  answer,     \* the last answer of ptywrap_process_alive
  told        \* history: the children whose end each session was told of

vars == <<stage, holders, ptsname, slave_name, exec_pid, child, stdin, answer, told>>

pty == <<ptsname, slave_name>>

process == <<exec_pid, child, stdin>>

answers == <<answer, told>>

Init ==
  /\ stage = [s \in Sessions |-> "new"]
  /\ holders = [s \in Sessions |-> {}]
  /\ ptsname = "none"
  /\ slave_name = [s \in Sessions |-> "none"]
  /\ exec_pid = [s \in Sessions |-> NoPid]
  /\ child = [s \in Sessions |-> "none"]
  /\ stdin = [s \in Sessions |-> "none"]
  /\ answer = [s \in Sessions |-> "none"]
  /\ told = [s \in Sessions |-> {}]

Creating(s) == stage[s] \in {"opened", "named", "ready", "forked"}

Move(s, from, to) == stage[s] = from /\ stage' = [stage EXCEPT ![s] = to]

(* The children that have not ended.                                       *)
Living == {s \in Sessions : child[s] \in {"starting", "running"}}

(* The children whose pid is in use: a zombie keeps it.                    *)
Unreaped == {s \in Sessions : child[s] \in {"starting", "running", "zombie"}}

-----------------------------------------------------------------------------
(* The threads                                                             *)

(* posix_openpt: the descriptor has no O_CLOEXEC.                          *)
OpenPt(s) ==
  /\ Concurrent \/ \A u \in Sessions : ~ Creating(u)
  /\ Move(s, "new", "opened")
  /\ holders' = [holders EXCEPT ![s] = {"parent"}]
  /\ UNCHANGED <<pty, process, answers>>

(* Defective variant: the buffer is only filled once.                     *)
GetName_Cached(s) ==
  /\ Move(s, "opened", "named")
  /\ ptsname' = IF ptsname = "none" THEN s ELSE ptsname
  /\ UNCHANGED <<holders, slave_name, process, answers>>

(* ptsname returns a pointer to a buffer that all threads share.           *)
GetName(s) ==
  /\ Move(s, "opened", "named")
  /\ ptsname' = s
  /\ UNCHANGED <<holders, slave_name, process, answers>>

(* strdup of the name. The unsynchronised write is taken to be whole.      *)
DupName(s) ==
  /\ Move(s, "named", "ready")
  /\ slave_name' = [slave_name EXCEPT ![s] = ptsname]
  /\ UNCHANGED <<holders, ptsname, process, answers>>

(* The child has a copy of every descriptor of the parent.                 *)
Fork(s) ==
  /\ Move(s, "ready", "forked")
  /\ \E p \in Pids \ {exec_pid[u] : u \in Unreaped} :
       exec_pid' = [exec_pid EXCEPT ![s] = p]
  /\ child' = [child EXCEPT ![s] = "starting"]
  /\ holders' = [u \in Sessions |->
       IF "parent" \in holders[u] THEN holders[u] \cup {s} ELSE holders[u]]
  /\ UNCHANGED <<pty, stdin, answers>>

StartReader(s) ==
  /\ Move(s, "forked", "open")
  /\ UNCHANGED <<holders, pty, process, answers>>

CloseMaster(s) == holders' = [holders EXCEPT ![s] = @ \ {"parent"}]

(* Any step of the creation may fail; the error path closes the master. A  *)
(* child that was forked already is left alone.                            *)
CreateFails(s) ==
  /\ stage[s] = "new" \/ Creating(s)
  /\ stage' = [stage EXCEPT ![s] = "null"]
  /\ CloseMaster(s)
  /\ UNCHANGED <<pty, process, answers>>

(* Defective variant: every child that has ended is waited for.           *)
Destroy_WaitsForAny(s) ==
  /\ Move(s, "open", "gone")
  /\ CloseMaster(s)
  /\ child' = [u \in Sessions |-> IF child[u] = "zombie" THEN "reaped" ELSE child[u]]
  /\ UNCHANGED <<pty, exec_pid, stdin, answers>>

(* ptywrap_destroy neither kills the child nor waits for it.               *)
Destroy(s) ==
  /\ Move(s, "open", "gone")
  /\ CloseMaster(s)
  /\ UNCHANGED <<pty, process, answers>>

(* The outcome of waitpid(exec_pid, WNOHANG): the child it is about is the *)
(* one that has the pid now.                                               *)
Waited(s) == {u \in Unreaped : exec_pid[u] = exec_pid[s]}

(* Defective variant: the status of the child is returned as it is.       *)
Alive_RawStatus(s) ==
  /\ stage[s] = "open"
  /\ \E u \in Waited(s) : answer' = [answer EXCEPT ![s] = child[u]]
  /\ UNCHANGED <<stage, holders, pty, process, told>>

(* process_pid_alive: 1 ("running"), 0 ("exited") or PTYWRAP_ERR_CONTAINER *)
(* ("error"). waitpid removes a child it reports as ended, and nothing     *)
(* remembers that it did: the next call finds no such child, or another    *)
(* session's that has the pid by then.                                     *)
Alive(s) ==
  /\ stage[s] = "open"
  /\ answer' = [answer EXCEPT ![s] =
       IF Waited(s) = {} THEN "error"
       ELSE IF Waited(s) \cap Living # {} THEN "running" ELSE "exited"]
  /\ child' = [u \in Sessions |->
       IF u \in Waited(s) \ Living THEN "reaped" ELSE child[u]]
  /\ told' = [told EXCEPT ![s] = @ \cup (Waited(s) \ Living)]
  /\ UNCHANGED <<stage, holders, pty, exec_pid, stdin>>

-----------------------------------------------------------------------------
(* The children                                                            *)

(* The child's end closes all its descriptors.                             *)
Exit(s) ==
  /\ child' = [child EXCEPT ![s] = "zombie"]
  /\ holders' = [u \in Sessions |-> holders[u] \ {s}]
  /\ UNCHANGED stdin

(* Defective variant: the child keeps its own master.                     *)
ChildOpen_KeepsMaster(s) ==
  /\ child[s] = "starting"
  /\ \/ /\ holders[slave_name[s]] # {}
        /\ child' = [child EXCEPT ![s] = "running"]
        /\ stdin' = [stdin EXCEPT ![s] = slave_name[s]]
        /\ UNCHANGED holders
     \/ Exit(s)
  /\ UNCHANGED <<stage, pty, exec_pid, answers>>

(* The child closes its copy of its master, opens the slave by name and    *)
(* executes the program. The slave can be opened as long as some process   *)
(* has its master; otherwise, or when anything else fails, _exit.          *)
ChildOpen(s) ==
  /\ child[s] = "starting"
  /\ \/ /\ (IF slave_name[s] = s THEN holders[s] \ {s} ELSE holders[slave_name[s]]) # {}
        /\ child' = [child EXCEPT ![s] = "running"]
        /\ stdin' = [stdin EXCEPT ![s] = slave_name[s]]
        /\ holders' = [holders EXCEPT ![s] = @ \ {s}]
     \/ Exit(s)
  /\ UNCHANGED <<stage, pty, exec_pid, answers>>

ChildExit(s) ==
  /\ child[s] = "running"
  /\ Exit(s)
  /\ UNCHANGED <<stage, pty, exec_pid, answers>>

-----------------------------------------------------------------------------

Create(s) ==
  OpenPt(s) \/ GetName(s) \/ DupName(s) \/ Fork(s) \/ StartReader(s) \/ CreateFails(s)

Next ==
  \E s \in Sessions :
    Create(s) \/ Destroy(s) \/ Alive(s) \/ ChildOpen(s) \/ ChildExit(s)

Spec == Init /\ [][Next]_vars

-----------------------------------------------------------------------------
(* Properties                                                              *)

TypeOK ==
  /\ stage \in [Sessions -> {"new", "opened", "named", "ready", "forked",
                             "open", "null", "gone"}]
  /\ holders \in [Sessions -> SUBSET (Sessions \cup {"parent"})]
  /\ ptsname \in Sessions \cup {"none"}
  /\ slave_name \in [Sessions -> Sessions \cup {"none"}]
  /\ exec_pid \in [Sessions -> Pids \cup {NoPid}]
  /\ child \in [Sessions -> {"none", "starting", "running", "zombie", "reaped"}]
  /\ stdin \in [Sessions -> Sessions \cup {"none"}]
  /\ answer \in [Sessions -> {"none", "running", "exited", "error"}]
  /\ told \in [Sessions -> SUBSET Sessions]

(* A program runs on the terminal of its own session, not on that of a     *)
(* session another thread creates. pty_create hands the name from one      *)
(* library call to the next through a buffer of the C library.             *)
OwnTerminal == \A s \in Sessions : stdin[s] \in {"none", s}

(* Every exit is reported, once, to the session whose query takes the      *)
(* child out of the process table, and an error is returned only to one    *)
(* whose child was taken out. A session is told of another one's program   *)
(* only when its own was gone and the pid was used again; and if an exit   *)
(* is not told to its own session, then a session with the same pid was    *)
(* asked again after it had been told of its own program's, and was told   *)
(* of another one's.                                                       *)
ExitReportedOnce ==
  /\ \A u \in Sessions : child[u] = "reaped" <=> \E s \in Sessions : u \in told[s]
  /\ \A s, w \in Sessions : s # w => told[s] \cap told[w] = {}
  /\ \A s \in Sessions : answer[s] = "error" => child[s] = "reaped"
  /\ \A s \in Sessions : \A u \in told[s] \ {s} :
       child[s] = "reaped" /\ exec_pid[s] = exec_pid[u]
  /\ \A u \in Sessions : child[u] = "reaped" /\ u \notin told[u] =>
       \E w, v \in Sessions :
         v # w /\ {v, w} \subseteq told[w] /\ exec_pid[w] = exec_pid[u]

(* A program that has exited stays exited: once ptywrap_process_alive has  *)
(* returned 0 for a session it returns 0 whenever it is asked again.       *)
ExitedStaysExited ==
  \A s \in Sessions : s \in told[s] => answer[s] = "exited"

(* Once a session is destroyed, or its creation failed, only children that *)
(* live keep its terminal from a hangup, and its own program is not one of *)
(* them: it is the programs of other sessions that inherited the master.   *)
HangupDelayedByOthers ==
  \A s \in Sessions : stage[s] \in {"null", "gone"} =>
    \A h \in holders[s] : h \in Living /\ (h = s => child[s] = "starting")

=============================================================================
