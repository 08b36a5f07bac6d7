--------------------------- MODULE ProcessProofs ----------------------------
(***************************************************************************)
(* Proofs about module Process, for any number of sessions and pids.       *)
(***************************************************************************)
EXTENDS Process, TLAPS

(* Every answer of ptywrap_process_alive is one the API knows, and no       *)
(* descriptor or pid is held by anything but a process (src/container.c).  *)
THEOREM TypeCorrect == Spec => []TypeOK
<1>1. Init => TypeOK
  BY DEF Init, TypeOK
<1>2. TypeOK /\ [Next]_vars => TypeOK'
  <2> SUFFICES ASSUME TypeOK, [Next]_vars PROVE TypeOK'
    OBVIOUS
  <2> USE DEF TypeOK, answers
  <2>1. ASSUME NEW s \in Sessions, Create(s) PROVE TypeOK'
    BY <2>1 DEF Create, OpenPt, GetName, DupName, Fork, StartReader, CreateFails, CloseMaster,
                Move, pty, process
  <2>2. ASSUME NEW s \in Sessions, Destroy(s) PROVE TypeOK'
    BY <2>2 DEF Destroy, CloseMaster, Move, pty, process
  <2>3. ASSUME NEW s \in Sessions, Alive(s) PROVE TypeOK'
    <3>1. Waited(s) \subseteq Sessions
      BY DEF Waited, Unreaped
    <3> QED
      BY <2>3, <3>1 DEF Alive, pty
  <2>4. ASSUME NEW s \in Sessions, ChildOpen(s) \/ ChildExit(s) PROVE TypeOK'
    BY <2>4 DEF ChildOpen, ChildExit, Exit, pty
  <2>5. CASE UNCHANGED vars
    BY <2>5 DEF vars, pty, process
  <2> QED
    BY <2>1, <2>2, <2>3, <2>4, <2>5 DEF Next
<1> QED
  BY <1>1, <1>2, PTL DEF Spec

-----------------------------------------------------------------------------
(* A program runs on its own terminal                                      *)

(* With one creation at a time, the name in the shared buffer is that of   *)
(* the terminal whose name was asked for last, until it is copied.         *)
NameInv ==
  /\ \A s, u \in Sessions : Creating(s) /\ Creating(u) => s = u
  /\ \A s \in Sessions :
       /\ stage[s] = "named" => ptsname = s
       /\ stage[s] \in {"ready", "forked"} => slave_name[s] = s
       /\ stage[s] \in {"new", "opened", "named", "ready"} => child[s] = "none"
       /\ child[s] # "none" => slave_name[s] = s
       /\ stdin[s] \in {"none", s}

LEMMA NameStep ==
  ASSUME ~ Concurrent, TypeOK, NameInv, [Next]_vars
  PROVE  NameInv'
<1> USE DEF TypeOK, NameInv, Creating
<1>1. ASSUME NEW s \in Sessions, OpenPt(s) PROVE NameInv'
  BY <1>1 DEF OpenPt, Move, pty, process
<1>2. ASSUME NEW s \in Sessions, GetName(s) PROVE NameInv'
  BY <1>2 DEF GetName, Move, process
<1>3. ASSUME NEW s \in Sessions, DupName(s) PROVE NameInv'
  BY <1>3 DEF DupName, Move, process
<1>4. ASSUME NEW s \in Sessions, Fork(s) PROVE NameInv'
  BY <1>4 DEF Fork, Move, pty
<1>5. ASSUME NEW s \in Sessions, StartReader(s) \/ CreateFails(s) \/ Destroy(s) PROVE NameInv'
  BY <1>5 DEF StartReader, CreateFails, Destroy, Move, pty, process
<1>6. ASSUME NEW s \in Sessions, Alive(s) PROVE NameInv'
  <2>1. \A u \in Sessions : child'[u] = "none" <=> child[u] = "none"
    BY <1>6 DEF Alive, Waited, Unreaped
  <2> QED
    BY <1>6, <2>1 DEF Alive, pty
<1>7. ASSUME NEW s \in Sessions, ChildOpen(s) \/ ChildExit(s) PROVE NameInv'
  BY <1>7 DEF ChildOpen, ChildExit, Exit, pty
<1>8. CASE UNCHANGED vars
  BY <1>8 DEF vars, pty, process
<1> QED
  BY <1>1, <1>2, <1>3, <1>4, <1>5, <1>6, <1>7, <1>8 DEF Next, Create

(* When sessions are created one at a time, every program runs on the      *)
(* terminal of its own session, for any number of sessions.                *)
THEOREM AlwaysOwnTerminal ==
  ASSUME ~ Concurrent
  PROVE  Spec => []OwnTerminal
<1>1. Init => NameInv
  BY DEF Init, NameInv, Creating
<1>2. TypeOK /\ NameInv /\ [Next]_vars => NameInv'
  BY NameStep
<1>3. NameInv => OwnTerminal
  BY DEF NameInv, OwnTerminal
<1> QED
  BY <1>1, <1>2, <1>3, TypeCorrect, PTL DEF Spec

-----------------------------------------------------------------------------
(* An exit is reported once                                                *)

(* No two children in the process table have the same pid, so that waitpid *)
(* is about the session's own child as long as that is in the table.       *)
PidInv ==
  /\ \A s, u \in Unreaped : exec_pid[s] = exec_pid[u] => s = u
  /\ \A s \in Sessions :
       /\ stage[s] \in {"forked", "open"} => child[s] # "none"
       /\ stage[s] \in {"new", "opened", "named", "ready"} => child[s] = "none"
  /\ ExitReportedOnce

(* A step that keeps the answers, and takes no child out of the process    *)
(* table, keeps what is said of them.                                      *)
LEMMA ReportsKept ==
  ASSUME TypeOK, ExitReportedOnce, UNCHANGED answers,
         \A u \in Sessions : child'[u] = "reaped" <=> child[u] = "reaped",
         \A u \in Sessions : child[u] = "reaped" => exec_pid'[u] = exec_pid[u]
  PROVE  ExitReportedOnce'
<1> USE DEF TypeOK, answers
<1>1. \A s \in Sessions : \A u \in told[s] : u \in Sessions /\ child[u] = "reaped"
  BY DEF ExitReportedOnce
<1>2. \A u \in Sessions : child'[u] = "reaped" <=> \E s \in Sessions : u \in told'[s]
  BY DEF ExitReportedOnce
<1>3. \A s, w \in Sessions : s # w => told'[s] \cap told'[w] = {}
  BY DEF ExitReportedOnce
<1>4. \A s \in Sessions : answer'[s] = "error" => child'[s] = "reaped"
  BY DEF ExitReportedOnce
<1>5. \A s \in Sessions : \A u \in told'[s] \ {s} :
        child'[s] = "reaped" /\ exec_pid'[s] = exec_pid'[u]
  BY <1>1 DEF ExitReportedOnce
<1>6. ASSUME NEW u \in Sessions, child'[u] = "reaped", u \notin told'[u]
      PROVE  \E w, v \in Sessions :
               v # w /\ {v, w} \subseteq told'[w] /\ exec_pid'[w] = exec_pid'[u]
  <2>1. PICK w \in Sessions, v \in Sessions :
          v # w /\ {v, w} \subseteq told[w] /\ exec_pid[w] = exec_pid[u]
    BY <1>6 DEF ExitReportedOnce
  <2>2. exec_pid'[w] = exec_pid'[u]
    BY <1>1, <1>6, <2>1
  <2> QED
    BY <2>1, <2>2
<1> QED
  BY <1>2, <1>3, <1>4, <1>5, <1>6 DEF ExitReportedOnce

(* A query takes at most one child out of the process table: that of its   *)
(* own session, or, if that is gone, one with the same pid.                *)
LEMMA AliveReports ==
  ASSUME TypeOK, PidInv, NEW s \in Sessions, Alive(s)
  PROVE  ExitReportedOnce'
<1> DEFINE ended == Waited(s) \ Living
<1> USE DEF TypeOK
<1>1. /\ child' = [u \in Sessions |-> IF u \in ended THEN "reaped" ELSE child[u]]
      /\ told' = [told EXCEPT ![s] = @ \cup ended]
      /\ exec_pid' = exec_pid
      /\ stage[s] = "open"
  BY DEF Alive
<1>2. \A u \in ended : /\ u \in Sessions
                       /\ child[u] = "zombie" /\ u \in Unreaped
                       /\ exec_pid[u] = exec_pid[s]
  BY DEF Waited, Unreaped, Living
<1>3. ExitReportedOnce
  BY DEF PidInv
<1>4. child[s] = "reaped" \/ Waited(s) = {s}
  BY <1>1 DEF PidInv, Unreaped, Waited
<1>5. \A u, v \in ended : u = v
  BY <1>2 DEF PidInv
<1>6. answer'[s] = "error" => child[s] = "reaped"
  BY <1>4 DEF Alive
<1>7. \A u \in Sessions : u # s => answer'[u] = answer[u] /\ told'[u] = told[u]
  BY <1>1 DEF Alive
<1>8. told'[s] = told[s] \cup ended
  BY <1>1
<1> HIDE DEF ended
<1>9. \A w \in Sessions : \A u \in told[w] : u \in Sessions /\ child[u] = "reaped" /\ u \notin ended
  BY <1>2, <1>3 DEF ExitReportedOnce
<1>10. \A u \in Sessions : child'[u] = "reaped" <=> child[u] = "reaped" \/ u \in ended
  BY <1>1
<1>11. \A u \in Sessions : child'[u] = "reaped" <=> \E w \in Sessions : u \in told'[w]
  <2>1. \A u \in Sessions : child[u] = "reaped" <=> \E w \in Sessions : u \in told[w]
    BY <1>3 DEF ExitReportedOnce
  <2>2. \A u \in Sessions : (\E w \in Sessions : u \in told'[w])
                             <=> (\E w \in Sessions : u \in told[w]) \/ u \in ended
    BY <1>7, <1>8
  <2> QED
    BY <1>10, <2>1, <2>2
<1>12. \A w, x \in Sessions : w # x => told'[w] \cap told'[x] = {}
  BY <1>3, <1>7, <1>8, <1>9 DEF ExitReportedOnce
<1>13. \A w \in Sessions : answer'[w] = "error" => child'[w] = "reaped"
  BY <1>3, <1>6, <1>7, <1>10 DEF ExitReportedOnce
<1>14. ended # {} => child[s] = "reaped" \/ ended = {s}
  BY <1>4, <1>5 DEF ended
<1>15. \A w \in Sessions : \A u \in told'[w] \ {w} :
         child'[w] = "reaped" /\ exec_pid'[w] = exec_pid'[u]
  BY <1>1, <1>2, <1>3, <1>7, <1>8, <1>10, <1>14 DEF ExitReportedOnce
<1>16. ASSUME NEW u \in Sessions, child'[u] = "reaped", u \notin told'[u]
       PROVE  \E w, v \in Sessions :
                v # w /\ {v, w} \subseteq told'[w] /\ exec_pid'[w] = exec_pid'[u]
  <2>1. \A w \in Sessions : told[w] \subseteq told'[w]
    BY <1>7, <1>8
  <2>2. CASE child[u] = "reaped"
    <3>1. PICK w \in Sessions, v \in Sessions :
            v # w /\ {v, w} \subseteq told[w] /\ exec_pid[w] = exec_pid[u]
      BY <1>3, <1>16, <2>1, <2>2 DEF ExitReportedOnce
    <3> QED
      BY <1>1, <2>1, <3>1
  <2>3. CASE u \in ended
    <3>1. u # s /\ child[s] = "reaped" /\ exec_pid[u] = exec_pid[s]
      BY <1>2, <1>8, <1>14, <1>16, <2>3
    <3>2. CASE s \in told[s]
      BY <1>1, <1>8, <2>3, <3>1, <3>2
    <3>3. CASE s \notin told[s]
      <4>1. PICK w \in Sessions, v \in Sessions :
              v # w /\ {v, w} \subseteq told[w] /\ exec_pid[w] = exec_pid[s]
        BY <1>3, <3>1, <3>3 DEF ExitReportedOnce
      <4> QED
        BY <1>1, <2>1, <3>1, <4>1
    <3> QED
      BY <3>2, <3>3
  <2> QED
    BY <1>10, <1>16, <2>2, <2>3
<1> QED
  BY <1>11, <1>12, <1>13, <1>15, <1>16 DEF ExitReportedOnce

LEMMA PidStep ==
  ASSUME TypeOK, PidInv, [Next]_vars
  PROVE  PidInv'
<1> USE DEF TypeOK, PidInv, Unreaped
<1>1. ASSUME NEW s \in Sessions, OpenPt(s) \/ GetName(s) \/ DupName(s) PROVE PidInv'
  BY <1>1, ReportsKept DEF OpenPt, GetName, DupName, Move, pty, process
<1>2. ASSUME NEW s \in Sessions, Fork(s) PROVE PidInv'
  <2>1. ExitReportedOnce'
    BY <1>2, ReportsKept DEF Fork, Move
  <2> QED
    BY <1>2, <2>1 DEF Fork, Move, pty
<1>3. ASSUME NEW s \in Sessions, StartReader(s) \/ CreateFails(s) \/ Destroy(s) PROVE PidInv'
  BY <1>3, ReportsKept DEF StartReader, CreateFails, Destroy, Creating, Move, pty, process
<1>4. ASSUME NEW s \in Sessions, Alive(s) PROVE PidInv'
  <2>1. ExitReportedOnce'
    BY <1>4, AliveReports
  <2>2. Unreaped' \subseteq Unreaped /\ UNCHANGED <<stage, exec_pid>>
    BY <1>4 DEF Alive
  <2>3. \A u \in Sessions : child'[u] = "none" <=> child[u] = "none"
    BY <1>4 DEF Alive, Waited
  <2> QED
    BY <2>1, <2>2, <2>3
<1>5. ASSUME NEW s \in Sessions, ChildOpen(s) \/ ChildExit(s) PROVE PidInv'
  <2>1. ExitReportedOnce'
    BY <1>5, ReportsKept DEF ChildOpen, ChildExit, Exit
  <2> QED
    BY <1>5, <2>1 DEF ChildOpen, ChildExit, Exit, pty
<1>6. CASE UNCHANGED vars
  BY <1>6, ReportsKept DEF vars, pty, process, answers
<1> QED
  BY <1>1, <1>2, <1>3, <1>4, <1>5, <1>6 DEF Next, Create

(* Every exit is reported once, however often sessions are asked and pids  *)
(* are used again, and another session is told of it only when one with    *)
(* the same pid was asked again after its own exit (process_pid_alive).    *)
THEOREM ExitsReportedOnce == Spec => []ExitReportedOnce
<1>1. Init => PidInv
  BY DEF Init, PidInv, Unreaped, ExitReportedOnce
<1>2. TypeOK /\ PidInv /\ [Next]_vars => PidInv'
  BY PidStep
<1>3. PidInv => ExitReportedOnce
  BY DEF PidInv
<1> QED
  BY <1>1, <1>2, <1>3, TypeCorrect, PTL DEF Spec

-----------------------------------------------------------------------------
(* Who keeps a terminal from a hangup                                      *)

(* The parent has the master of a session that is being created or open;   *)
(* a child has it while it lives, but not its own once it has run.         *)
HolderInv ==
  \A s \in Sessions :
    /\ "parent" \in holders[s] => Creating(s) \/ stage[s] = "open"
    /\ \A h \in holders[s] \ {"parent"} : h \in Living /\ (h = s => child[s] = "starting")

LEMMA HolderStep ==
  ASSUME TypeOK, HolderInv, [Next]_vars
  PROVE  HolderInv'
<1> USE ProcessAssumption DEF TypeOK, HolderInv, Creating, Living
<1>1. ASSUME NEW s \in Sessions, OpenPt(s) \/ GetName(s) \/ DupName(s) PROVE HolderInv'
  BY <1>1 DEF OpenPt, GetName, DupName, Move, pty, process
<1>2. ASSUME NEW s \in Sessions, Fork(s) PROVE HolderInv'
  BY <1>2 DEF Fork, Move, pty
<1>3. ASSUME NEW s \in Sessions, StartReader(s) \/ CreateFails(s) \/ Destroy(s) PROVE HolderInv'
  BY <1>3 DEF StartReader, CreateFails, Destroy, CloseMaster, Move, pty, process
<1>4. ASSUME NEW s \in Sessions, Alive(s) PROVE HolderInv'
  BY <1>4 DEF Alive, Waited, Unreaped, pty
<1>5. ASSUME NEW s \in Sessions, ChildOpen(s) \/ ChildExit(s) PROVE HolderInv'
  BY <1>5 DEF ChildOpen, ChildExit, Exit, pty
<1>6. CASE UNCHANGED vars
  BY <1>6 DEF vars, pty, process
<1> QED
  BY <1>1, <1>2, <1>3, <1>4, <1>5, <1>6 DEF Next, Create

(* Only living programs of other sessions keep the terminal of a session   *)
(* that is gone from a hangup, in any use of the library.                  *)
THEOREM HangupsDelayedByOthers == Spec => []HangupDelayedByOthers
<1>1. Init => HolderInv
  BY DEF Init, HolderInv
<1>2. TypeOK /\ HolderInv /\ [Next]_vars => HolderInv'
  BY HolderStep
<1>3. HolderInv => HangupDelayedByOthers
  BY DEF HolderInv, HangupDelayedByOthers, Creating
<1> QED
  BY <1>1, <1>2, <1>3, TypeCorrect, PTL DEF Spec

=============================================================================
