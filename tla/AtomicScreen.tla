---------------------------- MODULE AtomicScreen ----------------------------
(***************************************************************************)
(* What a session promises to the threads that look at its screen, without *)
(* a lock, a reader thread or a buffer: the screen advances in jumps, from *)
(* one whole chunk of output to a later one, and every query is answered   *)
(* with the screen of one moment between the call and the return. A screen *)
(* is the number of bytes of output it shows.                              *)
(***************************************************************************)
EXTENDS Naturals

CONSTANTS Clients, Width, MaxOutput

VARIABLES
  phase,   \* "new", "open" or "closed"
  shown,   \* the screen
  call     \* what each client is doing

screenVars == <<phase, shown, call>>

(* A query copies Width places of the screen; its answer has all of them   *)
(* from the same screen s.                                                 *)
Answered(s) == [status |-> "answered", value |-> [i \in 1 .. Width |-> s]]

Waiting == [status |-> "waiting"]

Idle == [status |-> "idle"]

Init ==
  /\ phase = "new"
  /\ shown = 0
  /\ call = [c \in Clients |-> Idle]

Open == phase = "new" /\ phase' = "open" /\ UNCHANGED <<shown, call>>

(* After a failed creation, or at the end of the session's life.           *)
Close ==
  /\ phase \in {"new", "open"}
  /\ \A c \in Clients : call[c] = Idle
  /\ phase' = "closed"
  /\ UNCHANGED <<shown, call>>

Show ==
  /\ phase = "open"
  /\ shown' \in shown + 1 .. MaxOutput
  /\ UNCHANGED <<phase, call>>

Ask(c) ==
  /\ phase = "open"
  /\ call[c] = Idle
  /\ call' = [call EXCEPT ![c] = Waiting]
  /\ UNCHANGED <<phase, shown>>

Answer(c) ==
  /\ call[c] = Waiting
  /\ call' = [call EXCEPT ![c] = Answered(shown)]
  /\ UNCHANGED <<phase, shown>>

Return(c) ==
  /\ call[c].status = "answered"
  /\ call' = [call EXCEPT ![c] = Idle]
  /\ UNCHANGED <<phase, shown>>

Next ==
  \/ Open
  \/ Close
  \/ Show
  \/ \E c \in Clients : Ask(c) \/ Answer(c) \/ Return(c)

Spec == Init /\ [][Next]_screenVars

=============================================================================
