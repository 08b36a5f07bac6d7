------------------------------- MODULE Binding ------------------------------
(***************************************************************************)
(* The Python type PTYSession (src/python/ptywrap_module.c): objects that  *)
(* own a session of the library. The interpreter lock is held during every *)
(* method, so that one follows the other.                                  *)
(*                                                                         *)
(* The format "|ziOi" does not fit the variables container_id, rows, cols, *)
(* command_obj: a value for cols is stored as a pointer in an int, which   *)
(* leaves half of the pointer in cols and the other half in a variable     *)
(* next to it; a value for command has to be an int, half a pointer again. *)
(* The code for a sequence of strings is never reached with one. The sizes *)
(* of sessions are left out.                                               *)
(***************************************************************************)
CONSTANTS
  Objects, \* the Python objects
  Handles, \* the sessions the library can create
  NULL

ASSUME BindingAssumption == NULL \notin Handles

VARIABLES
  object,  \* state and session of each object
  session, \* the state of each session of the library
  maker,   \* history: the object each session was created for
  again,   \* history: the objects __init__ replaced the session of
  result   \* the result of the last call

vars == <<object, session, maker, again, result>>

NoObject == [state |-> "none", session |-> NULL]

Init ==
  /\ object = [o \in Objects |-> NoObject]
  /\ session = [h \in Handles |-> "none"]
  /\ maker = [h \in Handles |-> NULL]
  /\ again = {}
  /\ result = "none"

Running == result # "crash"

-----------------------------------------------------------------------------

(* PTYSession_new                                                          *)
New(o) ==
  /\ Running
  /\ object[o].state = "none"
  /\ object' = [object EXCEPT ![o].state = "made"]
  /\ UNCHANGED <<session, maker, again, result>>

(* What PyArg_ParseTupleAndKeywords may leave in the pointers; one that    *)
(* was overwritten in part is "wild". The half pointer that a value for    *)
(* cols puts behind cols may hit either of them, or rows, or nothing. An   *)
(* int for command, parsed last, replaces the same half of command_obj,    *)
(* the lower one; the other half is that of NULL.                          *)
Parsed(container, cols, command) ==
  LET given == IF container THEN "given" ELSE "NULL"
      behind == IF cols THEN {"container_id", "command_obj", "other"} ELSE {"other"}
  IN {[container_id |-> IF hit = "container_id" THEN "wild" ELSE given,
       command_obj  |-> CASE command = "zero" -> "NULL"
                          [] command = "number" -> "wild"
                          [] OTHER -> IF hit = "command_obj" THEN "wild" ELSE "NULL"]
        : hit \in behind}

Raise(error) ==
  /\ result' = error
  /\ UNCHANGED <<object, session, maker, again>>

(* self->session is assigned, whatever it was before.                      *)
Assign(o, handle) ==
  /\ object' = [object EXCEPT ![o].session = handle]
  /\ again' = IF object[o].session # NULL THEN again \cup {o} ELSE again

(* ptywrap_create returned a session.                                      *)
Attach(o) ==
  \E h \in Handles :
    /\ session[h] = "none"
    /\ session' = [session EXCEPT ![h] = "live"]
    /\ maker' = [maker EXCEPT ![h] = o]
    /\ Assign(o, h)
    /\ result' = "ok"

(* ptywrap_create returned NULL.                                           *)
CreateFails(o) ==
  /\ Assign(o, NULL)
  /\ result' = "RuntimeError"
  /\ UNCHANGED <<session, maker>>

(* PTYSession_init with a container id or not, with cols or not, and with  *)
(* command absent, 0 or another int. ptywrap_create copies a wild id,      *)
(* which may crash; PySequence_Check reads a wild command, which does.     *)
Initialize(o, container, cols, command) ==
  /\ Running
  /\ object[o].state = "made"
  /\ \E p \in Parsed(container, cols, command) :
       \/ /\ (p.container_id = "NULL") = (p.command_obj = "NULL")
          /\ Raise("ValueError")
       \/ /\ p.container_id # "NULL" /\ p.command_obj = "NULL"
          /\ \/ Attach(o) \/ CreateFails(o)
             \/ p.container_id = "wild" /\ Raise("crash")
       \/ /\ p.container_id = "NULL" /\ p.command_obj = "wild"
          /\ Raise("crash")

(* PTYSession_init with a sequence for command: not an int.                *)
InitializeCommand(o) ==
  /\ Running
  /\ object[o].state = "made"
  /\ Raise("TypeError")

(* Defective variant: the session is left alone.                          *)
Dealloc_KeepsSession(o) ==
  /\ Running
  /\ object[o].state = "made"
  /\ object' = [object EXCEPT ![o] = [NoObject EXCEPT !.state = "freed"]]
  /\ UNCHANGED <<session, maker, again, result>>

(* PTYSession_dealloc                                                      *)
Dealloc(o) ==
  /\ Running
  /\ object[o].state = "made"
  /\ session' = [h \in Handles |->
       IF h = object[o].session THEN "destroyed" ELSE session[h]]
  /\ object' = [object EXCEPT ![o] = [NoObject EXCEPT !.state = "freed"]]
  /\ UNCHANGED <<maker, again, result>>

(* The methods, by the error they raise when the library reports one.      *)
Methods ==
  [send |-> "IOError", send_line |-> "IOError", get_cell |-> "ValueError",
   get_row_text |-> "ValueError", get_cursor |-> "RuntimeError",
   screenshot |-> "RuntimeError", get_pid |-> "value", is_alive |-> "False"]

(* Does a method pass the session on to the library?                       *)
CallsLibrary(o) == object[o].session # NULL

(* A method: RuntimeError without a session, but is_alive is False then.   *)
Invoke(o, m) ==
  /\ Running
  /\ object[o].state = "made"
  /\ \E r \in {"value", Methods[m], "RuntimeError", "False"} :
       /\ CallsLibrary(o) => r \in {"value", Methods[m]}
       /\ ~ CallsLibrary(o) => r = (IF m = "is_alive" THEN "False" ELSE "RuntimeError")
       /\ Raise(r)

Next ==
  \E o \in Objects :
    \/ New(o) \/ Dealloc(o)
    \/ \E container, cols \in BOOLEAN, command \in {"absent", "zero", "number"} :
         Initialize(o, container, cols, command)
    \/ InitializeCommand(o)
    \/ \E m \in DOMAIN Methods : Invoke(o, m)

Spec == Init /\ [][Next]_vars

-----------------------------------------------------------------------------
(* Properties                                                              *)

(* The objects that pass their methods on to session h.                    *)
Owners(h) == {o \in Objects : object[o].session = h}

(* A session lives exactly as long as the one object that owns it: no      *)
(* method is passed on to a session that is not live, none is destroyed    *)
(* twice, and whichever step of __init__ failed, none is left without an   *)
(* owner, except by calling __init__ again on an object that has one.      *)
OneOwner ==
  \A h \in Handles :
    IF session[h] = "live"
    THEN Owners(h) = {maker[h]} \/ (Owners(h) = {} /\ maker[h] \in again)
    ELSE Owners(h) = {}

=============================================================================
