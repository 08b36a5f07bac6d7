---------------------------- MODULE OutputBuffer ----------------------------
(***************************************************************************)
(* The memory a screenshot is written to (src/screenshot.c): a C string    *)
(* that append_string and append_escaped_char extend, doubling the         *)
(* allocation as often as it takes. What is appended is only a length;     *)
(* which strings come in which order is module Screenshot.                 *)
(***************************************************************************)
EXTENDS Naturals

CONSTANTS
  InitialSize, \* buffer_size at the start (4096 in the code)
  MaxString,   \* bound on the length of a string
  MaxPos       \* bound on the length of the text

(* The first allocation has room for any one string: the longest are the   *)
(* footer and the annotations, of less than 256 characters.                *)
ASSUME OutputBufferAssumption ==
  /\ InitialSize \in Nat /\ InitialSize >= 3
  /\ MaxString \in Nat /\ MaxString < InitialSize
  /\ MaxPos \in Nat

VARIABLES
  dest_size, dest_pos,
  dest,      \* "allocated", "NULL" after a failed realloc, or "crashed"
  pending,   \* what is being appended: its length and the room it asks for
  failed     \* history: did a realloc fail?

vars == <<dest_size, dest_pos, dest, pending, failed>>

Nothing == [len |-> 0, room |-> 0]

(* malloc of the initial buffer, output[0] = '\0'                          *)
Init ==
  /\ dest_size = InitialSize
  /\ dest_pos = 0
  /\ dest = "allocated"
  /\ pending = Nothing
  /\ failed = FALSE

Append(len, room) ==
  /\ pending = Nothing /\ dest # "crashed"
  /\ dest_pos + len <= MaxPos
  /\ pending' = [len |-> len, room |-> room]
  /\ UNCHANGED <<dest_size, dest_pos, dest, failed>>

(* Defective variant: the end of the string is forgotten.                 *)
AppendString_NoRoomForEnd(len) == Append(len, len - 1)

(* append_string asks for the string and its end.                          *)
AppendString(len) == Append(len, len + 1)

(* append_escaped_char asks for the worst case, two characters.            *)
AppendChar(escaped) == Append(IF escaped THEN 2 ELSE 1, 3)

(* Defective variant: the new size is taken from the position.            *)
Grow_FromPosition ==
  /\ pending # Nothing
  /\ dest_pos + pending.room >= dest_size
  /\ dest_size' = 2 * dest_pos
  /\ UNCHANGED <<dest_pos, dest, pending, failed>>

(* Defective variant: the size is doubled only when realloc succeeds.     *)
Grow_SizeAfterwards ==
  /\ pending # Nothing
  /\ dest_pos + pending.room >= dest_size
  /\ \/ /\ dest_size' = 2 * dest_size
        /\ dest' = "allocated" /\ UNCHANGED <<pending, failed>>
     \/ /\ dest' = "NULL" /\ pending' = Nothing /\ failed' = TRUE
        /\ UNCHANGED dest_size
  /\ UNCHANGED dest_pos

(* The loop that doubles the size while there is not enough room. When     *)
(* realloc fails the append is given up, with the size doubled already;    *)
(* realloc of NULL starts a new allocation.                                *)
Grow ==
  /\ pending # Nothing
  /\ dest_pos + pending.room >= dest_size
  /\ dest_size' = 2 * dest_size
  /\ \/ dest' = "allocated" /\ UNCHANGED <<pending, failed>>
     \/ dest' = "NULL" /\ pending' = Nothing /\ failed' = TRUE
  /\ UNCHANGED dest_pos

(* strcpy, or the assignments of append_escaped_char. Nothing tells the    *)
(* caller that an earlier realloc failed, and then they write through NULL. *)
Write ==
  /\ pending # Nothing
  /\ dest_pos + pending.room < dest_size
  /\ IF dest = "NULL" THEN dest' = "crashed" ELSE UNCHANGED dest
  /\ dest_pos' = dest_pos + pending.len
  /\ pending' = Nothing
  /\ UNCHANGED <<dest_size, failed>>

Next ==
  \/ \E len \in 1 .. MaxString : AppendString(len)
  \/ \E escaped \in BOOLEAN : AppendChar(escaped)
  \/ Grow
  \/ Write

Spec == Init /\ [][Next]_vars /\ WF_vars(Grow \/ Write)

-----------------------------------------------------------------------------
(* Properties                                                              *)

(* As long as no realloc has failed, there is an allocation and every      *)
(* write, up to the end of the string at dest_pos, is inside it, however   *)
(* often it grew and wherever its boundary falls.                          *)
WritesInside == ~ failed => dest = "allocated" /\ dest_pos < dest_size

(* A failed realloc is never covered up: the caller gets NULL, or the next *)
(* append writes through NULL. That append cannot start a new allocation,  *)
(* which would give the caller a text without its beginning: the size was  *)
(* doubled although realloc failed, so that any one string seems to fit.   *)
FailureNeverHidden == failed => dest \in {"NULL", "crashed"}

(* Every append ends: doubling reaches the size that is asked for. It      *)
(* depends on the size not being 0.                                        *)
AppendEnds == pending # Nothing ~> pending = Nothing

=============================================================================
