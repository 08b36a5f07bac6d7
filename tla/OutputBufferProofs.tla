------------------------- MODULE OutputBufferProofs -------------------------
(***************************************************************************)
(* Proofs about module OutputBuffer, for every initial size and strings of *)
(* every length.                                                           *)
(***************************************************************************)
EXTENDS OutputBuffer, TLAPS

(* What is being appended is shorter than the room it asks for, by the end *)
(* of the string at least: this is what makes the test of the loops enough. *)
(* The room is at most the size: this is why one doubling is enough.       *)
RoomForEnd ==
  /\ pending.len \in Nat /\ pending.room \in Nat
  /\ pending # Nothing => pending.len < pending.room
  /\ pending.room <= InitialSize

(* Once realloc has failed there is room for any string, if not in memory. *)
Inv ==
  /\ dest_size \in Nat /\ dest_pos \in Nat /\ InitialSize <= dest_size
  /\ RoomForEnd
  /\ dest_pos < dest_size
  /\ dest \in {"allocated", "NULL", "crashed"}
  /\ failed <=> dest # "allocated"
  /\ dest = "NULL" => dest_pos + InitialSize < dest_size
  /\ dest = "crashed" => pending = Nothing

LEMMA InvInit == Init => Inv
  BY OutputBufferAssumption DEF Init, Inv, RoomForEnd, Nothing

LEMMA InvStep ==
  ASSUME Inv, [Next]_vars
  PROVE  Inv'
<1> USE OutputBufferAssumption DEF Inv, RoomForEnd
<1>1. ASSUME NEW len \in 1 .. MaxString, AppendString(len)
      PROVE  Inv'
  BY <1>1 DEF AppendString, Append
<1>2. ASSUME NEW escaped \in BOOLEAN, AppendChar(escaped)
      PROVE  Inv'
  BY <1>2 DEF AppendChar, Append
<1>3. CASE Grow
  <2>1. dest = "allocated"
    BY <1>3 DEF Grow
  <2> QED
    BY <1>3, <2>1 DEF Grow, Nothing
<1>4. CASE Write
  BY <1>4 DEF Write, Nothing
<1>5. CASE UNCHANGED vars
  BY <1>5 DEF vars, Nothing
<1> QED
  BY <1>1, <1>2, <1>3, <1>4, <1>5 DEF Next

(* As long as realloc succeeds, no write of append_string or               *)
(* append_escaped_char, up to the end of the string, is outside the        *)
(* allocation, wherever its boundary falls.                                *)
THEOREM AlwaysWritesInside == Spec => []WritesInside
<1>1. Inv => WritesInside
  BY DEF Inv, WritesInside
<1> QED
  BY <1>1, InvInit, InvStep, PTL DEF Spec

(* A text that lost its beginning to a failed realloc is never returned:   *)
(* the caller of screenshot_to_markdown gets NULL, or the process crashes. *)
THEOREM FailuresNeverHidden == Spec => []FailureNeverHidden
<1>1. Inv => FailureNeverHidden
  BY DEF Inv, FailureNeverHidden
<1> QED
  BY <1>1, InvInit, InvStep, PTL DEF Spec

=============================================================================
