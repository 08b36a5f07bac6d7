--------------------------- MODULE BindingProofs ----------------------------
(***************************************************************************)
(* Proofs about module Binding, for any number of objects and sessions and *)
(* every argument.                                                         *)
(***************************************************************************)
EXTENDS Binding, TLAPS

Shape ==
  /\ object \in [Objects -> [state : {"none", "made", "freed"}, session : Handles \cup {NULL}]]
  /\ session \in [Handles -> {"none", "live", "destroyed"}]
  /\ maker \in [Handles -> Objects \cup {NULL}]

(* A handle that an object holds is that of a live session made for it.    *)
HoldsOwn ==
  \A o \in Objects : \A h \in Handles : object[o].session = h =>
    session[h] = "live" /\ maker[h] = o

(* A live session is held by the object it was made for, unless that was   *)
(* given another one.                                                      *)
HeldOrLost ==
  \A h \in Handles : session[h] = "live" =>
    /\ maker[h] \in Objects
    /\ object[maker[h]].session = h \/ maker[h] \in again

Inv == Shape /\ HoldsOwn /\ HeldOrLost

-----------------------------------------------------------------------------

LEMMA InvInit == Init => Inv
  BY BindingAssumption DEF Init, Inv, Shape, HoldsOwn, HeldOrLost, NoObject

LEMMA AttachStep ==
  ASSUME Inv, NEW o \in Objects, Attach(o)
  PROVE  Inv'
<1>1. PICK h \in Handles :
        /\ session[h] = "none"
        /\ session' = [session EXCEPT ![h] = "live"]
        /\ maker' = [maker EXCEPT ![h] = o]
        /\ Assign(o, h)
  BY DEF Attach
<1>2. object' = [object EXCEPT ![o].session = h]
  BY <1>1 DEF Assign
<1>3. \A u \in Objects : object[u].session # h
  BY <1>1 DEF Inv, HoldsOwn
<1>4. again \subseteq again' /\ (object[o].session # NULL => o \in again')
  BY <1>1 DEF Assign
<1>5. Shape'
  BY <1>1, <1>2 DEF Inv, Shape
<1>6. HoldsOwn'
  BY <1>1, <1>2, <1>3 DEF Inv, Shape, HoldsOwn
<1>7. HeldOrLost'
  <2> SUFFICES ASSUME NEW g \in Handles, session'[g] = "live"
               PROVE  /\ maker'[g] \in Objects
                      /\ object'[maker'[g]].session = g \/ maker'[g] \in again'
    BY DEF HeldOrLost
  <2>1. CASE g = h
    BY <1>1, <1>2, <2>1 DEF Inv, Shape
  <2>2. CASE g # h
    <3>1. session[g] = "live" /\ maker'[g] = maker[g]
      BY <1>1, <2>2 DEF Inv, Shape
    <3>2. maker[g] \in Objects /\ (object[maker[g]].session = g \/ maker[g] \in again)
      BY <3>1 DEF Inv, HeldOrLost
    <3>3. CASE maker[g] = o
      BY <1>4, <3>1, <3>2, <3>3, BindingAssumption DEF Inv
    <3>4. CASE maker[g] # o
      BY <1>2, <1>4, <3>1, <3>2, <3>4 DEF Inv, Shape
    <3> QED
      BY <3>3, <3>4
  <2> QED
    BY <2>1, <2>2
<1> QED
  BY <1>5, <1>6, <1>7 DEF Inv

LEMMA CreateFailsStep ==
  ASSUME Inv, NEW o \in Objects, CreateFails(o)
  PROVE  Inv'
<1> USE BindingAssumption DEF Inv, CreateFails, Assign
<1>1. Shape'
  BY DEF Shape
<1>2. HoldsOwn'
  BY DEF Shape, HoldsOwn
<1>3. HeldOrLost'
  BY DEF Shape, HeldOrLost
<1> QED
  BY <1>1, <1>2, <1>3

LEMMA DeallocStep ==
  ASSUME Inv, NEW o \in Objects, Dealloc(o)
  PROVE  Inv'
<1> USE BindingAssumption DEF Inv, Dealloc, NoObject
<1>1. Shape'
  BY DEF Shape
<1>2. HoldsOwn'
  BY DEF Shape, HoldsOwn
<1>3. HeldOrLost'
  BY DEF Shape, HoldsOwn, HeldOrLost
<1> QED
  BY <1>1, <1>2, <1>3

LEMMA InvStep ==
  ASSUME Inv, [Next]_vars
  PROVE  Inv'
<1>1. ASSUME UNCHANGED <<object, session, maker, again>>
      PROVE  Inv'
  BY <1>1 DEF Inv, Shape, HoldsOwn, HeldOrLost
<1>2. ASSUME NEW o \in Objects, New(o)
      PROVE  Inv'
  <2>1. Shape'
    BY <1>2 DEF Inv, Shape, New
  <2>2. \A u \in Objects : object'[u].session = object[u].session
    BY <1>2 DEF Inv, Shape, New
  <2> QED
    BY <1>2, <2>1, <2>2 DEF Inv, HoldsOwn, HeldOrLost, New
<1>3. ASSUME NEW o \in Objects, NEW container \in BOOLEAN, NEW cols \in BOOLEAN,
             NEW command \in {"absent", "zero", "number"}, Initialize(o, container, cols, command)
      PROVE  Inv'
  <2>1. UNCHANGED <<object, session, maker, again>> \/ Attach(o) \/ CreateFails(o)
    BY <1>3 DEF Initialize, Raise
  <2> QED
    BY <1>1, <2>1, AttachStep, CreateFailsStep
<1>4. ASSUME NEW o \in Objects, InitializeCommand(o)
      PROVE  Inv'
  BY <1>1, <1>4 DEF InitializeCommand, Raise
<1>5. ASSUME NEW o \in Objects, NEW m \in DOMAIN Methods, Invoke(o, m)
      PROVE  Inv'
  BY <1>1, <1>5 DEF Invoke, Raise
<1>6. CASE UNCHANGED vars
  BY <1>1, <1>6 DEF vars
<1> QED
  BY <1>2, <1>3, <1>4, <1>5, <1>6, DeallocStep DEF Next

-----------------------------------------------------------------------------

(* A session of the library lives exactly as long as the Python object it  *)
(* was made for, whatever the arguments, the failures and the order of the *)
(* calls, unless __init__ is called again on an object that has one.       *)
THEOREM AlwaysOneOwner == Spec => []OneOwner
<1>1. Inv => OneOwner
  <2> SUFFICES ASSUME Inv, NEW h \in Handles
               PROVE  IF session[h] = "live"
                      THEN Owners(h) = {maker[h]} \/ (Owners(h) = {} /\ maker[h] \in again)
                      ELSE Owners(h) = {}
    BY DEF OneOwner
  <2>1. Owners(h) \subseteq {maker[h]}
    BY DEF Owners, Inv, HoldsOwn
  <2>2. session[h] # "live" => Owners(h) = {}
    BY DEF Owners, Inv, HoldsOwn
  <2>3. session[h] = "live" => maker[h] \in Owners(h) \/ maker[h] \in again
    BY DEF Owners, Inv, HeldOrLost
  <2> QED
    BY <2>1, <2>2, <2>3
<1> QED
  BY <1>1, InvInit, InvStep, PTL DEF Spec

=============================================================================
