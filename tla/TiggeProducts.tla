---------------------------- MODULE TiggeProducts ----------------------------
(***************************************************************************)
(* What ncdcTigge promises for input that lacks nothing: member after      *)
(* member, a product for every variable on the list and every forecast     *)
(* step.  The product of an instant variable is made from the records of   *)
(* its step, that of a time-integrated one adds up the records of steps 1  *)
(* to its own.  The program may stop when an input file cannot be opened;  *)
(* it neither crashes nor leaves a member half done.                       *)
(***************************************************************************)
EXTENDS Integers, Sequences

CONSTANTS LastMember, LastStep, ProcessQueue, TimeIntegrated

VARIABLES member, published, status

Field(j) == [step |-> j, holds |-> "field"]

Product(v, f) ==
  [var |-> v, step |-> f,
   fields |-> IF v \in TimeIntegrated
              THEN [j \in 1..f |-> Field(j)]
              ELSE IF v = "sf6" /\ f = 0
                   THEN <<[step |-> 0, holds |-> "zero"]>>
                   ELSE <<Field(f)>>]

AllProducts == {Product(v, f) : v \in ProcessQueue, f \in 0..LastStep}

Init == member = 0 /\ published = {} /\ status = "running"

(* Products of a variable appear in the order of their steps.              *)
Publish(v, f) ==
  /\ status = "running"
  /\ Product(v, f) \notin published
  /\ \A g \in 0..(f - 1) : Product(v, g) \in published
  /\ published' = published \cup {Product(v, f)}
  /\ UNCHANGED <<member, status>>

FinishMember ==
  /\ status = "running" /\ published = AllProducts
  /\ published' = {}
  /\ IF member < LastMember
     THEN member' = member + 1 /\ UNCHANGED status
     ELSE status' = "done" /\ UNCHANGED member

InputMissing ==
  /\ status = "running" /\ status' = "exit"
  /\ UNCHANGED <<member, published>>

Next ==
  \/ \E v \in ProcessQueue, f \in 0..LastStep : Publish(v, f)
  \/ FinishMember \/ InputMissing

Spec == Init /\ [][Next]_<<member, published, status>>
             /\ WF_<<member, published, status>>(Next)
===============================================================================
