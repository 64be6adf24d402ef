------------------------------ MODULE ProgramParts ------------------------------
(***************************************************************************)
(* What NcdcTigge takes as given of a run of the program, part by part in  *)
(* the order of the run: the command line and the queue it fills, potential*)
(* temperature when the queue has it, and the end of the time interval of  *)
(* an integrated product.                                                  *)
(*                                                                         *)
(* The parts share nothing but this order, so at most one of the three     *)
(* inputs is other than plain.                                             *)
(***************************************************************************)
EXTENDS ArgParser, PotentialTemperature, Calendar

CONSTANTS
  PtName,   \* the short name of potential temperature
  Plain     \* an input for each part: words, file, time and hours

ASSUME PlainAssumption ==
  /\ PtName \in Names
  /\ Plain.words \in CommandLines /\ Plain.file \in Files
  /\ Plain.time \in InitialTimes /\ Plain.hours \in Offsets

vars == <<argVars, ptVars, timeVars>>

PlainWords == argv = Plain.words
PlainFile  == file = Plain.file
PlainTime  == dtim = Plain.time /\ offset = Plain.hours

Init ==
  /\ \/ argv \in CommandLines /\ PlainFile /\ PlainTime
     \/ PlainWords /\ file \in Files /\ PlainTime
     \/ PlainWords /\ PlainFile /\ dtim \in InitialTimes /\ offset \in Offsets
  /\ ArgStart /\ PtStart /\ TimeStart

Parse == ArgNext /\ UNCHANGED <<ptVars, timeVars>>

(* generatePotentialTemperature() is called if the queue has it.           *)
Generates == parser = "process" /\ ProcessQueueContains(PtName)

PtPart == Generates /\ PtNext /\ UNCHANGED <<argVars, timeVars>>

PtOver == IF Generates THEN ptAt \in {"done", "gaveUp"} ELSE parser = "process"

TimePart == PtOver /\ TimeNext /\ UNCHANGED <<argVars, ptVars>>

Next == Parse \/ PtPart \/ TimePart

Spec == Init /\ [][Next]_vars /\ WF_vars(TimePart)

-------------------------------------------------------------------------------
TypeOK == ArgTypeOK /\ PtTypeOK /\ TimeTypeOK
===============================================================================
