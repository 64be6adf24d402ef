--------------------------- MODULE NcdcTiggeProofs ---------------------------
(***************************************************************************)
(* Proofs about NcdcTigge for every number of members and steps, every     *)
(* list of variables and every choice of input files.                      *)
(***************************************************************************)
EXTENDS NcdcTigge, TLAPS, WellFoundedInduction

-------------------------------------------------------------------------------
(* The scans.                                                              *)

(* A set of positions that is not empty has a first one.                   *)
LEMMA FirstInSet ==
  ASSUME NEW S \in SUBSET Nat, S # {}
  PROVE  First(S) \in S /\ \A i \in S : First(S) <= i
<1> DEFINE less == OpToRel(<, Nat)
<1>1. \A i, j \in Nat : j < i => <<j, i>> \in less
  BY DEF OpToRel
<1>2. IsWellFoundedOn(less, Nat)
  BY NatLessThanWellFounded
<1> HIDE DEF less
<1>3. PICK i \in S : \A j \in S : ~(<<j, i>> \in less)
  BY <1>2, WFMin
<1>4. \A j \in S : i <= j
  <2>1. S \subseteq Nat  OBVIOUS
  <2>2. \A j \in S : ~(j < i)  BY <1>1, <1>3, <2>1, Zenon
  <2> QED BY <2>1, <2>2
<1> QED BY <1>4 DEF First

(* A scan of one file leaves the position inside the file.                 *)
LEMMA ScanFileType ==
  ASSUME NEW file \in Seq(Kinds), NEW pos \in 0..Len(file), NEW wanted
  PROVE  /\ ScanFile(file, pos, wanted).hit \in BOOLEAN
         /\ ScanFile(file, pos, wanted).pos \in 0..Len(file)
<1> DEFINE ahead == Ahead(file, pos, wanted)
<1>1. ahead \in SUBSET Nat /\ ahead \subseteq 1..Len(file)
  BY DEF Ahead
<1>2. CASE ahead # {}
  <2>1. First(ahead) \in ahead  BY <1>1, <1>2, FirstInSet
  <2>2. ScanFile(file, pos, wanted) = [hit |-> TRUE, kind |-> file[First(ahead)], pos |-> First(ahead)]
    BY <1>2 DEF ScanFile
  <2> QED BY <1>1, <2>1, <2>2
<1>3. CASE ahead = {}
  <2>1. ScanFile(file, pos, wanted) = [hit |-> FALSE, kind |-> "none", pos |-> Len(file)]
    BY <1>3 DEF ScanFile
  <2> QED BY <2>1
<1> QED BY <1>2, <1>3

(* So does a scan of both files.                                           *)
LEMMA ScanBothType ==
  ASSUME NEW a \in Seq(Kinds), NEW pa \in 0..Len(a),
         NEW b \in Seq(Kinds), NEW pb \in 0..Len(b), NEW wanted
  PROVE  /\ ScanBoth(a, pa, b, pb, wanted).hit \in BOOLEAN
         /\ ScanBoth(a, pa, b, pb, wanted).posA \in 0..Len(a)
         /\ ScanBoth(a, pa, b, pb, wanted).posB \in 0..Len(b)
<1> DEFINE inA == ScanFile(a, pa, wanted)
           inB == ScanFile(b, pb, wanted)
<1>1. /\ inA.hit \in BOOLEAN /\ inA.pos \in 0..Len(a)
      /\ inB.hit \in BOOLEAN /\ inB.pos \in 0..Len(b)
  BY ScanFileType
<1> HIDE DEF inA, inB
<1>2. ScanBoth(a, pa, b, pb, wanted) =
        IF inA.hit
        THEN [hit |-> TRUE,    kind |-> inA.kind, posA |-> inA.pos, posB |-> pb]
        ELSE [hit |-> inB.hit, kind |-> inB.kind, posA |-> inA.pos, posB |-> inB.pos]
  BY DEF ScanBoth, inA, inB
<1>3. CASE inA.hit
  BY <1>1, <1>2, <1>3
<1>4. CASE ~inA.hit
  BY <1>1, <1>2, <1>4
<1> QED BY <1>3, <1>4

-------------------------------------------------------------------------------
(* The order of the loads.                                                 *)

(* Every variable has one place in the order of the loads.                 *)
LEMMA PositionIsPlace ==
  ASSUME NEW v \in Variables
  PROVE  /\ Position(v) \in 1..12
         /\ LoadOrder[Position(v)] = v
         /\ \A i \in 1..12 : LoadOrder[i] = v => i = Position(v)
<1>1. Len(LoadOrder) = 12  BY DEF LoadOrder
<1>2. \E i \in 1..12 : LoadOrder[i] = v
  BY DEF LoadOrder, Variables, TimeIntegrated, Instant
<1>3. \A i, j \in 1..12 : LoadOrder[i] = LoadOrder[j] => i = j
  BY SMTT(60) DEF LoadOrder
<1> QED BY <1>1, <1>2, <1>3 DEF Position

(* The lengths of the two orders.                                          *)
LEMMA OrderLengths == Len(LoadOrder) = 12 /\ Len(IntegrationOrder) = 7
BY DEF LoadOrder, IntegrationOrder

(* Taking a turn is one load more for its variable and for no other.       *)
LEMMA TurnTaken ==
  ASSUME TypeOK, NEW v \in Variables, Turn(v), NextTurn
  PROVE  /\ turn \in 1..12 /\ turn' \in 1..13
         /\ LoadsDone(v) = forecastHour /\ LoadsDone(v)' = forecastHour + 1
         /\ \A w \in Variables \ {v} : LoadsDone(w)' = LoadsDone(w)
<1>1. /\ phase = "hour" /\ phase' = "hour" /\ forecastHour' = forecastHour
      /\ forecastHour \in Nat
      /\ turn \in 1..12 /\ LoadOrder[turn] = v /\ turn' = turn + 1
  BY OrderLengths DEF TypeOK, Turn, NextTurn, Steps
<1>2. turn = Position(v) /\ Position(v) \in 1..12
  BY <1>1, PositionIsPlace
<1>3. \A w \in Variables :
        /\ LoadsDone(w)  = forecastHour + (IF turn > Position(w) THEN 1 ELSE 0)
        /\ LoadsDone(w)' = forecastHour + (IF turn + 1 > Position(w) THEN 1 ELSE 0)
  BY <1>1 DEF LoadsDone, Position
<1>4. \A w \in Variables \ {v} : Position(w) \in 1..12 /\ Position(w) # turn
  BY <1>1, PositionIsPlace
<1> QED BY <1>1, <1>2, <1>3, <1>4

-------------------------------------------------------------------------------
(* Types and counts.                                                       *)

Working == phase \in {"open", "hour", "integrate"}

(* An array never holds more records than its member has been through      *)
(* loads: without this the counter is not bounded by the steps.            *)
CountsBounded ==
  Working => \A v \in TimeIntegrated : numberOfSavedRecords[v] <= LoadsDone(v)

(* Nothing is ever stored for a variable that is not on the list.          *)
QueuedOnly == \A v \in TimeIntegrated \ ProcessQueue : numberOfSavedRecords[v] = 0

IInv == TypeOK /\ CountsBounded /\ QueuedOnly

(* What one load may do to the arrays: nothing is lost at step 0.          *)
LoadEffect(v) ==
  \/ \E h \in Holdings \ {"wild"} : AddGribRecordToArray(v, Now(h))
  \/ forecastHour # 0 /\ LoseArray(v)

LoadAt(v) ==
  /\ v \in TimeIntegrated \cap ProcessQueue
  /\ Turn(v) /\ NextTurn /\ LoadEffect(v) /\ UNCHANGED output
  /\ posA' \in 0..Len(aFile) /\ posB' \in 0..Len(bFile)

(* What the generator of an instant variable may do.                       *)
InstantAt(v) ==
  /\ v \in Instant /\ Generate(v)
  /\ posA' \in 0..Len(aFile) /\ posB' \in 0..Len(bFile)
  /\ UNCHANGED output \/ \E h \in Holdings : WriteInstant(v, h)

(* What the generator of a time-integrated variable may do with one slot.  *)
IntegrationAt(v) ==
  /\ v \in TimeIntegrated \cap ProcessQueue /\ IntegrationTurn(v)
  /\ \/ Accumulate(v)
     \/ WildSlot(v) /\ PassOver
     \/ (allocated[v] => WildSlot(v)) /\ Crash

(* A load keeps the arrays and counters typed.                             *)
LEMMA LoadEffectType ==
  ASSUME IInv, NEW v \in TimeIntegrated, Turn(v), NextTurn, LoadEffect(v)
  PROVE  /\ allocated' \in [TimeIntegrated -> BOOLEAN]
         /\ resource' \in [TimeIntegrated -> [Steps -> Cell]]
         /\ numberOfSavedRecords' \in [TimeIntegrated -> 0..(LastStep + 1)]
         /\ numberOfSavedRecords'[v] <= LoadsDone(v)'
         /\ \A w \in TimeIntegrated \ {v} : numberOfSavedRecords'[w] = numberOfSavedRecords[w]
<1>1. /\ numberOfSavedRecords \in [TimeIntegrated -> 0..(LastStep + 1)]
      /\ allocated \in [TimeIntegrated -> BOOLEAN]
      /\ resource \in [TimeIntegrated -> [Steps -> Cell]]
      /\ forecastHour \in Steps /\ LastStep \in Nat
  BY StepAssumption DEF IInv, TypeOK
<1>2. v \in Variables /\ Working
  BY DEF Variables, Turn, Working
<1>3. numberOfSavedRecords[v] <= forecastHour /\ LoadsDone(v)' = forecastHour + 1
  BY <1>2, TurnTaken DEF IInv, CountsBounded
<1>4. Wild \in Cell /\ AllWild \in [Steps -> Cell]
  BY <1>1 DEF Wild, AllWild, Cell, Steps, Holdings
<1>5. ASSUME NEW h \in Holdings \ {"wild"}, AddGribRecordToArray(v, Now(h))
      PROVE  /\ resource' \in [TimeIntegrated -> [Steps -> Cell]]
             /\ allocated' \in [TimeIntegrated -> BOOLEAN]
             /\ numberOfSavedRecords' = [numberOfSavedRecords EXCEPT ![v] = @ + 1]
  <2>1. Now(h) \in Cell  BY <1>1 DEF Now, Cell
  <2>2. [i \in Steps |->
         CASE i = numberOfSavedRecords[v]                -> Now(h)
           [] i < numberOfSavedRecords[v] /\ allocated[v] -> resource[v][i]
           [] OTHER                                       -> Wild] \in [Steps -> Cell]
    BY <1>1, <1>4, <2>1
  <2>3. resource' \in [TimeIntegrated -> [Steps -> Cell]]
    BY <1>1, <1>5, <2>2 DEF AddGribRecordToArray
  <2> QED BY <1>1, <1>5, <2>3 DEF AddGribRecordToArray
<1>6. CASE \E h \in Holdings \ {"wild"} : AddGribRecordToArray(v, Now(h))
  <2>1. /\ resource' \in [TimeIntegrated -> [Steps -> Cell]]
        /\ allocated' \in [TimeIntegrated -> BOOLEAN]
        /\ numberOfSavedRecords' = [numberOfSavedRecords EXCEPT ![v] = @ + 1]
    BY <1>5, <1>6
  <2> QED BY <1>1, <1>3, <2>1 DEF Steps
<1>7. CASE LoseArray(v)
  <2>1. /\ allocated' \in [TimeIntegrated -> BOOLEAN]
        /\ resource' \in [TimeIntegrated -> [Steps -> Cell]]
        /\ numberOfSavedRecords' = numberOfSavedRecords
    BY <1>1, <1>4, <1>7 DEF LoseArray
  <2> QED BY <1>1, <1>3, <2>1 DEF Steps
<1> QED BY <1>6, <1>7 DEF LoadEffect

(* Loading a variable on the list keeps the invariant.                     *)
LEMMA LoadKeepsIInv ==
  ASSUME IInv, NEW v, LoadAt(v)
  PROVE  IInv'
<1> USE DEF LoadAt
<1>1. v \in Variables  BY DEF Variables
<1>2. /\ turn' \in 1..13
      /\ \A w \in Variables \ {v} : LoadsDone(w)' = LoadsDone(w)
  BY <1>1, TurnTaken DEF IInv
<1>3. /\ allocated' \in [TimeIntegrated -> BOOLEAN]
      /\ resource' \in [TimeIntegrated -> [Steps -> Cell]]
      /\ numberOfSavedRecords' \in [TimeIntegrated -> 0..(LastStep + 1)]
      /\ numberOfSavedRecords'[v] <= LoadsDone(v)'
      /\ \A w \in TimeIntegrated \ {v} : numberOfSavedRecords'[w] = numberOfSavedRecords[w]
  BY LoadEffectType
<1>4. TypeOK'
  BY <1>2, <1>3, OrderLengths DEF IInv, TypeOK, NextTurn
<1>5. CountsBounded'
  <2>1. Working  BY DEF Working, Turn
  <2>2. \A w \in TimeIntegrated \ {v} : numberOfSavedRecords'[w] <= LoadsDone(w)'
    BY <1>2, <1>3, <2>1 DEF IInv, CountsBounded, Variables
  <2> QED BY <1>3, <2>2 DEF CountsBounded
<1>6. QueuedOnly'
  BY <1>3 DEF IInv, QueuedOnly
<1> QED BY <1>4, <1>5, <1>6 DEF IInv

(* A step that leaves the arrays alone keeps the bound on the counts when  *)
(* it keeps the number of loads.                                           *)
LEMMA ArraysKept ==
  ASSUME IInv, UNCHANGED arrayVars, TypeOK',
         Working' => /\ Working
                     /\ \A w \in TimeIntegrated \cap ProcessQueue : LoadsDone(w)' >= LoadsDone(w)
                     /\ \A w \in TimeIntegrated : LoadsDone(w)' \in Nat /\ LoadsDone(w) \in Nat
  PROVE  IInv'
<1>1. numberOfSavedRecords' = numberOfSavedRecords
      /\ numberOfSavedRecords \in [TimeIntegrated -> 0..(LastStep + 1)] /\ LastStep \in Nat
  BY StepAssumption DEF arrayVars, IInv, TypeOK
<1>2. QueuedOnly'
  BY <1>1 DEF IInv, QueuedOnly
<1>3. ASSUME Working', NEW w \in TimeIntegrated
      PROVE  numberOfSavedRecords'[w] <= LoadsDone(w)'
  <2>1. CASE w \in ProcessQueue
    BY <1>1, <1>3, <2>1 DEF IInv, CountsBounded
  <2>2. CASE w \notin ProcessQueue
    BY <1>1, <1>3, <2>2 DEF IInv, QueuedOnly
  <2> QED BY <2>1, <2>2
<1> QED BY <1>2, <1>3 DEF IInv, CountsBounded

(* The values of an instant variable leave the arrays alone.               *)
LEMMA InstantKeepsIInv ==
  ASSUME IInv, NEW v, InstantAt(v)
  PROVE  IInv'
<1> USE DEF InstantAt
<1>1. /\ v \in Variables /\ Turn(v) /\ NextTurn /\ UNCHANGED arrayVars
  BY DEF Variables, Generate
<1>2. /\ turn' \in 1..13
      /\ \A w \in TimeIntegrated : LoadsDone(w)' = LoadsDone(w)
  BY <1>1, TurnTaken DEF IInv, Variables, Instant, TimeIntegrated
<1>3. \A h \in Holdings : Now(h) \in Cell /\ <<Now(h)>> \in Seq(Cell)
  BY DEF IInv, TypeOK, Now, Cell
<1>4. \A o \in output' : o.var \in Variables /\ o.step \in Steps /\ o.fields \in Seq(Cell)
  <2>1. /\ forecastHour \in Steps
        /\ \A o \in output : o.var \in Variables /\ o.step \in Steps /\ o.fields \in Seq(Cell)
    BY DEF IInv, TypeOK
  <2>2. ASSUME NEW h \in Holdings, WriteInstant(v, h)
        PROVE  <1>4
    <3>1. <<Now(h)>> \in Seq(Cell)  BY <1>3
    <3> DEFINE file == [var |-> v, step |-> forecastHour, fields |-> <<Now(h)>>]
    <3>2. file.var \in Variables /\ file.step \in Steps /\ file.fields \in Seq(Cell)
      BY <1>1, <2>1, <3>1
    <3>3. output' = output \cup {file}  BY <2>2 DEF WriteInstant
    <3> HIDE DEF file
    <3> QED BY <2>1, <3>2, <3>3
  <2> QED BY <2>1, <2>2
<1>5. TypeOK'
  BY <1>1, <1>2, <1>4, OrderLengths DEF IInv, TypeOK, NextTurn, arrayVars
<1>6. Working /\ \A w \in TimeIntegrated : LoadsDone(w) \in Nat
  BY <1>1 DEF Working, Turn, LoadsDone, IInv, TypeOK, Steps
<1> QED BY <1>1, <1>2, <1>5, <1>6, ArraysKept

(* A rewind is a legal pair of positions.                                  *)
LEMMA Rewound ==
  ASSUME TypeOK, Rewind
  PROVE  posA' \in 0..Len(aFile) /\ posB' \in 0..Len(bFile)
BY DEF Rewind, TypeOK

(* The loaders of one record are loads.                                    *)
LEMMA LoadOneIsLoad ==
  ASSUME IInv, NEW v \in TimeIntegrated, NEW kind, LoadOne(v, kind)
  PROVE  LoadAt(v)
<1> DEFINE scan == ScanBoth(aFile, posA, bFile, posB, {kind})
<1>1. scan.posA \in 0..Len(aFile) /\ scan.posB \in 0..Len(bFile)
  BY ScanBothType DEF IInv, TypeOK
<1> HIDE DEF scan
<1>2. /\ Turn(v) /\ v \in ProcessQueue /\ NextTurn /\ UNCHANGED output
      /\ \/ /\ AddGribRecordToArray(v, Now(IF scan.hit THEN "field" ELSE "blank"))
            /\ Rewind
         \/ forecastHour # 0 /\ LoseArray(v) /\ posA' = scan.posA /\ posB' = scan.posB
  BY DEF LoadOne, IgnoreMissingInput, scan
<1>3. LoadEffect(v)
  BY <1>2 DEF LoadEffect, Holdings
<1>4. posA' \in 0..Len(aFile) /\ posB' \in 0..Len(bFile)
  BY <1>1, <1>2, Rewound DEF IInv
<1> QED BY <1>2, <1>3, <1>4 DEF LoadAt

(* The loaders of a net flux are loads.                                    *)
LEMMA LoadNetIsLoad ==
  ASSUME IInv, NEW v \in TimeIntegrated, NEW down, NEW up, LoadNet(v, down, up)
  PROVE  LoadAt(v)
<1> DEFINE one  == ScanBoth(aFile, posA, bFile, posB, {down, up})
           two  == ScanBoth(aFile, one.posA, bFile, one.posB, {down, up})
           net  == NetFlux(one.kind, two.kind, down, up)
           made == CASE ~(one.hit /\ two.hit) -> "blank"
                     [] (one.hit /\ two.hit) /\ net = [plus |-> down, minus |-> up] -> "field"
                     [] OTHER -> "mixed"
<1>1. one.posA \in 0..Len(aFile) /\ one.posB \in 0..Len(bFile)
  BY ScanBothType DEF IInv, TypeOK
<1>2. two.posA \in 0..Len(aFile) /\ two.posB \in 0..Len(bFile)
  <2> HIDE DEF one
  <2> QED BY <1>1, ScanBothType DEF IInv, TypeOK
<1>3. made \in Holdings \ {"wild"}
  <2> HIDE DEF one, two, net
  <2> QED BY DEF Holdings
<1>4. /\ Turn(v) /\ v \in ProcessQueue /\ NextTurn /\ UNCHANGED output
      /\ \/ AddGribRecordToArray(v, Now(made)) /\ Rewind
         \/ forecastHour # 0 /\ LoseArray(v) /\ posA' = two.posA /\ posB' = two.posB
  BY Zenon DEF LoadNet, IgnoreMissingInput
<1> HIDE DEF one, two, net, made
<1>5. LoadEffect(v)
  BY <1>3, <1>4 DEF LoadEffect
<1>6. posA' \in 0..Len(aFile) /\ posB' \in 0..Len(bFile)
  BY <1>2, <1>4, Rewound DEF IInv
<1> QED BY <1>4, <1>5, <1>6 DEF LoadAt

(* The loader of total precipitation is a load.                            *)
LEMMA LoadTPIsLoad ==
  ASSUME IInv, LoadTP
  PROVE  LoadAt("tp")
<1> DEFINE scan == ScanFile(aFile, posA, {"apcp"})
<1>1. scan.pos \in 0..Len(aFile)
  BY ScanFileType DEF IInv, TypeOK
<1>2. "tp" \in TimeIntegrated
  BY DEF TimeIntegrated
<1>3. /\ Turn("tp") /\ "tp" \in ProcessQueue /\ NextTurn
      /\ UNCHANGED output /\ UNCHANGED posB
      /\ posA' = 0 \/ posA' = scan.pos
      /\ \/ \E h \in Holdings \ {"wild"} : AddGribRecordToArray("tp", Now(h))
         \/ numberOfSavedRecords["tp"] # 0 /\ LoseArray("tp")
  BY DEF LoadTP, Holdings
<1> HIDE DEF scan
<1>5. forecastHour = 0 => numberOfSavedRecords["tp"] = 0
  <2>1. Working /\ LoadsDone("tp") = forecastHour
    BY <1>2, <1>3, TurnTaken DEF IInv, Variables, Working, Turn
  <2>2. numberOfSavedRecords["tp"] \in 0..(LastStep + 1) /\ numberOfSavedRecords["tp"] <= forecastHour
    BY <1>2, <2>1 DEF IInv, TypeOK, CountsBounded
  <2> QED BY <2>2, StepAssumption
<1>6. LoadEffect("tp")
  BY <1>3, <1>5 DEF LoadEffect
<1>4. posA' \in 0..Len(aFile) /\ posB' \in 0..Len(bFile)
  BY <1>1, <1>3 DEF IInv, TypeOK
<1> QED BY <1>2, <1>3, <1>4, <1>6 DEF LoadAt

(* The loader of snowfall is a load.                                       *)
LEMMA LoadSFIsLoad ==
  ASSUME IInv, LoadSF
  PROVE  LoadAt("sf")
<1>1. "sf" \in TimeIntegrated
  BY DEF TimeIntegrated
<1>2. /\ Turn("sf") /\ "sf" \in ProcessQueue /\ NextTurn /\ UNCHANGED output
      /\ Rewind /\ LoadEffect("sf")
  BY DEF LoadSF, LoadEffect, Holdings
<1> QED BY <1>1, <1>2, Rewound DEF IInv, LoadAt

(* Every disjunct of Load has the effect of a load of one variable.        *)
LEMMA LoadStep ==
  ASSUME IInv, Load
  PROVE  \E v : LoadAt(v)
<1>1. {"ttr", "slhf", "sshf", "ssr", "str"} \subseteq TimeIntegrated
  BY DEF TimeIntegrated
<1>2. CASE LoadTTR \/ LoadSLHF \/ LoadSSHF
  BY <1>1, <1>2, LoadOneIsLoad DEF LoadTTR, LoadSLHF, LoadSSHF
<1>3. CASE LoadSSR \/ LoadSTR
  BY <1>1, <1>3, LoadNetIsLoad DEF LoadSSR, LoadSTR
<1>4. CASE LoadTP
  BY <1>4, LoadTPIsLoad
<1>5. CASE LoadSF
  BY <1>5, LoadSFIsLoad
<1> QED BY <1>2, <1>3, <1>4, <1>5 DEF Load

(* The generator of sf6 leaves the arrays alone.                           *)
LEMMA GenerateSF6IsInstant ==
  ASSUME IInv, GenerateSF6
  PROVE  InstantAt("sf6")
<1>1. /\ Generate("sf6") /\ UNCHANGED posB
      /\ posA' = 0 \/ posA' = Len(aFile)
      /\ UNCHANGED output \/ \E h \in Holdings : WriteInstant("sf6", h)
  BY DEF GenerateSF6, Holdings
<1>2. posA' \in 0..Len(aFile) /\ posB' \in 0..Len(bFile)
  BY <1>1 DEF IInv, TypeOK
<1> QED BY <1>1, <1>2 DEF Instant, InstantAt

(* The generator of tcw leaves the arrays alone.                           *)
LEMMA GenerateTCWIsInstant ==
  ASSUME IInv, GenerateTCW
  PROVE  InstantAt("tcw")
<1> DEFINE vapour == ScanFile(aFile, posA, {"pwat"})
           cloud  == ScanFile(bFile, posB, {"cwat"})
<1>1. vapour.pos \in 0..Len(aFile) /\ cloud.pos \in 0..Len(bFile)
  BY ScanFileType DEF IInv, TypeOK
<1>2. /\ Generate("tcw")
      /\ \/ Rewind
         \/ posA' = vapour.pos /\ posB' \in {cloud.pos, posB}
      /\ UNCHANGED output \/ \E h \in Holdings : WriteInstant("tcw", h)
  BY DEF GenerateTCW, Holdings
<1> HIDE DEF vapour, cloud
<1>3. posA' \in 0..Len(aFile) /\ posB' \in 0..Len(bFile)
  BY <1>1, <1>2, Rewound DEF IInv, TypeOK
<1> QED BY <1>2, <1>3 DEF Instant, InstantAt

(* The generator of pt leaves the arrays alone.                            *)
LEMMA GeneratePTIsInstant ==
  ASSUME IInv, GeneratePT
  PROVE  InstantAt("pt")
<1>1. /\ Generate("pt")
      /\ Rewind \/ (posB' = Len(bFile) /\ UNCHANGED posA)
      /\ UNCHANGED output \/ \E h \in Holdings : WriteInstant("pt", h)
  BY DEF GeneratePT, Holdings
<1>2. posA' \in 0..Len(aFile) /\ posB' \in 0..Len(bFile)
  BY <1>1, Rewound DEF IInv, TypeOK
<1> QED BY <1>1, <1>2 DEF Instant, InstantAt

(* The generator of sm leaves the arrays alone.                            *)
LEMMA GenerateSMIsInstant ==
  ASSUME IInv, GenerateSM
  PROVE  InstantAt("sm")
<1> DEFINE one == ScanFile(bFile, posB, SoilMoisture)
           two == ScanFile(aFile, posA, SoilMoisture)
<1>1. one.pos \in 0..Len(bFile) /\ two.pos \in 0..Len(aFile)
  BY ScanFileType DEF IInv, TypeOK
<1>2. /\ Generate("sm")
      /\ \/ Rewind
         \/ posB' = one.pos /\ posA' \in {two.pos, posA}
      /\ UNCHANGED output \/ \E h \in Holdings : WriteInstant("sm", h)
  BY DEF GenerateSM, Holdings
<1> HIDE DEF one, two
<1>3. posA' \in 0..Len(aFile) /\ posB' \in 0..Len(bFile)
  BY <1>1, <1>2, Rewound DEF IInv, TypeOK
<1> QED BY <1>2, <1>3 DEF Instant, InstantAt

(* The generator of st leaves the arrays alone.                            *)
LEMMA GenerateSTIsInstant ==
  ASSUME IInv, GenerateST
  PROVE  InstantAt("st")
<1> DEFINE one == ScanBoth(aFile, STStart.posA, bFile, STStart.posB, SoilTemperature)
           two == ScanBoth(aFile, one.posA, bFile, one.posB, SoilTemperature)
<1>1. one.posA \in 0..Len(aFile) /\ one.posB \in 0..Len(bFile)
  <2>1. STStart.posA \in 0..Len(aFile) /\ STStart.posB \in 0..Len(bFile)
    BY DEF STStart, IInv, TypeOK
  <2> QED BY <2>1, ScanBothType DEF IInv, TypeOK
<1>2. two.posA \in 0..Len(aFile) /\ two.posB \in 0..Len(bFile)
  <2> HIDE DEF one
  <2> QED BY <1>1, ScanBothType DEF IInv, TypeOK
<1>3. /\ Generate("st")
      /\ Rewind \/ (posA' = two.posA /\ posB' = two.posB)
      /\ UNCHANGED output \/ \E h \in Holdings : WriteInstant("st", h)
  <2>1. {"field", "mixed"} \subseteq Holdings  BY DEF Holdings
  <2> QED BY <2>1 DEF GenerateST
<1> HIDE DEF one, two
<1>4. posA' \in 0..Len(aFile) /\ posB' \in 0..Len(bFile)
  BY <1>2, <1>3, Rewound DEF IInv
<1> QED BY <1>3, <1>4 DEF Instant, InstantAt

(* Every disjunct of GenerateInstant is such a step.                       *)
LEMMA InstantStep ==
  ASSUME IInv, GenerateInstant
  PROVE  \E v : InstantAt(v)
BY GenerateSF6IsInstant, GenerateTCWIsInstant, GeneratePTIsInstant,
   GenerateSMIsInstant, GenerateSTIsInstant DEF GenerateInstant

-------------------------------------------------------------------------------
(* Integration leaves the arrays alone and keeps the phase, or crashes.    *)

(* Every disjunct of Integrate belongs to one variable or skips one.       *)
LEMMA IntegrateStep ==
  ASSUME IInv, Integrate
  PROVE  SkipIntegration \/ \E v : IntegrationAt(v)
<1>1. ASSUME NEW v \in TimeIntegrated, IntegrateUnguarded(v) \/ IntegrateGuarded(v)
      PROVE  IntegrationAt(v)
  BY <1>1 DEF IntegrateUnguarded, IntegrateGuarded, IntegrationAt
<1>2. {"ttr", "slhf", "sshf", "ssr", "str", "sf", "tp"} \subseteq TimeIntegrated
  BY DEF TimeIntegrated
<1>3. CASE IntegrateTTR \/ IntegrateSLHF \/ IntegrateSSHF \/ IntegrateSF \/ IntegrateSSR \/ IntegrateSTR
  BY <1>1, <1>2, <1>3 DEF IntegrateTTR, IntegrateSLHF, IntegrateSSHF, IntegrateSF,
                          IntegrateSSR, IntegrateSTR
<1>4. CASE IntegrateTP
  BY <1>1, <1>2, <1>4 DEF IntegrateTP, IntegrationAt
<1> QED BY <1>3, <1>4 DEF Integrate

(* The sum a generator adds up and the file it writes.                     *)
SumWith(v) ==
  IF forecastHour = 0 THEN <<>> ELSE Append(runningSum, resource[v][forecastHour])
SumFile(v) == [var |-> v, step |-> forecastHour, fields |-> SumWith(v)]

(* What an integration writes is typed.                                    *)
LEMMA AccumulateType ==
  ASSUME IInv, NEW v \in TimeIntegrated, Accumulate(v)
  PROVE  /\ NextSlot /\ output' = output \cup {SumFile(v)}
         /\ runningSum' = IF forecastHour = LastStep THEN <<>> ELSE SumWith(v)
         /\ SumWith(v) \in Seq(Cell) /\ runningSum' \in Seq(Cell)
         /\ SumFile(v).var = v /\ SumFile(v).step = forecastHour
         /\ SumFile(v).fields = SumWith(v)
<1>1. resource[v][forecastHour] \in Cell /\ runningSum \in Seq(Cell)
  BY DEF IInv, TypeOK
<1>2. SumWith(v) \in Seq(Cell)
  BY <1>1 DEF SumWith
<1>3. /\ NextSlot /\ output' = output \cup {SumFile(v)}
      /\ runningSum' = IF forecastHour = LastStep THEN <<>> ELSE SumWith(v)
  BY DEF Accumulate, SumWith, SumFile
<1>4. runningSum' \in Seq(Cell)
  BY <1>2, <1>3
<1> QED BY <1>2, <1>3, <1>4 DEF SumFile

(* An integration keeps the invariant.                                     *)
LEMMA IntegrationKeepsIInv ==
  ASSUME IInv, NEW v, IntegrationAt(v)
  PROVE  IInv'
<1> USE DEF IntegrationAt
<1>1. phase = "integrate" /\ turn \in 1..7
  BY OrderLengths DEF IntegrationTurn, IInv, TypeOK
<1>2. CASE Crash
  <2>1. TypeOK'  BY <1>2 DEF Crash, IInv, TypeOK, fileVars, arrayVars
  <2> QED BY <1>2, <2>1, ArraysKept DEF Crash, Working
<1>3. CASE NextSlot /\ (Accumulate(v) \/ PassOver)
  <2>1. /\ forecastHour' \in Steps /\ turn' \in 1..13
    <3>1. forecastHour \in 0..LastStep /\ LastStep \in Nat
      BY StepAssumption DEF IInv, TypeOK, Steps
    <3>2. \/ forecastHour < LastStep /\ forecastHour' = forecastHour + 1 /\ turn' = turn
          \/ forecastHour' = 0 /\ turn' = turn + 1
      BY <1>3 DEF NextSlot
    <3> QED BY <1>1, <3>1, <3>2 DEF Steps
  <2>2. runningSum' \in Seq(Cell)
    <3>1. CASE Accumulate(v)
      BY <3>1, AccumulateType
    <3>2. CASE PassOver
      BY <3>2 DEF PassOver, IInv, TypeOK
    <3> QED BY <1>3, <3>1, <3>2
  <2>3. \A o \in output' : o.var \in Variables /\ o.step \in Steps /\ o.fields \in Seq(Cell)
    <3>1. CASE Accumulate(v)
      BY <3>1, AccumulateType DEF IInv, TypeOK, Variables
    <3>2. CASE PassOver
      BY <3>2 DEF PassOver, IInv, TypeOK
    <3> QED BY <1>3, <3>1, <3>2
  <2>4. TypeOK'
    BY <1>3, <2>1, <2>2, <2>3, OrderLengths DEF NextSlot, IInv, TypeOK, fileVars, arrayVars
  <2>5. /\ UNCHANGED arrayVars
        /\ \A w \in TimeIntegrated : LoadsDone(w) = LastStep + 1 /\ LoadsDone(w)' = LastStep + 1
    BY <1>1, <1>3 DEF NextSlot, LoadsDone
  <2> QED BY <1>1, <2>4, <2>5, ArraysKept, StepAssumption DEF Working
<1> QED BY <1>2, <1>3, AccumulateType DEF PassOver

(* So does skipping a variable that is not on the list.                    *)
LEMMA SkipIntegrationKeepsIInv ==
  ASSUME IInv, SkipIntegration
  PROVE  IInv'
<1>1. UNCHANGED arrayVars /\ phase = "integrate" /\ phase' = "integrate"
  BY DEF SkipIntegration, IntegrationTurn
<1>2. TypeOK'
  BY OrderLengths DEF SkipIntegration, IntegrationTurn, IInv, TypeOK, fileVars, arrayVars
<1>3. \A w \in TimeIntegrated : LoadsDone(w) = LastStep + 1 /\ LoadsDone(w)' = LastStep + 1
  BY <1>1 DEF LoadsDone
<1> QED BY <1>1, <1>2, <1>3, ArraysKept, StepAssumption DEF Working

-------------------------------------------------------------------------------
(* The steps of main() itself.                                             *)

(* So do the steps of main() itself.                                       *)
LEMMA MainStepKeepsIInv ==
  ASSUME IInv, OpenInputs \/ OpenFails \/ SkipVariable \/ CloseInputs \/ FreeData \/ FreeCrashes
  PROVE  IInv'
<1>1. /\ forecastHour \in 0..LastStep /\ LastStep \in Nat
      /\ \A w \in TimeIntegrated : Position(w) \in 1..12
  BY StepAssumption, PositionIsPlace DEF IInv, TypeOK, Steps, Variables
<1>2. CASE OpenInputs
  <2>1. UNCHANGED arrayVars /\ phase = "open" /\ phase' = "hour" /\ turn' = 1
        /\ forecastHour' = forecastHour
    BY <1>2 DEF OpenInputs
  <2>2. PICK f \in InputFiles[forecastHour] : aFile' = f.a /\ bFile' = f.b
    BY <1>2 DEF OpenInputs
  <2>3. aFile' \in Seq(Kinds) /\ bFile' \in Seq(Kinds) /\ posA' = 0 /\ posB' = 0
    BY <1>1, <1>2, <2>2, FilesAssumption DEF OpenInputs, Steps
  <2>4. posA' \in 0..Len(aFile') /\ posB' \in 0..Len(bFile')
    BY <2>3
  <2>5. TypeOK'
    BY <1>2, <2>1, <2>3, <2>4, OrderLengths DEF OpenInputs, IInv, TypeOK, arrayVars
  <2>6. \A w \in TimeIntegrated : LoadsDone(w) = forecastHour /\ LoadsDone(w)' = forecastHour
    BY <1>1, <2>1 DEF LoadsDone
  <2> QED BY <1>1, <2>1, <2>5, <2>6, ArraysKept DEF Working
<1>3. CASE OpenFails
  <2>1. TypeOK'  BY <1>3 DEF OpenFails, IInv, TypeOK, fileVars, arrayVars
  <2> QED BY <1>3, <2>1, ArraysKept DEF OpenFails, Working
<1>4. CASE SkipVariable
  <2>1. PICK v \in Variables \ ProcessQueue : Turn(v)
    BY <1>4 DEF SkipVariable
  <2>2. /\ NextTurn /\ UNCHANGED <<posA, posB, arrayVars, output>>
    BY <1>4 DEF SkipVariable
  <2>3. /\ turn' \in 1..13
        /\ \A w \in Variables \ {v} : LoadsDone(w)' = LoadsDone(w)
        /\ phase = "hour"
    BY <2>1, <2>2, TurnTaken DEF IInv, Turn
  <2>4. TypeOK'
    BY <2>2, <2>3, OrderLengths DEF IInv, TypeOK, NextTurn, arrayVars
  <2>5. \A w \in TimeIntegrated : LoadsDone(w) \in Nat /\ LoadsDone(w)' \in Nat
    BY <1>1, <2>2, <2>3 DEF LoadsDone, NextTurn
  <2> QED BY <2>1, <2>2, <2>3, <2>4, <2>5, ArraysKept DEF Working, Variables
<1>5. CASE CloseInputs
  <2>1. /\ phase = "hour" /\ turn = 13 /\ UNCHANGED arrayVars
        /\ \/ forecastHour < LastStep /\ phase' = "open" /\ forecastHour' = forecastHour + 1
           \/ forecastHour = LastStep /\ phase' = "integrate" /\ forecastHour' = 0
        /\ turn' = 1
    BY <1>5, OrderLengths DEF CloseInputs, IInv, TypeOK
  <2>2. forecastHour' \in Steps
    BY <1>1, <2>1 DEF Steps
  <2>3. TypeOK'
    BY <1>5, <2>1, <2>2, OrderLengths DEF CloseInputs, IInv, TypeOK, fileVars, arrayVars
  <2>4. \A w \in TimeIntegrated : LoadsDone(w) = forecastHour + 1
                                  /\ LoadsDone(w)' = forecastHour + 1
    BY <1>1, <2>1 DEF LoadsDone
  <2> QED BY <1>1, <2>1, <2>3, <2>4, ArraysKept DEF Working
<1>6. CASE FreeData
  <2>1. /\ numberOfSavedRecords' = [v \in TimeIntegrated |-> 0]
        /\ resource' = [v \in TimeIntegrated |-> AllWild]
        /\ output' = {} /\ turn' = 1 /\ forecastHour' = forecastHour
        /\ UNCHANGED <<forecastHour, fileVars, allocated, runningSum>>
        /\ \/ ensembleMember < LastMember /\ ensembleMember' = ensembleMember + 1 /\ phase' = "open"
           \/ phase' = "done" /\ UNCHANGED ensembleMember
    BY <1>6 DEF FreeData, ResetCounts
  <2>2. AllWild \in [Steps -> Cell]
    BY <1>1 DEF Wild, AllWild, Cell, Steps, Holdings
  <2>3. ensembleMember' \in Members
    BY <2>1, MemberAssumption DEF Members, IInv, TypeOK
  <2>4. TypeOK'
    BY <1>1, <2>1, <2>2, <2>3, OrderLengths DEF IInv, TypeOK, fileVars
  <2>5. \A w \in TimeIntegrated : numberOfSavedRecords'[w] = 0
    BY <2>1
  <2>6. Working' => \A w \in TimeIntegrated : LoadsDone(w)' = forecastHour
    BY <2>1 DEF Working, LoadsDone
  <2> QED BY <1>1, <2>4, <2>5, <2>6 DEF IInv, CountsBounded, QueuedOnly
<1>7. CASE FreeCrashes
  <2>1. TypeOK'  BY <1>7 DEF FreeCrashes, Crash, IInv, TypeOK, fileVars, arrayVars
  <2> QED BY <1>7, <2>1, ArraysKept DEF FreeCrashes, Crash, Working
<1> QED BY <1>2, <1>3, <1>4, <1>5, <1>6, <1>7

(* The invariant holds at the start.                                       *)
LEMMA InitIInv == Init => IInv
<1> SUFFICES ASSUME Init PROVE IInv
  OBVIOUS
<1>1. Wild \in Cell /\ AllWild \in [Steps -> Cell]
  BY StepAssumption DEF Wild, AllWild, Cell, Steps, Holdings
<1>2. TypeOK
  BY <1>1, StepAssumption, MemberAssumption, OrderLengths DEF Init, TypeOK, Steps, Members
<1>3. CountsBounded /\ QueuedOnly
  BY DEF Init, CountsBounded, QueuedOnly, LoadsDone
<1> QED BY <1>2, <1>3 DEF IInv

(* Every step keeps it.                                                    *)
LEMMA NextKeepsIInv == IInv /\ [Next]_vars => IInv'
<1> SUFFICES ASSUME IInv, [Next]_vars PROVE IInv'
  OBVIOUS
<1>1. CASE UNCHANGED vars
  BY <1>1 DEF vars, loopVars, fileVars, arrayVars, IInv, TypeOK, CountsBounded,
              QueuedOnly, Working, LoadsDone
<1>2. CASE Next
  BY <1>2, MainStepKeepsIInv, LoadStep, LoadKeepsIInv, InstantStep, InstantKeepsIInv,
     IntegrateStep, IntegrationKeepsIInv, SkipIntegrationKeepsIInv DEF Next
<1> QED BY <1>1, <1>2

(* The inductive invariant: types, the counters bounded by the loads done, *)
(* and nothing kept for variables that are not on the list.                *)
THEOREM IInvHolds == Spec => []IInv
BY InitIInv, NextKeepsIInv, PTL DEF Spec

(* Every variable of the main loop keeps its type and no counter of saved  *)
(* records exceeds the number of steps, whatever the input files hold: the *)
(* arrays and bytesPerRecord are indexed within their bounds.              *)
THEOREM TypeCorrect == Spec => []TypeOK
<1>1. IInv => TypeOK  BY DEF IInv
<1> QED BY <1>1, IInvHolds, PTL
=============================================================================
