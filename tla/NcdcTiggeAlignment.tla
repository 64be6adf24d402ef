-------------------------- MODULE NcdcTiggeAlignment --------------------------
(***************************************************************************)
(* That the arrays, and the integrals made from them, stay aligned with    *)
(* the forecast steps: the safety properties of NcdcTigge proved for every *)
(* value of its constants, on top of the types and counts.                 *)
(***************************************************************************)
EXTENDS NcdcTiggeProofs

(* A load changes the array and the counter of its own variable only.      *)
LEMMA LoadFrame ==
  ASSUME IInv, NEW v, LoadAt(v)
  PROVE  /\ phase = "hour" /\ phase' = "hour" /\ forecastHour' = forecastHour
         /\ v \in TimeIntegrated \cap ProcessQueue
         /\ LoadsDone(v) = forecastHour /\ LoadsDone(v)' = forecastHour + 1
         /\ forecastHour \in 0..LastStep
         /\ numberOfSavedRecords[v] \in 0..forecastHour
         /\ \A w \in TimeIntegrated \ {v} :
              /\ LoadsDone(w)' = LoadsDone(w)
              /\ numberOfSavedRecords'[w] = numberOfSavedRecords[w]
              /\ allocated'[w] = allocated[w]
              /\ resource'[w] = resource[w]
<1>1. /\ v \in Variables /\ v \in TimeIntegrated \cap ProcessQueue
      /\ Turn(v) /\ NextTurn /\ LoadEffect(v)
      /\ phase = "hour" /\ phase' = "hour" /\ forecastHour' = forecastHour
  BY DEF LoadAt, Variables, Turn, NextTurn
<1>2. /\ LoadsDone(v) = forecastHour /\ LoadsDone(v)' = forecastHour + 1
      /\ \A w \in TimeIntegrated \ {v} : LoadsDone(w)' = LoadsDone(w)
  BY <1>1, TurnTaken DEF IInv, Variables
<1>3. /\ forecastHour \in 0..LastStep
      /\ numberOfSavedRecords[v] \in 0..(LastStep + 1)
      /\ numberOfSavedRecords[v] <= forecastHour
  BY <1>1, <1>2 DEF IInv, TypeOK, CountsBounded, Working, Steps
<1>4. \A w \in TimeIntegrated \ {v} :
        /\ numberOfSavedRecords'[w] = numberOfSavedRecords[w]
        /\ allocated'[w] = allocated[w]
        /\ resource'[w] = resource[w]
  BY <1>1 DEF LoadEffect, AddGribRecordToArray, LoseArray, IInv, TypeOK
<1> QED BY <1>1, <1>2, <1>3, <1>4, StepAssumption

(* Storing a record keeps the slots before it and fills the next one.      *)
LEMMA AddedSlots ==
  ASSUME IInv, NEW v, LoadAt(v), NEW h \in Holdings \ {"wild"},
         AddGribRecordToArray(v, Now(h))
  PROVE  /\ numberOfSavedRecords'[v] = numberOfSavedRecords[v] + 1
         /\ allocated'[v] = TRUE
         /\ resource'[v][numberOfSavedRecords[v]] = Now(h)
         /\ allocated[v] => \A i \in 0..(numberOfSavedRecords[v] - 1) :
              resource'[v][i] = resource[v][i]
<1>1. /\ v \in TimeIntegrated /\ forecastHour \in 0..LastStep
      /\ numberOfSavedRecords[v] \in 0..forecastHour
  BY LoadFrame
<1>2. /\ numberOfSavedRecords \in [TimeIntegrated -> 0..(LastStep + 1)]
      /\ allocated \in [TimeIntegrated -> BOOLEAN]
      /\ resource \in [TimeIntegrated -> [Steps -> Cell]]
      /\ LastStep \in Nat
  BY StepAssumption DEF IInv, TypeOK
<1>3. /\ numberOfSavedRecords'[v] = numberOfSavedRecords[v] + 1
      /\ allocated'[v] = TRUE
      /\ resource'[v] = [i \in Steps |->
           CASE i = numberOfSavedRecords[v]                -> Now(h)
             [] i < numberOfSavedRecords[v] /\ allocated[v] -> resource[v][i]
             [] OTHER                                       -> Wild]
  BY <1>1, <1>2 DEF AddGribRecordToArray
<1>4. numberOfSavedRecords[v] \in Steps
      /\ \A i \in 0..(numberOfSavedRecords[v] - 1) : i \in Steps /\ i < numberOfSavedRecords[v]
  BY <1>1, <1>2 DEF Steps
<1>5. resource'[v][numberOfSavedRecords[v]] = Now(h)
  <2> DEFINE n == numberOfSavedRecords[v]
  <2>1. n \in Steps  BY <1>4
  <2>2. resource'[v] = [i \in Steps |->
           CASE i = n -> Now(h) [] i < n /\ allocated[v] -> resource[v][i] [] OTHER -> Wild]
    BY <1>3
  <2> HIDE DEF n
  <2>3. resource'[v][n] = CASE n = n -> Now(h)
                            [] n < n /\ allocated[v] -> resource[v][n] [] OTHER -> Wild
    BY <2>1, <2>2
  <2>4. ~(n < n)  BY <2>1, <1>2 DEF Steps
  <2>5. resource'[v][n] = Now(h)  BY <2>3, <2>4
  <2> QED BY <2>5 DEF n
<1>6. ASSUME allocated[v], NEW i \in 0..(numberOfSavedRecords[v] - 1)
      PROVE  resource'[v][i] = resource[v][i]
  <2>1. i \in Steps /\ i < numberOfSavedRecords[v] /\ i # numberOfSavedRecords[v]
    BY <1>1, <1>4
  <2> QED BY <1>3, <1>6, <2>1
<1> QED BY <1>3, <1>5, <1>6

-------------------------------------------------------------------------------
(* Arrays.                                                                 *)

Aligned(v) ==
  Working /\ NothingLost(v) =>
    \A i \in FreedSlots(v) : /\ allocated[v]
                             /\ resource[v][i].step = i
                             /\ resource[v][i].holds # "wild"

(* ArraysAligned says it of each variable.                                 *)
LEMMA AlignedArrays == ArraysAligned <=> \A v \in TimeIntegrated \cap ProcessQueue : Aligned(v)
BY DEF ArraysAligned, Aligned, Working

(* A load keeps the alignment of every variable.                           *)
LEMMA LoadKeepsAligned ==
  ASSUME IInv, NEW v, LoadAt(v), ArraysAligned
  PROVE  ArraysAligned'
<1>1. ASSUME NEW w \in (TimeIntegrated \cap ProcessQueue) \ {v}
      PROVE  Aligned(w)'
  BY <1>1, LoadFrame, AlignedArrays DEF Aligned, Working, NothingLost, FreedSlots
<1>2. Aligned(v)'
  <2> SUFFICES ASSUME NothingLost(v)', NEW i \in FreedSlots(v)'
               PROVE  /\ allocated'[v]
                      /\ resource'[v][i].step = i
                      /\ resource'[v][i].holds # "wild"
    BY DEF Aligned
  <2>1. /\ phase = "hour" /\ v \in TimeIntegrated \cap ProcessQueue
        /\ LoadsDone(v) = forecastHour /\ LoadsDone(v)' = forecastHour + 1
        /\ forecastHour \in 0..LastStep
        /\ numberOfSavedRecords[v] \in 0..forecastHour
        /\ numberOfSavedRecords'[v] = forecastHour + 1
    BY LoadFrame DEF NothingLost
  <2>2. ~LoseArray(v)
    BY <2>1 DEF LoseArray
  <2>3. PICK h \in Holdings \ {"wild"} : AddGribRecordToArray(v, Now(h))
    BY <2>2 DEF LoadAt, LoadEffect
  <2>4. /\ numberOfSavedRecords'[v] = numberOfSavedRecords[v] + 1
        /\ allocated'[v] = TRUE
        /\ resource'[v][numberOfSavedRecords[v]] = Now(h)
    BY <2>3, AddedSlots
  <2>5. numberOfSavedRecords[v] = forecastHour /\ NothingLost(v)
    BY <2>1, <2>4 DEF NothingLost
  <2>6. i \in 0..forecastHour
    BY <2>1 DEF FreedSlots
  <2>7. CASE i = forecastHour
    BY <2>5, <2>7, <2>4 DEF Now
  <2>8. CASE i # forecastHour
    <3>1. i \in FreedSlots(v)  BY <2>1, <2>5, <2>6, <2>8 DEF FreedSlots
    <3>2. /\ allocated[v]
          /\ resource[v][i].step = i
          /\ resource[v][i].holds # "wild"
      BY <2>1, <2>5, <3>1, AlignedArrays DEF Aligned, Working
    <3>3. resource'[v][i] = resource[v][i]
      BY <2>3, <3>1, <3>2, AddedSlots DEF FreedSlots
    <3> QED BY <2>4, <3>2, <3>3
  <2> QED BY <2>7, <2>8
<1> QED BY <1>1, <1>2 DEF ArraysAligned, Aligned, Working

(* A step that leaves the arrays alone and is no load.                     *)
Quiet ==
  /\ UNCHANGED arrayVars
  /\ Working' => /\ Working
                 /\ \A w \in TimeIntegrated \cap ProcessQueue : LoadsDone(w)' = LoadsDone(w)

(* Where an integration step leaves the program.                           *)
LEMMA IntegratePhase ==
  ASSUME IInv, Integrate
  PROVE  /\ UNCHANGED arrayVars
         /\ phase = "integrate" /\ phase' \in {"integrate", "crash"}
BY IntegrateStep DEF SkipIntegration, IntegrationAt, IntegrationTurn, Accumulate,
   PassOver, NextSlot, Crash

(* The steps that touch neither arrays nor counters.                       *)
LEMMA QuietSteps ==
  ASSUME IInv,
         \/ OpenInputs \/ OpenFails \/ SkipVariable \/ CloseInputs \/ FreeCrashes
         \/ GenerateInstant \/ Integrate
  PROVE  Quiet
<1>1. CASE OpenInputs
  <2>1. /\ phase = "open" /\ phase' = "hour" /\ turn' = 1 /\ forecastHour' = forecastHour
        /\ UNCHANGED arrayVars /\ forecastHour \in 0..LastStep
    BY <1>1 DEF OpenInputs, IInv, TypeOK, Steps
  <2>2. \A w \in TimeIntegrated : LoadsDone(w) = forecastHour /\ LoadsDone(w)' = forecastHour
    BY <2>1, PositionIsPlace, StepAssumption DEF LoadsDone, Variables
  <2> QED BY <2>1, <2>2 DEF Quiet, Working
<1>2. CASE OpenFails \/ FreeCrashes
  BY <1>2 DEF OpenFails, FreeCrashes, Crash, Quiet, Working
<1>3. CASE SkipVariable
  <2>1. PICK v \in Variables \ ProcessQueue : Turn(v)
    BY <1>3 DEF SkipVariable
  <2>2. NextTurn /\ UNCHANGED arrayVars /\ phase = "hour" /\ phase' = "hour"
    BY <1>3, <2>1 DEF SkipVariable, Turn, NextTurn
  <2>3. \A w \in Variables \ {v} : LoadsDone(w)' = LoadsDone(w)
    BY <2>1, <2>2, TurnTaken DEF IInv
  <2> QED BY <2>1, <2>2, <2>3 DEF Quiet, Working, Variables
<1>4. CASE CloseInputs
  <2>1. /\ phase = "hour" /\ turn = 13 /\ UNCHANGED arrayVars
        /\ forecastHour \in 0..LastStep /\ LastStep \in Nat
        /\ \/ forecastHour < LastStep /\ phase' = "open" /\ forecastHour' = forecastHour + 1
           \/ forecastHour = LastStep /\ phase' = "integrate"
    BY <1>4, OrderLengths, StepAssumption DEF CloseInputs, IInv, TypeOK, Steps
  <2>2. \A w \in TimeIntegrated : /\ LoadsDone(w) = forecastHour + 1
                                  /\ LoadsDone(w)' = forecastHour + 1
    BY <2>1, PositionIsPlace DEF LoadsDone, Variables
  <2> QED BY <2>1, <2>2 DEF Quiet, Working
<1>5. CASE GenerateInstant
  <2>1. PICK v : InstantAt(v)
    BY <1>5, InstantStep
  <2>2. /\ v \in Variables /\ v \notin TimeIntegrated
        /\ Turn(v) /\ NextTurn /\ UNCHANGED arrayVars
    BY <2>1 DEF InstantAt, Generate, Variables, Instant, TimeIntegrated
  <2>3. \A w \in TimeIntegrated : LoadsDone(w)' = LoadsDone(w)
    BY <2>2, TurnTaken DEF IInv, Variables
  <2> QED BY <2>2, <2>3 DEF Quiet, Working, Turn
<1>6. CASE Integrate
  <2>1. /\ UNCHANGED arrayVars /\ phase = "integrate" /\ phase' \in {"integrate", "crash"}
    BY <1>6, IntegratePhase
  <2>2. phase' = "integrate" => \A w : LoadsDone(w) = LastStep + 1 /\ LoadsDone(w)' = LastStep + 1
    BY <2>1 DEF LoadsDone
  <2> QED BY <2>1, <2>2 DEF Quiet, Working
<1> QED BY <1>1, <1>2, <1>3, <1>4, <1>5, <1>6

(* Those steps keep the alignment.                                         *)
LEMMA QuietKeepsAligned ==
  ASSUME Quiet, ArraysAligned
  PROVE  ArraysAligned'
BY AlignedArrays DEF Quiet, ArraysAligned, Aligned, Working, NothingLost, FreedSlots, arrayVars

(* Freeing leaves no counted slot behind.                                  *)
LEMMA FreeDataClears ==
  ASSUME IInv, FreeData
  PROVE  /\ phase = "integrate" /\ phase' \in {"open", "done"}
         /\ forecastHour' = forecastHour /\ output' = {} /\ runningSum' = runningSum
         /\ \A w \in TimeIntegrated : numberOfSavedRecords'[w] = 0
         /\ \A w \in TimeIntegrated : FreedSlots(w)' = {}
<1>1. \A w \in TimeIntegrated : numberOfSavedRecords'[w] = 0
  BY DEF FreeData, ResetCounts
<1>2. \A w \in TimeIntegrated : FreedSlots(w)' = {}
  BY <1>1 DEF FreedSlots
<1> QED BY <1>1, <1>2 DEF FreeData

(* Every step keeps the alignment.                                         *)
LEMMA NextKeepsAligned == IInv /\ ArraysAligned /\ [Next]_vars => ArraysAligned'
<1> SUFFICES ASSUME IInv, ArraysAligned, [Next]_vars PROVE ArraysAligned'
  OBVIOUS
<1>1. CASE UNCHANGED vars
  BY <1>1 DEF vars, loopVars, arrayVars, ArraysAligned, NothingLost, FreedSlots, LoadsDone
<1>2. CASE Load
  BY <1>2, LoadStep, LoadKeepsAligned
<1>3. CASE FreeData
  BY <1>3, FreeDataClears DEF ArraysAligned
<1>4. CASE Next /\ ~Load /\ ~FreeData
  BY <1>4, QuietSteps, QuietKeepsAligned DEF Next
<1> QED BY <1>1, <1>2, <1>3, <1>4

(* Whatever the files of this member and of the members before it held:    *)
(* as long as no load of a variable failed, slot i of its array holds the  *)
(* record of step i.                                                       *)
THEOREM ArraysStayAligned == Spec => []ArraysAligned
<1>1. Init => ArraysAligned
  BY DEF Init, ArraysAligned, FreedSlots
<1> QED BY <1>1, NextKeepsAligned, IInvHolds, PTL DEF Spec

-------------------------------------------------------------------------------
(* The first step and crashes.                                             *)

(* No step takes away a record of step 0 while step 0 lasts.               *)
LEMMA NextKeepsFirstStep == IInv /\ FirstStepNeverLost /\ [Next]_vars => FirstStepNeverLost'
<1> SUFFICES ASSUME IInv, FirstStepNeverLost, [Next]_vars,
                    NEW w \in TimeIntegrated \cap ProcessQueue,
                    phase' = "hour", forecastHour' = 0, turn' > Position(w)
             PROVE  allocated'[w] /\ numberOfSavedRecords'[w] = 1
  BY DEF FirstStepNeverLost
<1> w \in Variables  BY DEF Variables
<1>1. CASE UNCHANGED vars
  BY <1>1 DEF vars, loopVars, arrayVars, FirstStepNeverLost
<1>2. ASSUME NEW v \in Variables, v # w, Turn(v), NextTurn
      PROVE  allocated[w] /\ numberOfSavedRecords[w] = 1
  <2>1. /\ turn \in 1..12 /\ turn' = turn + 1 /\ LoadOrder[turn] = v
        /\ phase = "hour" /\ forecastHour = 0
    BY <1>2, TurnTaken DEF IInv, Turn, NextTurn
  <2>2. turn > Position(w)
    BY <1>2, <2>1, PositionIsPlace
  <2> QED BY <2>1, <2>2 DEF FirstStepNeverLost
<1>3. CASE Load
  <2>1. PICK v : LoadAt(v)  BY <1>3, LoadStep
  <2>2. CASE v = w
    <3>1. forecastHour = 0 /\ numberOfSavedRecords[v] = 0
      BY <2>1, LoadFrame
    <3>2. PICK h \in Holdings \ {"wild"} : AddGribRecordToArray(v, Now(h))
      BY <2>1, <3>1 DEF LoadAt, LoadEffect
    <3>3. allocated'[v] = TRUE /\ numberOfSavedRecords'[v] = numberOfSavedRecords[v] + 1
      BY <2>1, <3>2, AddedSlots
    <3> QED BY <2>2, <3>1, <3>3
  <2>3. CASE v # w
    BY <1>2, <2>1, <2>3, LoadFrame DEF LoadAt, Variables
  <2> QED BY <2>2, <2>3
<1>4. CASE GenerateInstant
  <2>1. PICK v : InstantAt(v)  BY <1>4, InstantStep
  <2>2. /\ v \in Variables /\ v # w /\ Turn(v) /\ NextTurn /\ UNCHANGED arrayVars
    BY <2>1 DEF InstantAt, Generate, Variables, Instant, TimeIntegrated
  <2> QED BY <1>2, <2>2 DEF arrayVars
<1>5. CASE SkipVariable
  <2>1. PICK v \in Variables \ ProcessQueue : Turn(v)
    BY <1>5 DEF SkipVariable
  <2> QED BY <1>2, <1>5, <2>1 DEF SkipVariable, arrayVars
<1>6. CASE OpenInputs
  BY <1>6, PositionIsPlace DEF OpenInputs
<1>7. CASE Integrate
  BY <1>7, IntegratePhase
<1>8. CASE OpenFails \/ CloseInputs \/ FreeData \/ FreeCrashes
  BY <1>8, FreeDataClears DEF OpenFails, CloseInputs, FreeCrashes, Crash
<1> QED BY <1>1, <1>3, <1>4, <1>5, <1>6, <1>7, <1>8 DEF Next

(* Nothing is lost at step 0: the fluxes of the analysis are replaced by   *)
(* blank records, tp and sf by zeros.                                      *)
THEOREM FirstStepKept == Spec => []FirstStepNeverLost
<1>1. Init => FirstStepNeverLost
  BY DEF Init, FirstStepNeverLost
<1> QED BY <1>1, NextKeepsFirstStep, IInvHolds, PTL DEF Spec

(* A step that crashes finds a lost record.                                *)
LEMMA NextKeepsCrashNeedsLoss ==
  IInv /\ ArraysAligned /\ CrashNeedsLoss /\ [Next]_vars => CrashNeedsLoss'
<1> SUFFICES ASSUME IInv, ArraysAligned, CrashNeedsLoss, [Next]_vars, phase' = "crash"
             PROVE  \E v \in TimeIntegrated \cap ProcessQueue :
                      numberOfSavedRecords'[v] < LastStep + 1
  BY DEF CrashNeedsLoss
<1>1. ASSUME NEW v \in TimeIntegrated, NEW i \in FreedSlots(v), phase = "integrate",
             allocated[v] => resource[v][i].holds = "wild"
      PROVE  v \in ProcessQueue /\ numberOfSavedRecords[v] < LastStep + 1
  <2>1. LastStep \in Nat /\ numberOfSavedRecords[v] \in 0..(LastStep + 1)
    BY StepAssumption DEF IInv, TypeOK
  <2>2. v \in ProcessQueue
    BY <1>1, <2>1 DEF IInv, QueuedOnly, FreedSlots
  <2>3. ~NothingLost(v)
    BY <1>1, <2>2, AlignedArrays DEF Aligned, Working
  <2>4. LoadsDone(v) = LastStep + 1
    BY <1>1 DEF LoadsDone
  <2> QED BY <2>1, <2>2, <2>3, <2>4 DEF NothingLost
<1>2. CASE UNCHANGED vars
  BY <1>2 DEF vars, loopVars, arrayVars, CrashNeedsLoss
<1>3. CASE Integrate
  <2>1. PICK v : IntegrationAt(v) /\ Crash
    BY <1>3, IntegrateStep DEF SkipIntegration, IntegrationAt, Accumulate, PassOver, NextSlot,
       IntegrationTurn
  <2>2. /\ v \in TimeIntegrated \cap ProcessQueue /\ phase = "integrate"
        /\ allocated[v] => resource[v][forecastHour].holds = "wild"
        /\ numberOfSavedRecords' = numberOfSavedRecords
    BY <2>1 DEF IntegrationAt, IntegrationTurn, Accumulate, PassOver, NextSlot, WildSlot,
       Crash, arrayVars
  <2>3. CASE forecastHour \in FreedSlots(v)
    BY <1>1, <2>2, <2>3
  <2>4. CASE forecastHour \notin FreedSlots(v)
    BY <2>2, <2>4, StepAssumption DEF FreedSlots, IInv, TypeOK, Steps
  <2> QED BY <2>2, <2>3, <2>4
<1>4. CASE FreeCrashes
  BY <1>1, <1>4 DEF FreeCrashes, Crash, arrayVars
<1>5. CASE Load
  BY <1>5, LoadStep, LoadFrame
<1>6. CASE GenerateInstant
  BY <1>6, InstantStep DEF InstantAt, Generate, NextTurn, Turn
<1>7. CASE OpenInputs \/ OpenFails \/ SkipVariable \/ CloseInputs \/ FreeData
  BY <1>7 DEF OpenInputs, OpenFails, SkipVariable, NextTurn, Turn, CloseInputs, FreeData
<1> QED BY <1>2, <1>3, <1>4, <1>5, <1>6, <1>7 DEF Next

(* The generators and freeDataForVariable() follow pointers without a      *)
(* check; that ends in a crash only in a member that lost a record.        *)
THEOREM CrashesNeedLoss == Spec => []CrashNeedsLoss
<1>1. Init => CrashNeedsLoss
  BY DEF Init, CrashNeedsLoss
<1> QED BY <1>1, NextKeepsCrashNeedsLoss, ArraysStayAligned, IInvHolds, PTL DEF Spec

-------------------------------------------------------------------------------
(* The files written.                                                      *)

(* While a member is read only instant variables are written, each in its  *)
(* own turn of a step, and no sum is begun.                                *)
WrittenBefore ==
  /\ phase \in {"open", "hour"} => runningSum = <<>>
  /\ phase = "open" => \A o \in output : o.var \in Instant /\ o.step < forecastHour
  /\ phase = "hour" =>
       \A o \in output :
         /\ o.var \in Instant
         /\ o.step <= forecastHour
         /\ o.step = forecastHour => turn > Position(o.var)

(* While a variable is integrated the sum has the records of the steps     *)
(* before, but for step 0; between two variables it is empty.              *)
SumAligned(v) ==
  IntegrationTurn(v) /\ NothingLost(v) /\ forecastHour > 0 =>
    /\ Len(runningSum) = forecastHour - 1
    /\ \A j \in 1..(forecastHour - 1) : runningSum[j].step = j

SumsAligned ==
  phase = "integrate" =>
    /\ forecastHour = 0 => runningSum = <<>>
    /\ forecastHour # 0 => \E v \in ProcessQueue : IntegrationTurn(v)
    /\ \A v \in TimeIntegrated \cap ProcessQueue : SumAligned(v)

OutputInv == WrittenBefore /\ SumsAligned /\ OutputAligned

(* A turn of a step in which main() reads.                                 *)
LEMMA TurnKeepsOutputInv ==
  ASSUME IInv, OutputInv, NEW v \in Variables, Turn(v), NextTurn,
         \/ UNCHANGED output
         \/ v \in Instant /\ \E h \in Holdings : WriteInstant(v, h)
  PROVE  OutputInv'
<1>1. /\ phase = "hour" /\ phase' = "hour" /\ forecastHour' = forecastHour
      /\ runningSum' = runningSum /\ forecastHour \in Nat
      /\ turn \in 1..12 /\ turn' = turn + 1 /\ turn = Position(v)
  <2>1. turn \in 1..12 /\ turn' = turn + 1 /\ LoadOrder[turn] = v /\ phase = "hour"
    BY TurnTaken DEF IInv, Turn, NextTurn
  <2>2. turn = Position(v)
    BY <2>1, PositionIsPlace
  <2> QED BY <2>1, <2>2, StepAssumption DEF IInv, TypeOK, Steps, NextTurn
<1>2. \A w \in Variables : Position(w) \in 1..12
  BY PositionIsPlace
<1>3. \A o \in output : /\ o.var \in Instant /\ o.step \in Nat /\ o.step <= forecastHour
                        /\ o.step = forecastHour => turn > Position(o.var)
  BY <1>1 DEF OutputInv, WrittenBefore, IInv, TypeOK, Steps
<1>4. \A o \in output' : /\ o.var \in Instant /\ o.step <= forecastHour
                         /\ o.step = forecastHour => turn + 1 > Position(o.var)
  <2>1. CASE UNCHANGED output
    BY <1>1, <1>2, <1>3, <2>1 DEF Variables
  <2>2. ASSUME v \in Instant, NEW h \in Holdings, WriteInstant(v, h)  PROVE <1>4
    <3> DEFINE file == [var |-> v, step |-> forecastHour, fields |-> <<Now(h)>>]
    <3>1. file.var = v /\ file.step = forecastHour /\ output' = output \cup {file}
      BY <2>2 DEF WriteInstant
    <3> HIDE DEF file
    <3>2. \A o \in output : o.var \in Instant /\ o.step <= forecastHour
                            /\ (o.step = forecastHour => turn + 1 > Position(o.var))
      BY <1>1, <1>2, <1>3 DEF Variables
    <3>3. file.var \in Instant /\ file.step <= forecastHour /\ turn + 1 > Position(file.var)
      BY <1>1, <2>2, <3>1
    <3> QED BY <3>1, <3>2, <3>3
  <2> QED BY <2>1, <2>2
<1>5. WrittenBefore'
  BY <1>1, <1>4 DEF OutputInv, WrittenBefore, Position
<1> QED BY <1>1, <1>5 DEF OutputInv, SumsAligned, OutputAligned

(* In the order of the integrations every place has one variable.          *)
LEMMA IntegrationPlace ==
  /\ \A i \in 1..7 : IntegrationOrder[i] \in TimeIntegrated
  /\ \A v, w : IntegrationTurn(v) /\ IntegrationTurn(w) => v = w
<1>1. \A i \in 1..7 : IntegrationOrder[i] \in TimeIntegrated
  BY DEF IntegrationOrder, TimeIntegrated
<1> QED BY <1>1 DEF IntegrationTurn

(* What one slot adds to the sum, and the sum that is written.             *)
LEMMA SumWithAligned ==
  ASSUME IInv, ArraysAligned, OutputInv, NEW v \in TimeIntegrated \cap ProcessQueue,
         IntegrationTurn(v), NothingLost(v)
  PROVE  /\ Len(SumWith(v)) = forecastHour
         /\ \A j \in 1..forecastHour : SumWith(v)[j].step = j
         /\ ~WildSlot(v)
<1>1. phase = "integrate" /\ forecastHour \in 0..LastStep /\ LastStep \in Nat
      /\ runningSum \in Seq(Cell)
  BY StepAssumption DEF IntegrationTurn, IInv, TypeOK, Steps
<1>2. resource[v][forecastHour].step = forecastHour /\ resource[v][forecastHour].holds # "wild"
  <2>1. numberOfSavedRecords[v] = LastStep + 1
    BY <1>1 DEF NothingLost, LoadsDone
  <2>2. forecastHour \in FreedSlots(v)
    BY <1>1, <2>1 DEF FreedSlots
  <2> QED BY <1>1, <2>2 DEF ArraysAligned
<1>3. CASE forecastHour = 0
  BY <1>2, <1>3 DEF SumWith, WildSlot
<1>4. CASE forecastHour # 0
  <2> DEFINE cell == resource[v][forecastHour]
  <2>1. /\ Len(runningSum) = forecastHour - 1
        /\ \A j \in 1..(forecastHour - 1) : runningSum[j].step = j
    BY <1>1, <1>4 DEF OutputInv, SumsAligned, SumAligned
  <2>2. SumWith(v) = Append(runningSum, cell)
    BY <1>4 DEF SumWith
  <2>3. cell.step = forecastHour /\ cell \in Cell
    BY <1>1, <1>2 DEF IInv, TypeOK, Steps
  <2> HIDE DEF cell
  <2>4. Len(SumWith(v)) = forecastHour
    BY <1>1, <2>1, <2>2, <2>3
  <2>5. \A j \in 1..forecastHour : SumWith(v)[j] = IF j = forecastHour THEN cell ELSE runningSum[j]
    BY <1>1, <2>1, <2>2, <2>3
  <2>6. \A j \in 1..forecastHour : SumWith(v)[j].step = j
    BY <1>1, <2>1, <2>3, <2>5
  <2> QED BY <1>2, <2>4, <2>6 DEF WildSlot
<1> QED BY <1>3, <1>4

(* A generator goes on to the next slot.                                   *)
LEMMA IntegrationKeepsOutputInv ==
  ASSUME IInv, ArraysAligned, OutputInv, NEW v, IntegrationAt(v)
  PROVE  OutputInv'
<1>1. /\ phase = "integrate" /\ forecastHour \in 0..LastStep /\ LastStep \in Nat
      /\ LastStep # 0 /\ turn \in 1..7 /\ v \in TimeIntegrated \cap ProcessQueue
      /\ IntegrationTurn(v)
  BY StepAssumption, OrderLengths DEF IntegrationAt, IntegrationTurn, IInv, TypeOK, Steps
<1>2. CASE Crash
  BY <1>2 DEF Crash, OutputInv, WrittenBefore, SumsAligned, OutputAligned
<1>3. CASE NextSlot /\ (Accumulate(v) \/ (PassOver /\ WildSlot(v)))
  <2>1. /\ phase' = "integrate" /\ UNCHANGED arrayVars
        /\ \/ forecastHour < LastStep /\ forecastHour' = forecastHour + 1 /\ turn' = turn
           \/ forecastHour = LastStep /\ forecastHour' = 0 /\ turn' = turn + 1
    BY <1>1, <1>3 DEF NextSlot
  <2>2. \A w \in TimeIntegrated : NothingLost(w)' <=> NothingLost(w)
    BY <1>1, <2>1 DEF NothingLost, LoadsDone, arrayVars
  <2>3. runningSum' = IF forecastHour = LastStep THEN <<>>
                      ELSE IF Accumulate(v) THEN SumWith(v) ELSE runningSum
    BY <1>3 DEF Accumulate, PassOver, SumWith
  <2>4. forecastHour' = 0 => runningSum' = <<>>
    BY <1>1, <2>1, <2>3
  <2>5. forecastHour' # 0 => turn' = turn /\ IntegrationTurn(v)'
    BY <1>1, <2>1 DEF IntegrationTurn
  <2>6. ASSUME NEW w \in TimeIntegrated \cap ProcessQueue  PROVE SumAligned(w)'
    <3> SUFFICES ASSUME IntegrationTurn(w)', NothingLost(w)', forecastHour' > 0
                 PROVE  /\ Len(runningSum') = forecastHour' - 1
                        /\ \A j \in 1..(forecastHour' - 1) : runningSum'[j].step = j
      BY DEF SumAligned
    <3>1. w = v /\ NothingLost(v) /\ forecastHour' = forecastHour + 1 /\ forecastHour # LastStep
      BY <1>1, <2>1, <2>2, <2>5 DEF IntegrationTurn
    <3>2. /\ Len(SumWith(v)) = forecastHour /\ ~WildSlot(v)
          /\ \A j \in 1..forecastHour : SumWith(v)[j].step = j
      BY <1>1, <3>1, SumWithAligned
    <3>3. runningSum' = SumWith(v)
      BY <1>3, <2>3, <3>1, <3>2
    <3> QED BY <1>1, <3>1, <3>2, <3>3
  <2>7. SumsAligned'
    BY <1>1, <2>4, <2>5, <2>6 DEF SumsAligned
  <2>8. OutputAligned'
    <3>1. \A o \in output : o.var \in TimeIntegrated /\ NothingLost(o.var)' =>
            Len(o.fields) = o.step /\ \A j \in 1..o.step : o.fields[j].step = j
      BY <1>1, <2>2 DEF OutputInv, OutputAligned
    <3>2. CASE PassOver
      BY <3>1, <3>2 DEF PassOver, OutputAligned
    <3>3. CASE Accumulate(v)
      <4>1. /\ output' = output \cup {SumFile(v)} /\ SumFile(v).var = v
            /\ SumFile(v).step = forecastHour /\ SumFile(v).fields = SumWith(v)
        BY <1>1, <3>3, AccumulateType
      <4>2. NothingLost(v)' => Len(SumWith(v)) = forecastHour
                               /\ \A j \in 1..forecastHour : SumWith(v)[j].step = j
        BY <1>1, <2>2, SumWithAligned
      <4>3. \A o \in output' : o.var \in TimeIntegrated /\ NothingLost(o.var)' =>
              Len(o.fields) = o.step /\ \A j \in 1..o.step : o.fields[j].step = j
        BY <3>1, <4>1, <4>2
      <4> QED BY <4>3 DEF OutputAligned
    <3> QED BY <1>3, <3>2, <3>3
  <2> QED BY <2>1, <2>7, <2>8 DEF OutputInv, WrittenBefore
<1> QED BY <1>2, <1>3 DEF IntegrationAt, Accumulate, PassOver

(* Every step keeps what was written aligned.                              *)
LEMMA NextKeepsOutputInv ==
  IInv /\ ArraysAligned /\ OutputInv /\ [Next]_vars => OutputInv'
<1> SUFFICES ASSUME IInv, ArraysAligned, OutputInv, [Next]_vars  PROVE OutputInv'
  OBVIOUS
<1>1. CASE UNCHANGED vars
  BY <1>1 DEF vars, loopVars, arrayVars, OutputInv, WrittenBefore, SumsAligned, SumAligned,
              OutputAligned, IntegrationTurn, NothingLost, LoadsDone, Position
<1>2. CASE OpenInputs
  <2>1. /\ phase = "open" /\ phase' = "hour" /\ turn' = 1 /\ forecastHour' = forecastHour
        /\ UNCHANGED <<runningSum, output>> /\ forecastHour \in Nat
    BY <1>2, StepAssumption DEF OpenInputs, IInv, TypeOK, Steps
  <2>2. \A o \in output : o.var \in Instant /\ o.step <= forecastHour /\ o.step # forecastHour
    BY <2>1 DEF OutputInv, WrittenBefore, IInv, TypeOK, Steps
  <2> QED BY <2>1, <2>2 DEF OutputInv, WrittenBefore, SumsAligned, OutputAligned
<1>3. CASE OpenFails \/ FreeCrashes
  BY <1>3 DEF OpenFails, FreeCrashes, Crash, OutputInv, WrittenBefore, SumsAligned, OutputAligned
<1>4. CASE SkipVariable
  BY <1>4, TurnKeepsOutputInv DEF SkipVariable
<1>5. CASE Load
  <2>1. PICK v : LoadAt(v)
    BY <1>5, LoadStep
  <2> QED BY <2>1, TurnKeepsOutputInv DEF LoadAt, Variables
<1>6. CASE GenerateInstant
  <2>1. PICK v : InstantAt(v)
    BY <1>6, InstantStep
  <2> QED BY <2>1, TurnKeepsOutputInv DEF InstantAt, Generate, Variables
<1>7. CASE CloseInputs
  <2>1. /\ phase = "hour" /\ UNCHANGED <<runningSum, output>> /\ forecastHour \in Nat
        /\ \/ phase' = "open" /\ forecastHour' = forecastHour + 1
           \/ phase' = "integrate" /\ forecastHour' = 0
    BY <1>7, StepAssumption DEF CloseInputs, IInv, TypeOK, Steps
  <2>2. runningSum = <<>> /\ \A o \in output : o.var \in Instant /\ o.step < forecastHour + 1
    BY <2>1 DEF OutputInv, WrittenBefore, IInv, TypeOK, Steps
  <2>3. \A o \in output : o.var \notin TimeIntegrated
    BY <2>2 DEF Instant, TimeIntegrated
  <2> QED BY <2>1, <2>2, <2>3 DEF OutputInv, WrittenBefore, SumsAligned, SumAligned, OutputAligned
<1>8. CASE Integrate
  <2>1. CASE SkipIntegration
    <3>1. PICK v \in TimeIntegrated \ ProcessQueue : IntegrationTurn(v)
      BY <2>1 DEF SkipIntegration
    <3>2. phase = "integrate" /\ forecastHour = 0 /\ runningSum = <<>>
      BY <3>1, IntegrationPlace DEF OutputInv, SumsAligned, IntegrationTurn
    <3> QED BY <2>1, <3>2 DEF SkipIntegration, OutputInv, WrittenBefore, SumsAligned, SumAligned,
                OutputAligned, NothingLost, LoadsDone, arrayVars
  <2>2. CASE \E v : IntegrationAt(v)
    BY <2>2, IntegrationKeepsOutputInv
  <2> QED BY <1>8, <2>1, <2>2, IntegrateStep
<1>9. CASE FreeData
  <2>1. forecastHour = 0 /\ runningSum = <<>>
    <3>1. phase = "integrate" /\ turn > 7 /\ turn \in Nat
      BY <1>9, OrderLengths DEF FreeData, IInv, TypeOK
    <3>2. \A v : ~IntegrationTurn(v)
      BY <3>1, OrderLengths DEF IntegrationTurn
    <3> QED BY <3>1, <3>2 DEF OutputInv, SumsAligned
  <2> QED BY <1>9, <2>1, FreeDataClears DEF OutputInv, WrittenBefore, SumsAligned, OutputAligned
<1> QED BY <1>1, <1>2, <1>3, <1>4, <1>5, <1>6, <1>7, <1>8, <1>9 DEF Next

(* A written integral adds up exactly the steps up to its own, each once   *)
(* and step 0 never, if none of the variable's records was lost.           *)
THEOREM OutputStaysAligned == Spec => []OutputAligned
<1>1. Init => OutputInv
  BY DEF Init, OutputInv, WrittenBefore, SumsAligned, OutputAligned
<1>2. OutputInv => OutputAligned
  BY DEF OutputInv
<1> QED BY <1>1, <1>2, NextKeepsOutputInv, ArraysStayAligned, IInvHolds, PTL DEF Spec

-------------------------------------------------------------------------------
(* The file positions.                                                     *)

(* A reader that got its records leaves both files as it found them, or at *)
(* their top.                                                              *)
AtTop == posA' = 0 /\ posB' \in {0, posB}

(* A load that does not lose its array rewinds.                            *)
LEMMA LoadRewinds ==
  ASSUME IInv, Load
  PROVE  \E v : LoadAt(v) /\ (LoseArray(v) \/ AtTop)
<1>1. {"ttr", "slhf", "sshf", "ssr", "str", "tp", "sf"} \subseteq TimeIntegrated
  BY DEF TimeIntegrated
<1>2. ASSUME NEW v \in TimeIntegrated, NEW kind, LoadOne(v, kind)
      PROVE  LoadAt(v) /\ (LoseArray(v) \/ AtTop)
  BY <1>2, LoadOneIsLoad DEF LoadOne, Rewind, AtTop
<1>3. ASSUME NEW v \in TimeIntegrated, NEW down, NEW up, LoadNet(v, down, up)
      PROVE  LoadAt(v) /\ (LoseArray(v) \/ AtTop)
  BY <1>3, LoadNetIsLoad DEF LoadNet, Rewind, AtTop
<1>4. LoadTP => LoadAt("tp") /\ (LoseArray("tp") \/ AtTop)
  BY LoadTPIsLoad DEF LoadTP, AtTop
<1>5. LoadSF => LoadAt("sf") /\ AtTop
  BY LoadSFIsLoad DEF LoadSF, Rewind, AtTop
<1>6. CASE LoadTTR \/ LoadSLHF \/ LoadSSHF
  BY <1>1, <1>2, <1>6 DEF LoadTTR, LoadSLHF, LoadSSHF
<1>7. CASE LoadSSR \/ LoadSTR
  BY <1>1, <1>3, <1>7 DEF LoadSSR, LoadSTR
<1>8. CASE LoadTP \/ LoadSF
  BY <1>4, <1>5, <1>8
<1> QED BY <1>6, <1>7, <1>8 DEF Load

(* A generator that writes its file rewinds.                               *)
LEMMA InstantRewinds ==
  ASSUME IInv, GenerateInstant
  PROVE  \E v : InstantAt(v) /\ (UNCHANGED output \/ AtTop)
<1>1. GenerateSF6 => InstantAt("sf6") /\ (UNCHANGED output \/ AtTop)
  BY GenerateSF6IsInstant DEF GenerateSF6, AtTop
<1>2. GenerateTCW => InstantAt("tcw") /\ (UNCHANGED output \/ AtTop)
  BY GenerateTCWIsInstant DEF GenerateTCW, Rewind, AtTop
<1>3. GeneratePT => InstantAt("pt") /\ (UNCHANGED output \/ AtTop)
  BY GeneratePTIsInstant DEF GeneratePT, Rewind, AtTop
<1>4. GenerateSM => InstantAt("sm") /\ (UNCHANGED output \/ AtTop)
  BY GenerateSMIsInstant DEF GenerateSM, Rewind, AtTop
<1>5. GenerateST => InstantAt("st") /\ (UNCHANGED output \/ AtTop)
  BY GenerateSTIsInstant DEF GenerateST, Rewind, AtTop
<1> QED BY <1>1, <1>2, <1>3, <1>4, <1>5 DEF GenerateInstant

(* If the turn of v got its records at the top, the next turn does.        *)
LEMMA TurnKeepsFresh ==
  ASSUME IInv, FreshScan, NEW v \in Variables, Turn(v), NextTurn,
         \A w \in Variables \ {v} : Got(w)' => Got(w),
         IF v \in ProcessQueue THEN Got(v)' => AtTop ELSE UNCHANGED <<posA, posB>>
  PROVE  FreshScan'
<1> SUFFICES ASSUME \A i \in 1..(turn' - 1) : LoadOrder[i] \in ProcessQueue => Got(LoadOrder[i])'
             PROVE  posA' = 0 /\ posB' = 0
  BY DEF FreshScan
<1>1. turn \in 1..12 /\ turn' = turn + 1 /\ LoadOrder[turn] = v /\ phase = "hour"
  BY TurnTaken DEF IInv, Turn, NextTurn
<1>2. \A i \in 1..(turn - 1) : LoadOrder[i] \in ProcessQueue => Got(LoadOrder[i])
  <2> SUFFICES ASSUME NEW i \in 1..(turn - 1), LoadOrder[i] \in ProcessQueue
               PROVE  Got(LoadOrder[i])
    OBVIOUS
  <2>1. i \in 1..12 /\ i # turn /\ i \in 1..(turn' - 1)
    BY <1>1
  <2>2. LoadOrder[i] # v
    BY <1>1, <2>1, PositionIsPlace
  <2>3. LoadOrder[i] \in Variables
    BY QueueAssumption
  <2> QED BY <2>1, <2>2, <2>3
<1>3. posA = 0 /\ posB = 0
  BY <1>1, <1>2 DEF FreshScan
<1>4. v \in ProcessQueue => Got(v)'
  BY <1>1
<1> QED BY <1>3, <1>4 DEF AtTop

(* Every step leaves the files rewound for the next reader.                *)
LEMMA NextKeepsFresh ==
  IInv /\ OutputInv /\ FreshScan /\ [Next]_vars => FreshScan'
<1> SUFFICES ASSUME IInv, OutputInv, FreshScan, [Next]_vars  PROVE FreshScan'
  OBVIOUS
<1>0. TimeIntegrated \subseteq Variables /\ Instant \subseteq Variables
      /\ \A w \in Instant : w \notin TimeIntegrated
  BY DEF Variables, TimeIntegrated, Instant
<1>1. CASE UNCHANGED vars
  BY <1>1 DEF vars, loopVars, arrayVars, fileVars, FreshScan, Got
<1>2. CASE OpenInputs
  BY <1>2 DEF OpenInputs, FreshScan
<1>3. CASE OpenFails \/ FreeCrashes \/ CloseInputs \/ FreeData
  BY <1>3 DEF OpenFails, FreeCrashes, Crash, CloseInputs, FreeData, FreshScan
<1>4. CASE Integrate
  BY <1>4, IntegratePhase DEF FreshScan
<1>5. CASE SkipVariable
  <2>1. PICK v \in Variables \ ProcessQueue : Turn(v)
    BY <1>5 DEF SkipVariable
  <2>2. NextTurn /\ UNCHANGED <<posA, posB, arrayVars, output>>
    BY <1>5 DEF SkipVariable
  <2>3. \A w : Got(w)' <=> Got(w)
    BY <2>2 DEF Got, NextTurn, arrayVars
  <2> QED BY <2>1, <2>2, <2>3, TurnKeepsFresh
<1>6. CASE Load
  <2>1. PICK v : LoadAt(v) /\ (LoseArray(v) \/ AtTop)
    BY <1>6, LoadRewinds
  <2>2. /\ v \in TimeIntegrated \cap ProcessQueue /\ Turn(v) /\ NextTurn /\ UNCHANGED output
        /\ forecastHour' = forecastHour
        /\ \A w \in TimeIntegrated \ {v} :
             /\ numberOfSavedRecords'[w] = numberOfSavedRecords[w]
             /\ allocated'[w] = allocated[w]
             /\ resource'[w] = resource[w]
    BY <2>1, LoadFrame DEF LoadAt
  <2>3. \A w \in Variables \ {v} : Got(w)' => Got(w)
    BY <2>2 DEF Got
  <2>4. LoseArray(v) => ~Got(v)'
    BY <2>2 DEF LoseArray, Got, IInv, TypeOK
  <2> QED BY <1>0, <2>1, <2>2, <2>3, <2>4, TurnKeepsFresh
<1>7. CASE GenerateInstant
  <2>1. PICK v : InstantAt(v) /\ (UNCHANGED output \/ AtTop)
    BY <1>7, InstantRewinds
  <2>2. /\ v \in Instant /\ v \in ProcessQueue /\ Turn(v) /\ NextTurn /\ UNCHANGED arrayVars
        /\ forecastHour' = forecastHour
        /\ UNCHANGED output \/ \E h \in Holdings : WriteInstant(v, h)
    BY <2>1 DEF InstantAt, Generate, NextTurn
  <2>3. \A w \in Variables \ {v} : Got(w)' => Got(w)
    BY <2>2 DEF Got, WriteInstant, arrayVars
  <2>4. turn = Position(v) /\ turn \in 1..12 /\ phase = "hour"
    BY <1>0, <2>2, TurnTaken, PositionIsPlace DEF IInv, Turn
  <2>5. ~Got(v)
    BY <1>0, <2>2, <2>4 DEF Got, OutputInv, WrittenBefore
  <2>6. UNCHANGED output => ~Got(v)'
    BY <1>0, <2>2, <2>5 DEF Got
  <2> QED BY <1>0, <2>1, <2>2, <2>3, <2>6, TurnKeepsFresh
<1> QED BY <1>1, <1>2, <1>3, <1>4, <1>5, <1>6, <1>7 DEF Next

(* The readers of a step share two file positions: as long as every reader *)
(* before it in the step got its records, a reader starts at the top.      *)
THEOREM ScansStartFresh == Spec => []FreshScan
<1>1. Init => OutputInv /\ FreshScan
  BY DEF Init, OutputInv, WrittenBefore, SumsAligned, OutputAligned, FreshScan
<1> QED BY <1>1, NextKeepsFresh, NextKeepsOutputInv, ArraysStayAligned, IInvHolds, PTL DEF Spec

-------------------------------------------------------------------------------
(* The cause of a loss.                                                    *)

(* A scan goes as far as the first wanted record, or to the end.           *)
LEMMA ScanFileResult ==
  ASSUME NEW f \in Seq(Kinds), NEW pos \in 0..Len(f), NEW wanted
  PROVE  LET scan == ScanFile(f, pos, wanted)
         IN  IF \E i \in (pos + 1)..Len(f) : f[i] \in wanted
             THEN /\ scan.hit /\ scan.pos \in (pos + 1)..Len(f)
                  /\ f[scan.pos] \in wanted /\ scan.kind = f[scan.pos]
                  /\ \A i \in (pos + 1)..Len(f) : f[i] \in wanted => scan.pos <= i
             ELSE ~scan.hit /\ scan.pos = Len(f)
<1> DEFINE ahead == Ahead(f, pos, wanted)
<1>1. ahead \in SUBSET Nat
  BY DEF Ahead
<1>2. ASSUME ahead # {}
      PROVE  First(ahead) \in ahead /\ \A i \in ahead : First(ahead) <= i
  BY <1>1, <1>2, FirstInSet
<1>3. CASE ahead # {}
  <2>1. ScanFile(f, pos, wanted) = [hit |-> TRUE, kind |-> f[First(ahead)], pos |-> First(ahead)]
    BY <1>3 DEF ScanFile
  <2>2. First(ahead) \in ahead /\ \A i \in ahead : First(ahead) <= i
    BY <1>2, <1>3
  <2>3. ScanFile(f, pos, wanted).hit
    BY <2>1
  <2>4. ScanFile(f, pos, wanted).pos = First(ahead)
    BY <2>1
  <2>5. ScanFile(f, pos, wanted).kind = f[First(ahead)]
    BY <2>1
  <2> HIDE DEF First
  <2> QED BY <2>2, <2>3, <2>4, <2>5 DEF Ahead
<1>4. CASE ahead = {}
  <2>1. ScanFile(f, pos, wanted) = [hit |-> FALSE, kind |-> "none", pos |-> Len(f)]
    BY <1>4 DEF ScanFile
  <2> QED BY <1>4, <2>1 DEF Ahead
<1> QED BY <1>3, <1>4

(* From the top, a scan finds what the file has.                           *)
LEMMA ScanFileFinds ==
  ASSUME NEW f \in Seq(Kinds), NEW wanted
  PROVE  ScanFile(f, 0, wanted).hit <=> Has(f, wanted)
<1>1. 0 \in 0..Len(f) /\ DOMAIN f = 1..Len(f) /\ 0 + 1 = 1
  OBVIOUS
<1>2. IF \E i \in 1..Len(f) : f[i] \in wanted THEN ScanFile(f, 0, wanted).hit ELSE ~ScanFile(f, 0, wanted).hit
  BY <1>1, ScanFileResult
<1> QED BY <1>1, <1>2 DEF Has

(* So does a scan of both files.                                           *)
LEMMA ScanBothFinds ==
  ASSUME NEW a \in Seq(Kinds), NEW b \in Seq(Kinds), NEW wanted
  PROVE  ScanBoth(a, 0, b, 0, wanted).hit <=> Has(a, wanted) \/ Has(b, wanted)
<1>1. /\ ScanFile(a, 0, wanted).hit <=> Has(a, wanted)
      /\ ScanFile(b, 0, wanted).hit <=> Has(b, wanted)
  BY ScanFileFinds
<1> QED BY <1>1 DEF ScanBoth

(* Two scans from the top find two different records, if there are two.    *)
TwoIn(a, b, wanted) ==
  \/ Has(a, wanted) /\ Has(b, wanted)
  \/ \E i, j \in DOMAIN a : i # j /\ {a[i], a[j]} \subseteq wanted
  \/ \E i, j \in DOMAIN b : i # j /\ {b[i], b[j]} \subseteq wanted

LEMMA TwoScansFind ==
  ASSUME NEW a \in Seq(Kinds), NEW b \in Seq(Kinds), NEW wanted
  PROVE  LET one == ScanBoth(a, 0, b, 0, wanted)
             two == ScanBoth(a, one.posA, b, one.posB, wanted)
         IN  one.hit /\ two.hit <=> TwoIn(a, b, wanted)
<1> DEFINE one == ScanBoth(a, 0, b, 0, wanted)
           two == ScanBoth(a, one.posA, b, one.posB, wanted)
           inA == ScanFile(a, 0, wanted)
           inB == ScanFile(b, 0, wanted)
<1> SUFFICES one.hit /\ two.hit <=> TwoIn(a, b, wanted)
  OBVIOUS
<1>1. /\ DOMAIN a = 1..Len(a) /\ Len(a) \in Nat /\ 0 \in 0..Len(a)
      /\ DOMAIN b = 1..Len(b) /\ Len(b) \in Nat /\ 0 \in 0..Len(b)
  OBVIOUS
<1>2. /\ inA.hit <=> Has(a, wanted)
      /\ inB.hit <=> Has(b, wanted)
  BY ScanFileFinds
<1>3. IF Has(a, wanted)
      THEN /\ inA.pos \in 1..Len(a) /\ a[inA.pos] \in wanted
           /\ \A i \in 1..Len(a) : a[i] \in wanted => inA.pos <= i
      ELSE inA.pos = Len(a)
  BY <1>1, ScanFileResult DEF Has
<1>4. IF Has(b, wanted)
      THEN /\ inB.pos \in 1..Len(b) /\ b[inB.pos] \in wanted
           /\ \A i \in 1..Len(b) : b[i] \in wanted => inB.pos <= i
      ELSE inB.pos = Len(b)
  BY <1>1, ScanFileResult DEF Has
<1>5. one = IF inA.hit
            THEN [hit |-> TRUE,    kind |-> inA.kind, posA |-> inA.pos, posB |-> 0]
            ELSE [hit |-> inB.hit, kind |-> inB.kind, posA |-> inA.pos, posB |-> inB.pos]
  BY DEF ScanBoth
<1> HIDE DEF inA, inB, one
<1>6. CASE Has(a, wanted)
  <2>1. one.hit /\ one.posA = inA.pos /\ one.posB = 0
    BY <1>2, <1>5, <1>6
  <2> DEFINE moreA == ScanFile(a, inA.pos, wanted)
  <2>2. moreA.hit <=> \E i \in (inA.pos + 1)..Len(a) : a[i] \in wanted
    BY <1>1, <1>3, <1>6, ScanFileResult
  <2>3. two.hit <=> moreA.hit \/ inB.hit
    BY <2>1 DEF ScanBoth, inB
  <2> HIDE DEF moreA, two
  <2>4. moreA.hit <=> \E i, j \in DOMAIN a : i # j /\ {a[i], a[j]} \subseteq wanted
    BY <1>1, <1>3, <1>6, <2>2
  <2>5. (\E i, j \in DOMAIN b : i # j /\ {b[i], b[j]} \subseteq wanted) => Has(b, wanted)
    BY DEF Has
  <2> QED BY <1>2, <1>6, <2>1, <2>3, <2>4, <2>5 DEF TwoIn
<1>7. CASE ~Has(a, wanted) /\ Has(b, wanted)
  <2>1. one.hit /\ one.posA = Len(a) /\ one.posB = inB.pos
    BY <1>2, <1>3, <1>5, <1>7
  <2> DEFINE moreA == ScanFile(a, Len(a), wanted)
             moreB == ScanFile(b, inB.pos, wanted)
  <2>2. ~moreA.hit
    BY <1>1, ScanFileResult
  <2>3. moreB.hit <=> \E i \in (inB.pos + 1)..Len(b) : b[i] \in wanted
    BY <1>1, <1>4, <1>7, ScanFileResult
  <2>4. two.hit <=> moreB.hit
    BY <2>1, <2>2 DEF ScanBoth
  <2> HIDE DEF moreB, two
  <2>5. moreB.hit <=> \E i, j \in DOMAIN b : i # j /\ {b[i], b[j]} \subseteq wanted
    BY <1>1, <1>4, <1>7, <2>3
  <2>6. ~\E i, j \in DOMAIN a : i # j /\ {a[i], a[j]} \subseteq wanted
    BY <1>7 DEF Has
  <2> QED BY <1>7, <2>1, <2>4, <2>5, <2>6 DEF TwoIn
<1>8. CASE ~Has(a, wanted) /\ ~Has(b, wanted)
  <2>1. ~one.hit
    BY <1>2, <1>5, <1>8
  <2>2. ~TwoIn(a, b, wanted)
    BY <1>8 DEF TwoIn, Has
  <2> QED BY <2>1, <2>2
<1> QED BY <1>6, <1>7, <1>8

(* A load from the top stores a record and rewinds, unless the files of    *)
(* the step lack one.                                                      *)
Stored(v) == AtTop /\ numberOfSavedRecords'[v] # numberOfSavedRecords[v]

LEMMA LoadFromTop ==
  ASSUME IInv, Load, posA = 0, posB = 0
  PROVE  \E v : LoadAt(v) /\ (Stored(v) \/ ~Provided(v))
<1>0. /\ {"ttr", "slhf", "sshf", "ssr", "str", "tp", "sf"} \subseteq TimeIntegrated
      /\ aFile \in Seq(Kinds) /\ bFile \in Seq(Kinds)
  BY DEF TimeIntegrated, IInv, TypeOK
<1>1. ASSUME NEW v \in TimeIntegrated, NEW h, AddGribRecordToArray(v, h)
      PROVE  numberOfSavedRecords'[v] # numberOfSavedRecords[v]
  <2>1. numberOfSavedRecords[v] \in Nat /\ numberOfSavedRecords'[v] = numberOfSavedRecords[v] + 1
    BY <1>1 DEF AddGribRecordToArray, IInv, TypeOK
  <2> QED BY <2>1
<1>2. Rewind => AtTop
  BY DEF Rewind, AtTop
<1>3. ASSUME NEW v \in TimeIntegrated, NEW kind, LoadOne(v, kind)
      PROVE  LoadAt(v) /\ (Stored(v) \/ ~Either(kind))
  <2> DEFINE scan == ScanBoth(aFile, 0, bFile, 0, {kind})
  <2>1. scan.hit <=> Either(kind)
    BY <1>0, ScanBothFinds DEF Either
  <2>2. (\E h : AddGribRecordToArray(v, h) /\ Rewind) \/ ~scan.hit
    BY <1>3 DEF LoadOne
  <2> HIDE DEF scan
  <2> QED BY <1>1, <1>2, <1>3, <2>1, <2>2, LoadOneIsLoad DEF Stored
<1>4. ASSUME NEW v \in TimeIntegrated, NEW down, NEW up, LoadNet(v, down, up)
      PROVE  LoadAt(v) /\ (Stored(v) \/ ~HasTwo({down, up}))
  <2> DEFINE one == ScanBoth(aFile, 0, bFile, 0, {down, up})
             two == ScanBoth(aFile, one.posA, bFile, one.posB, {down, up})
  <2>1. one.hit /\ two.hit <=> HasTwo({down, up})
    BY <1>0, TwoScansFind DEF HasTwo, TwoIn
  <2>2. (\E h : AddGribRecordToArray(v, h) /\ Rewind) \/ ~(one.hit /\ two.hit)
    BY <1>4, Zenon DEF LoadNet
  <2> HIDE DEF one, two
  <2> QED BY <1>1, <1>2, <1>4, <2>1, <2>2, LoadNetIsLoad DEF Stored
<1>5. CASE LoadTTR \/ LoadSLHF \/ LoadSSHF
  BY <1>0, <1>3, <1>5 DEF LoadTTR, LoadSLHF, LoadSSHF, Provided
<1>6. CASE LoadSSR \/ LoadSTR
  BY <1>0, <1>4, <1>6 DEF LoadSSR, LoadSTR, Provided
<1>7. CASE LoadTP
  <2> DEFINE scan == ScanFile(aFile, 0, {"apcp"})
  <2>1. scan.hit <=> Provided("tp")
    BY <1>0, ScanFileFinds DEF Provided
  <2>2. (\E h : AddGribRecordToArray("tp", h) /\ AtTop) \/ ~scan.hit
    BY <1>7 DEF LoadTP, AtTop
  <2> HIDE DEF scan
  <2> QED BY <1>0, <1>1, <1>7, <2>1, <2>2, LoadTPIsLoad DEF Stored
<1>8. CASE LoadSF
  <2>1. \E h : AddGribRecordToArray("sf", h) /\ Rewind
    BY <1>8 DEF LoadSF
  <2> QED BY <1>0, <1>1, <1>2, <1>8, <2>1, LoadSFIsLoad DEF Stored
<1> QED BY <1>5, <1>6, <1>7, <1>8 DEF Load

(* So does a generator.                                                    *)
LEMMA InstantFromTop ==
  ASSUME IInv, GenerateInstant, posA = 0, posB = 0
  PROVE  \E v : InstantAt(v) /\ (AtTop \/ ~Provided(v))
<1>0. aFile \in Seq(Kinds) /\ bFile \in Seq(Kinds)
  BY DEF IInv, TypeOK
<1>1. ASSUME GenerateSF6  PROVE InstantAt("sf6") /\ (AtTop \/ ~Provided("sf6"))
  <2>1. AtTop \/ ~(ScanFile(aFile, 0, {"csnow"}).hit /\ ScanFile(aFile, 0, {"apcp"}).hit)
    BY <1>1 DEF GenerateSF6, AtTop
  <2> QED BY <1>0, <1>1, <2>1, ScanFileFinds, GenerateSF6IsInstant DEF Provided
<1>2. ASSUME GenerateTCW  PROVE InstantAt("tcw") /\ (AtTop \/ ~Provided("tcw"))
  <2>1. AtTop \/ ~(ScanFile(aFile, 0, {"pwat"}).hit /\ ScanFile(bFile, 0, {"cwat"}).hit)
    BY <1>2 DEF GenerateTCW, Rewind, AtTop
  <2> QED BY <1>0, <1>2, <2>1, ScanFileFinds, GenerateTCWIsInstant DEF Provided
<1>3. ASSUME GeneratePT  PROVE InstantAt("pt") /\ (AtTop \/ ~Provided("pt"))
  <2>1. AtTop \/ ~(/\ PtSlots(bFile, 0, PressureKinds, "presNorth").found
                   /\ PtSlots(bFile, 0, TemperatureKinds, "tmpNorth").found)
    BY <1>3 DEF GeneratePT, Rewind, AtTop
  <2> QED BY <1>3, <2>1, GeneratePTIsInstant DEF Provided
<1>4. ASSUME GenerateSM  PROVE InstantAt("sm") /\ (AtTop \/ ~Provided("sm"))
  <2>1. AtTop \/ ~(ScanFile(bFile, 0, SoilMoisture).hit /\ ScanFile(aFile, 0, SoilMoisture).hit)
    BY <1>4 DEF GenerateSM, Rewind, AtTop
  <2> QED BY <1>0, <1>4, <2>1, ScanFileFinds, GenerateSMIsInstant DEF Provided
<1>5. ASSUME GenerateST  PROVE InstantAt("st") /\ (AtTop \/ ~Provided("st"))
  <2> DEFINE one == ScanBoth(aFile, 0, bFile, 0, SoilTemperature)
             two == ScanBoth(aFile, one.posA, bFile, one.posB, SoilTemperature)
  <2>1. one.hit /\ two.hit <=> Provided("st")
    BY <1>0, TwoScansFind DEF Provided, HasTwo, TwoIn
  <2>2. AtTop \/ ~(one.hit /\ two.hit)
    BY <1>5 DEF GenerateST, STStart, Rewind, AtTop
  <2> HIDE DEF one, two
  <2> QED BY <1>5, <2>1, <2>2, GenerateSTIsInstant
<1> QED BY <1>1, <1>2, <1>3, <1>4, <1>5 DEF GenerateInstant

(* The files are at their top, or an earlier reader of the step lacked     *)
(* something.                                                              *)
Lacked == \E i \in 1..(turn - 1) : LoadOrder[i] \in ProcessQueue /\ ~Provided(LoadOrder[i])

CauseInv == phase = "hour" => (posA = 0 /\ posB = 0) \/ Lacked

(* What a reader is provided with does not change while it reads.          *)
LEMMA TurnKeepsCause ==
  ASSUME IInv, CauseInv, NEW v \in Variables, Turn(v), NextTurn,
         posA = 0 /\ posB = 0 =>
           (posA' = 0 /\ posB' = 0) \/ (v \in ProcessQueue /\ ~Provided(v))
  PROVE  CauseInv'
<1>1. turn \in 1..12 /\ turn' = turn + 1 /\ LoadOrder[turn] = v /\ phase = "hour"
  BY TurnTaken DEF IInv, Turn, NextTurn
<1>2. \A w : Provided(w)' <=> Provided(w)
  BY DEF NextTurn, Provided, Either, HasTwo
<1>3. CASE Lacked
  <2>1. PICK i \in 1..(turn - 1) : LoadOrder[i] \in ProcessQueue /\ ~Provided(LoadOrder[i])
    BY <1>3 DEF Lacked
  <2>2. i \in 1..(turn' - 1) /\ ~Provided(LoadOrder[i])'
    BY <1>1, <1>2, <2>1
  <2> QED BY <2>1, <2>2 DEF Lacked, CauseInv
<1>4. CASE posA = 0 /\ posB = 0 /\ v \in ProcessQueue /\ ~Provided(v)
  <2>1. PICK i \in 1..12 : i = turn
    BY <1>1
  <2>2. i \in 1..(turn' - 1) /\ LoadOrder[i] \in ProcessQueue /\ ~Provided(LoadOrder[i])'
    BY <1>1, <1>2, <1>4, <2>1
  <2> QED BY <2>2 DEF Lacked, CauseInv
<1> QED BY <1>1, <1>3, <1>4 DEF CauseInv

(* Every step leaves the files rewound, or has a cause not to.             *)
LEMMA NextKeepsCause ==
  IInv /\ CauseInv /\ [Next]_vars => CauseInv'
<1> SUFFICES ASSUME IInv, CauseInv, [Next]_vars  PROVE CauseInv'
  OBVIOUS
<1>0. TimeIntegrated \subseteq Variables /\ Instant \subseteq Variables
  BY DEF Variables
<1>1. CASE UNCHANGED vars
  BY <1>1 DEF vars, loopVars, fileVars, CauseInv, Lacked, Provided, Either, HasTwo
<1>2. CASE OpenInputs
  BY <1>2 DEF OpenInputs, CauseInv
<1>3. CASE OpenFails \/ FreeCrashes \/ CloseInputs \/ FreeData
  BY <1>3 DEF OpenFails, FreeCrashes, Crash, CloseInputs, FreeData, CauseInv
<1>4. CASE Integrate
  BY <1>4, IntegratePhase DEF CauseInv
<1>5. CASE SkipVariable
  <2>1. PICK v \in Variables \ ProcessQueue : Turn(v)
    BY <1>5 DEF SkipVariable
  <2> QED BY <1>5, <2>1, TurnKeepsCause DEF SkipVariable
<1>6. CASE Load
  <2>1. PICK v : LoadAt(v) /\ (posA = 0 /\ posB = 0 => AtTop \/ ~Provided(v))
    <3>1. \E v : LoadAt(v)
      BY <1>6, LoadRewinds
    <3>2. posA = 0 /\ posB = 0 => \E v : LoadAt(v) /\ (AtTop \/ ~Provided(v))
      BY <1>6, LoadFromTop DEF Stored
    <3> QED BY <3>1, <3>2, Zenon
  <2> QED BY <1>0, <2>1, TurnKeepsCause DEF LoadAt, AtTop
<1>7. CASE GenerateInstant
  <2>1. PICK v : InstantAt(v) /\ (posA = 0 /\ posB = 0 => AtTop \/ ~Provided(v))
    <3>1. \E v : InstantAt(v)
      BY <1>7, InstantRewinds
    <3>2. posA = 0 /\ posB = 0 => \E v : InstantAt(v) /\ (AtTop \/ ~Provided(v))
      BY <1>7, InstantFromTop
    <3> QED BY <3>1, <3>2, Zenon
  <2> QED BY <1>0, <2>1, TurnKeepsCause DEF InstantAt, Generate, AtTop
<1> QED BY <1>1, <1>2, <1>3, <1>4, <1>5, <1>6, <1>7 DEF Next

(* Whose turn it is, only its own reader ends.                             *)
LEMMA TurnIsTaken ==
  ASSUME IInv, [Next]_vars, NEW v \in ProcessQueue, Turn(v), turn' # turn
  PROVE  \/ Load /\ LoadAt(v)
         \/ GenerateInstant /\ InstantAt(v)
<1>1. phase = "hour" /\ turn \in 1..12 /\ v \in Variables /\ LoadOrder[turn] = v
  BY OrderLengths, QueueAssumption DEF Turn, IInv, TypeOK
<1>2. \A w : Turn(w) => w = v
  BY <1>1 DEF Turn
<1>3. ~UNCHANGED vars
  BY DEF vars, loopVars
<1>4. ~SkipVariable
  BY <1>2 DEF SkipVariable
<1>5. ~(OpenInputs \/ OpenFails \/ CloseInputs \/ FreeData \/ FreeCrashes)
  BY <1>1, OrderLengths DEF OpenInputs, OpenFails, CloseInputs, FreeData, FreeCrashes
<1>6. ~Integrate
  BY <1>1, IntegratePhase
<1>7. CASE Load
  <2>1. PICK w : LoadAt(w)
    BY <1>7, LoadRewinds
  <2> QED BY <1>2, <1>7, <2>1 DEF LoadAt
<1>8. CASE GenerateInstant
  <2>1. PICK w : InstantAt(w)
    BY <1>8, InstantRewinds
  <2> QED BY <1>2, <1>8, <2>1 DEF InstantAt, Generate
<1> QED BY <1>3, <1>4, <1>5, <1>6, <1>7, <1>8 DEF Next

(* A load fails only if this step's files lack a record that it, or a      *)
(* reader before it in the same step, needs, never because of a step or a  *)
(* member before.                                                          *)
THEOREM LossesHaveCause == Spec => LossHasCause
<1>1. Init => CauseInv
  BY DEF Init, CauseInv
<1>2. IInv /\ CauseInv /\ [Next]_vars =>
        [\A v \in TimeIntegrated \cap ProcessQueue :
           Turn(v) /\ numberOfSavedRecords'[v] = numberOfSavedRecords[v] /\ turn' # turn
             => \E i \in 1..turn : LoadOrder[i] \in ProcessQueue /\ ~Provided(LoadOrder[i])]_vars
  <2> SUFFICES ASSUME IInv, CauseInv, [Next]_vars, NEW v \in TimeIntegrated \cap ProcessQueue,
                      Turn(v), numberOfSavedRecords'[v] = numberOfSavedRecords[v], turn' # turn
               PROVE  \E i \in 1..turn : LoadOrder[i] \in ProcessQueue /\ ~Provided(LoadOrder[i])
    OBVIOUS
  <2>1. phase = "hour" /\ turn \in 1..12 /\ LoadOrder[turn] = v
    BY OrderLengths DEF Turn, IInv, TypeOK
  <2>2. Load
    BY TurnIsTaken DEF InstantAt, Instant, TimeIntegrated
  <2>3. CASE posA = 0 /\ posB = 0
    <3>1. PICK w : LoadAt(w) /\ (Stored(w) \/ ~Provided(w))
      BY <2>2, <2>3, LoadFromTop
    <3>2. w = v
      BY <2>1, <3>1 DEF LoadAt, Turn
    <3> QED BY <2>1, <3>1, <3>2 DEF Stored
  <2>4. CASE Lacked
    <3>1. 1..(turn - 1) \subseteq 1..turn
      BY <2>1
    <3> QED BY <2>4, <3>1 DEF Lacked
  <2> QED BY <2>1, <2>3, <2>4 DEF CauseInv
<1> QED BY <1>1, <1>2, NextKeepsCause, IInvHolds, PTL DEF Spec, LossHasCause

(* Whether the soil temperature of a step is written depends on the files  *)
(* of this step alone: its generator rewinds before it reads.              *)
THEOREM STNeedsInputAlone == Spec => STFromInputAlone
<1>1. Init => OutputInv
  BY DEF Init, OutputInv, WrittenBefore, SumsAligned, OutputAligned
<1>2. IInv /\ OutputInv /\ [Next]_vars =>
        [Turn("st") /\ "st" \in ProcessQueue /\ turn' # turn
           => (Got("st")' <=> Provided("st"))]_vars
  <2> SUFFICES ASSUME IInv, OutputInv, [Next]_vars, Turn("st"), "st" \in ProcessQueue, turn' # turn
               PROVE  Got("st")' <=> Provided("st")
    OBVIOUS
  <2>0. aFile \in Seq(Kinds) /\ bFile \in Seq(Kinds) /\ "st" \in Variables /\ "st" \notin TimeIntegrated
    BY DEF IInv, TypeOK, Variables, TimeIntegrated, Instant
  <2>1. GenerateInstant /\ InstantAt("st")
    BY <2>0, TurnIsTaken DEF LoadAt
  <2>2. GenerateST
    BY <2>1 DEF GenerateInstant, Turn, Generate, GenerateSF6, GenerateTCW, GeneratePT, GenerateSM
  <2>3. ~Got("st")
    <3>1. phase = "hour" /\ turn = Position("st") /\ turn \in 1..12
      BY <2>0, OrderLengths, PositionIsPlace DEF Turn, IInv, TypeOK
    <3> QED BY <2>0, <3>1 DEF Got, OutputInv, WrittenBefore
  <2> DEFINE one == ScanBoth(aFile, 0, bFile, 0, SoilTemperature)
             two == ScanBoth(aFile, one.posA, bFile, one.posB, SoilTemperature)
  <2>4. one.hit /\ two.hit <=> Provided("st")
    BY <2>0, TwoScansFind DEF Provided, HasTwo, TwoIn
  <2>5. /\ one.hit /\ two.hit => \E h : WriteInstant("st", h)
        /\ ~(one.hit /\ two.hit) => UNCHANGED output
        /\ forecastHour' = forecastHour
    BY <2>2 DEF GenerateST, STStart, Generate, NextTurn
  <2> HIDE DEF one, two
  <2>6. CASE one.hit /\ two.hit
    <3>1. PICK h : WriteInstant("st", h)
      BY <2>5, <2>6
    <3> DEFINE file == [var |-> "st", step |-> forecastHour, fields |-> <<Now(h)>>]
    <3>2. file.var = "st" /\ file.step = forecastHour /\ file \in output'
      BY <3>1 DEF WriteInstant
    <3> HIDE DEF file
    <3>3. \E o \in output' : o.var = "st" /\ o.step = forecastHour'
      BY <2>5, <3>2
    <3> QED BY <2>0, <2>4, <2>6, <3>3 DEF Got
  <2>7. CASE ~(one.hit /\ two.hit)
    BY <2>0, <2>3, <2>4, <2>5, <2>7 DEF Got
  <2> QED BY <2>6, <2>7
<1> QED BY <1>1, <1>2, NextKeepsOutputInv, ArraysStayAligned, IInvHolds, PTL DEF Spec, STFromInputAlone
===============================================================================
