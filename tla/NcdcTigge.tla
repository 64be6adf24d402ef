------------------------------ MODULE NcdcTigge ------------------------------
(***************************************************************************)
(* The main loop of the C program ncdcTigge (src/ncdcTigge.c) with the     *)
(* loaders and generators it calls.  For each ensemble member it walks the *)
(* forecast steps, appends one record per step to an array for each        *)
(* time-integrated variable and writes the instant variables at once;      *)
(* after the last step it integrates each array and frees it.              *)
(*                                                                         *)
(* A step is six forecast hours: forecastHour here is fff / 6 of the code. *)
(* The data of a record is abstracted to a cell that says which step it    *)
(* came from and what it holds.  Reading an array slot that the code never *)
(* wrote is undefined: such a slot is a "wild" cell, and a use of it may   *)
(* crash, be taken for NULL or deliver rubbish.                            *)
(*                                                                         *)
(* A definition Name_Slip is a slip of the code that Name could have had;  *)
(* nothing uses it, the properties are tried against it.                   *)
(***************************************************************************)
EXTENDS GribScan

CONSTANTS
  LastMember,    \* get_n_members() - 1
  LastStep,      \* FORECAST_HOURS / 6
  ProcessQueue,  \* the variables on the to-do list
  InputFiles     \* for each step, the pairs of input files it may find

TimeIntegrated == {"ttr", "slhf", "sshf", "ssr", "str", "sf", "tp"}
Instant        == {"sf6", "tcw", "pt", "sm", "st"}
Variables      == TimeIntegrated \cup Instant

ASSUME MemberAssumption == LastMember \in Nat
ASSUME StepAssumption   == LastStep \in Nat \ {0}
ASSUME QueueAssumption  == ProcessQueue \subseteq Variables
Members == 0..LastMember
Steps   == 0..LastStep

ASSUME FilesAssumption ==
  \A s \in Steps : \A f \in InputFiles[s] : f.a \in Seq(Kinds) /\ f.b \in Seq(Kinds)

(* The order in which one forecast step handles the variables. *)
LoadOrder == <<"ttr", "slhf", "sshf", "ssr", "str",
               "sf6", "tcw", "pt", "sm", "st", "tp", "sf">>

(* The order in which the arrays are integrated after the last step. *)
IntegrationOrder == <<"ttr", "slhf", "sshf", "sf", "ssr", "str", "tp">>

VARIABLES
  phase,                 \* where main() is
  ensembleMember,
  forecastHour,          \* main's loop counter, then that of a generator
  turn,                  \* index into LoadOrder or IntegrationOrder
  aFile, bFile,          \* the open input files
  posA, posB,            \* and how far they have been read
  allocated,             \* is the array of a variable other than NULL?
  resource,              \* the cells of the arrays
  numberOfSavedRecords,
  runningSum,            \* the cells added up by the running generator
  output                 \* the GRIB files written for this member

fileVars  == <<aFile, bFile, posA, posB>>
arrayVars == <<allocated, resource, numberOfSavedRecords>>
loopVars  == <<phase, ensembleMember, forecastHour, turn>>
vars      == <<loopVars, fileVars, arrayVars, runningSum, output>>

(* What a cell holds: the right field of its step, a combination of the    *)
(* wrong two records, an implanted blank record, a zeroed placeholder, or  *)
(* whatever the memory happened to contain.                                *)
Holdings == {"field", "mixed", "blank", "zero", "wild"}
Cell     == [step : Steps, holds : Holdings]
Wild     == [step |-> 0, holds |-> "wild"]
Now(h)   == [step |-> forecastHour, holds |-> h]

AllWild == [i \in Steps |-> Wild]

Init ==
  /\ phase = "open" /\ ensembleMember = 0 /\ forecastHour = 0 /\ turn = 1
  /\ aFile = <<>> /\ bFile = <<>> /\ posA = 0 /\ posB = 0
  /\ allocated = [v \in TimeIntegrated |-> FALSE]
  /\ resource  = [v \in TimeIntegrated |-> AllWild]
  /\ numberOfSavedRecords = [v \in TimeIntegrated |-> 0]
  /\ runningSum = <<>>
  /\ output = {}

-------------------------------------------------------------------------------
(* Opening the two input files of a step; main() returns 1 when either of  *)
(* them cannot be opened.                                                  *)
OpenInputs ==
  /\ phase = "open"
  /\ \E f \in InputFiles[forecastHour] : aFile' = f.a /\ bFile' = f.b
  /\ posA' = 0 /\ posB' = 0
  /\ phase' = "hour" /\ turn' = 1
  /\ UNCHANGED <<ensembleMember, forecastHour, arrayVars, runningSum, output>>

OpenFails ==
  /\ phase = "open"
  /\ phase' = "exit"
  /\ UNCHANGED <<ensembleMember, forecastHour, turn, fileVars, arrayVars,
                 runningSum, output>>

(* ignoreMissingInput is 1 only while the fluxes of step 0 are loaded.     *)
IgnoreMissingInput_Inverted == forecastHour # 0
IgnoreMissingInput == forecastHour = 0

Turn(v) == phase = "hour" /\ turn <= Len(LoadOrder) /\ LoadOrder[turn] = v

NextTurn ==
  /\ turn' = turn + 1
  /\ UNCHANGED <<phase, ensembleMember, forecastHour, aFile, bFile, runningSum>>

(* A variable that is not on the list is skipped by loadDataForVariable(), *)
(* which returns NULL, and by generateVariable().                          *)
SkipVariable ==
  /\ \E v \in Variables \ ProcessQueue : Turn(v)
  /\ NextTurn
  /\ UNCHANGED <<posA, posB, arrayVars, output>>

(* realloc() keeps the records of a live array; the slots of an array that *)
(* was NULL, and of one that grew, are not initialised.                    *)
AddGribRecordToArray(v, record) ==
  /\ resource' = [resource EXCEPT ![v] = [i \in Steps |->
         CASE i = numberOfSavedRecords[v]                -> record
           [] i < numberOfSavedRecords[v] /\ allocated[v] -> resource[v][i]
           [] OTHER                                       -> Wild]]
  /\ allocated' = [allocated EXCEPT ![v] = TRUE]
  /\ numberOfSavedRecords' = [numberOfSavedRecords EXCEPT ![v] = @ + 1]

(* A loader that returns NULL: main() overwrites its only pointer to the   *)
(* array, while numberOfSavedRecords keeps its value.                      *)
LoseArray_Counted(v) ==
  /\ allocated' = [allocated EXCEPT ![v] = FALSE]
  /\ resource'  = [resource EXCEPT ![v] = AllWild]
  /\ numberOfSavedRecords' = [numberOfSavedRecords EXCEPT ![v] = @ + 1]

LoseArray(v) ==
  /\ allocated' = [allocated EXCEPT ![v] = FALSE]
  /\ resource'  = [resource EXCEPT ![v] = AllWild]
  /\ UNCHANGED numberOfSavedRecords

(* Rewinding both files.                                                   *)
Rewind == posA' = 0 /\ posB' = 0

(* The loader of a variable made from one record.                          *)
LoadOne_NotRewound(v, kind) ==
  LET scan == ScanBoth(aFile, posA, bFile, posB, {kind})
  IN  /\ Turn(v) /\ v \in ProcessQueue
      /\ IF scan.hit \/ IgnoreMissingInput
         THEN AddGribRecordToArray(v, Now(IF scan.hit THEN "field" ELSE "blank"))
         ELSE LoseArray(v)
      /\ posA' = scan.posA /\ posB' = scan.posB
      /\ NextTurn
      /\ UNCHANGED output

LoadOne(v, kind) ==
  LET scan == ScanBoth(aFile, posA, bFile, posB, {kind})
  IN  /\ Turn(v) /\ v \in ProcessQueue
      /\ \/ /\ scan.hit \/ IgnoreMissingInput
            /\ AddGribRecordToArray(v, Now(IF scan.hit THEN "field" ELSE "blank"))
            /\ Rewind
         \/ /\ ~(scan.hit \/ IgnoreMissingInput)
            /\ LoseArray(v)
            /\ posA' = scan.posA /\ posB' = scan.posB
      /\ NextTurn
      /\ UNCHANGED output

LoadTTR  == LoadOne("ttr", "ulwrfTop")
LoadSLHF == LoadOne("slhf", "lhtfl")
LoadSSHF == LoadOne("sshf", "shtfl")

(* Net flux = down - up (parameters 192 and 193), whichever came first.    *)
NetFlux_AsRead(first, second, down, up) == [plus |-> first, minus |-> second]

NetFlux(first, second, down, up) ==
  IF first = down /\ second = up
  THEN [plus |-> first,  minus |-> second]
  ELSE [plus |-> second, minus |-> first]

(* The loader of a variable made from two records, in either order.        *)
LoadNet(v, down, up) ==
  LET one  == ScanBoth(aFile, posA, bFile, posB, {down, up})
      two  == ScanBoth(aFile, one.posA, bFile, one.posB, {down, up})
      net  == NetFlux(one.kind, two.kind, down, up)
      both == one.hit /\ two.hit
      made == CASE ~both -> "blank"
                [] both /\ net = [plus |-> down, minus |-> up] -> "field"
                [] OTHER -> "mixed"
  IN  /\ Turn(v) /\ v \in ProcessQueue
      /\ \/ /\ both \/ IgnoreMissingInput
            /\ AddGribRecordToArray(v, Now(made))
            /\ Rewind
         \/ /\ ~(both \/ IgnoreMissingInput)
            /\ LoseArray(v)
            /\ posA' = two.posA /\ posB' = two.posB
      /\ NextTurn
      /\ UNCHANGED output

LoadSSR == LoadNet("ssr", "dswrf", "uswrf")
LoadSTR == LoadNet("str", "dlwrf", "ulwrf")

-------------------------------------------------------------------------------
(* The instant variables.  Every generator returns early, without a rewind *)
(* and without a file, as soon as one of its scans reaches the end.        *)
WriteInstant(v, holds) ==
  output' = output \cup
    {[var |-> v, step |-> forecastHour, fields |-> <<Now(holds)>>]}

Generate(v) == Turn(v) /\ v \in ProcessQueue /\ NextTurn /\ UNCHANGED arrayVars

GenerateSF6 ==
  LET snow == ScanFile(aFile, posA, {"csnow"})
      rain == ScanFile(aFile, 0, {"apcp"})
  IN  /\ Generate("sf6")
      /\ \/ /\ forecastHour = 0
            /\ WriteInstant("sf6", "zero")
            /\ posA' = 0
         \/ /\ forecastHour # 0 /\ snow.hit /\ rain.hit
            /\ WriteInstant("sf6", "field")
            /\ posA' = 0
         \/ /\ forecastHour # 0 /\ ~(snow.hit /\ rain.hit)
            /\ posA' = Len(aFile)
            /\ UNCHANGED output
      /\ UNCHANGED posB

GenerateTCW_OnlyARewound ==
  LET vapour == ScanFile(aFile, posA, {"pwat"})
      cloud  == ScanFile(bFile, posB, {"cwat"})
  IN  /\ Generate("tcw")
      /\ vapour.hit /\ cloud.hit
      /\ WriteInstant("tcw", "field")
      /\ posA' = 0 /\ posB' = cloud.pos

GenerateTCW ==
  LET vapour == ScanFile(aFile, posA, {"pwat"})
      cloud  == ScanFile(bFile, posB, {"cwat"})
  IN  /\ Generate("tcw")
      /\ \/ /\ vapour.hit /\ cloud.hit
            /\ WriteInstant("tcw", "field")
            /\ Rewind
         \/ /\ ~(vapour.hit /\ cloud.hit)
            /\ posA' = vapour.pos
            /\ posB' = IF vapour.hit THEN cloud.pos ELSE posB
            /\ UNCHANGED output

GeneratePT ==
  LET pressure    == PtSlots(bFile, posB, PressureKinds, "presNorth")
      temperature == PtSlots(bFile, posB, TemperatureKinds, "tmpNorth")
      right       == pressure.south = "presSouth" /\ temperature.south = "tmpSouth"
  IN  /\ Generate("pt")
      /\ \/ /\ pressure.found /\ temperature.found
            /\ WriteInstant("pt", IF right THEN "field" ELSE "mixed")
            /\ Rewind
         \/ /\ ~(pressure.found /\ temperature.found)
            /\ posB' = Len(bFile)
            /\ UNCHANGED <<posA, output>>

GenerateSM ==
  LET one == ScanFile(bFile, posB, SoilMoisture)
      two == ScanFile(aFile, posA, SoilMoisture)
  IN  /\ Generate("sm")
      /\ \/ /\ one.hit /\ two.hit
            /\ WriteInstant("sm", IF one.kind # two.kind THEN "field" ELSE "mixed")
            /\ Rewind
         \/ /\ ~(one.hit /\ two.hit)
            /\ posB' = one.pos
            /\ posA' = IF one.hit THEN two.pos ELSE posA
            /\ UNCHANGED output

(* The only generator that rewinds both files before it reads.             *)
STStart_NotRewound == [posA |-> posA, posB |-> posB]
STStart == [posA |-> 0, posB |-> 0]

GenerateST ==
  LET one == ScanBoth(aFile, STStart.posA, bFile, STStart.posB, SoilTemperature)
      two == ScanBoth(aFile, one.posA, bFile, one.posB, SoilTemperature)
  IN  /\ Generate("st")
      /\ \/ /\ one.hit /\ two.hit
            /\ WriteInstant("st", IF one.kind # two.kind THEN "field" ELSE "mixed")
            /\ Rewind
         \/ /\ ~(one.hit /\ two.hit)
            /\ posA' = two.posA /\ posB' = two.posB
            /\ UNCHANGED output

-------------------------------------------------------------------------------
(* Total precipitation: the first record of a member is a zeroed array     *)
(* that is not read from any file.                                         *)
LoadTP ==
  LET first == numberOfSavedRecords["tp"] = 0
      scan  == ScanFile(aFile, posA, {"apcp"})
  IN  /\ Turn("tp") /\ "tp" \in ProcessQueue
      /\ \/ /\ first \/ scan.hit
            /\ AddGribRecordToArray("tp", Now(IF first THEN "zero" ELSE "field"))
            /\ posA' = 0
         \/ /\ ~(first \/ scan.hit)
            /\ LoseArray("tp")
            /\ posA' = scan.pos
      /\ NextTurn
      /\ UNCHANGED <<posB, output>>

(* Snowfall: rewinds first, and stores zeros when the a-file lacks the     *)
(* precipitation or the snow flag.                                         *)
LoadSF ==
  LET rain == ScanFile(aFile, 0, {"apcp"})
      snow == ScanFile(aFile, 0, {"csnow"})
  IN  /\ Turn("sf") /\ "sf" \in ProcessQueue
      /\ AddGribRecordToArray("sf", Now(IF rain.hit /\ snow.hit THEN "field" ELSE "zero"))
      /\ Rewind
      /\ NextTurn
      /\ UNCHANGED output

(* Closing the files ends the step; after the last one the arrays are      *)
(* integrated.                                                             *)
CloseInputs ==
  /\ phase = "hour" /\ turn > Len(LoadOrder)
  /\ \/ /\ forecastHour < LastStep
        /\ phase' = "open" /\ forecastHour' = forecastHour + 1
     \/ /\ forecastHour = LastStep
        /\ phase' = "integrate" /\ forecastHour' = 0
  /\ turn' = 1
  /\ UNCHANGED <<ensembleMember, fileVars, arrayVars, runningSum, output>>

-------------------------------------------------------------------------------
(* Integration.  Step 0 contributes nothing and gives a zero field.        *)
IntegrationTurn(v) ==
  /\ phase = "integrate" /\ turn <= Len(IntegrationOrder)
  /\ IntegrationOrder[turn] = v

NextSlot_StuckCounter ==
  UNCHANGED <<forecastHour, turn, phase, ensembleMember, fileVars, arrayVars>>

NextSlot ==
  /\ IF forecastHour < LastStep
     THEN forecastHour' = forecastHour + 1 /\ turn' = turn
     ELSE forecastHour' = 0 /\ turn' = turn + 1
  /\ UNCHANGED <<phase, ensembleMember, fileVars, arrayVars>>

(* Use the slot of this step: add it up and write the sum so far.          *)
Accumulate_CountsAnalysis(v) ==
  LET cell == resource[v][forecastHour]
      sum  == Append(runningSum, cell)
  IN  /\ output' = output \cup
           {[var |-> v, step |-> forecastHour, fields |-> sum]}
      /\ runningSum' = IF forecastHour = LastStep THEN <<>> ELSE sum
      /\ NextSlot

Accumulate(v) ==
  LET cell == resource[v][forecastHour]
      sum  == IF forecastHour = 0 THEN <<>> ELSE Append(runningSum, cell)
  IN  /\ output' = output \cup
           {[var |-> v, step |-> forecastHour, fields |-> sum]}
      /\ runningSum' = IF forecastHour = LastStep THEN <<>> ELSE sum
      /\ NextSlot

(* A slot that reads as NULL is passed over, where the generator tests it. *)
PassOver ==
  /\ runningSum' = IF forecastHour = LastStep THEN <<>> ELSE runningSum
  /\ NextSlot
  /\ UNCHANGED output

(* Dereferencing a NULL array or a stray pointer, or a GRIB_CHECK that     *)
(* meets rubbish, ends the process.                                        *)
Crash ==
  /\ phase' = "crash"
  /\ UNCHANGED <<ensembleMember, forecastHour, turn, fileVars, arrayVars,
                 runningSum, output>>

WildSlot(v) == resource[v][forecastHour].holds = "wild"

(* ssr, str, slhf and sshf read every slot and test none.                  *)
IntegrateUnguarded(v) ==
  /\ IntegrationTurn(v) /\ v \in ProcessQueue
  /\ \/ allocated[v] /\ Accumulate(v)
     \/ (allocated[v] => WildSlot(v)) /\ Crash

IntegrateSLHF == IntegrateUnguarded("slhf")
IntegrateSSHF == IntegrateUnguarded("sshf")
IntegrateSSR  == IntegrateUnguarded("ssr")
IntegrateSTR  == IntegrateUnguarded("str")

(* ttr and sf test the slot, and the size kept for it, before they use it. *)
IntegrateGuarded(v) ==
  \/ IntegrateUnguarded(v)
  \/ /\ IntegrationTurn(v) /\ v \in ProcessQueue
     /\ allocated[v] /\ WildSlot(v)
     /\ PassOver

IntegrateTTR == IntegrateGuarded("ttr")
IntegrateSF  == IntegrateGuarded("sf")

(* tp does not look at its array for step 0.                               *)
IntegrateTP ==
  \/ IntegrationTurn("tp") /\ "tp" \in ProcessQueue /\ forecastHour = 0 /\ Accumulate("tp")
  \/ forecastHour # 0 /\ IntegrateUnguarded("tp")

SkipIntegration ==
  /\ \E v \in TimeIntegrated \ ProcessQueue : IntegrationTurn(v)
  /\ turn' = turn + 1
  /\ UNCHANGED <<phase, ensembleMember, forecastHour, fileVars, arrayVars,
                 runningSum, output>>

(* Freeing walks the first numberOfSavedRecords slots of every array.      *)
FreedSlots(v) == 0..(numberOfSavedRecords[v] - 1)

ResetCounts_Forgotten == UNCHANGED numberOfSavedRecords
ResetCounts == numberOfSavedRecords' = [v \in TimeIntegrated |-> 0]

FreeData ==
  /\ phase = "integrate" /\ turn > Len(IntegrationOrder)
  /\ \A v \in TimeIntegrated : FreedSlots(v) # {} => allocated[v]
  /\ ResetCounts
  /\ resource' = [v \in TimeIntegrated |-> AllWild]
  /\ output' = {}
  /\ turn' = 1
  /\ IF ensembleMember < LastMember
     THEN ensembleMember' = ensembleMember + 1 /\ phase' = "open"
     ELSE phase' = "done" /\ UNCHANGED ensembleMember
  /\ UNCHANGED <<forecastHour, fileVars, allocated, runningSum>>

FreeCrashes ==
  /\ phase = "integrate" /\ turn > Len(IntegrationOrder)
  /\ \E v \in TimeIntegrated : \E i \in FreedSlots(v) :
        allocated[v] => resource[v][i].holds = "wild"
  /\ Crash

Load ==
  LoadTTR \/ LoadSLHF \/ LoadSSHF \/ LoadSSR \/ LoadSTR \/ LoadTP \/ LoadSF

GenerateInstant ==
  GenerateSF6 \/ GenerateTCW \/ GeneratePT \/ GenerateSM \/ GenerateST

Integrate ==
  \/ IntegrateTTR \/ IntegrateSLHF \/ IntegrateSSHF \/ IntegrateSF
  \/ IntegrateSSR \/ IntegrateSTR \/ IntegrateTP \/ SkipIntegration

Next ==
  \/ OpenInputs \/ OpenFails \/ SkipVariable \/ Load \/ GenerateInstant
  \/ CloseInputs \/ Integrate \/ FreeData \/ FreeCrashes

Spec == Init /\ [][Next]_vars /\ WF_vars(Next)

-------------------------------------------------------------------------------
(* Properties.                                                             *)

(* Every variable keeps its type; no array holds more records than the     *)
(* member has steps, the bound within which bytesPerRecord is indexed.     *)
TypeOK ==
  /\ phase \in {"open", "hour", "integrate", "done", "exit", "crash"}
  /\ ensembleMember \in Members
  /\ forecastHour \in Steps
  /\ turn \in 1..(Len(LoadOrder) + 1)
  /\ aFile \in Seq(Kinds) /\ bFile \in Seq(Kinds)
  /\ posA \in 0..Len(aFile) /\ posB \in 0..Len(bFile)
  /\ allocated \in [TimeIntegrated -> BOOLEAN]
  /\ resource \in [TimeIntegrated -> [Steps -> Cell]]
  /\ numberOfSavedRecords \in [TimeIntegrated -> 0..(LastStep + 1)]
  /\ runningSum \in Seq(Cell)
  /\ \A o \in output : /\ o.var \in Variables
                       /\ o.step \in Steps
                       /\ o.fields \in Seq(Cell)

Position(v) == CHOOSE i \in 1..Len(LoadOrder) : LoadOrder[i] = v

(* How many times the member at hand has been through the load of v.       *)
LoadsDone(v) ==
  CASE phase = "open"      -> forecastHour
    [] phase = "hour"      -> forecastHour + (IF turn > Position(v) THEN 1 ELSE 0)
    [] phase = "integrate" -> LastStep + 1
    [] OTHER               -> 0

NothingLost(v) == numberOfSavedRecords[v] = LoadsDone(v)

(* As long as no load of v failed for this member, slot i of its array     *)
(* holds the record of step i, whatever the files of the member looked     *)
(* like and whatever happened to the members before it (the arrays and     *)
(* counters are reused from one member to the next).                       *)
ArraysAligned ==
  \A v \in TimeIntegrated \cap ProcessQueue : \A i \in FreedSlots(v) :
    phase \in {"open", "hour", "integrate"} /\ NothingLost(v)
      => /\ allocated[v]
         /\ resource[v][i].step = i
         /\ resource[v][i].holds # "wild"

(* A written integral of such a variable adds up exactly steps 1..f, each  *)
(* once and step 0 never ("must NOT count initial time step").             *)
OutputAligned ==
  \A o \in output :
    o.var \in TimeIntegrated /\ phase = "integrate" /\ NothingLost(o.var)
      => /\ Len(o.fields) = o.step
         /\ \A j \in 1..o.step : o.fields[j].step = j

(* The program crashes only in a member that lost a record.                *)
CrashNeedsLoss ==
  phase = "crash" =>
    \E v \in TimeIntegrated \cap ProcessQueue : numberOfSavedRecords[v] < LastStep + 1

(* Nothing is lost at step 0: the fluxes that have no analysis record are  *)
(* replaced by blank records, tp and sf by zeros.                          *)
FirstStepNeverLost ==
  \A v \in TimeIntegrated \cap ProcessQueue :
    phase = "hour" /\ forecastHour = 0 /\ turn > Position(v)
      => allocated[v] /\ numberOfSavedRecords[v] = 1

(* Did the step at hand get what it wants for v?                           *)
Got(v) ==
  IF v \in TimeIntegrated
  THEN /\ allocated[v] /\ numberOfSavedRecords[v] > 0
       /\ resource[v][numberOfSavedRecords[v] - 1].step = forecastHour
  ELSE \E o \in output : o.var = v /\ o.step = forecastHour

(* The readers share two file positions.  As long as every reader of the   *)
(* step got its records, the next one starts at the top of both files.     *)
FreshScan ==
  phase = "hour" /\ (\A i \in 1..(turn - 1) :
                       LoadOrder[i] \in ProcessQueue => Got(LoadOrder[i]))
    => posA = 0 /\ posB = 0

Has(file, kinds) == \E i \in DOMAIN file : file[i] \in kinds

HasTwo(kinds) ==
  \/ Has(aFile, kinds) /\ Has(bFile, kinds)
  \/ \E i, j \in DOMAIN aFile : i # j /\ {aFile[i], aFile[j]} \subseteq kinds
  \/ \E i, j \in DOMAIN bFile : i # j /\ {bFile[i], bFile[j]} \subseteq kinds

Either(kind) == Has(aFile, {kind}) \/ Has(bFile, {kind})

(* Do the open files hold the records that v is made from?                 *)
Provided(v) ==
  CASE v = "ttr"  -> Either("ulwrfTop")
    [] v = "slhf" -> Either("lhtfl")
    [] v = "sshf" -> Either("shtfl")
    [] v = "ssr"  -> HasTwo({"dswrf", "uswrf"})
    [] v = "str"  -> HasTwo({"dlwrf", "ulwrf"})
    [] v = "sf6"  -> Has(aFile, {"apcp"}) /\ Has(aFile, {"csnow"})
    [] v = "tcw"  -> Has(aFile, {"pwat"}) /\ Has(bFile, {"cwat"})
    [] v = "pt"   -> /\ PtSlots(bFile, 0, PressureKinds, "presNorth").found
                     /\ PtSlots(bFile, 0, TemperatureKinds, "tmpNorth").found
    [] v = "sm"   -> Has(aFile, SoilMoisture) /\ Has(bFile, SoilMoisture)
    [] v = "st"   -> HasTwo(SoilTemperature)
    [] v = "tp"   -> Has(aFile, {"apcp"})
    [] OTHER      -> TRUE

(* A load fails only if this step's files lack a record that it, or a      *)
(* reader before it in the same step, needs: a failed scan leaves the      *)
(* files at their end and takes later readers of the step with it, but     *)
(* never a later step.                                                     *)
LossHasCause ==
  [][\A v \in TimeIntegrated \cap ProcessQueue :
       Turn(v) /\ numberOfSavedRecords'[v] = numberOfSavedRecords[v] /\ turn' # turn
         => \E i \in 1..turn : LoadOrder[i] \in ProcessQueue /\ ~Provided(LoadOrder[i])
    ]_vars

(* Soil temperature rewinds before it reads, so whether its file is        *)
(* written depends on this step's input alone, not on earlier failures.    *)
STFromInputAlone ==
  [][Turn("st") /\ "st" \in ProcessQueue /\ turn' # turn
       => (Got("st")' <=> Provided("st"))]_vars

(* The main loop ends.                                                     *)
Termination == <>(phase \in {"done", "exit", "crash"})
===============================================================================
