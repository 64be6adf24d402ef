------------------------ MODULE NcdcTiggeProductsProofs ------------------------
(***************************************************************************)
(* Proof that the main loop implements the safety part of TiggeProducts on *)
(* input that lacks nothing: for every number of members and steps, every  *)
(* list of variables, and any order of the records in the files.           *)
(***************************************************************************)
EXTENDS NcdcTiggeProducts, NcdcTiggeAlignment

-------------------------------------------------------------------------------
(* The scans of files that lack nothing.                                   *)

(* Two scans from the top find two different records.                      *)
BothFound(a, b, kinds) ==
  LET one == ScanBoth(a, 0, b, 0, kinds)
      two == ScanBoth(a, one.posA, b, one.posB, kinds)
  IN  /\ one.hit /\ two.hit /\ one.kind # two.kind
      /\ one.kind \in kinds /\ two.kind \in kinds

(* Two scans for two kinds, of which the files have each once, find both.  *)
LEMMA TwoScansDiffer ==
  ASSUME NEW a \in Seq(Kinds), NEW b \in Seq(Kinds), NEW k, NEW l, k # l,
         EachOnce(a, b, {k, l})
  PROVE  BothFound(a, b, {k, l})
<1> DEFINE one == ScanBoth(a, 0, b, 0, {k, l})
           two == ScanBoth(a, one.posA, b, one.posB, {k, l})
<1> SUFFICES /\ one.hit /\ two.hit /\ one.kind # two.kind
             /\ one.kind \in {k, l} /\ two.kind \in {k, l}
  BY DEF BothFound
<1> DEFINE inA == ScanFile(a, 0, {k, l})
           inB == ScanFile(b, 0, {k, l})
<1>1. /\ DOMAIN a = 1..Len(a) /\ Len(a) \in Nat /\ 0 \in 0..Len(a) /\ Len(a) \in 0..Len(a)
      /\ DOMAIN b = 1..Len(b) /\ Len(b) \in Nat /\ 0 \in 0..Len(b)
  OBVIOUS
<1>2. /\ Has(a, {k, l}) \/ Has(b, {k, l})
      /\ TwoIn(a, b, {k, l})
      /\ \A i, j \in 1..Len(a) : a[i] \in {k, l} /\ a[i] = a[j] => i = j
      /\ \A i, j \in 1..Len(b) : b[i] \in {k, l} /\ b[i] = b[j] => i = j
      /\ \A i \in 1..Len(a), j \in 1..Len(b) : a[i] \in {k, l} => a[i] # b[j]
  <2>1. \A x \in {k, l} : \/ OnceIn(a, x) /\ ~Has(b, {x})
                          \/ ~Has(a, {x}) /\ OnceIn(b, x)
    BY DEF EachOnce
  <2>2. /\ \A i, j \in 1..Len(a) : a[i] \in {k, l} /\ a[i] = a[j] => i = j
        /\ \A i, j \in 1..Len(b) : b[i] \in {k, l} /\ b[i] = b[j] => i = j
        /\ \A i \in 1..Len(a), j \in 1..Len(b) : a[i] \in {k, l} => a[i] # b[j]
    <3>1. ASSUME NEW x \in {k, l}
          PROVE  /\ \A i, j \in 1..Len(a) : a[i] = x /\ a[j] = x => i = j
                 /\ \A i, j \in 1..Len(b) : b[i] = x /\ b[j] = x => i = j
                 /\ \A i \in 1..Len(a), j \in 1..Len(b) : ~(a[i] = x /\ b[j] = x)
      <4>1. /\ Has(a, {x}) <=> \E i \in 1..Len(a) : a[i] = x
            /\ Has(b, {x}) <=> \E i \in 1..Len(b) : b[i] = x
        BY <1>1 DEF Has
      <4>2. /\ OnceIn(a, x) => \A i, j \in 1..Len(a) : a[i] = x /\ a[j] = x => i = j
            /\ OnceIn(b, x) => \A i, j \in 1..Len(b) : b[i] = x /\ b[j] = x => i = j
        BY <1>1 DEF OnceIn
      <4> QED BY <2>1, <4>1, <4>2
    <3> QED BY <3>1
  <2>3. \A x \in {k, l} : \/ \E i \in 1..Len(a) : a[i] = x
                          \/ \E i \in 1..Len(b) : b[i] = x
    BY <1>1, <2>1 DEF OnceIn
  <2>4. Has(a, {k, l}) \/ Has(b, {k, l})
    BY <1>1, <2>3 DEF Has
  <2>5. TwoIn(a, b, {k, l})
    BY <1>1, <2>3 DEF TwoIn, Has
  <2> QED BY <2>2, <2>4, <2>5
<1>3. one.hit /\ two.hit
  BY <1>2, TwoScansFind
<1>4. /\ inA.hit <=> Has(a, {k, l})
      /\ inB.hit <=> Has(b, {k, l})
  BY ScanFileFinds
<1>5. IF inA.hit THEN inA.pos \in 1..Len(a) /\ inA.kind = a[inA.pos] /\ a[inA.pos] \in {k, l}
      ELSE inA.pos = Len(a)
  BY <1>1, <1>4, ScanFileResult DEF Has
<1>6. IF inB.hit THEN inB.pos \in 1..Len(b) /\ inB.kind = b[inB.pos] /\ b[inB.pos] \in {k, l}
      ELSE inB.pos = Len(b)
  BY <1>1, <1>4, ScanFileResult DEF Has
<1>7. one = IF inA.hit
            THEN [hit |-> TRUE,    kind |-> inA.kind, posA |-> inA.pos, posB |-> 0]
            ELSE [hit |-> inB.hit, kind |-> inB.kind, posA |-> inA.pos, posB |-> inB.pos]
  BY DEF ScanBoth
<1> DEFINE moreA == ScanFile(a, one.posA, {k, l})
           moreB == ScanFile(b, one.posB, {k, l})
<1>8. two = IF moreA.hit
            THEN [hit |-> TRUE,      kind |-> moreA.kind, posA |-> moreA.pos, posB |-> one.posB]
            ELSE [hit |-> moreB.hit, kind |-> moreB.kind, posA |-> moreA.pos, posB |-> moreB.pos]
  BY DEF ScanBoth
<1> HIDE DEF inA, inB, one, two
<1>9. one.posA \in 0..Len(a) /\ one.posB \in 0..Len(b)
  BY <1>1, <1>3, <1>5, <1>6, <1>7
<1>10. moreA.hit => /\ moreA.pos \in (one.posA + 1)..Len(a)
                    /\ moreA.kind = a[moreA.pos] /\ a[moreA.pos] \in {k, l}
  BY <1>9, ScanFileResult
<1>11. moreB.hit => /\ moreB.pos \in (one.posB + 1)..Len(b)
                    /\ moreB.kind = b[moreB.pos] /\ b[moreB.pos] \in {k, l}
  BY <1>9, ScanFileResult
<1> HIDE DEF moreA, moreB
<1>12. CASE inA.hit
  <2>1. one.kind = a[one.posA] /\ one.posA \in 1..Len(a) /\ a[one.posA] \in {k, l} /\ one.posB = 0
    BY <1>5, <1>7, <1>12
  <2>2. CASE moreA.hit
    BY <1>1, <1>2, <1>8, <1>10, <2>1, <1>3, <2>2
  <2>3. CASE ~moreA.hit
    <3>1. moreB.hit /\ two.kind = moreB.kind
      BY <1>3, <1>8, <2>3
    <3>2. moreB.pos \in 1..Len(b)
      BY <1>1, <1>11, <2>1, <3>1
    <3> QED BY <1>2, <1>3, <1>11, <2>1, <3>1, <3>2
  <2> QED BY <2>2, <2>3
<1>13. CASE ~inA.hit
  <2>1. inB.hit /\ one.kind = b[one.posB] /\ one.posB \in 1..Len(b) /\ b[one.posB] \in {k, l}
        /\ one.posA = Len(a)
    BY <1>3, <1>5, <1>6, <1>7, <1>13
  <2>2. ~moreA.hit
    BY <1>1, <1>10, <2>1
  <2>3. moreB.hit /\ two.kind = moreB.kind
    BY <1>3, <1>8, <2>2
  <2> QED BY <1>1, <1>2, <1>3, <1>11, <2>1, <2>3
<1> QED BY <1>12, <1>13

(* The four slots of potential temperature get the right records.          *)
LEMMA HemispheresFound ==
  ASSUME NEW b \in Seq(Kinds), NEW north, NEW south, NEW other, north # south,
         Hemispheres(b, north, south, other)
  PROVE  /\ PtSlots(b, 0, {north, south, other}, north).found
         /\ PtSlots(b, 0, {north, south, other}, north).south = south
<1> DEFINE all      == Ahead(b, 0, {north, south, other})
           northern == Ahead(b, 0, {north})
           southern == IF northern = {} THEN all ELSE all \ {First(northern)}
<1>1. DOMAIN b = 1..Len(b) /\ Len(b) \in Nat
  OBVIOUS
<1>2. PICK i \in 1..Len(b) : \A j \in 1..Len(b) : b[j] = north <=> j = i
  BY <1>1 DEF Hemispheres, OnceIn
<1>3. northern = {i}
  BY <1>1, <1>2 DEF Ahead
<1>4. First(northern) = i
  <2> HIDE DEF northern
  <2>1. northern \in SUBSET Nat
    BY <1>1, <1>3
  <2> QED BY <1>3, <2>1, FirstInSet
<1>5. \A j \in 1..Len(b) : b[j] \in {north, south, other} => b[j] \in {north, south}
  BY <1>1 DEF Hemispheres, Has
<1>6. southern = {j \in 1..Len(b) : b[j] = south}
  <2>1. all = {j \in 1..Len(b) : b[j] \in {north, south, other}}
    BY <1>1 DEF Ahead
  <2> HIDE DEF all, northern
  <2>2. southern = all \ {i}
    BY <1>3, <1>4
  <2> QED BY <1>2, <1>5, <2>1, <2>2
<1>7. southern # {} /\ southern \in SUBSET Nat
  <2>1. \E j \in 1..Len(b) : b[j] = south
    BY <1>1 DEF Hemispheres, Has
  <2> HIDE DEF southern
  <2> QED BY <1>1, <1>6, <2>1
<1>8. First(southern) \in southern
  <2> HIDE DEF southern
  <2> QED BY <1>7, FirstInSet
<1>9. b[First(southern)] = south
  <2> HIDE DEF southern
  <2> QED BY <1>6, <1>8
<1>10. PtSlots(b, 0, {north, south, other}, north) =
         [found |-> northern # {} /\ southern # {},
          south |-> IF southern = {} THEN "none" ELSE b[First(southern)]]
  BY DEF PtSlots
<1> HIDE DEF all, northern, southern
<1>11. PtSlots(b, 0, {north, south, other}, north) = [found |-> TRUE, south |-> south]
  BY <1>3, <1>7, <1>9, <1>10
<1> QED BY <1>11

-------------------------------------------------------------------------------
(* What the readers do with files that lack nothing.                       *)

(* While a step is read the open files are its input, and at their top.    *)
Opened ==
  phase = "hour" =>
    /\ posA = 0 /\ posB = 0
    /\ \E f \in InputFiles[forecastHour] : aFile = f.a /\ bFile = f.b

(* The files suffice for every variable on the list that is read.          *)
LEMMA FilesSuffice ==
  ASSUME IInv, Opened, LackNothing(InputFiles), phase = "hour", NEW v \in ProcessQueue,
         forecastHour # 0 \/ v \in Instant \ {"sf6"}
  PROVE  Suffices(aFile, bFile, v)
<1>1. PICK f \in InputFiles[forecastHour] : aFile = f.a /\ bFile = f.b
  BY DEF Opened
<1>2. forecastHour \in Steps
  BY DEF IInv, TypeOK
<1>3. Suffices(f.a, f.b, v)
  BY <1>1, <1>2 DEF LackNothing
<1> QED BY <1>1, <1>3

(* A load stores a record, from step 1 on the right one, and rewinds.      *)
StoresRight(v) ==
  /\ posA' = 0 /\ posB' = 0
  /\ \E h \in Holdings \ {"wild"} :
       /\ AddGribRecordToArray(v, Now(h))
       /\ forecastHour # 0 /\ NothingLost(v) => h = "field"

LEMMA LoadStoresRight ==
  ASSUME IInv, Opened, LackNothing(InputFiles), Load
  PROVE  \E v : LoadAt(v) /\ StoresRight(v)
<1>0. /\ {"ttr", "slhf", "sshf", "ssr", "str", "tp", "sf"} \subseteq TimeIntegrated
      /\ aFile \in Seq(Kinds) /\ bFile \in Seq(Kinds)
      /\ "field" \in Holdings \ {"wild"} /\ "blank" \in Holdings \ {"wild"}
      /\ "zero" \in Holdings \ {"wild"}
  BY DEF TimeIntegrated, IInv, TypeOK, Holdings
<1>1. ASSUME NEW v, LoadAt(v)
      PROVE  /\ posA = 0 /\ posB = 0 /\ v \in ProcessQueue
             /\ NothingLost(v) => numberOfSavedRecords[v] = forecastHour
             /\ forecastHour # 0 => Suffices(aFile, bFile, v)
  BY <1>1, LoadFrame, FilesSuffice DEF Opened, NothingLost
<1>2. ASSUME NEW v \in TimeIntegrated, NEW kind, LoadOne(v, kind),
             Suffices(aFile, bFile, v) => Either(kind)
      PROVE  LoadAt(v) /\ StoresRight(v)
  <2> DEFINE scan == ScanBoth(aFile, 0, bFile, 0, {kind})
  <2>1. LoadAt(v)
    BY <1>2, LoadOneIsLoad
  <2>2. scan.hit <=> Either(kind)
    BY <1>0, ScanBothFinds DEF Either
  <2>3. \/ /\ scan.hit \/ forecastHour = 0
           /\ AddGribRecordToArray(v, Now(IF scan.hit THEN "field" ELSE "blank"))
           /\ Rewind
        \/ ~(scan.hit \/ forecastHour = 0)
    BY <1>1, <1>2, <2>1 DEF LoadOne, IgnoreMissingInput
  <2> HIDE DEF scan
  <2>4. scan.hit \/ forecastHour = 0
    BY <1>1, <1>2, <2>1, <2>2
  <2> QED BY <1>0, <2>1, <2>3, <2>4 DEF StoresRight, Rewind
<1>3. ASSUME NEW v \in TimeIntegrated, NEW down, NEW up, down # up, LoadNet(v, down, up),
             Suffices(aFile, bFile, v)
               => EachOnce(aFile, bFile, {down, up})
      PROVE  LoadAt(v) /\ StoresRight(v)
  <2> DEFINE one  == ScanBoth(aFile, 0, bFile, 0, {down, up})
             two  == ScanBoth(aFile, one.posA, bFile, one.posB, {down, up})
             net  == NetFlux(one.kind, two.kind, down, up)
             both == one.hit /\ two.hit
             made == CASE ~both -> "blank"
                       [] both /\ net = [plus |-> down, minus |-> up] -> "field"
                       [] OTHER -> "mixed"
  <2>1. LoadAt(v)
    BY <1>3, LoadNetIsLoad
  <2>2. posA = 0 /\ posB = 0
    BY <1>1, <2>1
  <2>3. \/ AddGribRecordToArray(v, Now(made)) /\ Rewind
        \/ ~both /\ forecastHour # 0
    BY <1>3, <2>2, Zenon DEF LoadNet, IgnoreMissingInput
  <2>4. forecastHour # 0 => both /\ one.kind # two.kind /\ one.kind \in {down, up}
                            /\ two.kind \in {down, up}
    <3>1. forecastHour # 0 => EachOnce(aFile, bFile, {down, up})
      BY <1>1, <1>3, <2>1
    <3>2. forecastHour # 0 => BothFound(aFile, bFile, {down, up})
      BY <1>0, <1>3, <3>1, TwoScansDiffer
    <3> QED BY <3>2 DEF BothFound
  <2> HIDE DEF one, two
  <2>5. forecastHour # 0 => made = "field"
    BY <1>3, <2>4 DEF NetFlux
  <2>6. made \in Holdings \ {"wild"}
    <3> HIDE DEF net, both
    <3> QED BY DEF Holdings
  <2> HIDE DEF made, both
  <2>7. AddGribRecordToArray(v, Now(made)) /\ Rewind
    BY <2>3, <2>4
  <2> QED BY <2>1, <2>5, <2>6, <2>7 DEF StoresRight, Rewind
<1>4. CASE LoadTTR \/ LoadSLHF \/ LoadSSHF
  BY <1>0, <1>2, <1>4 DEF LoadTTR, LoadSLHF, LoadSSHF, Suffices, Either
<1>5. CASE LoadSSR \/ LoadSTR
  BY <1>0, <1>3, <1>5 DEF LoadSSR, LoadSTR, Suffices
<1>6. CASE LoadTP
  <2> DEFINE first == numberOfSavedRecords["tp"] = 0
             scan  == ScanFile(aFile, 0, {"apcp"})
  <2>1. LoadAt("tp")
    BY <1>6, LoadTPIsLoad
  <2>2. posA = 0 /\ posB = 0
    BY <1>1, <2>1
  <2>3. forecastHour # 0 => scan.hit
    BY <1>0, <1>1, <2>1, ScanFileFinds DEF Suffices
  <2>4. posB' = 0
        /\ \/ /\ AddGribRecordToArray("tp", Now(IF first THEN "zero" ELSE "field"))
              /\ posA' = 0
           \/ ~(first \/ scan.hit)
    BY <1>6, <2>2 DEF LoadTP
  <2>5. (forecastHour = 0 => first) /\ (forecastHour # 0 /\ NothingLost("tp") => ~first)
    <3>1. numberOfSavedRecords["tp"] \in 0..forecastHour
      BY <2>1, LoadFrame
    <3> QED BY <1>1, <2>1, <3>1
  <2> HIDE DEF first, scan
  <2> QED BY <1>0, <2>1, <2>3, <2>4, <2>5 DEF StoresRight
<1>7. CASE LoadSF
  <2>1. LoadAt("sf")
    BY <1>7, LoadSFIsLoad
  <2>2. forecastHour # 0 => ScanFile(aFile, 0, {"apcp"}).hit /\ ScanFile(aFile, 0, {"csnow"}).hit
    BY <1>0, <1>1, <2>1, ScanFileFinds DEF Suffices
  <2>3. \E h \in {"field", "zero"} :
          /\ AddGribRecordToArray("sf", Now(h)) /\ Rewind
          /\ forecastHour # 0 => h = "field"
    BY <1>7, <2>2 DEF LoadSF
  <2> QED BY <1>0, <2>1, <2>3 DEF StoresRight, Rewind
<1> QED BY <1>4, <1>5, <1>6, <1>7 DEF Load

(* A generator writes its product and rewinds.                             *)
WritesRight(v) ==
  /\ posA' = 0 /\ posB' = 0
  /\ output' = output \cup {Products!Product(v, forecastHour)}

(* The product of an instant variable.                                     *)
LEMMA InstantProduct ==
  ASSUME NEW v \in Instant, NEW h, WriteInstant(v, h),
         h = IF v = "sf6" /\ forecastHour = 0 THEN "zero" ELSE "field"
  PROVE  output' = output \cup {Products!Product(v, forecastHour)}
<1>1. v \notin TimeIntegrated
  BY DEF Instant, TimeIntegrated
<1> QED BY <1>1 DEF WriteInstant, Now, Products!Product, Products!Field

LEMMA InstantWritesRight ==
  ASSUME IInv, Opened, LackNothing(InputFiles), GenerateInstant
  PROVE  \E v : InstantAt(v) /\ WritesRight(v)
<1>0. /\ aFile \in Seq(Kinds) /\ bFile \in Seq(Kinds)
      /\ {"sf6", "tcw", "pt", "sm", "st"} \subseteq Instant
  BY DEF IInv, TypeOK, Instant
<1>1. ASSUME NEW v, InstantAt(v)
      PROVE  /\ posA = 0 /\ posB = 0
             /\ forecastHour # 0 \/ v # "sf6" => Suffices(aFile, bFile, v)
  <2>1. phase = "hour" /\ v \in ProcessQueue /\ v \in Instant
    BY <1>1 DEF InstantAt, Generate, Turn
  <2> QED BY <2>1, FilesSuffice DEF Opened
<1>2. CASE GenerateSF6
  <2>1. InstantAt("sf6")
    BY <1>2, GenerateSF6IsInstant
  <2>2. forecastHour # 0 => ScanFile(aFile, 0, {"csnow"}).hit /\ ScanFile(aFile, 0, {"apcp"}).hit
    BY <1>0, <1>1, <2>1, ScanFileFinds DEF Suffices
  <2>3. posA' = 0 /\ posB' = 0
        /\ WriteInstant("sf6", IF forecastHour = 0 THEN "zero" ELSE "field")
    BY <1>1, <1>2, <2>1, <2>2 DEF GenerateSF6
  <2> QED BY <1>0, <2>1, <2>3, InstantProduct DEF WritesRight
<1>3. CASE GenerateTCW
  <2>1. InstantAt("tcw")
    BY <1>3, GenerateTCWIsInstant
  <2>2. ScanFile(aFile, 0, {"pwat"}).hit /\ ScanFile(bFile, 0, {"cwat"}).hit
    BY <1>0, <1>1, <2>1, ScanFileFinds DEF Suffices
  <2>3. Rewind /\ WriteInstant("tcw", "field")
    BY <1>1, <1>3, <2>1, <2>2 DEF GenerateTCW
  <2> QED BY <1>0, <2>1, <2>3, InstantProduct DEF WritesRight, Rewind
<1>4. CASE GeneratePT
  <2>1. InstantAt("pt")
    BY <1>4, GeneratePTIsInstant
  <2>2. /\ Hemispheres(bFile, "presNorth", "presSouth", "presOther")
        /\ Hemispheres(bFile, "tmpNorth", "tmpSouth", "tmpOther")
    BY <1>1, <2>1 DEF Suffices
  <2>3. /\ PtSlots(bFile, 0, PressureKinds, "presNorth").found
        /\ PtSlots(bFile, 0, PressureKinds, "presNorth").south = "presSouth"
        /\ PtSlots(bFile, 0, TemperatureKinds, "tmpNorth").found
        /\ PtSlots(bFile, 0, TemperatureKinds, "tmpNorth").south = "tmpSouth"
    BY <1>0, <2>2, HemispheresFound DEF PressureKinds, TemperatureKinds
  <2>4. Rewind /\ WriteInstant("pt", "field")
    BY <1>1, <1>4, <2>1, <2>3 DEF GeneratePT
  <2> QED BY <1>0, <2>1, <2>4, InstantProduct DEF WritesRight, Rewind
<1>5. CASE GenerateSM
  <2> DEFINE one == ScanFile(bFile, 0, SoilMoisture)
             two == ScanFile(aFile, 0, SoilMoisture)
  <2>1. InstantAt("sm")
    BY <1>5, GenerateSMIsInstant
  <2>2. PICK k \in SoilMoisture, l \in SoilMoisture : k # l /\ OneEach(aFile, bFile, k, l)
    BY <1>1, <2>1 DEF Suffices, SoilMoisture
  <2>3. /\ Has(aFile, {k}) /\ ~Has(aFile, {l}) /\ Has(bFile, {l}) /\ ~Has(bFile, {k})
        /\ SoilMoisture = {k, l}
    BY <2>2 DEF OneEach, SoilMoisture
  <2>4. /\ \E i \in 1..Len(aFile) : aFile[i] \in SoilMoisture
        /\ \E i \in 1..Len(bFile) : bFile[i] \in SoilMoisture
        /\ \A i \in 1..Len(aFile) : aFile[i] # l
        /\ \A i \in 1..Len(bFile) : bFile[i] # k
    BY <1>0, <2>3 DEF Has
  <2>5. one.hit /\ one.kind = l
    BY <1>0, <2>3, <2>4, ScanFileResult
  <2>6. two.hit /\ two.kind = k
    BY <1>0, <2>3, <2>4, ScanFileResult
  <2> HIDE DEF one, two
  <2>7. Rewind /\ WriteInstant("sm", "field")
    <3> USE DEF one, two
    <3> QED BY <1>1, <1>5, <2>1, <2>2, <2>5, <2>6 DEF GenerateSM
  <2> QED BY <1>0, <2>1, <2>7, InstantProduct DEF WritesRight, Rewind
<1>6. CASE GenerateST
  <2> DEFINE one == ScanBoth(aFile, 0, bFile, 0, SoilTemperature)
             two == ScanBoth(aFile, one.posA, bFile, one.posB, SoilTemperature)
  <2>1. InstantAt("st")
    BY <1>6, GenerateSTIsInstant
  <2>2. EachOnce(aFile, bFile, {"tsoilUpper", "tsoilLower"})
    BY <1>1, <2>1 DEF Suffices, SoilTemperature
  <2>3. one.hit /\ two.hit /\ one.kind # two.kind
    <3>1. BothFound(aFile, bFile, {"tsoilUpper", "tsoilLower"})
      BY <1>0, <2>2, TwoScansDiffer
    <3> QED BY <3>1 DEF BothFound, SoilTemperature
  <2>4. Rewind /\ WriteInstant("st", "field")
    BY <1>6, <2>3 DEF GenerateST, STStart
  <2> QED BY <1>0, <2>1, <2>4, InstantProduct DEF WritesRight, Rewind
<1> QED BY <1>2, <1>3, <1>4, <1>5, <1>6 DEF GenerateInstant

-------------------------------------------------------------------------------
(* The invariant.                                                          *)

(* The place of a variable in the order of the integrations.               *)
Place(v) == CHOOSE i \in 1..Len(IntegrationOrder) : IntegrationOrder[i] = v

(* Has the member at hand come past the product of v for step f?           *)
Passed(v, f) ==
  IF v \in TimeIntegrated
  THEN /\ phase = "integrate"
       /\ turn > Place(v) \/ (turn = Place(v) /\ f < forecastHour)
  ELSE \/ phase = "integrate" \/ f < forecastHour
       \/ phase = "hour" /\ f = forecastHour /\ turn > Position(v)

(* The products that it has come past are written, and nothing else.       *)
WrittenOnly == Working =>
  /\ \A o \in output : \E v \in ProcessQueue, f \in Steps :
       Passed(v, f) /\ o = Products!Product(v, f)
  /\ \A v \in ProcessQueue, f \in Steps : Passed(v, f) => Products!Product(v, f) \in output

(* No record is lost, and but for the analysis each is the right one.      *)
AllStored == Working =>
  \A v \in TimeIntegrated \cap ProcessQueue :
    /\ NothingLost(v)
    /\ \A i \in FreedSlots(v) \ {0} : resource[v][i].holds = "field"

(* Only right records have been added up.                                  *)
SumOfFields == phase = "integrate" =>
  \A j \in 1..Len(runningSum) : runningSum[j].holds = "field"

CompleteInv == Opened /\ AllStored /\ SumOfFields /\ WrittenOnly

(* No state changes a product or a place in one of the orders.             *)
LEMMA FixedParts ==
  \A v, f : /\ Products!Product(v, f)' = Products!Product(v, f)
            /\ Position(v)' = Position(v) /\ Place(v)' = Place(v)
BY DEF Products!Product, Products!Field, Position, Place

(* Products of other variables or steps are other products.                *)
LEMMA ProductsDiffer ==
  \A v, f, w, g : Products!Product(v, f) = Products!Product(w, g) => v = w /\ f = g
BY DEF Products!Product

(* Every time-integrated variable has one place in the integrations.       *)
LEMMA PlaceIsPlace ==
  ASSUME NEW v \in TimeIntegrated
  PROVE  /\ Place(v) \in 1..7
         /\ IntegrationOrder[Place(v)] = v
         /\ \A i \in 1..7 : IntegrationOrder[i] = v => i = Place(v)
<1>1. Len(IntegrationOrder) = 7  BY DEF IntegrationOrder
<1>2. \E i \in 1..7 : IntegrationOrder[i] = v
  BY DEF IntegrationOrder, TimeIntegrated
<1>3. \A i, j \in 1..7 : IntegrationOrder[i] = IntegrationOrder[j] => i = j
  BY SMTT(60) DEF IntegrationOrder
<1> QED BY <1>1, <1>2, <1>3 DEF Place

(* A load of the right record keeps the arrays as they should be.          *)
LEMMA LoadKeepsStored ==
  ASSUME IInv, ArraysAligned, AllStored, NEW v, LoadAt(v), StoresRight(v)
  PROVE  AllStored'
<1>1. /\ phase = "hour" /\ phase' = "hour" /\ forecastHour' = forecastHour
      /\ v \in TimeIntegrated \cap ProcessQueue
      /\ LoadsDone(v) = forecastHour /\ LoadsDone(v)' = forecastHour + 1
      /\ forecastHour \in 0..LastStep /\ LastStep \in Nat
  BY LoadFrame, StepAssumption
<1>2. /\ NothingLost(v) /\ numberOfSavedRecords[v] = forecastHour
      /\ \A i \in FreedSlots(v) \ {0} : resource[v][i].holds = "field"
      /\ \A i \in FreedSlots(v) : allocated[v]
  BY <1>1 DEF AllStored, Working, NothingLost, ArraysAligned
<1>3. PICK h \in Holdings \ {"wild"} :
        AddGribRecordToArray(v, Now(h)) /\ (forecastHour # 0 => h = "field")
  BY <1>2 DEF StoresRight
<1>4. /\ numberOfSavedRecords'[v] = forecastHour + 1
      /\ resource'[v][forecastHour] = Now(h)
      /\ allocated[v] => \A i \in 0..(forecastHour - 1) : resource'[v][i] = resource[v][i]
  BY <1>2, <1>3, AddedSlots
<1>5. NothingLost(v)'
  BY <1>1, <1>4 DEF NothingLost
<1>6. ASSUME NEW i \in FreedSlots(v)' \ {0}
      PROVE  resource'[v][i].holds = "field"
  <2>1. i \in 1..forecastHour
    BY <1>1, <1>4 DEF FreedSlots
  <2>2. CASE i = forecastHour
    BY <1>1, <1>3, <1>4, <2>1, <2>2 DEF Now
  <2>3. CASE i # forecastHour
    <3>1. i \in FreedSlots(v) \ {0} /\ i \in 0..(forecastHour - 1)
      BY <1>1, <1>2, <2>1, <2>3 DEF FreedSlots
    <3> QED BY <1>2, <1>4, <3>1
  <2> QED BY <2>2, <2>3
<1>7. ASSUME NEW w \in (TimeIntegrated \cap ProcessQueue) \ {v}
      PROVE  NothingLost(w)' /\ \A i \in FreedSlots(w)' \ {0} : resource'[w][i].holds = "field"
  BY <1>1, LoadFrame DEF AllStored, Working, NothingLost, FreedSlots
<1> QED BY <1>5, <1>6, <1>7 DEF AllStored

(* A member is freed after its last integration, where the step is 0.      *)
LEMMA FreedAtZero ==
  ASSUME IInv, OutputInv, FreeData
  PROVE  forecastHour = 0 /\ runningSum = <<>> /\ turn > 7
<1>1. phase = "integrate" /\ turn > 7 /\ turn \in Nat
  BY OrderLengths DEF FreeData, IInv, TypeOK
<1>2. \A v : ~IntegrationTurn(v)
  BY <1>1, OrderLengths DEF IntegrationTurn
<1> QED BY <1>1, <1>2 DEF OutputInv, SumsAligned

(* So does every other step.                                               *)
LEMMA OtherStepsKeepStored ==
  ASSUME IInv, OutputInv, AllStored, [Next]_vars, ~Load
  PROVE  AllStored'
<1>1. CASE UNCHANGED vars
  BY <1>1 DEF vars, loopVars, arrayVars, AllStored, Working, NothingLost, FreedSlots, LoadsDone,
              Position
<1>2. CASE FreeData
  <2>1. /\ \A w \in TimeIntegrated : numberOfSavedRecords'[w] = 0 /\ FreedSlots(w)' = {}
        /\ phase' \in {"open", "done"} /\ forecastHour' = forecastHour
    BY <1>2, FreeDataClears
  <2>2. forecastHour = 0
    BY <1>2, FreedAtZero
  <2> QED BY <2>1, <2>2 DEF AllStored, Working, NothingLost, LoadsDone
<1>3. CASE Next /\ ~FreeData
  BY <1>3, QuietSteps DEF Next, Quiet, arrayVars, AllStored, NothingLost, FreedSlots
<1> QED BY <1>1, <1>2, <1>3

-------------------------------------------------------------------------------
(* Every step is a step of the promise.                                    *)

(* The product that the member comes past next is published.               *)
LEMMA PublishStep ==
  ASSUME IInv, WrittenOnly, Working, Working', UNCHANGED ensembleMember,
         NEW v \in ProcessQueue, NEW f \in Steps, ~Passed(v, f),
         \A g \in 0..(f - 1) : Passed(v, g),
         output' = output \cup {Products!Product(v, f)},
         \A w \in ProcessQueue, g \in Steps : Passed(w, g)' <=> Passed(w, g) \/ (w = v /\ g = f)
  PROVE  WrittenOnly' /\ Products!Publish(v, f)
<1>1. /\ \A o \in output : \E w \in ProcessQueue, g \in Steps :
           Passed(w, g) /\ o = Products!Product(w, g)
      /\ \A w \in ProcessQueue, g \in Steps : Passed(w, g) => Products!Product(w, g) \in output
  BY DEF WrittenOnly
<1>2. WrittenOnly'
  <2>1. \A o \in output' : \E w \in ProcessQueue, g \in Steps :
          Passed(w, g)' /\ o = Products!Product(w, g)
    BY <1>1
  <2>2. \A w \in ProcessQueue, g \in Steps : Passed(w, g)' => Products!Product(w, g) \in output'
    BY <1>1
  <2> QED BY <2>1, <2>2, FixedParts DEF WrittenOnly
<1>3. Products!Product(v, f) \notin output
  BY <1>1, ProductsDiffer
<1>4. \A g \in 0..(f - 1) : Products!Product(v, g) \in output
  <2>1. \A g \in 0..(f - 1) : g \in Steps
    BY StepAssumption DEF Steps
  <2> QED BY <1>1, <2>1
<1>5. Status = "running" /\ Status' = "running"
  BY DEF Working, Status
<1> QED BY <1>2, <1>3, <1>4, <1>5 DEF Products!Publish

(* A step that comes past no product and writes none changes nothing in    *)
(* the promise.                                                            *)
LEMMA StutterStep ==
  ASSUME WrittenOnly, Working, Working', UNCHANGED <<ensembleMember, output>>,
         \A w \in ProcessQueue, g \in Steps : Passed(w, g)' <=> Passed(w, g)
  PROVE  WrittenOnly' /\ UNCHANGED <<ensembleMember, output, Status>>
<1>1. WrittenOnly'
  BY FixedParts DEF WrittenOnly
<1>2. Status = "running" /\ Status' = "running"
  BY DEF Working, Status
<1> QED BY <1>1, <1>2

(* A turn of a variable comes past its product of the step, if it is an    *)
(* instant one.                                                            *)
LEMMA TurnPasses ==
  ASSUME IInv, NEW v \in Variables, Turn(v), NextTurn
  PROVE  /\ Working /\ Working' /\ UNCHANGED ensembleMember /\ forecastHour \in Steps
         /\ v \in Instant => ~Passed(v, forecastHour)
                             /\ \A g \in 0..(forecastHour - 1) : Passed(v, g)
         /\ \A w \in ProcessQueue, g \in Steps :
              Passed(w, g)' <=> Passed(w, g) \/ (w \in Instant /\ w = v /\ g = forecastHour)
<1>1. /\ phase = "hour" /\ phase' = "hour" /\ forecastHour' = forecastHour
      /\ forecastHour \in Steps /\ LastStep \in Nat /\ UNCHANGED ensembleMember
      /\ turn \in 1..12 /\ turn' = turn + 1 /\ LoadOrder[turn] = v
  BY TurnTaken, StepAssumption DEF IInv, TypeOK, Turn, NextTurn
<1>2. \A w \in Variables : Position(w) \in 1..12 /\ (w = v <=> Position(w) = turn)
  BY <1>1, PositionIsPlace
<1>3. ProcessQueue \subseteq Variables
  BY QueueAssumption
<1>4. \A w \in Variables : w \in Instant <=> w \notin TimeIntegrated
  BY DEF Variables, TimeIntegrated, Instant
<1>5. v \in Instant => ~Passed(v, forecastHour) /\ \A g \in 0..(forecastHour - 1) : Passed(v, g)
  BY <1>1, <1>2, <1>4 DEF Passed, Steps
<1>6. ASSUME NEW w \in ProcessQueue, NEW g \in Steps
      PROVE  Passed(w, g)' <=> Passed(w, g) \/ (w \in Instant /\ w = v /\ g = forecastHour)
  <2>1. CASE w \in TimeIntegrated
    BY <1>1, <1>3, <1>4, <2>1 DEF Passed
  <2>2. CASE w \notin TimeIntegrated
    <3>1. /\ Passed(w, g)  <=> g < forecastHour \/ (g = forecastHour /\ turn > Position(w))
          /\ Passed(w, g)' <=> g < forecastHour \/ (g = forecastHour /\ turn + 1 > Position(w))
      BY <1>1, <2>2, FixedParts DEF Passed
    <3> QED BY <1>1, <1>2, <1>3, <1>4, <2>2, <3>1 DEF Steps
  <2> QED BY <2>1, <2>2
<1> QED BY <1>1, <1>5, <1>6 DEF Working

(* A slot comes past the integral of its step.                             *)
LEMMA SlotPasses ==
  ASSUME IInv, NEW v \in TimeIntegrated \cap ProcessQueue, IntegrationTurn(v), NextSlot
  PROVE  /\ Working /\ Working' /\ UNCHANGED ensembleMember /\ forecastHour \in Steps
         /\ ~Passed(v, forecastHour) /\ \A g \in 0..(forecastHour - 1) : Passed(v, g)
         /\ \A w \in ProcessQueue, g \in Steps :
              Passed(w, g)' <=> Passed(w, g) \/ (w = v /\ g = forecastHour)
<1>1. /\ phase = "integrate" /\ phase' = "integrate" /\ UNCHANGED ensembleMember
      /\ turn \in 1..7 /\ IntegrationOrder[turn] = v
      /\ forecastHour \in 0..LastStep /\ LastStep \in Nat
      /\ \/ forecastHour < LastStep /\ forecastHour' = forecastHour + 1 /\ turn' = turn
         \/ forecastHour = LastStep /\ forecastHour' = 0 /\ turn' = turn + 1
  BY StepAssumption, OrderLengths DEF IInv, TypeOK, Steps, IntegrationTurn, NextSlot
<1>2. \A w \in TimeIntegrated : Place(w) \in 1..7 /\ (w = v <=> Place(w) = turn)
  BY <1>1, PlaceIsPlace
<1>3. ~Passed(v, forecastHour) /\ \A g \in 0..(forecastHour - 1) : Passed(v, g)
  BY <1>1, <1>2 DEF Passed
<1>4. ASSUME NEW w \in ProcessQueue, NEW g \in Steps
      PROVE  Passed(w, g)' <=> Passed(w, g) \/ (w = v /\ g = forecastHour)
  <2>1. CASE w \notin TimeIntegrated
    BY <1>1, <2>1 DEF Passed
  <2>2. CASE w \in TimeIntegrated
    <3>1. /\ Passed(w, g)  <=> turn > Place(w) \/ (turn = Place(w) /\ g < forecastHour)
          /\ Passed(w, g)' <=> turn' > Place(w) \/ (turn' = Place(w) /\ g < forecastHour')
      BY <1>1, <2>2, FixedParts DEF Passed
    <3> QED BY <1>1, <1>2, <2>2, <3>1 DEF Steps
  <2> QED BY <2>1, <2>2
<1> QED BY <1>1, <1>3, <1>4 DEF Working, Steps

(* The sum that is written is the product.                                 *)
LEMMA SumIsProduct ==
  ASSUME IInv, ArraysAligned, OutputInv, AllStored, SumOfFields,
         NEW v \in TimeIntegrated \cap ProcessQueue, IntegrationTurn(v)
  PROVE  /\ SumFile(v) = Products!Product(v, forecastHour)
         /\ \A j \in 1..Len(SumWith(v)) : SumWith(v)[j].holds = "field"
         /\ ~WildSlot(v) /\ allocated[v]
<1>1. /\ phase = "integrate" /\ forecastHour \in 0..LastStep /\ LastStep \in Nat
      /\ runningSum \in Seq(Cell) /\ resource[v][forecastHour] \in Cell
  BY StepAssumption DEF IntegrationTurn, IInv, TypeOK, Steps
<1>2. NothingLost(v) /\ numberOfSavedRecords[v] = LastStep + 1
  BY <1>1 DEF AllStored, Working, NothingLost, LoadsDone
<1>3. /\ Len(SumWith(v)) = forecastHour /\ ~WildSlot(v)
      /\ \A j \in 1..forecastHour : SumWith(v)[j].step = j
  BY <1>2, SumWithAligned
<1>4. allocated[v] /\ forecastHour \in FreedSlots(v)
  BY <1>1, <1>2 DEF ArraysAligned, FreedSlots
<1>5. forecastHour # 0 => resource[v][forecastHour].holds = "field"
  BY <1>1, <1>4 DEF AllStored, Working
<1>6. SumWith(v) \in Seq(Cell)
  BY <1>1 DEF SumWith
<1>7. \A j \in 1..forecastHour : SumWith(v)[j].holds = "field"
  <2>1. CASE forecastHour = 0
    BY <2>1
  <2>2. CASE forecastHour # 0
    <3> DEFINE cell == resource[v][forecastHour]
    <3>1. SumWith(v) = Append(runningSum, cell) /\ cell \in Cell /\ cell.holds = "field"
      BY <1>1, <1>5, <2>2 DEF SumWith
    <3> HIDE DEF cell
    <3>2. Len(runningSum) = forecastHour - 1
      BY <1>1, <1>3, <3>1
    <3>3. \A j \in 1..forecastHour :
            SumWith(v)[j] = IF j = forecastHour THEN cell ELSE runningSum[j]
      BY <1>1, <3>1, <3>2
    <3> QED BY <1>1, <3>1, <3>2, <3>3 DEF SumOfFields
  <2> QED BY <2>1, <2>2
<1>8. SumWith(v) = [j \in 1..forecastHour |-> [step |-> j, holds |-> "field"]]
  <2>1. \A j \in 1..forecastHour : SumWith(v)[j] = [step |-> j, holds |-> "field"]
    <3>1. ASSUME NEW j \in 1..forecastHour  PROVE SumWith(v)[j] \in Cell
      BY <1>3, <1>6
    <3> QED BY <1>3, <1>7, <3>1 DEF Cell
  <2>2. SumWith(v) = [j \in 1..forecastHour |-> SumWith(v)[j]]
    BY <1>3, <1>6
  <2> QED BY <2>1, <2>2
<1> QED BY <1>3, <1>4, <1>7, <1>8 DEF SumFile, Products!Product, Products!Field

(* What a step has to show.                                                *)
StepPromised ==
  CompleteInv' /\ [Products!Next]_<<ensembleMember, output, Status>>

(* A load keeps the promise.                                               *)
LEMMA LoadPromised ==
  ASSUME IInv, ArraysAligned, OutputInv, CompleteInv, LackNothing(InputFiles), Load
  PROVE  StepPromised
<1>1. PICK v : LoadAt(v) /\ StoresRight(v)
  BY LoadStoresRight DEF CompleteInv
<1>2. /\ v \in Variables /\ v \notin Instant /\ Turn(v) /\ NextTurn /\ UNCHANGED output
      /\ phase = "hour" /\ phase' = "hour"
  BY <1>1 DEF LoadAt, Variables, Turn, NextTurn, TimeIntegrated, Instant
<1>3. AllStored'
  BY <1>1, LoadKeepsStored DEF CompleteInv
<1>4. Opened'
  BY <1>1, <1>2 DEF CompleteInv, Opened, StoresRight, NextTurn
<1>5. WrittenOnly' /\ UNCHANGED <<ensembleMember, output, Status>>
  BY <1>2, TurnPasses, StutterStep DEF CompleteInv
<1> QED BY <1>2, <1>3, <1>4, <1>5 DEF StepPromised, CompleteInv, SumOfFields

(* So does a generator of an instant variable.                             *)
LEMMA InstantPromised ==
  ASSUME IInv, OutputInv, CompleteInv, LackNothing(InputFiles), [Next]_vars, GenerateInstant
  PROVE  StepPromised
<1>1. PICK v : InstantAt(v) /\ WritesRight(v)
  BY InstantWritesRight DEF CompleteInv
<1>2. /\ v \in Variables /\ v \in Instant /\ v \in ProcessQueue /\ Turn(v) /\ NextTurn
      /\ phase = "hour" /\ phase' = "hour"
      /\ output' = output \cup {Products!Product(v, forecastHour)}
  BY <1>1 DEF InstantAt, Generate, WritesRight, Variables, Turn, NextTurn
<1>3. AllStored'
  <2>1. ~Load
    <3>1. ASSUME NEW w, LoadAt(w)  PROVE FALSE
      BY <1>2, <3>1 DEF LoadAt, Turn, TimeIntegrated, Instant
    <3> QED BY <3>1, LoadStep
  <2> QED BY <2>1, OtherStepsKeepStored DEF CompleteInv
<1>4. Opened'
  BY <1>1, <1>2 DEF CompleteInv, Opened, WritesRight, NextTurn
<1>5. /\ Working /\ Working' /\ UNCHANGED ensembleMember /\ forecastHour \in Steps
      /\ ~Passed(v, forecastHour) /\ \A g \in 0..(forecastHour - 1) : Passed(v, g)
      /\ \A w \in ProcessQueue, g \in Steps :
           Passed(w, g)' <=> Passed(w, g) \/ (w = v /\ g = forecastHour)
  BY <1>2, TurnPasses
<1>6. WrittenOnly' /\ Products!Publish(v, forecastHour)
  BY <1>2, <1>5, PublishStep DEF CompleteInv
<1>7. Products!Next
  BY <1>2, <1>5, <1>6 DEF Products!Next, Steps
<1> QED BY <1>2, <1>3, <1>4, <1>6, <1>7 DEF StepPromised, CompleteInv, SumOfFields

(* A slot of an integration keeps the promise: no slot is wild.            *)
LEMMA IntegrationPromised ==
  ASSUME IInv, ArraysAligned, OutputInv, CompleteInv, AllStored', NEW v, IntegrationAt(v)
  PROVE  StepPromised
<1>1. v \in TimeIntegrated \cap ProcessQueue /\ IntegrationTurn(v)
  BY DEF IntegrationAt
<1>2. /\ SumFile(v) = Products!Product(v, forecastHour)
      /\ \A j \in 1..Len(SumWith(v)) : SumWith(v)[j].holds = "field"
      /\ ~WildSlot(v) /\ allocated[v]
  BY <1>1, SumIsProduct DEF CompleteInv
<1>3. Accumulate(v)
  BY <1>2 DEF IntegrationAt
<1>4. /\ NextSlot /\ output' = output \cup {Products!Product(v, forecastHour)}
      /\ runningSum' = IF forecastHour = LastStep THEN <<>> ELSE SumWith(v)
      /\ phase = "integrate" /\ phase' = "integrate"
  BY <1>1, <1>2, <1>3, AccumulateType DEF IntegrationTurn, NextSlot
<1>5. SumOfFields'
  BY <1>2, <1>4 DEF SumOfFields
<1>6. /\ Working /\ Working' /\ UNCHANGED ensembleMember /\ forecastHour \in Steps
      /\ ~Passed(v, forecastHour) /\ \A g \in 0..(forecastHour - 1) : Passed(v, g)
      /\ \A w \in ProcessQueue, g \in Steps :
           Passed(w, g)' <=> Passed(w, g) \/ (w = v /\ g = forecastHour)
  BY <1>1, <1>4, SlotPasses
<1>7. WrittenOnly' /\ Products!Publish(v, forecastHour)
  BY <1>1, <1>4, <1>6, PublishStep DEF CompleteInv
<1>8. Products!Next
  BY <1>1, <1>6, <1>7 DEF Products!Next, Steps
<1> QED BY <1>4, <1>5, <1>7, <1>8 DEF StepPromised, CompleteInv, Opened

(* Passing over a variable that is not on the list publishes nothing.      *)
LEMMA SkipIntegrationPromised ==
  ASSUME IInv, OutputInv, CompleteInv, AllStored', SkipIntegration
  PROVE  StepPromised
<1>1. PICK v \in TimeIntegrated \ ProcessQueue : IntegrationTurn(v)
  BY DEF SkipIntegration
<1>2. /\ phase = "integrate" /\ phase' = "integrate" /\ turn \in 1..7 /\ turn' = turn + 1
      /\ IntegrationOrder[turn] = v
      /\ UNCHANGED <<ensembleMember, forecastHour, output, runningSum>>
  BY <1>1, OrderLengths DEF SkipIntegration, IntegrationTurn, IInv, TypeOK
<1>3. forecastHour = 0
  BY <1>1, <1>2, IntegrationPlace DEF OutputInv, SumsAligned
<1>4. ASSUME NEW w \in ProcessQueue, NEW g \in Steps  PROVE Passed(w, g)' <=> Passed(w, g)
  <2>1. CASE w \notin TimeIntegrated
    BY <1>2, <2>1 DEF Passed
  <2>2. CASE w \in TimeIntegrated
    <3>1. /\ Passed(w, g)  <=> turn > Place(w) \/ (turn = Place(w) /\ g < 0)
          /\ Passed(w, g)' <=> turn + 1 > Place(w) \/ (turn + 1 = Place(w) /\ g < 0)
      BY <1>2, <1>3, <2>2, FixedParts DEF Passed
    <3>2. Place(w) \in 1..7 /\ Place(w) # turn
      BY <1>1, <1>2, <2>2, PlaceIsPlace
    <3> QED BY <1>2, <3>1, <3>2, StepAssumption DEF Steps
  <2> QED BY <2>1, <2>2
<1>5. WrittenOnly' /\ UNCHANGED <<ensembleMember, output, Status>>
  BY <1>2, <1>4, StutterStep DEF CompleteInv, Working
<1> QED BY <1>2, <1>5 DEF StepPromised, CompleteInv, Opened, SumOfFields

(* After the last integration everything promised is written, and nothing  *)
(* else.                                                                   *)
LEMMA MemberPromised ==
  ASSUME IInv, OutputInv, CompleteInv, AllStored', FreeData
  PROVE  StepPromised
<1>1. /\ phase = "integrate" /\ turn > 7 /\ turn \in Nat /\ forecastHour = 0 /\ runningSum = <<>>
      /\ output' = {} /\ forecastHour' = 0
      /\ \/ ensembleMember < LastMember /\ ensembleMember' = ensembleMember + 1 /\ phase' = "open"
         \/ ~(ensembleMember < LastMember) /\ phase' = "done" /\ UNCHANGED ensembleMember
  BY FreedAtZero, FreeDataClears DEF FreeData, IInv, TypeOK
<1>2. \A w \in ProcessQueue, g \in Steps : Passed(w, g)
  <2>1. \A w \in TimeIntegrated : Place(w) \in 1..7
    BY PlaceIsPlace
  <2> QED BY <1>1, <2>1 DEF Passed
<1>3. output = Products!AllProducts
  <2>1. /\ \A o \in output : \E w \in ProcessQueue, g \in Steps : o = Products!Product(w, g)
        /\ \A w \in ProcessQueue, g \in Steps : Products!Product(w, g) \in output
    BY <1>1, <1>2 DEF CompleteInv, WrittenOnly, Working
  <2> QED BY <2>1 DEF Products!AllProducts, Steps
<1>4. Status = "running" /\ Status' = IF phase' = "done" THEN "done" ELSE "running"
  BY <1>1 DEF Status
<1>5. Products!FinishMember
  BY <1>1, <1>3, <1>4 DEF Products!FinishMember
<1>6. WrittenOnly'
  <2>1. ASSUME phase' = "open", NEW w \in ProcessQueue, NEW g \in Steps  PROVE ~Passed(w, g)'
    BY <1>1, <2>1, StepAssumption DEF Passed, Steps
  <2> QED BY <1>1, <2>1 DEF WrittenOnly, Working
<1> QED BY <1>1, <1>5, <1>6 DEF StepPromised, CompleteInv, Opened, SumOfFields, Products!Next

(* Opening and closing the files and skipping a variable publish nothing.  *)
LEMMA QuietPromised ==
  ASSUME IInv, OutputInv, CompleteInv, AllStored', OpenInputs \/ SkipVariable \/ CloseInputs
  PROVE  StepPromised
<1>0. \A w \in Variables : Position(w) \in 1..12
  BY PositionIsPlace
<1>1. /\ forecastHour \in 0..LastStep /\ LastStep \in Nat /\ ProcessQueue \subseteq Variables
  BY StepAssumption, QueueAssumption DEF IInv, TypeOK, Steps
<1>2. CASE OpenInputs
  <2>1. /\ phase = "open" /\ phase' = "hour" /\ turn' = 1
        /\ UNCHANGED <<ensembleMember, forecastHour, output>>
    BY <1>2 DEF OpenInputs
  <2>2. ASSUME NEW w \in ProcessQueue, NEW g \in Steps  PROVE Passed(w, g)' <=> Passed(w, g)
    BY <1>0, <1>1, <2>1, FixedParts DEF Passed
  <2>3. WrittenOnly' /\ UNCHANGED <<ensembleMember, output, Status>>
    BY <2>1, <2>2, StutterStep DEF CompleteInv, Working
  <2> QED BY <1>2, <2>1, <2>3 DEF OpenInputs, StepPromised, CompleteInv, Opened, SumOfFields
<1>3. CASE SkipVariable
  <2>1. PICK v \in Variables \ ProcessQueue : Turn(v)
    BY <1>3 DEF SkipVariable
  <2>2. NextTurn /\ UNCHANGED <<posA, posB, output>> /\ phase' = "hour" /\ phase = "hour"
    BY <1>3, <2>1 DEF SkipVariable, Turn, NextTurn
  <2>3. WrittenOnly' /\ UNCHANGED <<ensembleMember, output, Status>>
    BY <2>1, <2>2, TurnPasses, StutterStep DEF CompleteInv
  <2> QED BY <2>2, <2>3 DEF NextTurn, StepPromised, CompleteInv, Opened, SumOfFields
<1>4. CASE CloseInputs
  <2>1. /\ phase = "hour" /\ turn = 13 /\ turn' = 1
        /\ UNCHANGED <<ensembleMember, output, runningSum>>
        /\ \/ forecastHour < LastStep /\ phase' = "open" /\ forecastHour' = forecastHour + 1
           \/ forecastHour = LastStep /\ phase' = "integrate" /\ forecastHour' = 0
    BY <1>4, OrderLengths DEF CloseInputs, IInv, TypeOK
  <2>2. ASSUME NEW w \in ProcessQueue, NEW g \in Steps  PROVE Passed(w, g)' <=> Passed(w, g)
    <3>1. CASE w \in TimeIntegrated
      <4>1. Place(w) \in 1..7
        BY <3>1, PlaceIsPlace
      <4> QED BY <1>1, <2>1, <3>1, <4>1, FixedParts DEF Passed, Steps
    <3>2. CASE w \notin TimeIntegrated
      BY <1>0, <1>1, <2>1, <3>2, FixedParts DEF Passed, Steps
    <3> QED BY <3>1, <3>2
  <2>3. WrittenOnly' /\ UNCHANGED <<ensembleMember, output, Status>>
    BY <2>1, <2>2, StutterStep DEF CompleteInv, Working
  <2>4. SumOfFields'
    BY <2>1 DEF SumOfFields, OutputInv, WrittenBefore
  <2> QED BY <2>1, <2>3, <2>4 DEF StepPromised, CompleteInv, Opened
<1> QED BY <1>2, <1>3, <1>4

(* The program never crashes, and stops only where a file is missing.      *)
LEMMA NothingCrashes ==
  ASSUME IInv, ArraysAligned, CompleteInv
  PROVE  ~FreeCrashes
<1> SUFFICES ASSUME phase = "integrate", NEW v \in TimeIntegrated, NEW i \in FreedSlots(v)
             PROVE  allocated[v] /\ resource[v][i].holds # "wild"
  BY DEF FreeCrashes
<1>1. v \in ProcessQueue
  <2>1. numberOfSavedRecords[v] # 0
    BY DEF FreedSlots
  <2> QED BY <2>1 DEF IInv, QueuedOnly
<1> QED BY <1>1 DEF CompleteInv, AllStored, Working, ArraysAligned

(* Every step keeps the promise.                                           *)
LEMMA NextPromised ==
  ASSUME LackNothing(InputFiles)
  PROVE  IInv /\ ArraysAligned /\ OutputInv /\ CompleteInv /\ [Next]_vars => StepPromised
<1> SUFFICES ASSUME IInv, ArraysAligned, OutputInv, CompleteInv, [Next]_vars
             PROVE  StepPromised
  OBVIOUS
<1>1. CASE UNCHANGED vars
  <2>1. UNCHANGED <<ensembleMember, output, Status>>
    BY <1>1 DEF vars, loopVars, Status
  <2>2. \A v, f : Passed(v, f)' <=> Passed(v, f)
    BY <1>1, FixedParts DEF vars, loopVars, Passed
  <2>3. WrittenOnly'
    BY <1>1, <2>2, FixedParts DEF vars, loopVars, CompleteInv, WrittenOnly, Working
  <2>4. Opened' /\ AllStored' /\ SumOfFields'
    BY <1>1 DEF vars, loopVars, fileVars, arrayVars, CompleteInv, Opened, AllStored, SumOfFields,
                Working, NothingLost, FreedSlots, LoadsDone, Position
  <2> QED BY <2>1, <2>3, <2>4 DEF StepPromised, CompleteInv
<1>2. CASE Load
  BY <1>2, LoadPromised
<1>3. CASE Next /\ ~Load
  <2>1. AllStored'
    BY <1>3, OtherStepsKeepStored DEF CompleteInv
  <2>2. CASE OpenFails
    <3>1. Products!InputMissing
      BY <2>2 DEF OpenFails, Products!InputMissing, Status
    <3> QED BY <2>1, <2>2, <3>1 DEF OpenFails, StepPromised, CompleteInv, Opened, SumOfFields,
               WrittenOnly, Working, Products!Next
  <2>3. CASE Integrate
    BY <2>1, <2>3, IntegrateStep, IntegrationPromised, SkipIntegrationPromised
  <2>4. CASE GenerateInstant
    BY <2>4, InstantPromised
  <2>5. CASE FreeData
    BY <2>1, <2>5, MemberPromised
  <2>6. CASE OpenInputs \/ SkipVariable \/ CloseInputs
    BY <2>1, <2>6, QuietPromised
  <2> QED BY <1>3, <2>2, <2>3, <2>4, <2>5, <2>6, NothingCrashes DEF Next
<1> QED BY <1>1, <1>2, <1>3

(* On input that lacks nothing ncdcTigge publishes member after member the *)
(* promised product of every variable and step, made of the right records, *)
(* in the order of the steps, and nothing else; it never crashes, and      *)
(* stops early only where a file cannot be opened.                         *)
THEOREM CompleteInputPublishes ==
  ASSUME LackNothing(InputFiles)
  PROVE  Spec => PublishesAsPromised
<1>1. Init => CompleteInv /\ Products!Init
  <2> SUFFICES ASSUME Init  PROVE CompleteInv /\ Products!Init
    OBVIOUS
  <2>1. \A v, f : f \in Steps => ~Passed(v, f)
    BY StepAssumption DEF Init, Passed, Steps
  <2>2. WrittenOnly
    BY <2>1 DEF Init, WrittenOnly
  <2>3. Opened /\ AllStored /\ SumOfFields
    BY DEF Init, Opened, AllStored, NothingLost, LoadsDone, FreedSlots, SumOfFields
  <2> QED BY <2>2, <2>3 DEF Init, CompleteInv, Products!Init, Status
<1>2. Init => OutputInv
  BY DEF Init, OutputInv, WrittenBefore, SumsAligned, OutputAligned
<1>3. IInv /\ ArraysAligned /\ OutputInv /\ CompleteInv /\ [Next]_vars
        => CompleteInv' /\ [Products!Next]_<<ensembleMember, output, Status>>
  BY NextPromised DEF StepPromised
<1> QED BY <1>1, <1>2, <1>3, NextKeepsOutputInv, ArraysStayAligned, IInvHolds, PTL
        DEF Spec, PublishesAsPromised
===============================================================================
