-------------------------- MODULE PotentialTemperature --------------------------
(***************************************************************************)
(* generatePotentialTemperature() record by record: the scan of the b file *)
(* for pressure and temperature on the 2 PVU surface of each hemisphere,   *)
(* which records it keeps and which handles it deletes, and the merge of   *)
(* the two hemispheres into one grid.  GribScan!PtSlots is what the main   *)
(* loop's model, NcdcTigge, takes for all of this.                         *)
(*                                                                         *)
(* A handle is the number of its record in the file.  A field is known by  *)
(* the points where it has a value, and a value by its handle, so that a   *)
(* point of the product tells which records it was made from.              *)
(***************************************************************************)
EXTENDS GribScan, FiniteSets

CONSTANTS
  Points,   \* of the grid
  Files,    \* the b files: sequences of [kind, points] records
  MissingValue   \* the value 9999.0

ASSUME PointsAssumption == Points # {}
ASSUME PtFilesAssumption ==
  Files \subseteq Seq([kind : Kinds, points : SUBSET Points])
ASSUME MissingAssumption ==   \* it is no value of a record and no product
  MissingValue \notin Nat \cup [pressure : Nat, temperature : Nat]

Slots == {"presNorth", "presSouth", "tmpNorth", "tmpSouth"}

None == 0   \* the handle NULL; handles count from 1

VARIABLES
  file,      \* the b file
  ptAt,      \* scan, merge, done, or gaveUp
  recCount,
  temp,      \* the handle read last
  skipFlag,  \* that handle went to a slot
  slot,      \* the four handles that are kept
  deleted,   \* the handles given to grib_handle_delete()
  product    \* what is stored in each point

ptVars == <<file, ptAt, recCount, temp, skipFlag, slot, deleted, product>>

PtStart ==
  /\ ptAt = "scan" /\ recCount = 0
  /\ temp = None /\ skipFlag = FALSE
  /\ slot = [s \in Slots |-> None]
  /\ deleted = {}
  /\ product = [p \in Points |-> MissingValue]

PtInit == file \in Files /\ PtStart

-------------------------------------------------------------------------------
(* The four tests, in their order.  Those of the southern hemisphere end   *)
(* in an assignment to levValue and hold for any level of the surface; a   *)
(* comparison would make them hold for the southern level only.            *)
Free(s) == slot[s] = None

SouthOf(kind) ==
  IF kind \in PressureKinds THEN {"presSouth"}
  ELSE IF kind \in TemperatureKinds THEN {"tmpSouth"} ELSE {}

SlotFor_Again(kind) ==
  LET north == {kind} \cap {s \in {"presNorth", "tmpNorth"} : Free(s)}
  IN  IF north # {} THEN north ELSE SouthOf(kind)

SlotFor(kind) ==
  LET north == {kind} \cap {s \in {"presNorth", "tmpNorth"} : Free(s)}
  IN  IF north # {} THEN north ELSE {s \in SouthOf(kind) : Free(s)}

Searching == ptAt = "scan" /\ \E s \in Slots : Free(s)

(* A handle is deleted in the round after it was read.                     *)
DropLast_Null == deleted' = IF skipFlag THEN deleted ELSE deleted \cup {temp}

DropLast_Always == deleted' = deleted \cup ({temp} \ {None})

DropLast == deleted' = IF skipFlag THEN deleted ELSE deleted \cup ({temp} \ {None})

ReadRecord ==
  /\ Searching /\ recCount < Len(file)
  /\ DropLast
  /\ recCount' = recCount + 1
  /\ temp' = recCount + 1
  /\ LET chosen == SlotFor(file[recCount + 1].kind)
     IN  /\ skipFlag' = (chosen # {})
         /\ slot' = [s \in Slots |-> IF s \in chosen THEN temp' ELSE slot[s]]
  /\ UNCHANGED <<file, ptAt, product>>

(* At the end of the file nothing else is freed and nothing is rewound.    *)
GiveUp ==
  /\ Searching /\ recCount = Len(file)
  /\ DropLast
  /\ temp' = None
  /\ skipFlag' = FALSE
  /\ ptAt' = "gaveUp"
  /\ UNCHANGED <<file, recCount, slot, product>>

AllFound ==
  /\ ptAt = "scan" /\ \A s \in Slots : ~Free(s)
  /\ ptAt' = "merge"
  /\ UNCHANGED <<file, recCount, temp, skipFlag, slot, deleted, product>>

-------------------------------------------------------------------------------
ValueAt(s, p) == IF p \in file[slot[s]].points THEN slot[s] ELSE MissingValue

(* The average of two values is computed first, and then overwritten: the  *)
(* last branch is taken for two values as it is for none.                  *)
OneOf_NorthFirst(north, south) == IF north # MissingValue THEN north ELSE MissingValue

OneOf(north, south) ==
  IF south = MissingValue /\ north # MissingValue THEN north
  ELSE IF south # MissingValue /\ north = MissingValue THEN south
  ELSE MissingValue

Pressure(p)    == OneOf(ValueAt("presNorth", p), ValueAt("presSouth", p))
Temperature(p) == OneOf(ValueAt("tmpNorth", p), ValueAt("tmpSouth", p))

(* All points, the write of the product, and the handles of the slots.     *)
Merge ==
  /\ ptAt = "merge"
  /\ product' = [p \in Points |->
       IF MissingValue \in {Pressure(p), Temperature(p)} THEN MissingValue
       ELSE [pressure |-> Pressure(p), temperature |-> Temperature(p)]]
  /\ deleted' = deleted \cup {slot[s] : s \in Slots}
  /\ ptAt' = "done"
  /\ UNCHANGED <<file, recCount, temp, skipFlag, slot>>

PtNext == ReadRecord \/ GiveUp \/ AllFound \/ Merge

PtSpec == PtInit /\ [][PtNext]_ptVars

-------------------------------------------------------------------------------
PtTypeOK ==
  /\ file \in Seq([kind : Kinds, points : SUBSET Points])
  /\ ptAt \in {"scan", "merge", "done", "gaveUp"}
  /\ recCount \in 0..Len(file)
  /\ temp \in 0..recCount /\ skipFlag \in BOOLEAN
  /\ slot \in [Slots -> 0..recCount]
  /\ deleted \subseteq 1..recCount
  /\ DOMAIN product = Points

KindIn(s) == file[slot[s]].kind
KindsOf   == [k \in 1..Len(file) |-> file[k].kind]

(* The scan takes what PtSlots says it takes, which is what NcdcTigge      *)
(* builds on: it ends with four slots exactly when PtSlots finds both      *)
(* parameters, and then the records in the southern slots are those.       *)
TakesPtSlots ==
  LET pressure    == PtSlots(KindsOf, 0, PressureKinds, "presNorth")
      temperature == PtSlots(KindsOf, 0, TemperatureKinds, "tmpNorth")
  IN  /\ ptAt \in {"merge", "done"} =>
           /\ pressure.found /\ temperature.found
           /\ KindIn("presNorth") = "presNorth" /\ KindIn("tmpNorth") = "tmpNorth"
           /\ KindIn("presSouth") = pressure.south
           /\ KindIn("tmpSouth") = temperature.south
      /\ ptAt = "gaveUp" => ~(pressure.found /\ temperature.found)

(* No handle is used after it was deleted or sits in two slots; when a     *)
(* product was made every handle that was read has been deleted, and when  *)
(* the file ended too early all but those in the slots, which leak.        *)
HandlesKept ==
  /\ ptAt # "done" => \A s \in Slots : slot[s] \notin deleted
  /\ \A s, t \in Slots : slot[s] = slot[t] /\ ~Free(s) => s = t
  /\ ptAt = "done" => deleted = 1..recCount
  /\ ptAt = "gaveUp" => deleted = (1..recCount) \ {slot[s] : s \in Slots}

(* A file that lists the two hemispheres of a parameter before any other   *)
(* level of it, both parameters having a value at the same points, and     *)
(* each point being in one hemisphere.                                     *)
FirstTwo(kinds) ==
  {file[k] : k \in {j \in 1..Len(file) :
     file[j].kind \in kinds /\ Cardinality({l \in 1..j : file[l].kind \in kinds}) <= 2}}

Hemispheres(north, south, kinds) ==
  \E P \in SUBSET Points :
    FirstTwo(kinds) = {[kind |-> north, points |-> P],
                       [kind |-> south, points |-> Points \ P]}

SoundFile ==
  /\ Hemispheres("presNorth", "presSouth", PressureKinds)
  /\ Hemispheres("tmpNorth", "tmpSouth", TemperatureKinds)
  /\ \A r \in FirstTwo(PressureKinds), t \in FirstTwo(TemperatureKinds) :
       r.kind = "presNorth" /\ t.kind = "tmpNorth" => r.points = t.points

(* From such a file, whatever the order of the four records among          *)
(* themselves, the product has a value everywhere, made from pressure and  *)
(* temperature of the point's own hemisphere.                              *)
WholeGlobe ==
  ptAt = "done" /\ SoundFile =>
    \A p \in Points :
      /\ product[p] # MissingValue
      /\ <<file[product[p].pressure].kind, file[product[p].temperature].kind>> \in
           {<<"presNorth", "tmpNorth">>, <<"presSouth", "tmpSouth">>}

-------------------------------------------------------------------------------
(* What the comments of the function say of its steps.                     *)

(* "S. Hemisphere pressure", "S. Hemisphere temperature": the record kept  *)
(* by these tests is the one of the southern hemisphere.                   *)
SouthIsSouth ==
  ptAt = "merge" => KindIn("presSouth") = "presSouth" /\ KindIn("tmpSouth") = "tmpSouth"
===============================================================================
