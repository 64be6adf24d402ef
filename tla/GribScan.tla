------------------------------- MODULE GribScan -------------------------------
(***************************************************************************)
(* How the generators of ncdcTigge look for a record in the NCEP input     *)
(* files.  A file is the sequence of the kinds of its GRIB records and a   *)
(* position is the number of records already read, so grib_handle_new_from *)
(* _file reads the record at position + 1 and returns NULL when position   *)
(* is the length of the file.  A kind stands for the discipline, category, *)
(* parameter number, surface type and level a loop of the code compares.   *)
(***************************************************************************)
EXTENDS Integers, Sequences

PressureKinds    == {"presNorth", "presSouth", "presOther"}
TemperatureKinds == {"tmpNorth", "tmpSouth", "tmpOther"}
SoilMoisture     == {"soilwUpper", "soilwLower"}
SoilTemperature  == {"tsoilUpper", "tsoilLower"}

Kinds == {"ulwrfTop", "lhtfl", "shtfl", "dswrf", "uswrf", "dlwrf", "ulwrf",
          "apcp", "csnow", "pwat", "cwat"}
           \cup PressureKinds \cup TemperatureKinds
           \cup SoilMoisture \cup SoilTemperature

(* The records of the wanted kinds that a scan from pos still meets. *)
Ahead(file, pos, wanted) == {i \in (pos + 1)..Len(file) : file[i] \in wanted}

First(S) == CHOOSE i \in S : \A j \in S : i <= j

(* A scan of one file: read on until a record matches or the file ends. *)
ScanFile(file, pos, wanted) ==
  LET ahead == Ahead(file, pos, wanted)
  IN  IF ahead # {}
      THEN [hit |-> TRUE,  kind |-> file[First(ahead)], pos |-> First(ahead)]
      ELSE [hit |-> FALSE, kind |-> "none",             pos |-> Len(file)]

(* A scan that reads the a-file and, once that is exhausted, the b-file,   *)
(* each from where the previous read left it.                              *)
ScanBoth(a, posA, b, posB, wanted) ==
  LET inA == ScanFile(a, posA, wanted)
      inB == ScanFile(b, posB, wanted)
  IN  IF inA.hit
      THEN [hit |-> TRUE,    kind |-> inA.kind, posA |-> inA.pos, posB |-> posB]
      ELSE [hit |-> inB.hit, kind |-> inB.kind, posA |-> inA.pos, posB |-> inB.pos]

(***************************************************************************)
(* The four records generatePotentialTemperature() keeps.  A slot is       *)
(* filled once and a record fills at most one slot, the northern one being *)
(* tried first.  The southern test ends in an assignment, (levValue =      *)
(* -2147485648.0), which is true whatever the level of the record is: the  *)
(* first record of the kind that did not become the northern one is taken. *)
(***************************************************************************)
PtSlots(file, pos, kinds, north) ==
  LET onSurface109 == Ahead(file, pos, kinds)
      northern     == Ahead(file, pos, {north})
      southern     == IF northern = {} THEN onSurface109
                      ELSE onSurface109 \ {First(northern)}
  IN  [found |-> northern # {} /\ southern # {},
       south |-> IF southern = {} THEN "none" ELSE file[First(southern)]]
===============================================================================
