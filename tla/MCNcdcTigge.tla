------------------------------ MODULE MCNcdcTigge ------------------------------
(* Instances of NcdcTigge for TLC: the input files a step may find.        *)
EXTENDS NcdcTiggeProducts, SequencesExt

AllVariables == Variables

(* sshf has the loader and the integration of slhf, for another record.    *)
AllButOne == Variables \ {"sshf"}

CompleteA == <<"pwat", "lhtfl", "shtfl", "apcp", "csnow", "dswrf", "dlwrf",
               "uswrf", "ulwrf", "ulwrfTop", "tsoilUpper", "soilwUpper">>
CompleteB == <<"presNorth", "presSouth", "tmpNorth", "tmpSouth",
               "tsoilLower", "soilwLower", "cwat">>
Complete  == [a |-> CompleteA, b |-> CompleteB]

(* The same records in another order, fluxes and soil fields partly in the *)
(* other file, as after the GENS change of December 2015.                  *)
Reordered ==
  [a |-> <<"soilwUpper", "uswrf", "ulwrf", "csnow", "apcp", "pwat", "dlwrf">>,
   b |-> <<"tmpNorth", "tsoilLower", "presNorth", "tmpSouth", "presSouth",
           "cwat", "dswrf", "ulwrfTop", "tsoilUpper", "shtfl", "lhtfl", "soilwLower">>]

Without(f, kind) ==
  [a |-> SelectSeq(f.a, LAMBDA k : k # kind), b |-> SelectSeq(f.b, LAMBDA k : k # kind)]

(* The files of step 0 hold the analysis: no fluxes and no precipitation.  *)
Analysis ==
  [a |-> <<"pwat", "tsoilUpper", "soilwUpper">>,
   b |-> <<"presNorth", "presSouth", "tmpNorth", "tmpSouth",
           "tsoilLower", "soilwLower", "cwat">>]

CompleteInputs ==
  [s \in Steps |-> IF s = 0 THEN {Analysis, Complete} ELSE {Complete, Reordered}]

(* One kind of record may be missing, from step 1 on any of thirteen.      *)
DefectiveInputs ==
  [s \in Steps |-> IF s = 0 THEN {Analysis, Without(Analysis, "cwat")}
                   ELSE {Complete} \cup {Without(Complete, k) :
     k \in {"ulwrfTop", "lhtfl", "dswrf", "uswrf", "ulwrf", "apcp", "csnow", "pwat", "cwat",
            "presSouth", "soilwUpper", "soilwLower", "tsoilLower"}}]

(* They lack nothing.                                                      *)
ASSUME CompleteAssumption == LackNothing(CompleteInputs)
===============================================================================
