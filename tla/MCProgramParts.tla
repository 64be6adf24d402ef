----------------------------- MODULE MCProgramParts -----------------------------
(***************************************************************************)
(* Every command line of at most four words for a queue of three places,   *)
(* in whose default, as in the code, one variable has none; every b file   *)
(* of up to five records on a grid of two points; and the days around the  *)
(* ends of months of years of all four kinds.                              *)
(***************************************************************************)
EXTENDS ProgramParts, SequencesExt

CONSTANTS
  pt, sf, sf6, tp,   \* short names
  n, s               \* a point of each hemisphere

MCNames        == {pt, sf, sf6, tp}
MCDefaultOrder == <<pt, sf, tp>>
MCCommandLines == BoundedSeq(Words, 4)

(* Another level of the surface is seen in the northern hemisphere, too;   *)
(* and temperature may have the hemispheres the other way round.           *)
MCPoints == {n, s}

MCRecords ==
  [kind : {"presNorth", "tmpNorth", "presOther", "tmpOther", "apcp"}, points : {{n}}]
    \cup [kind : {"presSouth", "tmpSouth"}, points : {{s}}]
    \cup [kind : {"tmpNorth"}, points : {{s}}] \cup [kind : {"tmpSouth"}, points : {{n}}]

MCFiles == BoundedSeq(MCRecords, 5)

(* Days from which some offset reaches over the end of a month, and the    *)
(* cycles before and after the first one with 31 members.                  *)
MCTimes ==
  {d \in [yr : {2000, 2003, 2004, 2100}, mo : {1, 2, 3, 12}, dy : {1, 14, 15} \cup 27..31, hr : {0, 18}, mn : {0}]
           \cup [yr : {2019, 2020, 2021}, mo : {8, 9, 10}, dy : {1, 22, 23, 24}, hr : {6, 12, 18}, mn : {0}] :
     ValidTime(d)}

(* The forecast hours that end a day, that do not, and the last one.       *)
MCOffsets == {0, 6, 18, 24, 240, 378, 384}

MCPlain ==
  [words |-> <<>>, file |-> <<>>,
   time |-> [yr |-> 2004, mo |-> 2, dy |-> 28, hr |-> 0, mn |-> 0], hours |-> 24]
===============================================================================
