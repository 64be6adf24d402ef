------------------------------- MODULE Conversion -------------------------------
(***************************************************************************)
(* run_ncep_convert.pl, convertFile(): each input file goes through three  *)
(* tools of the GRIB library, grib_filter, tigge_check and tigge_split,    *)
(* whose exit codes are not looked at.  A tool leaves an intermediate      *)
(* file, or the products, and what it has not got to is missing there.     *)
(*                                                                         *)
(* A message of an input file holds one or several fields, each with a     *)
(* product and data of its own.  A field shares the grid (section 3) with  *)
(* the one before it unless it brings one along, and the bitmap section    *)
(* (6) if its indicator is 254, "defined previously"; any other indicator  *)
(* is a bitmap section of its own.  grib_filter makes a message of each    *)
(* field; a handle names the fields its sections are taken from.           *)
(***************************************************************************)
EXTENDS Naturals, Sequences

CONSTANTS
  Names,  \* of the products, that is of the files tigge_split writes
  Inputs, \* input directories: sequences of files, in the order of their names
  None,   \* no file, no section, no record
  Cut     \* a file whose write has failed

(* What the rules do with a field; would tigge_check find it good?         *)
Field   == [name : Names, grid : BOOLEAN, bitmap : BOOLEAN,
            rule : {"write", "ignore", "error"}, good : BOOLEAN]
Message == [readable : BOOLEAN, fields : Seq(Field)]
File    == [there : BOOLEAN, messages : Seq(Message)]

(* A message has a field, and a grid before its first field.  That field   *)
(* may refer to a bitmap defined previously all the same.                  *)
ASSUME InputsAssumption ==
  \A dir \in Inputs :
    /\ dir \in Seq(File)
    /\ \A j \in 1..Len(dir) : \A m \in 1..Len(dir[j].messages) :
         LET fields == dir[j].messages[m].fields
         IN  fields # <<>> /\ fields[1].grid

(* A handle names a field and those its grid and its bitmap are taken from. *)
Handle == [file : Nat, message : Nat, field : Nat, grid : Nat \X Nat, bitmap : Nat \X Nat]

ASSUME NoneAssumption == None \notin Handle /\ None \notin Nat \X Nat

VARIABLES
  files,    \* the input directory
  disk,     \* "good", or "full" when writes may fail
  current,  \* the file that is converted
  tool,     \* the tool that runs, or "next" between files
  read,     \* how many messages the tool has read of its file
  support,  \* the multi-field support of grib_filter
  tmpOut,   \* the output of grib_filter
  goodOut,  \* that of tigge_check
  output    \* what is in the file of each product

vars == <<files, disk, current, tool, read, support, tmpOut, goodOut, output>>

(* No message is pending; grid and bitmap are those of the last field.     *)
NoSupport == [message |-> 0, field |-> 0, grid |-> None, bitmap |-> None]

Init ==
  /\ files \in Inputs
  /\ disk \in {"good", "full"}
  /\ current = 1 /\ tool = "next" /\ read = 0
  /\ support = NoSupport
  /\ tmpOut = <<>> /\ goodOut = <<>>
  /\ output = [n \in Names |-> None]

-------------------------------------------------------------------------------
Start(t) == tool' = t /\ read' = 0 /\ support' = NoSupport

(* fopen() of an output file empties it.                                   *)
StartFile ==
  /\ tool = "next" /\ current <= Len(files) /\ files[current].there
  /\ Start("filter")
  /\ tmpOut' = <<>>
  /\ UNCHANGED <<files, disk, current, goodOut, output>>

(* A link whose file is gone.                                              *)
SkipFile ==
  /\ tool = "next" /\ current <= Len(files) /\ ~files[current].there
  /\ current' = current + 1
  /\ UNCHANGED <<files, disk, tool, read, support, tmpOut, goodOut, output>>

-------------------------------------------------------------------------------
(* grib_filter, on a file with several fields in a message.                *)

Pending    == support.message # 0
Messages   == files[current].messages
AtEnd      == ~Pending /\ read = Len(Messages)
Unreadable == ~Pending /\ read < Len(Messages) /\ ~Messages[read + 1].readable
Readable   == Pending \/ (read < Len(Messages) /\ Messages[read + 1].readable)

FieldOf(h) == files[h.file].messages[h.message].fields[h.field]

(* The bitmap section is kept in a copy of its own.                        *)
Bitmap_First(f, here) ==
  IF f.bitmap /\ support.bitmap = None THEN here ELSE support.bitmap
Bitmap(f, here) == IF f.bitmap THEN here ELSE support.bitmap
Grid_Forgotten(f, here) == IF f.grid THEN here ELSE None
Grid(f, here)   == IF f.grid THEN here ELSE support.grid

(* The next field: of the message that is not used up, or of a new one.    *)
(* The bitmap it refers to may never have been defined.                    *)
NewHandle ==
  LET m == IF Pending THEN support.message ELSE read + 1
      k == IF Pending THEN support.field + 1 ELSE 1
      f == Messages[m].fields[k]
  IN  [file |-> current, message |-> m, field |-> k,
       grid |-> Grid(f, <<m, k>>), bitmap |-> Bitmap(f, <<m, k>>)]

MissingBitmap == Readable /\ NewHandle.bitmap = None

(* After the last field of a message its sections are forgotten, but the   *)
(* copy of the bitmap is not.                                              *)
Remember_Short(h) ==
  /\ read' = h.message
  /\ support' = IF h.field + 1 < Len(Messages[h.message].fields)
                THEN [message |-> h.message, field |-> h.field,
                      grid |-> h.grid, bitmap |-> h.bitmap]
                ELSE [NoSupport EXCEPT !.bitmap = h.bitmap]

Remember(h) ==
  /\ read' = h.message
  /\ support' = IF h.field < Len(Messages[h.message].fields)
                THEN [message |-> h.message, field |-> h.field,
                      grid |-> h.grid, bitmap |-> h.bitmap]
                ELSE [NoSupport EXCEPT !.bitmap = h.bitmap]

FilterField ==
  /\ tool = "filter" /\ Readable /\ ~MissingBitmap
  /\ LET h == NewHandle
     IN  /\ FieldOf(h).rule # "error"
         /\ tmpOut' = IF FieldOf(h).rule = "write" THEN Append(tmpOut, h) ELSE tmpOut
         /\ Remember(h)
  /\ UNCHANGED <<files, disk, current, tool, goodOut, output>>

(* Without -f the tool exits at the first error, of the library or of a    *)
(* rule.                                                                   *)
FilterEnds ==
  /\ tool = "filter"
  /\ \/ AtEnd \/ Unreadable
     \/ Readable /\ ~MissingBitmap /\ FieldOf(NewHandle).rule = "error"
  /\ Start("check")
  /\ goodOut' = <<>>
  /\ UNCHANGED <<files, disk, current, tmpOut, output>>

(* The message about a missing bitmap takes its context from the handle,   *)
(* which is NULL: the tool dies of it, and what its buffer holds is lost.  *)
FilterCrashes ==
  /\ tool = "filter" /\ MissingBitmap
  /\ \E n \in 0..Len(tmpOut) : tmpOut' = SubSeq(tmpOut, 1, n)
  /\ Start("check")
  /\ goodOut' = <<>>
  /\ UNCHANGED <<files, disk, current, output>>

-------------------------------------------------------------------------------
(* tigge_check -z -g                                                       *)
CheckField ==
  /\ tool = "check" /\ read < Len(tmpOut)
  /\ LET h == tmpOut[read + 1]
     IN  goodOut' = IF FieldOf(h).good THEN Append(goodOut, h) ELSE goodOut
  /\ read' = read + 1
  /\ UNCHANGED <<files, disk, current, tool, support, tmpOut, output>>

CheckEnds ==
  /\ tool = "check" /\ read = Len(tmpOut)
  /\ Start("split")
  /\ UNCHANGED <<files, disk, current, tmpOut, goodOut, output>>

(* tigge_split without -u: a product that is there already is written      *)
(* again.                                                                  *)
SplitField ==
  /\ tool = "split" /\ read < Len(goodOut)
  /\ output' = [output EXCEPT ![FieldOf(goodOut[read + 1]).name] = goodOut[read + 1]]
  /\ read' = read + 1
  /\ UNCHANGED <<files, disk, current, tool, support, tmpOut, goodOut>>

NextFile == tool' = "next" /\ current' = current + 1 /\ read' = 0 /\ support' = NoSupport

SplitEnds_Stays ==
  /\ tool = "split" /\ read = Len(goodOut)
  /\ tool' = "next" /\ read' = 0 /\ support' = NoSupport
  /\ UNCHANGED <<files, disk, current, tmpOut, goodOut, output>>

SplitEnds ==
  /\ tool = "split" /\ read = Len(goodOut)
  /\ NextFile
  /\ UNCHANGED <<files, disk, tmpOut, goodOut, output>>

-------------------------------------------------------------------------------
(* A write that fails ends the tool; so does the one that empties the      *)
(* buffer when the tool exits.  What the disk has got by then is some      *)
(* first part of what was written, with perhaps half a record behind it,   *)
(* at which the next tool ends.                                            *)
FilterWriteFails ==
  /\ disk = "full" /\ tool = "filter"
  /\ Readable => ~MissingBitmap /\ FieldOf(NewHandle).rule # "ignore"
  /\ \E n \in 0..Len(tmpOut) : tmpOut' = SubSeq(tmpOut, 1, n)
  /\ Start("check")
  /\ goodOut' = <<>>
  /\ UNCHANGED <<files, disk, current, output>>

CheckWriteFails ==
  /\ disk = "full" /\ tool = "check"
  /\ read < Len(tmpOut) => FieldOf(tmpOut[read + 1]).good
  /\ \E n \in 0..Len(goodOut) : goodOut' = SubSeq(goodOut, 1, n)
  /\ Start("split")
  /\ UNCHANGED <<files, disk, current, tmpOut, output>>

(* Each product is a file of its own: it is left empty or cut.             *)
SplitWriteFails ==
  /\ disk = "full" /\ tool = "split" /\ read < Len(goodOut)
  /\ output' = [output EXCEPT ![FieldOf(goodOut[read + 1]).name] = Cut]
  /\ NextFile
  /\ UNCHANGED <<files, disk, tmpOut, goodOut>>

Next ==
  \/ StartFile \/ SkipFile
  \/ FilterField \/ FilterEnds \/ FilterCrashes \/ CheckField \/ CheckEnds \/ SplitField \/ SplitEnds
  \/ FilterWriteFails \/ CheckWriteFails \/ SplitWriteFails

(* One process after the other, and none waits.                            *)
Spec == Init /\ [][Next]_vars /\ WF_vars(Next)

-------------------------------------------------------------------------------
Done == tool = "next" /\ current > Len(files)

(* The fields that should become products, as if there were no tools: all  *)
(* the rules keep and the check finds good, before the first message that  *)
(* cannot be read, the first field that refers to a bitmap when none has   *)
(* been defined in its file, and the first one at which a rule fails.      *)
Before(p, q) ==
  \/ p[1] < q[1]
  \/ p[1] = q[1] /\ p[2] < q[2]
  \/ p[1] = q[1] /\ p[2] = q[2] /\ p[3] < q[3]

Positions ==
  UNION {UNION {{<<j, m, k>> : k \in 1..Len(files[j].messages[m].fields)} :
                   m \in 1..Len(files[j].messages)} : j \in 1..Len(files)}

FieldAt(p) == files[p[1]].messages[p[2]].fields[p[3]]

UpTo(p) == {q \in Positions : q[1] = p[1] /\ (q = p \/ Before(q, p))}

LacksBitmap(p) == \A q \in UpTo(p) : ~FieldAt(q).bitmap

Stops(p) ==
  ~files[p[1]].messages[p[2]].readable \/ LacksBitmap(p) \/ FieldAt(p).rule = "error"

Wanted ==
  {p \in Positions :
     /\ files[p[1]].there
     /\ FieldAt(p).rule = "write" /\ FieldAt(p).good
     /\ \A q \in UpTo(p) : ~Stops(q)}

Position(h) == <<h.file, h.message, h.field>>

TypeOK ==
  /\ files \in Inputs /\ disk \in {"good", "full"}
  /\ current \in 1..(Len(files) + 1)
  /\ tool \in {"next", "filter", "check", "split"}
  /\ read \in Nat
  /\ support.message \in Nat /\ support.field \in Nat
  /\ support.grid \in (Nat \X Nat) \cup {None} /\ support.bitmap \in (Nat \X Nat) \cup {None}
  /\ tmpOut \in Seq(Handle) /\ goodOut \in Seq(Handle)
  /\ output \in [Names -> Handle \cup {None, Cut}]

(* Three tools whose failures nobody notices lose nothing but what lies    *)
(* behind an error in the same file, though grib_filter may die with       *)
(* records in its buffer: there are none yet when it meets a missing       *)
(* bitmap.  A product of which there are two records is the last one.  On  *)
(* a disk that fills up a product is cut, or one of the wanted records, or *)
(* not there.                                                              *)
ConvertedAsWanted ==
  Done =>
    \A n \in Names :
      LET wanted == {p \in Wanted : FieldAt(p).name = n}
      IN  IF disk = "good"
          THEN IF wanted = {} THEN output[n] = None
               ELSE /\ output[n] # None /\ Position(output[n]) \in wanted
                    /\ \A p \in wanted : ~Before(Position(output[n]), p)
          ELSE output[n] \in {None, Cut} \/ Position(output[n]) \in wanted

(* A field that leaves grib_filter has the last grid of its own message up *)
(* to it.  Its bitmap is the last one up to it in the whole file: the copy *)
(* of the bitmap outlives its message, and is that of an earlier one where *)
(* a field refers to a bitmap before its message has defined any.          *)
LastSections ==
  \A x \in 1..Len(tmpOut) :
    LET h      == tmpOut[x]
        fields == files[h.file].messages[h.message].fields
        bitmap == <<h.file, h.bitmap[1], h.bitmap[2]>>
    IN  /\ h.grid[1] = h.message
        /\ h.grid[2] <= h.field /\ fields[h.grid[2]].grid
        /\ \A k \in (h.grid[2] + 1)..h.field : ~fields[k].grid
        /\ bitmap \in UpTo(Position(h)) /\ FieldAt(bitmap).bitmap
        /\ \A q \in UpTo(Position(h)) : FieldAt(q).bitmap => ~Before(bitmap, q)

(* The conversion ends, whatever its input and its disk are like.          *)
ConversionEnds == <>Done
===============================================================================
