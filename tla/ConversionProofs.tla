--------------------------- MODULE ConversionProofs ---------------------------
(***************************************************************************)
(* Proofs about Conversion for every input directory, any number of files, *)
(* messages and fields, and a disk that may fill up at any write.          *)
(***************************************************************************)
EXTENDS Conversion, Integers, TLAPS

-------------------------------------------------------------------------------
(* The input.                                                              *)

Section == Nat \X Nat   \* the message and the field it was read from

(* The fields of message m of file j.                                      *)
FieldsOf(j, m) == files[j].messages[m].fields

(* What InputsAssumption says of the files, their messages and fields.     *)
LEMMA InputFacts ==
  ASSUME files \in Inputs
  PROVE  /\ Len(files) \in Nat
         /\ \A j \in 1..Len(files) :
              /\ Len(files[j].messages) \in Nat
              /\ \A m \in 1..Len(files[j].messages) :
                   /\ Len(FieldsOf(j, m)) \in Nat /\ 1 \in 1..Len(FieldsOf(j, m))
                   /\ FieldsOf(j, m)[1].grid
                   /\ \A k \in 1..Len(FieldsOf(j, m)) :
                        /\ FieldsOf(j, m)[k].name \in Names
                        /\ FieldsOf(j, m)[k].grid \in BOOLEAN
                        /\ FieldsOf(j, m)[k].bitmap \in BOOLEAN
                        /\ FieldsOf(j, m)[k].rule \in {"write", "ignore", "error"}
                        /\ FieldsOf(j, m)[k].good \in BOOLEAN
<1>1. \A f \in Field : f.name \in Names /\ f.grid \in BOOLEAN /\ f.bitmap \in BOOLEAN
                       /\ f.rule \in {"write", "ignore", "error"} /\ f.good \in BOOLEAN
  BY DEF Field
<1>2. \A m \in Message : m.fields \in Seq(Field)
  BY DEF Message
<1>3. \A f \in File : f.messages \in Seq(Message)
  BY DEF File
<1> HIDE DEF Field, Message, File
<1>4. files \in Seq(File) /\ Len(files) \in Nat
  BY InputsAssumption
<1>5. ASSUME NEW j \in 1..Len(files)  PROVE files[j].messages \in Seq(Message)
  <2>1. files[j] \in File
    BY <1>4
  <2> QED BY <1>3, <2>1
<1>6. ASSUME NEW j \in 1..Len(files), NEW m \in 1..Len(files[j].messages)
      PROVE  FieldsOf(j, m) \in Seq(Field)
  <2>1. files[j].messages[m] \in Message
    BY <1>5
  <2> QED BY <1>2, <2>1 DEF FieldsOf
<1>7. ASSUME NEW j \in 1..Len(files), NEW m \in 1..Len(files[j].messages)
      PROVE  FieldsOf(j, m) # <<>> /\ FieldsOf(j, m)[1].grid
  BY InputsAssumption DEF FieldsOf
<1>8. ASSUME NEW j \in 1..Len(files), NEW m \in 1..Len(files[j].messages)
      PROVE  Len(FieldsOf(j, m)) \in Nat /\ 1 \in 1..Len(FieldsOf(j, m))
  BY <1>6, <1>7
<1>9. ASSUME NEW j \in 1..Len(files), NEW m \in 1..Len(files[j].messages),
             NEW k \in 1..Len(FieldsOf(j, m))
      PROVE  /\ FieldsOf(j, m)[k].name \in Names
             /\ FieldsOf(j, m)[k].grid \in BOOLEAN
             /\ FieldsOf(j, m)[k].bitmap \in BOOLEAN
             /\ FieldsOf(j, m)[k].rule \in {"write", "ignore", "error"}
             /\ FieldsOf(j, m)[k].good \in BOOLEAN
  <2>1. FieldsOf(j, m)[k] \in Field
    BY <1>6
  <2> QED BY <1>1, <2>1
<1>10. ASSUME NEW j \in 1..Len(files)  PROVE Len(files[j].messages) \in Nat
  BY <1>5
<1> HIDE DEF FieldsOf
<1> QED BY <1>4, <1>7, <1>8, <1>9, <1>10, Zenon

-------------------------------------------------------------------------------
(* What a handle stands for.                                               *)

(* A field there is.                                                       *)
Located(h) ==
  /\ h.file \in 1..Len(files)
  /\ h.message \in 1..Len(files[h.file].messages)
  /\ h.field \in 1..Len(FieldsOf(h.file, h.message))

(* The grid, of a field or remembered after it, is the last one of the     *)
(* message up to the field.                                                *)
LastGrid(fields, m, k, grid) ==
  /\ grid \in Section /\ grid[1] = m
  /\ grid[2] <= k /\ fields[grid[2]].grid
  /\ \A i \in (grid[2] + 1)..k : ~fields[i].grid

Sectioned(h) == LastGrid(FieldsOf(h.file, h.message), h.message, h.field, h.grid)

(* While a message is used up, its grid is remembered.                     *)
SupportInv ==
  /\ support \in [message : Nat, field : Nat, grid : Section \cup {None},
                  bitmap : Section \cup {None}]
  /\ Pending =>
       /\ tool = "filter" /\ support.message = read
       /\ support.message \in 1..Len(Messages)
       /\ support.field \in 1..(Len(FieldsOf(current, support.message)) - 1)
       /\ LastGrid(FieldsOf(current, support.message), support.message, support.field,
                   support.grid)

Inv ==
  /\ files \in Inputs /\ disk \in {"good", "full"}
  /\ current \in 1..(Len(files) + 1)
  /\ tool \in {"next", "filter", "check", "split"}
  /\ tool # "next" => current \in 1..Len(files) /\ files[current].there
  /\ read \in Nat
  /\ tool = "filter" => read <= Len(Messages)
  /\ SupportInv
  /\ tmpOut \in Seq(Handle) /\ goodOut \in Seq(Handle)
  /\ \A x \in 1..Len(tmpOut) : Located(tmpOut[x]) /\ Sectioned(tmpOut[x])
  /\ \A x \in 1..Len(goodOut) : Located(goodOut[x])
  /\ output \in [Names -> Handle \cup {None, Cut}]

(* Forgetting what is pending, with or without the copy of the bitmap.     *)
LEMMA SupportNone ==
  /\ NoSupport \in [message : Nat, field : Nat, grid : Section \cup {None},
                    bitmap : Section \cup {None}]
  /\ \A b \in Section \cup {None} :
       /\ [NoSupport EXCEPT !.bitmap = b]
            \in [message : Nat, field : Nat, grid : Section \cup {None},
                 bitmap : Section \cup {None}]
       /\ [NoSupport EXCEPT !.bitmap = b].message = 0
  /\ NoSupport.message = 0
BY DEF NoSupport

(* The next field has the right grid, and is a handle if it has a bitmap.  *)
LEMMA NewHandleLocated ==
  ASSUME Inv, tool = "filter", Readable
  PROVE  /\ Located(NewHandle) /\ Sectioned(NewHandle)
         /\ NewHandle.file = current
         /\ NewHandle.message \in 1..Len(Messages)
         /\ ~MissingBitmap => NewHandle \in Handle
         /\ NewHandle.bitmap =
              IF FieldOf(NewHandle).bitmap THEN <<NewHandle.message, NewHandle.field>>
              ELSE support.bitmap
         /\ <<NewHandle.message, NewHandle.field>> \in Section
<1> DEFINE m == IF Pending THEN support.message ELSE read + 1
           k == IF Pending THEN support.field + 1 ELSE 1
           fs == FieldsOf(current, m)
           f == fs[k]
           grid == Grid(f, <<m, k>>)
           bitmap == Bitmap(f, <<m, k>>)
<1>1. /\ current \in 1..Len(files) /\ current \in Nat /\ read \in Nat /\ Len(Messages) \in Nat
      /\ Messages = files[current].messages /\ files \in Inputs
  BY InputFacts DEF Inv, Messages
<1>2. NewHandle = [file |-> current, message |-> m, field |-> k, grid |-> grid, bitmap |-> bitmap]
  BY DEF NewHandle, FieldsOf, Messages
<1>3. m \in 1..Len(Messages) /\ m \in Nat
  BY <1>1 DEF Inv, SupportInv, Readable
<1>4. Len(fs) \in Nat /\ 1 \in 1..Len(fs) /\ fs[1].grid
  <2> HIDE DEF m
  <2> QED BY <1>1, <1>3, InputFacts
<1>5. k \in 1..Len(fs) /\ k \in Nat
  <2>1. CASE Pending
    BY <1>4, <2>1 DEF Inv, SupportInv
  <2>2. CASE ~Pending
    BY <1>4, <2>2
  <2> QED BY <2>1, <2>2
<1>6. LastGrid(fs, m, k, grid)
  <2> HIDE DEF m
  <2>1. CASE Pending
    <3>1. /\ m = support.message /\ k = support.field + 1 /\ support.field \in Nat
          /\ LastGrid(fs, m, support.field, support.grid)
      BY <2>1 DEF Inv, SupportInv, m
    <3> DEFINE l == support.field
    <3>2. /\ k = l + 1 /\ l \in Nat /\ <<m, k>> \in Section
          /\ LastGrid(fs, m, l, support.grid)
      BY <1>3, <1>5, <3>1 DEF Section
    <3>3. grid = IF f.grid THEN <<m, k>> ELSE support.grid
      BY DEF Grid
    <3> HIDE DEF l, k, fs, grid
    <3>4. CASE f.grid
      BY <3>2, <3>3, <3>4 DEF LastGrid
    <3>5. CASE ~f.grid
      <4>1. grid = support.grid /\ grid \in Section /\ grid[2] \in Nat
        BY <3>2, <3>3, <3>5 DEF LastGrid, Section
      <4>2. \A i \in (grid[2] + 1)..k : i \in (grid[2] + 1)..l \/ i = k
        BY <3>2, <4>1
      <4> QED BY <3>2, <3>5, <4>1, <4>2 DEF LastGrid
    <3> QED BY <3>4, <3>5
  <2>2. CASE ~Pending
    <3>1. k = 1 /\ grid = <<m, 1>>
      BY <1>4, <2>2 DEF Grid
    <3>2. <<m, 1>> \in Section
      BY <1>3 DEF Section
    <3> QED BY <1>4, <3>1, <3>2 DEF LastGrid
  <2> QED BY <2>1, <2>2
<1>7. support.bitmap \in Section \cup {None}
  BY DEF Inv, SupportInv
<1>8. FieldOf(NewHandle) = f
  BY <1>2 DEF FieldOf, FieldsOf
<1> HIDE DEF m, k, fs, f, grid
<1>9. <<m, k>> \in Section /\ grid \in Section
  BY <1>3, <1>5, <1>6 DEF LastGrid, Section
<1>10. bitmap = IF f.bitmap THEN <<m, k>> ELSE support.bitmap
  BY DEF Bitmap
<1> HIDE DEF bitmap
<1>11. ASSUME ~MissingBitmap  PROVE NewHandle \in Handle
  <2>1. bitmap # None
    BY <1>2, <1>11 DEF MissingBitmap
  <2>2. bitmap \in Section
    BY <1>7, <1>9, <1>10, <2>1
  <2> QED BY <1>1, <1>2, <1>3, <1>5, <1>9, <2>2 DEF Handle, Section
<1>12. Located(NewHandle) /\ Sectioned(NewHandle)
  BY <1>1, <1>2, <1>3, <1>5, <1>6 DEF Located, Sectioned, fs
<1> QED BY <1>2, <1>1, <1>3, <1>8, <1>9, <1>10, <1>11, <1>12

(* The first file begins with nothing read or written.                     *)
LEMMA InitInv ==
  ASSUME Init  PROVE Inv
<1>1. Len(files) \in Nat
  BY InputFacts DEF Init
<1>2. SupportInv
  BY SupportNone DEF Init, SupportInv, Pending
<1>3. <<>> \in Seq(Handle) /\ Len(<<>>) = 0
  OBVIOUS
<1>4. output \in [Names -> Handle \cup {None, Cut}]
  BY DEF Init
<1> QED BY <1>1, <1>2, <1>3, <1>4 DEF Init, Inv

(* A tool that starts has nothing pending.                                 *)
LEMMA FreshSupport ==
  ASSUME support' = NoSupport  PROVE SupportInv'
<1>1. ~Pending'
  BY SupportNone DEF Pending
<1> QED BY <1>1, SupportNone DEF SupportInv

(* What holds of the intermediate files.                                   *)
TmpInv  == tmpOut \in Seq(Handle) /\ \A x \in 1..Len(tmpOut) : Located(tmpOut[x]) /\ Sectioned(tmpOut[x])
GoodInv == goodOut \in Seq(Handle) /\ \A x \in 1..Len(goodOut) : Located(goodOut[x])

(* The handles depend on the input alone.                                  *)
LEMMA TmpSame ==
  ASSUME TmpInv, files' = files, tmpOut' = tmpOut  PROVE TmpInv'
BY DEF TmpInv, Located, Sectioned, FieldsOf

(* The same of those that tigge_check found good.                          *)
LEMMA GoodSame ==
  ASSUME GoodInv, files' = files, goodOut' = goodOut  PROVE GoodInv'
BY DEF GoodInv, Located, FieldsOf

(* An emptied file, and a first part of one.                               *)
LEMMA TmpPart ==
  ASSUME TmpInv, files' = files, NEW n \in 0..Len(tmpOut), tmpOut' = SubSeq(tmpOut, 1, n)
  PROVE  TmpInv'
<1>1. tmpOut \in Seq(Handle)
  BY DEF TmpInv
<1> HIDE DEF Handle
<1>2. /\ tmpOut' \in Seq(Handle) /\ Len(tmpOut') = n /\ n <= Len(tmpOut)
      /\ \A x \in 1..n : tmpOut'[x] = tmpOut[x]
  BY <1>1
<1>3. \A x \in 1..n : Located(tmpOut'[x]) /\ Sectioned(tmpOut'[x])
  BY <1>2 DEF TmpInv
<1> QED BY <1>2, <1>3 DEF TmpInv, Located, Sectioned, FieldsOf

(* The same for the output of tigge_check.                                 *)
LEMMA GoodPart ==
  ASSUME GoodInv, files' = files, NEW n \in 0..Len(goodOut), goodOut' = SubSeq(goodOut, 1, n)
  PROVE  GoodInv'
<1>1. goodOut \in Seq(Handle)
  BY DEF GoodInv
<1> HIDE DEF Handle
<1>2. /\ goodOut' \in Seq(Handle) /\ Len(goodOut') = n /\ n <= Len(goodOut)
      /\ \A x \in 1..n : goodOut'[x] = goodOut[x]
  BY <1>1
<1>3. \A x \in 1..n : Located(goodOut'[x])
  BY <1>2 DEF GoodInv
<1> QED BY <1>2, <1>3 DEF GoodInv, Located, FieldsOf

(* Files that have just been opened.                                       *)
LEMMA TmpEmpty == ASSUME tmpOut' = <<>>  PROVE TmpInv'
BY DEF TmpInv

(* The output of tigge_check, likewise.                                    *)
LEMMA GoodEmpty == ASSUME goodOut' = <<>>  PROVE GoodInv'
BY DEF GoodInv

(* The types and sections, through a field that grib_filter handles,       *)
LEMMA FilterFieldKeepsInv ==
  ASSUME Inv, FilterField  PROVE Inv'
<1> DEFINE h == NewHandle
<1>1. /\ Located(h) /\ Sectioned(h) /\ h.file = current /\ h.message \in 1..Len(Messages)
      /\ h \in Handle
  BY NewHandleLocated DEF FilterField
<1>2. /\ files' = files /\ disk' = disk /\ current' = current /\ tool' = tool /\ tool = "filter"
      /\ goodOut' = goodOut /\ output' = output
      /\ tmpOut' = tmpOut \/ tmpOut' = Append(tmpOut, h)
      /\ read' = h.message
      /\ support' = IF h.field < Len(Messages[h.message].fields)
                    THEN [message |-> h.message, field |-> h.field,
                          grid |-> h.grid, bitmap |-> h.bitmap]
                    ELSE [NoSupport EXCEPT !.bitmap = h.bitmap]
  BY DEF FilterField, Remember
<1>3. /\ h \in Handle /\ h.message \in Nat /\ h.field \in Nat /\ h.field >= 1
      /\ h.grid \in Section /\ h.bitmap \in Section
      /\ Len(FieldsOf(current, h.message)) \in Nat
      /\ FieldsOf(current, h.message) = Messages[h.message].fields
      /\ LastGrid(FieldsOf(current, h.message), h.message, h.field, h.grid)
  <2>1. h.file \in 1..Len(files) /\ h.field \in 1..Len(FieldsOf(current, h.message)) /\ h \in Handle
    BY <1>1 DEF Located
  <2>2. h.message \in Nat /\ h.field \in Nat /\ h.grid \in Section /\ h.bitmap \in Section
    BY <2>1 DEF Handle, Section
  <2>3. Len(FieldsOf(current, h.message)) \in Nat
    BY <1>1, <2>1, InputFacts DEF Inv, Messages
  <2> QED BY <1>1, <2>1, <2>2, <2>3 DEF FieldsOf, Messages, Sectioned
<1> HIDE DEF h
<1>4. TmpInv'
  <2>1. TmpInv
    BY DEF Inv, TmpInv
  <2>2. CASE tmpOut' = tmpOut
    BY <1>2, <2>1, <2>2, TmpSame
  <2>3. CASE tmpOut' = Append(tmpOut, h)
    <3>1. tmpOut \in Seq(Handle) /\ h \in Handle
      BY <1>3, <2>1 DEF TmpInv
    <3> HIDE DEF Handle
    <3>2. /\ tmpOut' \in Seq(Handle) /\ Len(tmpOut') = Len(tmpOut) + 1 /\ Len(tmpOut) \in Nat
          /\ tmpOut'[Len(tmpOut) + 1] = h
          /\ \A x \in 1..Len(tmpOut) : tmpOut'[x] = tmpOut[x]
      BY <2>3, <3>1
    <3>3. \A x \in 1..Len(tmpOut') : x \in 1..Len(tmpOut) \/ x = Len(tmpOut) + 1
      BY <3>2
    <3>4. \A x \in 1..Len(tmpOut') : Located(tmpOut'[x]) /\ Sectioned(tmpOut'[x])
      BY <1>1, <2>1, <3>2, <3>3 DEF TmpInv
    <3> QED BY <1>2, <3>2, <3>4 DEF TmpInv, Located, Sectioned, FieldsOf
  <2> QED BY <1>2, <2>2, <2>3
<1>5. SupportInv'
  <2>1. CASE h.field < Len(FieldsOf(current, h.message))
    <3>1. support' = [message |-> h.message, field |-> h.field,
                      grid |-> h.grid, bitmap |-> h.bitmap]
      BY <1>2, <1>3, <2>1
    <3>2. h.field \in 1..(Len(FieldsOf(current, h.message)) - 1)
      BY <1>3, <2>1
    <3>3. Messages' = Messages
      BY <1>2 DEF Messages
    <3>4. /\ support' \in [message : Nat, field : Nat, grid : Section \cup {None},
                          bitmap : Section \cup {None}]
          /\ support'.message = h.message /\ support'.field = h.field
          /\ support'.grid = h.grid /\ support'.bitmap = h.bitmap
      BY <1>3, <3>1
    <3> QED BY <1>1, <1>2, <1>3, <3>2, <3>3, <3>4 DEF SupportInv, FieldsOf, LastGrid
  <2>2. CASE ~(h.field < Len(FieldsOf(current, h.message)))
    <3>1. support' = [NoSupport EXCEPT !.bitmap = h.bitmap]
      BY <1>2, <1>3, <2>2
    <3>2. /\ support' \in [message : Nat, field : Nat, grid : Section \cup {None},
                          bitmap : Section \cup {None}]
          /\ ~Pending'
      BY <1>3, <3>1, SupportNone DEF Pending
    <3> QED BY <3>2 DEF SupportInv
  <2> QED BY <2>1, <2>2
<1>6. read' \in Nat /\ read' <= Len(Messages')
  BY <1>1, <1>2, <1>3, InputFacts DEF Inv, Messages
<1> QED BY <1>2, <1>4, <1>5, <1>6, GoodSame DEF Inv, TmpInv, GoodInv

(* The steps at which a tool starts, of which the last tool's files and    *)
(* the products are left alone or treated as given.                        *)
LEMMA ToolStarts ==
  ASSUME Inv, files' = files, disk' = disk, TmpInv', GoodInv',
         output' \in [Names -> Handle \cup {None, Cut}],
         read' = 0, support' = NoSupport,
         \/ tool' \in {"filter", "check", "split"} /\ current' = current
            /\ current \in 1..Len(files) /\ files[current].there
         \/ tool' = "next" /\ current' = current + 1 /\ current \in 1..Len(files)
  PROVE  Inv'
<1>1. /\ files' \in Inputs /\ disk' \in {"good", "full"} /\ Len(files) \in Nat
      /\ SupportInv'
  BY InputFacts, FreshSupport DEF Inv
<1>2. CASE tool' \in {"filter", "check", "split"} /\ current' = current
           /\ current \in 1..Len(files) /\ files[current].there
  <2>1. Len(Messages') \in Nat
    BY <1>1, <1>2, InputFacts DEF Messages
  <2> QED BY <1>1, <1>2, <2>1 DEF Inv, TmpInv, GoodInv
<1>3. CASE tool' = "next" /\ current' = current + 1 /\ current \in 1..Len(files)
  <2>1. current' \in 1..(Len(files') + 1)
    BY <1>1, <1>3
  <2> QED BY <1>1, <1>3, <2>1 DEF Inv, TmpInv, GoodInv
<1> QED BY <1>2, <1>3

(* Checking or splitting one more record leaves the rest alone.            *)
LEMMA RecordPasses ==
  ASSUME Inv, files' = files, disk' = disk, current' = current, tool' = tool,
         tool \in {"check", "split"}, support' = support, tmpOut' = tmpOut, GoodInv',
         output' \in [Names -> Handle \cup {None, Cut}], read' = read + 1
  PROVE  Inv'
<1>1. TmpInv'
  BY TmpSame DEF Inv, TmpInv
<1>2. SupportInv'
  BY DEF Inv, SupportInv, Pending
<1> QED BY <1>1, <1>2 DEF Inv, TmpInv, GoodInv

(* through a record that tigge_check handles,                              *)
LEMMA CheckFieldKeepsInv ==
  ASSUME Inv, CheckField  PROVE Inv'
<1> DEFINE h == tmpOut[read + 1]
<1>1. Located(h) /\ h \in Handle
  <2> HIDE DEF Handle
  <2> QED BY DEF Inv, CheckField
<1>2. /\ files' = files /\ disk' = disk /\ current' = current /\ tool' = tool
      /\ tool \in {"check", "split"} /\ support' = support /\ tmpOut' = tmpOut
      /\ output' = output /\ read' = read + 1
      /\ goodOut' = goodOut \/ goodOut' = Append(goodOut, h)
      /\ output \in [Names -> Handle \cup {None, Cut}]
  BY DEF CheckField, Inv
<1> HIDE DEF h
<1>3. GoodInv
  BY DEF Inv, GoodInv
<1>4. GoodInv'
  <2>1. CASE goodOut' = goodOut
    BY <1>2, <1>3, <2>1, GoodSame
  <2>2. CASE goodOut' = Append(goodOut, h)
    <3>1. goodOut \in Seq(Handle)
      BY <1>3 DEF GoodInv
    <3> HIDE DEF Handle
    <3>2. /\ goodOut' \in Seq(Handle) /\ Len(goodOut') = Len(goodOut) + 1 /\ Len(goodOut) \in Nat
          /\ goodOut'[Len(goodOut) + 1] = h
          /\ \A x \in 1..Len(goodOut) : goodOut'[x] = goodOut[x]
      BY <1>1, <2>2, <3>1
    <3>3. \A x \in 1..Len(goodOut') : x \in 1..Len(goodOut) \/ x = Len(goodOut) + 1
      BY <3>2
    <3>4. \A x \in 1..Len(goodOut') : Located(goodOut'[x])
      BY <1>1, <1>3, <3>2, <3>3 DEF GoodInv
    <3> QED BY <1>2, <3>2, <3>4 DEF GoodInv, Located, FieldsOf
  <2> QED BY <1>2, <2>1, <2>2
<1> HIDE DEF Handle
<1> QED BY <1>2, <1>4, RecordPasses

(* A product is one of the handles, or cut.                                *)
LEMMA OutputKept ==
  ASSUME output \in [Names -> Handle \cup {None, Cut}], NEW n, NEW v \in Handle \cup {Cut},
         output' = [output EXCEPT ![n] = v]
  PROVE  output' \in [Names -> Handle \cup {None, Cut}]
<1> HIDE DEF Handle
<1> QED OBVIOUS

(* and through one that tigge_split writes.                                *)
LEMMA SplitFieldKeepsInv ==
  ASSUME Inv, SplitField  PROVE Inv'
<1>1. goodOut[read + 1] \in Handle
  <2> HIDE DEF Handle
  <2> QED BY DEF Inv, SplitField
<1>2. /\ files' = files /\ disk' = disk /\ current' = current /\ tool' = tool
      /\ tool \in {"check", "split"} /\ support' = support /\ tmpOut' = tmpOut
      /\ goodOut' = goodOut /\ read' = read + 1
      /\ output' = [output EXCEPT ![FieldOf(goodOut[read + 1]).name] = goodOut[read + 1]]
      /\ output \in [Names -> Handle \cup {None, Cut}]
  BY DEF SplitField, Inv
<1> HIDE DEF Handle
<1>3. GoodInv'
  BY <1>2, GoodSame DEF Inv, GoodInv
<1>4. output' \in [Names -> Handle \cup {None, Cut}]
  BY <1>1, <1>2, OutputKept
<1> QED BY <1>2, <1>3, <1>4, RecordPasses

(* Every step keeps the invariant.                                         *)
LEMMA NextInv ==
  ASSUME Inv, [Next]_vars  PROVE Inv'
<1> HIDE DEF Handle
<1>1. TmpInv /\ GoodInv /\ output \in [Names -> Handle \cup {None, Cut}] /\ Len(files) \in Nat
  BY InputFacts DEF Inv, TmpInv, GoodInv
<1>2. CASE StartFile
  <2>1. current \in 1..Len(files)
    BY <1>1, <1>2 DEF StartFile, Inv
  <2> QED BY <1>1, <1>2, <2>1, ToolStarts, TmpEmpty, GoodSame DEF StartFile, Start
<1>3. CASE SkipFile
  <2>1. current \in 1..Len(files) /\ current + 1 \in 1..(Len(files) + 1)
    BY <1>1, <1>3 DEF SkipFile, Inv
  <2>2. TmpInv' /\ GoodInv'
    BY <1>1, <1>3, TmpSame, GoodSame DEF SkipFile
  <2>3. SupportInv'
    BY <1>3 DEF Inv, SupportInv, Pending, SkipFile
  <2> QED BY <1>3, <2>1, <2>2, <2>3 DEF Inv, SkipFile, TmpInv, GoodInv
<1>4. CASE FilterField
  BY <1>4, FilterFieldKeepsInv
<1>5. CASE FilterEnds \/ FilterCrashes \/ FilterWriteFails
  <2>1. TmpInv'
    BY <1>1, <1>5, TmpSame, TmpPart DEF FilterEnds, FilterCrashes, FilterWriteFails
  <2> QED BY <1>1, <1>5, <2>1, ToolStarts, GoodEmpty DEF FilterEnds, FilterCrashes, FilterWriteFails, Start, Inv
<1>6. CASE CheckField
  BY <1>6, CheckFieldKeepsInv
<1>7. CASE CheckEnds \/ CheckWriteFails
  <2>1. GoodInv'
    BY <1>1, <1>7, GoodSame, GoodPart DEF CheckEnds, CheckWriteFails
  <2> QED BY <1>1, <1>7, <2>1, ToolStarts, TmpSame DEF CheckEnds, CheckWriteFails, Start, Inv
<1>8. CASE SplitField
  BY <1>8, SplitFieldKeepsInv
<1>9. CASE SplitEnds \/ SplitWriteFails
  <2>1. output' \in [Names -> Handle \cup {None, Cut}]
    BY <1>1, <1>9, OutputKept DEF SplitEnds, SplitWriteFails
  <2> QED BY <1>1, <1>9, <2>1, ToolStarts, TmpSame, GoodSame
          DEF SplitEnds, SplitWriteFails, NextFile, Inv
<1>10. CASE UNCHANGED vars
  <2>1. SupportInv'
    BY <1>10 DEF Inv, SupportInv, Pending, vars, Messages, FieldsOf, LastGrid
  <2> QED BY <1>1, <1>10, <2>1, TmpSame, GoodSame DEF Inv, vars, TmpInv, GoodInv, Messages
<1> QED BY <1>2, <1>3, <1>4, <1>5, <1>6, <1>7, <1>8, <1>9, <1>10 DEF Next

(* The sections are always those of one message.                           *)
LEMMA Invariance == Spec => []Inv
BY InitInv, NextInv, PTL DEF Spec

(* Every variable stays in its type: the intermediate files hold handles   *)
(* of fields there are, whatever the input and wherever the disk fills up. *)
THEOREM TypeCorrect == Spec => []TypeOK
<1>1. Inv => TypeOK
  BY DEF Inv, TypeOK, SupportInv, Section
<1> QED BY <1>1, Invariance, PTL

-------------------------------------------------------------------------------
(* The products.  Where a field is kept by the rules and no error comes    *)
(* before it in its file, and how far the tools have got.                  *)

Clean(p) == \A q \in UpTo(p) : ~Stops(q)

Kept == {p \in Positions : files[p[1]].there /\ FieldAt(p).rule = "write" /\ Clean(p)}

(* grib_filter has dealt with field k of message m.                        *)
Passed(m, k) == m < read \/ (m = read /\ (Pending => k <= support.field))

FilterSound ==
  tool = "filter" => \A p \in Positions : p[1] = current /\ Passed(p[2], p[3]) => ~Stops(p)

(* The copy of the bitmap is the last one that grib_filter has dealt with, *)
BitmapInv ==
  tool = "filter" =>
    LET b == <<current, support.bitmap[1], support.bitmap[2]>>
        HasBitmap(p) == p[1] = current /\ Passed(p[2], p[3]) /\ FieldAt(p).bitmap
    IN  IF support.bitmap = None THEN \A p \in Positions : ~HasBitmap(p)
        ELSE /\ b \in Positions /\ HasBitmap(b)
             /\ \A p \in Positions : HasBitmap(p) => ~Before(b, p)

(* and a handle has the last one up to its field.                          *)
LastBitmap(h) ==
  LET b == <<h.file, h.bitmap[1], h.bitmap[2]>>
  IN  /\ b \in UpTo(Position(h)) /\ FieldAt(b).bitmap
      /\ \A q \in UpTo(Position(h)) : FieldAt(q).bitmap => ~Before(b, q)

TmpBitmaps == \A h : (\E x \in 1..Len(tmpOut) : tmpOut[x] = h) => LastBitmap(h)

TmpSound ==
  \A x \in 1..Len(tmpOut) :
    /\ Position(tmpOut[x]) \in Kept
    /\ tool \in {"filter", "check"} => tmpOut[x].file = current
    /\ tool = "filter" => Passed(tmpOut[x].message, tmpOut[x].field)

GoodSound ==
  \A y \in 1..Len(goodOut) :
    /\ Position(goodOut[y]) \in Wanted
    /\ tool \in {"check", "split"} => goodOut[y].file = current

OutputSound ==
  \A n \in Names :
    \/ output[n] = None
    \/ disk = "full" /\ output[n] = Cut
    \/ Position(output[n]) \in Wanted /\ FieldAt(Position(output[n])).name = n

InTmp(p)     == \E x \in 1..Len(tmpOut) : Position(tmpOut[x]) = p
InGood(p)    == \E y \in 1..Len(goodOut) : Position(goodOut[y]) = p
InOrder(seq) == \A x, y \in 1..Len(seq) : x < y => Before(Position(seq[x]), Position(seq[y]))

(* On a disk with room for all, what a tool has dealt with is there, in    *)
(* the order of the input.                                                 *)
TmpAll ==
  /\ tool = "filter" => \A p \in Kept : p[1] = current /\ Passed(p[2], p[3]) => InTmp(p)
  /\ tool = "check"  => \A p \in Kept : p[1] = current => InTmp(p)
  /\ tool \in {"filter", "check"} => InOrder(tmpOut)

GoodAll ==
  /\ tool = "check" =>
       /\ read <= Len(tmpOut)
       /\ \A x \in 1..Len(tmpOut) :
            x <= read /\ FieldOf(tmpOut[x]).good => InGood(Position(tmpOut[x]))
       /\ \A y \in 1..Len(goodOut) :
            \E x \in 1..Len(tmpOut) : x <= read /\ goodOut[y] = tmpOut[x]
  /\ tool = "split" => \A p \in Wanted : p[1] = current => InGood(p)
  /\ tool \in {"check", "split"} => InOrder(goodOut)

(* tigge_split has written the record.                                     *)
Split(p) ==
  \/ p[1] < current
  \/ tool = "split" /\ \E y \in 1..Len(goodOut) : y <= read /\ Position(goodOut[y]) = p

OutputAll ==
  \A p \in Wanted :
    Split(p) => LET last == output[FieldAt(p).name]
                IN  last # None /\ ~Before(Position(last), p)

ProductInv ==
  /\ FilterSound /\ TmpSound /\ GoodSound /\ OutputSound
  /\ disk = "good" => TmpAll /\ GoodAll /\ OutputAll
  /\ tool = "split" => read <= Len(goodOut)

(* The positions are triples; every handle has one.                        *)
LEMMA PositionFacts ==
  ASSUME files \in Inputs
  PROVE  /\ \A p \in Positions :
              /\ p = <<p[1], p[2], p[3]>>
              /\ p[1] \in Nat /\ p[2] \in Nat /\ p[3] \in Nat
              /\ p[1] \in 1..Len(files) /\ p[2] \in 1..Len(files[p[1]].messages)
              /\ p[3] \in 1..Len(FieldsOf(p[1], p[2]))
         /\ \A j \in 1..Len(files) : \A m \in 1..Len(files[j].messages) :
              \A k \in 1..Len(FieldsOf(j, m)) : <<j, m, k>> \in Positions
<1>1. /\ Len(files) \in Nat
      /\ \A j \in 1..Len(files) :
           /\ Len(files[j].messages) \in Nat
           /\ \A m \in 1..Len(files[j].messages) : Len(FieldsOf(j, m)) \in Nat
  BY InputFacts
<1>2. \A p : p \in Positions <=>
        \E j \in 1..Len(files) : \E m \in 1..Len(files[j].messages) :
          \E k \in 1..Len(FieldsOf(j, m)) : p = <<j, m, k>>
  <2> DEFINE InMessage(j, m) == {<<j, m, k>> : k \in 1..Len(FieldsOf(j, m))}
             InFile(j) == UNION {InMessage(j, m) : m \in 1..Len(files[j].messages)}
  <2>1. \A j, m, p : p \in InMessage(j, m) <=> \E k \in 1..Len(FieldsOf(j, m)) : p = <<j, m, k>>
    OBVIOUS
  <2>2. Positions = UNION {InFile(j) : j \in 1..Len(files)}
    BY DEF Positions, FieldsOf
  <2> HIDE DEF InMessage
  <2>3. \A j, p : p \in InFile(j) <=> \E m \in 1..Len(files[j].messages) : p \in InMessage(j, m)
    OBVIOUS
  <2> HIDE DEF InFile
  <2>4. \A p : p \in Positions <=> \E j \in 1..Len(files) : p \in InFile(j)
    BY <2>2
  <2> HIDE DEF FieldsOf, Positions
  <2>5. ASSUME NEW p
        PROVE  p \in Positions <=>
                 \E j \in 1..Len(files) : \E m \in 1..Len(files[j].messages) :
                   \E k \in 1..Len(FieldsOf(j, m)) : p = <<j, m, k>>
    <3>1. CASE p \in Positions
      <4>1. PICK j \in 1..Len(files) : p \in InFile(j)
        BY <2>4, <3>1
      <4>2. PICK m \in 1..Len(files[j].messages) : p \in InMessage(j, m)
        BY <2>3, <4>1
      <4>3. \E k \in 1..Len(FieldsOf(j, m)) : p = <<j, m, k>>
        BY <2>1, <4>2
      <4> QED BY <3>1, <4>3
    <3>2. ASSUME NEW j \in 1..Len(files), NEW m \in 1..Len(files[j].messages),
                 NEW k \in 1..Len(FieldsOf(j, m)), p = <<j, m, k>>
          PROVE  p \in Positions
      <4>1. p \in InMessage(j, m)
        BY <2>1, <3>2
      <4>2. p \in InFile(j)
        BY <2>3, <4>1
      <4> QED BY <2>4, <4>2
    <3> QED BY <3>1, <3>2
  <2> QED BY <2>5
<1> HIDE DEF FieldsOf
<1>3. ASSUME NEW p \in Positions
      PROVE  /\ p = <<p[1], p[2], p[3]>>
             /\ p[1] \in 1..Len(files) /\ p[2] \in 1..Len(files[p[1]].messages)
             /\ p[3] \in 1..Len(FieldsOf(p[1], p[2]))
  <2>1. PICK j \in 1..Len(files) : \E m \in 1..Len(files[j].messages) :
          \E k \in 1..Len(FieldsOf(j, m)) : p = <<j, m, k>>
    BY <1>2
  <2>2. PICK m \in 1..Len(files[j].messages) :
          \E k \in 1..Len(FieldsOf(j, m)) : p = <<j, m, k>>
    BY <2>1
  <2>3. PICK k \in 1..Len(FieldsOf(j, m)) : p = <<j, m, k>>
    BY <2>2
  <2>4. p[1] = j /\ p[2] = m /\ p[3] = k
    BY <2>3
  <2> QED BY <2>3, <2>4
<1>4. ASSUME NEW p \in Positions  PROVE p[1] \in Nat /\ p[2] \in Nat /\ p[3] \in Nat
  <2>1. Len(files) \in Nat /\ Len(files[p[1]].messages) \in Nat /\ Len(FieldsOf(p[1], p[2])) \in Nat
    BY <1>1, <1>3
  <2> QED BY <1>3, <2>1
<1> QED BY <1>2, <1>3, <1>4

(* A handle has the position of the field it stands for.                   *)
LEMMA HandlePosition ==
  ASSUME files \in Inputs, NEW h, Located(h)
  PROVE  /\ Position(h) \in Positions /\ FieldAt(Position(h)) = FieldOf(h)
         /\ Position(h)[1] = h.file /\ Position(h)[2] = h.message /\ Position(h)[3] = h.field
         /\ FieldOf(h).name \in Names /\ FieldOf(h).good \in BOOLEAN
         /\ h.file \in Nat /\ h.message \in Nat /\ h.field \in Nat
<1>1. /\ h.file \in 1..Len(files) /\ h.message \in 1..Len(files[h.file].messages)
      /\ h.field \in 1..Len(FieldsOf(h.file, h.message))
  BY DEF Located
<1>2. Position(h) \in Positions
  BY <1>1, PositionFacts DEF Position
<1>3. Position(h)[1] = h.file /\ Position(h)[2] = h.message /\ Position(h)[3] = h.field
  BY DEF Position
<1>4. FieldAt(Position(h)) = FieldOf(h)
  BY <1>3 DEF FieldAt, FieldOf
<1>5. FieldOf(h).name \in Names /\ FieldOf(h).good \in BOOLEAN
  BY <1>1, InputFacts DEF FieldOf, FieldsOf
<1>6. h.file \in Nat /\ h.message \in Nat /\ h.field \in Nat
  BY <1>2, <1>3, PositionFacts
<1> QED BY <1>2, <1>3, <1>4, <1>5, <1>6

(* Before is a strict total order of the positions.                        *)
LEMMA BeforeOrders ==
  ASSUME files \in Inputs, NEW p \in Positions, NEW q \in Positions
  PROVE  /\ p = q \/ Before(p, q) \/ Before(q, p)
         /\ ~(Before(p, q) /\ Before(q, p))
         /\ ~Before(p, p)
         /\ p[1] < q[1] => ~Before(q, p)
BY PositionFacts DEF Before

(* What comes before a position of its file, and before that.              *)
LEMMA UpToFacts ==
  ASSUME files \in Inputs, NEW p \in Positions
  PROVE  /\ p \in UpTo(p)
         /\ \A q : q \in UpTo(p) <=> q \in Positions /\ q[1] = p[1] /\ (q = p \/ Before(q, p))
         /\ \A q \in UpTo(p) : UpTo(q) \subseteq UpTo(p)
<1>1. \A q : q \in UpTo(p) <=> q \in Positions /\ q[1] = p[1] /\ (q = p \/ Before(q, p))
  BY DEF UpTo
<1>2. ASSUME NEW q \in UpTo(p), NEW r \in UpTo(q)  PROVE r \in UpTo(p)
  <2>1. /\ q \in Positions /\ q[1] = p[1] /\ (q = p \/ Before(q, p))
        /\ r \in Positions /\ r[1] = q[1] /\ (r = q \/ Before(r, q))
    BY <1>2 DEF UpTo
  <2>2. Before(q, p) /\ Before(r, q) => Before(r, p)
    BY <2>1, PositionFacts DEF Before
  <2> QED BY <1>1, <2>1, <2>2
<1> QED BY <1>1, <1>2

(* What is asked of the products depends on the input alone.               *)
LEMMA InputStays ==
  ASSUME files' = files
  PROVE  /\ Positions' = Positions /\ Kept' = Kept /\ Wanted' = Wanted
         /\ \A p : UpTo(p)' = UpTo(p) /\ (Stops(p)' <=> Stops(p))
         /\ \A p : FieldAt(p)' = FieldAt(p)
         /\ \A h : FieldOf(h)' = FieldOf(h)
<1>1. Positions' = Positions
  BY DEF Positions
<1>2. \A p : FieldAt(p)' = FieldAt(p)
  BY DEF FieldAt
<1>3. \A p : UpTo(p)' = UpTo(p) /\ (Stops(p)' <=> Stops(p))
  BY <1>1, <1>2 DEF Stops, LacksBitmap, UpTo, FieldAt, Before
<1>4. \A p : Clean(p)' <=> Clean(p)
  BY <1>3 DEF Clean
<1>5. Kept' = Kept
  BY <1>1, <1>2, <1>4 DEF Kept
<1>6. Wanted' = Wanted
  BY <1>1, <1>2, <1>3 DEF Wanted
<1>7. \A h : FieldOf(h)' = FieldOf(h)
  BY DEF FieldOf
<1> QED BY <1>1, <1>2, <1>3, <1>5, <1>6, <1>7

(* The fields wanted are the good ones of those kept.                      *)
LEMMA WantedAreKept ==
  /\ \A p : p \in Wanted <=> p \in Kept /\ FieldAt(p).good
  /\ \A p \in Kept : p \in Positions /\ files[p[1]].there /\ Clean(p)
BY DEF Wanted, Kept, Clean

(* The next field comes behind all that grib_filter has dealt with, before *)
(* all others, and is then dealt with itself.                              *)
LEMMA NextPosition ==
  ASSUME Inv, tool = "filter", Readable
  PROVE  /\ \A p \in Positions : p[1] = current /\ Passed(p[2], p[3]) => Before(p, Position(NewHandle))
         /\ \A p \in Positions : p[1] = current /\ ~Passed(p[2], p[3]) =>
              p = Position(NewHandle) \/ Before(Position(NewHandle), p)
         /\ Remember(NewHandle) => \A p \in Positions : p[1] = current =>
              (Passed(p[2], p[3])' <=> (Passed(p[2], p[3]) \/ p = Position(NewHandle)))
         /\ Passed(NewHandle.message, NewHandle.field - 1)
              \/ (Messages[NewHandle.message].readable /\ NewHandle.field = 1)
<1> DEFINE h == NewHandle
           m == h.message
           k == h.field
<1>1. /\ files \in Inputs /\ read \in Nat
      /\ Located(h) /\ h.file = current /\ m \in 1..Len(Messages)
  BY NewHandleLocated DEF Inv
<1>2. /\ Position(h) = <<current, m, k>> /\ m \in Nat /\ k \in Nat /\ current \in Nat
      /\ Position(h)[1] = current /\ Position(h)[2] = m /\ Position(h)[3] = k
      /\ k \in 1..Len(FieldsOf(current, m)) /\ Len(FieldsOf(current, m)) \in Nat
      /\ FieldsOf(current, m) = Messages[m].fields
  <2>1. /\ Position(h) = <<current, m, k>>
        /\ Position(h)[1] = current /\ Position(h)[2] = m /\ Position(h)[3] = k
        /\ m \in Nat /\ k \in Nat /\ current \in Nat
    BY <1>1, HandlePosition DEF Position
  <2>2. k \in 1..Len(FieldsOf(current, m))
    BY <1>1 DEF Located
  <2>3. Len(FieldsOf(current, m)) \in Nat
    BY <1>1, InputFacts DEF Inv, Messages
  <2> QED BY <2>1, <2>2, <2>3 DEF FieldsOf, Messages
<1>3. IF Pending THEN m = support.message /\ k = support.field + 1 /\ m = read
                      /\ support.field \in 1..(Len(FieldsOf(current, m)) - 1)
                 ELSE m = read + 1 /\ k = 1 /\ Messages[m].readable
  BY DEF NewHandle, Readable, Inv, SupportInv
<1> HIDE DEF h, m, k
<1>4. \A p \in Positions : /\ p = <<p[1], p[2], p[3]>> /\ p[2] \in Nat /\ p[3] \in Nat
                           /\ p[3] >= 1 /\ (p[1] = current => p[3] <= Len(FieldsOf(current, p[2])))
  BY <1>1, PositionFacts
<1>5. support.field \in Nat
  BY DEF Inv, SupportInv
<1>6. ASSUME NEW p \in Positions, p[1] = current
      PROVE  /\ Passed(p[2], p[3]) => Before(p, Position(h))
             /\ ~Passed(p[2], p[3]) => p = Position(h) \/ Before(Position(h), p)
             /\ Passed(p[2], p[3]) <=> (p[2] < m \/ (p[2] = m /\ p[3] < k))
  <2>1. Passed(p[2], p[3]) <=> (p[2] < m \/ (p[2] = m /\ p[3] < k))
    <3>1. CASE Pending
      BY <1>1, <1>2, <1>3, <1>4, <1>5, <3>1 DEF Passed
    <3>2. CASE ~Pending
      BY <1>1, <1>2, <1>3, <1>4, <3>2 DEF Passed
    <3> QED BY <3>1, <3>2
  <2> QED BY <1>2, <1>4, <1>6, <2>1 DEF Before
<1>7. ASSUME Remember(h), NEW p \in Positions, p[1] = current
      PROVE  Passed(p[2], p[3])' <=> (Passed(p[2], p[3]) \/ p = Position(h))
  <2>1. Passed(p[2], p[3])' <=> (p[2] < m \/ (p[2] = m /\ p[3] <= k))
    <3>1. CASE k < Len(FieldsOf(current, m))
      <4>1. read' = m /\ support'.message = m /\ support'.field = k
        BY <1>2, <1>7, <3>1 DEF Remember, m, k
      <4>2. Pending'
        BY <1>1, <4>1 DEF Pending
      <4> QED BY <4>1, <4>2 DEF Passed
    <3>2. CASE ~(k < Len(FieldsOf(current, m)))
      <4>1. read' = m /\ ~Pending'
        BY <1>2, <1>7, <3>2, SupportNone DEF Remember, m, k, Pending, NoSupport
      <4>2. p[2] = m => p[3] <= k
        BY <1>2, <1>4, <1>7, <3>2
      <4> QED BY <1>2, <1>4, <4>1, <4>2 DEF Passed
    <3> QED BY <3>1, <3>2
  <2>2. p = Position(h) <=> p[2] = m /\ p[3] = k
    BY <1>2, <1>4, <1>7
  <2> QED BY <1>2, <1>4, <1>6, <1>7, <2>1, <2>2
<1>8. Passed(m, k - 1) \/ (Messages[m].readable /\ k = 1)
  BY <1>1, <1>2, <1>3, <1>5 DEF Passed
<1> QED BY <1>6, <1>7, <1>8 DEF h, m, k

(* The next field gets the last bitmap up to it, if there is one.          *)
LEMMA NextBitmap ==
  ASSUME Inv, BitmapInv, tool = "filter", Readable
  PROVE  /\ ~MissingBitmap => LastBitmap(NewHandle) /\ ~LacksBitmap(Position(NewHandle))
         /\ MissingBitmap => LacksBitmap(Position(NewHandle))
<1> DEFINE h == NewHandle
           P == Position(h)
           b == <<current, h.bitmap[1], h.bitmap[2]>>
<1>1. /\ files \in Inputs /\ Located(h) /\ h.file = current
      /\ h.bitmap = IF FieldOf(h).bitmap THEN <<h.message, h.field>> ELSE support.bitmap
      /\ <<h.message, h.field>> # None
  BY NewHandleLocated, NoneAssumption DEF Inv, Section
<1>2. /\ P \in Positions /\ P[1] = current /\ FieldAt(P) = FieldOf(h)
      /\ P = <<current, h.message, h.field>>
  BY <1>1, HandlePosition DEF Position
<1>3. /\ \A p \in Positions : p[1] = current /\ Passed(p[2], p[3]) => Before(p, P)
      /\ \A p \in Positions : p[1] = current /\ ~Passed(p[2], p[3]) => p = P \/ Before(P, p)
  BY NextPosition
<1>4. MissingBitmap <=> h.bitmap = None
  BY DEF MissingBitmap
<1>5. /\ P \in UpTo(P)
      /\ \A q : q \in UpTo(P) <=> q \in Positions /\ q[1] = current /\ (q = P \/ Before(q, P))
  BY <1>1, <1>2, UpToFacts
<1> HIDE DEF h, P
<1>6. \A q \in UpTo(P) : q \in Positions /\ q[1] = current /\ (q = P \/ Passed(q[2], q[3]))
  <2>1. ASSUME NEW q \in UpTo(P), q # P, ~Passed(q[2], q[3])  PROVE FALSE
    BY <1>1, <1>2, <1>3, <1>5, <2>1, BeforeOrders
  <2> QED BY <1>5, <2>1
<1>7. CASE FieldOf(h).bitmap
  <2>1. ~MissingBitmap /\ b = P
    BY <1>1, <1>2, <1>4, <1>7
  <2>2. \A q \in UpTo(P) : ~Before(P, q)
    BY <1>1, <1>2, <1>5, BeforeOrders
  <2> QED BY <1>1, <1>2, <1>5, <1>7, <2>1, <2>2 DEF LastBitmap, LacksBitmap, h, P
<1>8. CASE ~FieldOf(h).bitmap
  <2>1. h.bitmap = support.bitmap
    BY <1>1, <1>8
  <2>2. ASSUME MissingBitmap  PROVE LacksBitmap(P)
    <3>1. ASSUME NEW q \in UpTo(P), FieldAt(q).bitmap  PROVE FALSE
      BY <1>2, <1>4, <1>6, <1>8, <2>1, <2>2, <3>1 DEF BitmapInv
    <3> QED BY <3>1 DEF LacksBitmap
  <2>3. ASSUME ~MissingBitmap  PROVE LastBitmap(h) /\ ~LacksBitmap(P)
    <3>1. /\ b \in Positions /\ b[1] = current /\ Passed(b[2], b[3]) /\ FieldAt(b).bitmap
          /\ \A p \in Positions :
               p[1] = current /\ Passed(p[2], p[3]) /\ FieldAt(p).bitmap => ~Before(b, p)
      BY <1>4, <2>1, <2>3 DEF BitmapInv
    <3> HIDE DEF b
    <3>2. b \in UpTo(P)
      BY <1>3, <1>5, <3>1
    <3>3. \A q \in UpTo(P) : FieldAt(q).bitmap => ~Before(b, q)
      BY <1>2, <1>6, <1>8, <3>1
    <3> QED BY <1>1, <3>1, <3>2, <3>3 DEF LastBitmap, LacksBitmap, b, P
  <2> QED BY <2>2, <2>3 DEF h, P
<1> QED BY <1>7, <1>8 DEF h, P

(* Dealing with it keeps what is known of the copy.                        *)
LEMMA BitmapKept ==
  ASSUME Inv, BitmapInv, FilterField  PROVE BitmapInv'
<1> DEFINE h == NewHandle
           P == Position(h)
           b == <<current, h.bitmap[1], h.bitmap[2]>>
<1>1. /\ files' = files /\ current' = current /\ tool = "filter" /\ Readable /\ ~MissingBitmap
      /\ Remember(h)
  BY DEF FilterField
<1>2. /\ files \in Inputs /\ Located(h) /\ h.file = current /\ LastBitmap(h)
  BY <1>1, NextBitmap, NewHandleLocated DEF Inv
<1>3. P \in Positions /\ P[1] = current
  BY <1>2, HandlePosition
<1>4. support'.bitmap = h.bitmap /\ h.bitmap # None
  BY <1>1 DEF Remember, MissingBitmap, NoSupport
<1>5. \A p \in Positions : p[1] = current =>
        (Passed(p[2], p[3])' <=> (Passed(p[2], p[3]) \/ p = P))
  BY <1>1, NextPosition
<1>6. \A p \in Positions : p[1] = current /\ Passed(p[2], p[3]) => Before(p, P)
  BY <1>1, NextPosition
<1>7. \A p \in Positions : p[1] = current /\ ~Passed(p[2], p[3]) => p = P \/ Before(P, p)
  BY <1>1, NextPosition
<1>8. \A q : q \in UpTo(P) <=> q \in Positions /\ q[1] = current /\ (q = P \/ Before(q, P))
  BY <1>2, <1>3, UpToFacts
<1>9. /\ b \in UpTo(P) /\ FieldAt(b).bitmap
      /\ \A q \in UpTo(P) : FieldAt(q).bitmap => ~Before(b, q)
  BY <1>2 DEF LastBitmap
<1>10. b[1] = current /\ b[2] = h.bitmap[1] /\ b[3] = h.bitmap[2]
  OBVIOUS
<1> HIDE DEF h, P, b
<1>11. \A q \in Positions : q[1] = current => (q \in UpTo(P) <=> Passed(q[2], q[3])')
  <2>1. ASSUME NEW q \in Positions, q[1] = current, q \in UpTo(P), q # P, ~Passed(q[2], q[3])
        PROVE  FALSE
    BY <1>2, <1>3, <1>7, <1>8, <2>1, BeforeOrders
  <2> QED BY <1>5, <1>6, <1>8, <2>1
<1>12. Positions' = Positions /\ \A p : FieldAt(p)' = FieldAt(p)
  BY <1>1, InputStays
<1>13. b \in Positions /\ \A q \in Positions :
         q[1] = current /\ Passed(q[2], q[3])' /\ FieldAt(q).bitmap => ~Before(b, q)
  BY <1>8, <1>9, <1>11
<1>14. \A q : q = b => Passed(q[2], q[3])'
  <2>1. ASSUME NEW q, q = b  PROVE Passed(q[2], q[3])'
    BY <1>9, <1>10, <1>11, <1>13, <2>1
  <2> QED BY <2>1
<1>15. \A q : q = <<current', support'.bitmap[1], support'.bitmap[2]>> =>
         /\ q = b /\ q \in Positions /\ q[1] = current /\ FieldAt(q).bitmap /\ Passed(q[2], q[3])'
  <2>1. <<current', support'.bitmap[1], support'.bitmap[2]>> = b
    BY <1>1, <1>4 DEF b
  <2>2. ASSUME NEW q, q = b
        PROVE  /\ q \in Positions /\ q[1] = current /\ FieldAt(q).bitmap
               /\ Passed(q[2], q[3])'
    BY <1>9, <1>10, <1>13, <1>14, <2>2
  <2> QED BY <2>1, <2>2
<1> DEFINE c == <<current, support.bitmap[1], support.bitmap[2]>>
<1>16. /\ c' \in Positions /\ c'[1] = current /\ FieldAt(c)'.bitmap
       /\ Passed(c[2], c[3])'
       /\ \A q \in Positions :
            q[1] = current /\ Passed(q[2], q[3])' /\ FieldAt(q).bitmap => ~Before(c', q)
  BY <1>12, <1>13, <1>15
<1> QED BY <1>1, <1>4, <1>12, <1>16 DEF BitmapInv, Before

(* Nothing grib_filter has dealt with stops it, so that no error comes     *)
(* before the next field.                                                  *)
LEMMA NextIsClean ==
  ASSUME Inv, FilterSound, BitmapInv, tool = "filter", Readable, ~MissingBitmap,
         FieldOf(NewHandle).rule # "error"
  PROVE  /\ ~Stops(Position(NewHandle)) /\ Clean(Position(NewHandle))
         /\ FieldOf(NewHandle).rule = "write" => Position(NewHandle) \in Kept
<1> DEFINE h == NewHandle
<1>1. /\ files \in Inputs /\ Located(h) /\ h.file = current
      /\ files[current].there
  BY NewHandleLocated DEF Inv
<1>2. /\ Position(h) \in Positions /\ Position(h)[1] = current /\ FieldAt(Position(h)) = FieldOf(h)
      /\ Position(h)[2] = h.message
  BY <1>1, HandlePosition
<1>3. Messages[h.message].readable
  <2>1. CASE Passed(h.message, h.field - 1) /\ h.field # 1
    <3> DEFINE q == <<current, h.message, h.field - 1>>
    <3>1. /\ current \in 1..Len(files) /\ h.message \in 1..Len(files[current].messages)
          /\ h.field \in 1..Len(FieldsOf(current, h.message))
          /\ Len(FieldsOf(current, h.message)) \in Nat
      BY <1>1, InputFacts DEF Located
    <3>2. h.field - 1 \in 1..Len(FieldsOf(current, h.message))
      BY <2>1, <3>1
    <3>3. q \in Positions /\ q[1] = current /\ q[2] = h.message /\ q[3] = h.field - 1
      BY <1>1, <3>1, <3>2, PositionFacts
    <3> HIDE DEF q
    <3>4. ~Stops(q)
      BY <2>1, <3>3 DEF FilterSound
    <3> QED BY <3>3, <3>4 DEF Stops, Messages
  <2>2. CASE h.field = 1 /\ ~Messages[h.message].readable
    <3>1. Pending
      BY <2>2, NextPosition DEF NewHandle, Readable, Messages
    <3>2. h.field = support.field + 1 /\ support.field \in Nat /\ support.field >= 1
      BY <3>1 DEF NewHandle, Inv, SupportInv
    <3> QED BY <2>2, <3>2
  <2>3. CASE h.field = 1 /\ Messages[h.message].readable
    BY <2>3
  <2> QED BY <2>1, <2>2, <2>3, NextPosition
<1> HIDE DEF h
<1>4. ~Stops(Position(h))
  BY <1>2, <1>3, NextBitmap DEF h, Stops, Messages
<1>5. ASSUME NEW q \in Positions, q[1] = current, Before(q, Position(h))  PROVE ~Stops(q)
  <2>1. ~(q = Position(h) \/ Before(Position(h), q))
    BY <1>1, <1>2, <1>5, BeforeOrders
  <2> QED BY <1>5, <2>1, NextPosition DEF FilterSound, h
<1>6. Clean(Position(h))
  BY <1>1, <1>2, <1>4, <1>5, UpToFacts DEF Clean
<1>7. FieldOf(h).rule = "write" => Position(h) \in Kept
  BY <1>1, <1>2, <1>6 DEF Kept
<1> QED BY <1>4, <1>6, <1>7 DEF h

(* The end of the file, a message that cannot be read or a rule that fails *)
(* hides no field that is kept.                                            *)
LEMMA NothingKeptBehind ==
  ASSUME Inv, tool = "filter", NEW p \in Kept, p[1] = current,
         \/ AtEnd \/ Unreadable
         \/ Readable /\ ~MissingBitmap /\ FieldOf(NewHandle).rule = "error"
  PROVE  Passed(p[2], p[3])
<1>1. /\ files \in Inputs /\ read \in Nat /\ p \in Positions /\ Clean(p)
      /\ p[2] \in 1..Len(Messages) /\ p[2] \in Nat /\ p[3] \in Nat /\ p[3] >= 1
      /\ Len(Messages) \in Nat /\ current \in 1..Len(files)
  <2>1. p \in Positions /\ Clean(p) /\ files \in Inputs
    BY WantedAreKept DEF Inv
  <2> QED BY <2>1, PositionFacts, InputFacts DEF Inv, Messages
<1>2. CASE AtEnd
  BY <1>1, <1>2 DEF AtEnd, Passed
<1>3. CASE Unreadable
  <2> DEFINE q == <<current, read + 1, 1>>
  <2>1. read + 1 \in 1..Len(Messages) /\ ~Messages[read + 1].readable /\ ~Pending
    BY <1>1, <1>3 DEF Unreadable
  <2>2. q \in Positions /\ q[1] = current /\ q[2] = read + 1 /\ q[3] = 1
    BY <1>1, <2>1, InputFacts, PositionFacts DEF Messages
  <2> HIDE DEF q
  <2>3. Stops(q)
    BY <2>1, <2>2 DEF Stops, Messages
  <2>4. ~(q = p \/ Before(q, p))
    BY <1>1, <2>2, <2>3, UpToFacts DEF Clean
  <2>5. Before(p, q)
    BY <1>1, <2>2, <2>4, BeforeOrders
  <2> QED BY <1>1, <2>1, <2>2, <2>5 DEF Before, Passed
<1>4. CASE Readable /\ FieldOf(NewHandle).rule = "error"
  <2> DEFINE q == Position(NewHandle)
  <2>1. q \in Positions /\ q[1] = current /\ FieldAt(q) = FieldOf(NewHandle)
    BY <1>1, <1>4, NewHandleLocated, HandlePosition
  <2> HIDE DEF q
  <2>2. Stops(q)
    BY <1>4, <2>1 DEF Stops
  <2>3. ~(q = p \/ Before(q, p))
    BY <1>1, <2>1, <2>2, UpToFacts DEF Clean
  <2> QED BY <1>1, <1>4, <2>1, <2>3, NextPosition DEF q
<1> QED BY <1>2, <1>3, <1>4

(* When a bitmap is missing no field of the file is kept: it is the first  *)
(* one that lacks it.                                                      *)
LEMMA NothingKeptAtAll ==
  ASSUME Inv, BitmapInv, tool = "filter", MissingBitmap, NEW p \in Kept  PROVE p[1] # current
<1> SUFFICES ASSUME p[1] = current  PROVE FALSE
  OBVIOUS
<1> DEFINE P == Position(NewHandle)
<1>1. files \in Inputs /\ Readable /\ LacksBitmap(P)
  BY NextBitmap DEF Inv, MissingBitmap
<1>2. P \in Positions /\ P[1] = current
  BY <1>1, NewHandleLocated, HandlePosition
<1>3. p \in Positions /\ Clean(p)
  BY WantedAreKept
<1> HIDE DEF P
<1>4. CASE P \in UpTo(p)
  BY <1>1, <1>3, <1>4 DEF Clean, Stops
<1>5. CASE P \notin UpTo(p)
  <2>1. p \in UpTo(P)
    BY <1>1, <1>2, <1>3, <1>5, UpToFacts, BeforeOrders
  <2>2. LacksBitmap(p)
    BY <1>1, <1>2, <2>1, UpToFacts DEF LacksBitmap
  <2> QED BY <1>1, <1>3, <2>2, UpToFacts DEF Clean, Stops
<1> QED BY <1>4, <1>5

(* A file with one record more.                                            *)
LEMMA Appended ==
  ASSUME NEW R, NEW s \in Seq(R), NEW e \in R
  PROVE  /\ Len(s) \in Nat /\ Append(s, e) \in Seq(R) /\ Len(Append(s, e)) = Len(s) + 1
         /\ Append(s, e)[Len(s) + 1] = e
         /\ \A x \in 1..Len(s) : Append(s, e)[x] = s[x] /\ x \in 1..Len(Append(s, e))
         /\ \A x \in 1..Len(Append(s, e)) : x \in 1..Len(s) \/ x = Len(s) + 1
OBVIOUS

(* The order holds on when what comes behind all is appended.              *)
LEMMA AppendInOrder ==
  ASSUME NEW s \in Seq(Handle), NEW e \in Handle, InOrder(s),
         \A x \in 1..Len(s) : Before(Position(s[x]), Position(e))
  PROVE  InOrder(Append(s, e))
<1> HIDE DEF Handle
<1>1. ASSUME NEW x \in 1..Len(Append(s, e)), NEW y \in 1..Len(Append(s, e)), x < y
      PROVE  Before(Position(Append(s, e)[x]), Position(Append(s, e)[y]))
  <2>1. x \in 1..Len(s)
    BY <1>1, Appended
  <2>2. CASE y \in 1..Len(s)
    BY <1>1, <2>1, <2>2, Appended DEF InOrder
  <2>3. CASE y = Len(s) + 1
    BY <2>1, <2>3, Appended
  <2> QED BY <2>2, <2>3, Appended
<1> QED BY <1>1 DEF InOrder

(* A first part of a file.                                                 *)
LEMMA Cutting ==
  ASSUME NEW R, NEW s \in Seq(R), NEW n \in 0..Len(s)
  PROVE  /\ Len(SubSeq(s, 1, n)) = n
         /\ \A x \in 1..n : SubSeq(s, 1, n)[x] = s[x] /\ x \in 1..Len(s)
OBVIOUS

(* What a handle of the intermediate files stands for.                     *)
LEMMA FileFacts ==
  ASSUME Inv
  PROVE  /\ files \in Inputs /\ current \in Nat /\ read \in Nat
         /\ tmpOut \in Seq(Handle) /\ goodOut \in Seq(Handle)
         /\ Len(tmpOut) \in Nat /\ Len(goodOut) \in Nat
         /\ \A x \in 1..Len(tmpOut) :
              /\ tmpOut[x] \in Handle /\ Located(tmpOut[x])
              /\ Position(tmpOut[x]) \in Positions
              /\ Position(tmpOut[x])[1] = tmpOut[x].file
              /\ FieldAt(Position(tmpOut[x])) = FieldOf(tmpOut[x])
         /\ \A y \in 1..Len(goodOut) :
              /\ goodOut[y] \in Handle /\ Located(goodOut[y])
              /\ Position(goodOut[y]) \in Positions
              /\ Position(goodOut[y])[1] = goodOut[y].file
              /\ FieldAt(Position(goodOut[y])) = FieldOf(goodOut[y])
              /\ FieldOf(goodOut[y]).name \in Names
<1>1. /\ files \in Inputs /\ current \in Nat /\ read \in Nat
      /\ tmpOut \in Seq(Handle) /\ goodOut \in Seq(Handle)
      /\ \A x \in 1..Len(tmpOut) : Located(tmpOut[x])
      /\ \A y \in 1..Len(goodOut) : Located(goodOut[y])
  BY InputFacts DEF Inv
<1> HIDE DEF Handle
<1>2. /\ Len(tmpOut) \in Nat /\ Len(goodOut) \in Nat
      /\ \A x \in 1..Len(tmpOut) : tmpOut[x] \in Handle
      /\ \A y \in 1..Len(goodOut) : goodOut[y] \in Handle
  BY <1>1
<1> QED BY <1>1, <1>2, HandlePosition

(* The bitmaps of the fields, and of the copy, through every step.         *)
LEMMA BitmapsKept ==
  ASSUME Inv, BitmapInv, TmpBitmaps, [Next]_vars  PROVE BitmapInv' /\ TmpBitmaps'
<1>1. files' = files /\ Len(tmpOut) \in Nat /\ tmpOut \in Seq(Handle)
  BY FileFacts DEF Next, vars, StartFile, SkipFile, FilterField, FilterEnds, FilterCrashes,
     CheckField, CheckEnds, SplitField, SplitEnds, FilterWriteFails, CheckWriteFails,
     SplitWriteFails
<1>2. \A h : LastBitmap(h)' <=> LastBitmap(h)
  BY <1>1, InputStays DEF LastBitmap, Before
<1> HIDE DEF Handle
<1>3. CASE FilterField
  <2>1. BitmapInv'
    BY <1>3, BitmapKept
  <2>2. LastBitmap(NewHandle) /\ NewHandle \in Handle
    BY <1>3, NextBitmap, NewHandleLocated DEF FilterField
  <2>3. tmpOut' = tmpOut \/ tmpOut' = Append(tmpOut, NewHandle)
    BY <1>3 DEF FilterField
  <2>4. ASSUME NEW x \in 1..Len(tmpOut')
        PROVE  tmpOut'[x] = NewHandle \/ \E y \in 1..Len(tmpOut) : tmpOut[y] = tmpOut'[x]
    <3>1. CASE tmpOut' = Append(tmpOut, NewHandle)
      BY <1>1, <2>2, <2>4, <3>1, Appended
    <3> QED BY <2>3, <2>4, <3>1
  <2> QED BY <1>2, <2>1, <2>2, <2>4 DEF TmpBitmaps
<1>4. CASE StartFile
  <2>1. tool' = "filter" /\ read' = 0 /\ support' = NoSupport /\ Len(tmpOut') = 0
    BY <1>4 DEF StartFile, Start
  <2>2. \A p \in Positions : ~Passed(p[2], p[3])'
    <3>1. ASSUME NEW p \in Positions, NEW m, m = p[2], NEW k  PROVE ~Passed(m, k)'
      <4>1. m \in Nat /\ m >= 1
        BY <3>1, FileFacts, PositionFacts, InputFacts
      <4>2. ~Pending'
        BY <2>1, SupportNone DEF Pending
      <4> QED BY <2>1, <4>1, <4>2, SupportNone DEF Passed
    <3> QED BY <3>1
  <2>3. Positions' = Positions
    BY <1>1, InputStays
  <2>4. support'.bitmap = None
    BY <2>1 DEF NoSupport
  <2>5. BitmapInv'
    BY <2>2, <2>3, <2>4 DEF BitmapInv
  <2> QED BY <2>1, <2>5 DEF TmpBitmaps
<1>5. CASE FilterEnds \/ FilterCrashes \/ FilterWriteFails
  <2>1. tool' = "check"
    BY <1>5 DEF FilterEnds, FilterCrashes, FilterWriteFails, Start
  <2>2. tmpOut' = tmpOut \/ \E n \in 0..Len(tmpOut) : tmpOut' = SubSeq(tmpOut, 1, n)
    BY <1>5 DEF FilterEnds, FilterCrashes, FilterWriteFails
  <2>3. ASSUME NEW x \in 1..Len(tmpOut')  PROVE \E y \in 1..Len(tmpOut) : tmpOut[y] = tmpOut'[x]
    BY <1>1, <2>2, <2>3, Cutting
  <2> QED BY <1>2, <2>1, <2>3 DEF BitmapInv, TmpBitmaps
<1>6. CASE SkipFile \/ CheckField \/ CheckEnds \/ SplitField \/ SplitEnds
             \/ CheckWriteFails \/ SplitWriteFails
  <2>1. tool' # "filter" /\ tmpOut' = tmpOut
    BY <1>6 DEF SkipFile, CheckField, CheckEnds, SplitField, SplitEnds, CheckWriteFails,
       SplitWriteFails, Start, NextFile
  <2> QED BY <1>2, <2>1 DEF BitmapInv, TmpBitmaps
<1>7. CASE UNCHANGED vars
  <2>1. /\ tool' = tool /\ tmpOut' = tmpOut /\ support' = support /\ read' = read
        /\ current' = current
    BY <1>7 DEF vars
  <2>2. Positions' = Positions /\ \A p : FieldAt(p)' = FieldAt(p)
    BY <1>1, InputStays
  <2>3. BitmapInv'
    BY <1>1, <2>1, <2>2 DEF BitmapInv, Passed, Pending, FieldAt, Before
  <2> QED BY <1>2, <2>1, <2>3 DEF TmpBitmaps
<1> QED BY <1>3, <1>4, <1>5, <1>6, <1>7 DEF Next

(* The copy is always that of the last bitmap.                             *)
LEMMA BitmapInvariance == Spec => [](Inv /\ BitmapInv /\ TmpBitmaps)
<1>1. Init => Inv /\ BitmapInv /\ TmpBitmaps
  BY InitInv DEF Init, BitmapInv, TmpBitmaps
<1> QED BY <1>1, NextInv, BitmapsKept, PTL DEF Spec

(* grib_filter gives a field the last grid of its own message up to it,    *)
(* and the last bitmap up to it of the whole file.  That is the bitmap of  *)
(* another message where a field refers to a bitmap before its own message *)
(* has defined one, and only there.                                        *)
THEOREM SectionsAreLast == Spec => []LastSections
<1>1. ASSUME Inv, TmpBitmaps  PROVE LastSections
  <2>1. ASSUME NEW x \in 1..Len(tmpOut), NEW h, h = tmpOut[x]
        PROVE  LastBitmap(h) /\ Sectioned(h)
    BY <1>1, <2>1 DEF Inv, TmpBitmaps
  <2> QED BY <2>1 DEF LastSections, LastBitmap, Sectioned, LastGrid, FieldsOf
<1> QED BY <1>1, BitmapInvariance, PTL

(* The products already written, at a step that neither writes one nor     *)
(* ends a file.                                                            *)
LEMMA OutputStays ==
  ASSUME OutputSound, disk = "good" => OutputAll, files' = files, disk' = disk, output' = output,
         current' = current, tool' # "split" \/ read' = 0, read' \in Nat
  PROVE  OutputSound' /\ (disk' = "good" => OutputAll')
<1>1. Wanted' = Wanted /\ \A p : FieldAt(p)' = FieldAt(p)
  BY InputStays
<1>2. OutputSound'
  BY <1>1 DEF OutputSound
<1>3. ASSUME disk = "good"  PROVE OutputAll'
  <2>1. ASSUME NEW p, Split(p)'  PROVE Split(p)
    BY <2>1 DEF Split
  <2> QED BY <1>1, <1>3, <2>1 DEF OutputAll
<1> QED BY <1>2, <1>3

(* The products: before anything is read there are none.                   *)
LEMMA InitProduct ==
  ASSUME Init  PROVE ProductInv
<1>1. FilterSound /\ TmpSound /\ GoodSound /\ TmpAll /\ GoodAll
  BY DEF Init, FilterSound, TmpSound, GoodSound, TmpAll, GoodAll
<1>2. OutputSound
  BY DEF Init, OutputSound
<1>3. OutputAll
  <2>1. ASSUME NEW p \in Wanted  PROVE ~Split(p)
    <3>1. p[1] \in Nat /\ p[1] >= 1
      BY WantedAreKept, PositionFacts, InputFacts DEF Init
    <3> QED BY <3>1 DEF Init, Split
  <2> QED BY <2>1 DEF OutputAll
<1> QED BY <1>1, <1>2, <1>3 DEF ProductInv, Init

(* grib_filter starts on a file.                                           *)
LEMMA StartFileKeeps ==
  ASSUME Inv, ProductInv, StartFile  PROVE ProductInv'
<1>1. /\ files' = files /\ disk' = disk /\ current' = current /\ tool' = "filter" /\ read' = 0
      /\ output' = output /\ goodOut' = goodOut /\ tmpOut' = <<>> /\ ~Pending'
  BY SupportNone DEF StartFile, Start, Pending
<1>2. Wanted' = Wanted /\ Positions' = Positions /\ Kept' = Kept
  BY <1>1, InputStays
<1>3. ASSUME NEW p \in Positions  PROVE ~Passed(p[2], p[3])'
  <2>1. p[2] \in Nat /\ p[2] >= 1
    BY FileFacts, PositionFacts, InputFacts
  <2> QED BY <1>1, <2>1 DEF Passed
<1>4. FilterSound' /\ TmpSound' /\ GoodSound'
  BY <1>1, <1>2, <1>3 DEF FilterSound, TmpSound, GoodSound, ProductInv
<1>5. TmpAll' /\ GoodAll'
  BY <1>1, <1>2, <1>3, WantedAreKept DEF TmpAll, GoodAll, InOrder
<1>6. OutputSound' /\ (disk' = "good" => OutputAll')
  BY <1>1, OutputStays DEF ProductInv
<1> QED BY <1>1, <1>4, <1>5, <1>6 DEF ProductInv

(* A link whose file is gone gives no product.                             *)
LEMMA SkipFileKeeps ==
  ASSUME Inv, ProductInv, SkipFile  PROVE ProductInv'
<1>1. /\ files' = files /\ disk' = disk /\ current' = current + 1 /\ tool' = "next" /\ tool = "next"
      /\ output' = output /\ goodOut' = goodOut /\ tmpOut' = tmpOut
      /\ ~files[current].there /\ current \in Nat
  BY FileFacts DEF SkipFile
<1>2. Wanted' = Wanted /\ Kept' = Kept /\ \A p : FieldAt(p)' = FieldAt(p)
  BY <1>1, InputStays
<1>3. FilterSound' /\ TmpSound' /\ GoodSound' /\ TmpAll' /\ GoodAll' /\ OutputSound'
  BY <1>1, <1>2 DEF FilterSound, TmpSound, GoodSound, TmpAll, GoodAll, OutputSound, ProductInv
<1>4. ASSUME disk = "good"  PROVE OutputAll'
  <2>1. ASSUME NEW p \in Wanted, Split(p)'  PROVE Split(p)
    <3>1. files[p[1]].there /\ p[1] \in Nat
      BY FileFacts, WantedAreKept, PositionFacts
    <3> QED BY <1>1, <2>1, <3>1 DEF Split
  <2> QED BY <1>1, <1>2, <1>4, <2>1 DEF OutputAll, ProductInv
<1> QED BY <1>1, <1>3, <1>4 DEF ProductInv

(* grib_filter handles the next field.                                     *)
LEMMA FilterFieldKeeps ==
  ASSUME Inv, BitmapInv, ProductInv, FilterField  PROVE ProductInv'
<1> DEFINE h == NewHandle
           P == Position(h)
<1>1. /\ files' = files /\ disk' = disk /\ current' = current /\ tool' = "filter" /\ tool = "filter"
      /\ output' = output /\ goodOut' = goodOut /\ Readable /\ Remember(NewHandle)
      /\ FieldOf(NewHandle).rule # "error" /\ ~MissingBitmap
      /\ tmpOut' = IF FieldOf(h).rule = "write" THEN Append(tmpOut, h) ELSE tmpOut
  BY DEF FilterField
<1>2. Wanted' = Wanted /\ Positions' = Positions /\ Kept' = Kept
  BY <1>1, InputStays
<1>3. /\ Located(h) /\ h \in Handle /\ h.file = current /\ P \in Positions /\ P[1] = current
      /\ P[2] = h.message /\ P[3] = h.field /\ FieldAt(P) = FieldOf(h)
  <2>1. Located(h) /\ h.file = current /\ h \in Handle
    BY <1>1, NewHandleLocated
  <2> HIDE DEF Handle
  <2> QED BY <2>1, HandlePosition, FileFacts
<1>4. \A p \in Positions : p[1] = current => (Passed(p[2], p[3])' <=> (Passed(p[2], p[3]) \/ p = P))
  BY <1>1, NextPosition
<1>5. ~Stops(P) /\ (FieldOf(h).rule = "write" => P \in Kept)
  BY <1>1, NextIsClean DEF ProductInv
<1>6. \A p \in Positions : p[1] = current /\ Passed(p[2], p[3]) => Before(p, P)
  BY <1>1, NextPosition
<1> HIDE DEF h, P, Handle
<1>7. FilterSound'
  <2>1. \A p : Stops(p)' <=> Stops(p)
    BY <1>1, InputStays
  <2> QED BY <1>1, <1>2, <1>4, <1>5, <2>1 DEF FilterSound, ProductInv
<1>8. \A x \in 1..Len(tmpOut) :
        /\ tmpOut[x] \in Handle /\ Position(tmpOut[x]) \in Kept /\ Position(tmpOut[x]) \in Positions
        /\ tmpOut[x].file = current /\ Position(tmpOut[x])[1] = current
        /\ Passed(tmpOut[x].message, tmpOut[x].field)
        /\ Position(tmpOut[x])[2] = tmpOut[x].message /\ Position(tmpOut[x])[3] = tmpOut[x].field
  BY <1>1, FileFacts DEF ProductInv, TmpSound, Position
<1>9. \A x \in 1..Len(tmpOut) : \A m, k :
        m = tmpOut[x].message /\ k = tmpOut[x].field => Passed(m, k)'
  <2>1. ASSUME NEW x \in 1..Len(tmpOut), NEW p, p = Position(tmpOut[x])
        PROVE  /\ Passed(p[2], p[3])'
               /\ p[2] = tmpOut[x].message /\ p[3] = tmpOut[x].field
    BY <1>4, <1>8, <2>1
  <2> QED BY <2>1
<1>10. \A m, k : m = h.message /\ k = h.field => Passed(m, k)'
  <2>1. ASSUME NEW p, p = P
        PROVE  Passed(p[2], p[3])' /\ p[2] = h.message /\ p[3] = h.field
    BY <1>3, <1>4, <2>1
  <2> QED BY <2>1
<1>11. \A p \in Kept : p \in Positions /\ FieldAt(p).rule = "write"
  BY DEF Kept
<1>12. OutputSound' /\ (disk' = "good" => OutputAll')
  BY <1>1, OutputStays, FilterFieldKeepsInv, FileFacts DEF ProductInv, Inv
<1>13. GoodSound' /\ GoodAll'
  BY <1>1, <1>2 DEF GoodSound, GoodAll, ProductInv
<1>14. CASE FieldOf(h).rule = "write"
  <2>1. tmpOut' = Append(tmpOut, h) /\ tmpOut \in Seq(Handle)
    BY <1>1, <1>14, FileFacts
  <2>2. /\ Len(tmpOut') = Len(tmpOut) + 1 /\ tmpOut'[Len(tmpOut) + 1] = h /\ Len(tmpOut) \in Nat
        /\ \A x \in 1..Len(tmpOut) : tmpOut'[x] = tmpOut[x] /\ x \in 1..Len(tmpOut')
        /\ \A x \in 1..Len(tmpOut') : x \in 1..Len(tmpOut) \/ x = Len(tmpOut) + 1
    BY <1>3, <2>1, Appended
  <2>3. Len(tmpOut) + 1 \in 1..Len(tmpOut')
    BY <2>2
  <2>4. TmpSound'
    <3>1. ASSUME NEW x \in 1..Len(tmpOut')
          PROVE  /\ Position(tmpOut'[x]) \in Kept /\ tmpOut'[x].file = current
                 /\ Passed(tmpOut[x].message, tmpOut[x].field)'
      <4>1. CASE x \in 1..Len(tmpOut)
        BY <1>8, <1>9, <2>2, <4>1
      <4>2. CASE x = Len(tmpOut) + 1
        BY <1>3, <1>5, <1>10, <1>14, <2>2, <4>2 DEF P
      <4> QED BY <2>2, <4>1, <4>2
    <3> QED BY <1>1, <1>2, <3>1 DEF TmpSound
  <2>5. ASSUME disk = "good"  PROVE TmpAll'
    <3>1. \A p \in Kept : p[1] = current /\ Passed(p[2], p[3])' => InTmp(p)'
      <4>1. ASSUME NEW p \in Kept, p[1] = current, Passed(p[2], p[3])'  PROVE InTmp(p)'
        <5>1. CASE p = P
          BY <2>2, <2>3, <5>1 DEF InTmp, P
        <5>2. CASE Passed(p[2], p[3])
          <6>1. PICK x \in 1..Len(tmpOut) : Position(tmpOut[x]) = p
            BY <1>1, <2>5, <4>1, <5>2 DEF ProductInv, TmpAll, InTmp
          <6> QED BY <2>2, <6>1 DEF InTmp
        <5> QED BY <1>4, <1>11, <4>1, <5>1, <5>2
      <4> QED BY <4>1
    <3>2. InOrder(tmpOut')
      <4>1. InOrder(tmpOut)
        BY <1>1, <2>5 DEF ProductInv, TmpAll
      <4>2. \A x \in 1..Len(tmpOut) : Before(Position(tmpOut[x]), Position(h))
        BY <1>6, <1>8 DEF P
      <4> QED BY <1>3, <2>1, <4>1, <4>2, AppendInOrder
    <3> QED BY <1>1, <1>2, <3>1, <3>2 DEF TmpAll, InOrder
  <2> QED BY <1>1, <1>7, <1>12, <1>13, <2>4, <2>5 DEF ProductInv
<1>15. CASE FieldOf(h).rule # "write"
  <2>1. tmpOut' = tmpOut
    BY <1>1, <1>15
  <2>2. TmpSound'
    BY <1>1, <1>2, <1>8, <1>9, <2>1 DEF TmpSound
  <2>3. ASSUME disk = "good"  PROVE TmpAll'
    <3>1. \A p \in Kept : p # P
      BY <1>3, <1>11, <1>15
    <3>2. \A p \in Kept : p[1] = current /\ Passed(p[2], p[3])' => InTmp(p)
      BY <1>1, <1>4, <1>11, <2>3, <3>1 DEF ProductInv, TmpAll
    <3> QED BY <1>1, <1>2, <2>1, <2>3, <3>2 DEF ProductInv, TmpAll, InTmp, InOrder
  <2> QED BY <1>1, <1>7, <1>12, <1>13, <2>2, <2>3 DEF ProductInv
<1> QED BY <1>14, <1>15

(* grib_filter ends, with all kept fields of the file in its output.       *)
LEMMA FilterEndsKeeps ==
  ASSUME Inv, ProductInv, FilterEnds  PROVE ProductInv'
<1>1. /\ files' = files /\ disk' = disk /\ current' = current /\ tool' = "check" /\ tool = "filter"
      /\ output' = output /\ goodOut' = <<>> /\ tmpOut' = tmpOut /\ read' = 0
      /\ \/ AtEnd \/ Unreadable
         \/ Readable /\ ~MissingBitmap /\ FieldOf(NewHandle).rule = "error"
  BY DEF FilterEnds, Start
<1>2. Wanted' = Wanted /\ Kept' = Kept
  BY <1>1, InputStays
<1>3. FilterSound' /\ TmpSound' /\ GoodSound'
  BY <1>1, <1>2 DEF FilterSound, TmpSound, GoodSound, ProductInv
<1>4. OutputSound' /\ (disk' = "good" => OutputAll')
  BY <1>1, OutputStays DEF ProductInv
<1>5. ASSUME disk = "good"  PROVE TmpAll'
  <2>1. \A p \in Kept : p[1] = current => InTmp(p)
    BY <1>1, <1>5, NothingKeptBehind DEF ProductInv, TmpAll
  <2> QED BY <1>1, <1>2, <1>5, <2>1 DEF ProductInv, TmpAll, InTmp, InOrder
<1>6. GoodAll'
  BY <1>1, FileFacts DEF GoodAll, InOrder
<1> QED BY <1>1, <1>3, <1>4, <1>5, <1>6 DEF ProductInv

(* grib_filter cannot write, or dies, and leaves a first part of its       *)
(* output.                                                                 *)
LEMMA FilterStopsShort ==
  ASSUME Inv, BitmapInv, ProductInv, FilterWriteFails \/ FilterCrashes  PROVE ProductInv'
<1>1. PICK n \in 0..Len(tmpOut) : tmpOut' = SubSeq(tmpOut, 1, n)
  BY DEF FilterWriteFails, FilterCrashes
<1>2. /\ files' = files /\ disk' = disk /\ current' = current
      /\ disk = "full" \/ MissingBitmap
      /\ tool' = "check" /\ tool = "filter"
      /\ output' = output /\ goodOut' = <<>> /\ read' = 0
  BY DEF FilterWriteFails, FilterCrashes, Start
<1>3. Wanted' = Wanted /\ Kept' = Kept
  BY <1>2, InputStays
<1>4. Len(tmpOut') = n /\ \A x \in 1..n : tmpOut'[x] = tmpOut[x] /\ x \in 1..Len(tmpOut)
  BY <1>1, FileFacts, Cutting
<1>5. FilterSound' /\ TmpSound' /\ GoodSound'
  BY <1>2, <1>3, <1>4 DEF FilterSound, TmpSound, GoodSound, ProductInv
<1>6. OutputSound' /\ (disk' = "good" => OutputAll')
  BY <1>2, OutputStays DEF ProductInv
<1>7. ASSUME disk = "good"  PROVE TmpAll'
  <2>1. \A p \in Kept : p[1] # current
    BY <1>2, <1>7, NothingKeptAtAll
  <2>2. InOrder(tmpOut')
    BY <1>2, <1>4, <1>7 DEF ProductInv, TmpAll, InOrder
  <2> QED BY <1>2, <1>3, <2>1, <2>2 DEF TmpAll, InOrder
<1>8. GoodAll'
  BY <1>2, FileFacts DEF GoodAll, InOrder
<1> QED BY <1>2, <1>5, <1>6, <1>7, <1>8 DEF ProductInv

(* tigge_check handles the next record.                                    *)
LEMMA CheckFieldKeeps ==
  ASSUME Inv, ProductInv, CheckField  PROVE ProductInv'
<1> DEFINE h == tmpOut[read + 1]
<1>1. /\ files' = files /\ disk' = disk /\ current' = current /\ tool' = "check" /\ tool = "check"
      /\ output' = output /\ tmpOut' = tmpOut /\ read' = read + 1 /\ read < Len(tmpOut)
      /\ goodOut' = IF FieldOf(h).good THEN Append(goodOut, h) ELSE goodOut
  BY DEF CheckField
<1>2. /\ Wanted' = Wanted /\ Kept' = Kept
      /\ \A g : FieldOf(g)' = FieldOf(g)
  BY <1>1, InputStays
<1>3. /\ read \in Nat /\ read + 1 \in 1..Len(tmpOut) /\ Len(tmpOut) \in Nat /\ Len(goodOut) \in Nat
      /\ tmpOut \in Seq(Handle) /\ goodOut \in Seq(Handle)
  BY <1>1, FileFacts
<1>4. /\ h \in Handle /\ Position(h) \in Kept /\ h.file = current
      /\ FieldAt(Position(h)) = FieldOf(h)
  BY <1>1, <1>3, FileFacts DEF ProductInv, TmpSound
<1> HIDE DEF h, Handle
<1>5. OutputSound' /\ (disk' = "good" => OutputAll')
  BY <1>1, <1>3, OutputStays DEF ProductInv
<1>6. FilterSound' /\ TmpSound'
  BY <1>1, <1>2 DEF FilterSound, TmpSound, ProductInv
<1>7. ASSUME disk = "good"  PROVE TmpAll'
  BY <1>1, <1>2, <1>7 DEF ProductInv, TmpAll, InTmp, InOrder
<1>8. \A x \in 1..Len(tmpOut) : x <= read + 1 => x <= read \/ (x = read + 1 /\ tmpOut[x] = h)
  BY <1>3 DEF h
<1>9. CASE FieldOf(h).good
  <2>1. /\ Len(goodOut') = Len(goodOut) + 1 /\ goodOut'[Len(goodOut) + 1] = h
        /\ \A x \in 1..Len(goodOut) : goodOut'[x] = goodOut[x] /\ x \in 1..Len(goodOut')
        /\ \A x \in 1..Len(goodOut') : x \in 1..Len(goodOut) \/ x = Len(goodOut) + 1
        /\ goodOut' = Append(goodOut, h)
    BY <1>1, <1>3, <1>4, <1>9, Appended
  <2>2. Len(goodOut) + 1 \in 1..Len(goodOut')
    BY <1>3, <2>1
  <2>3. Position(h) \in Wanted
    BY <1>4, <1>9, WantedAreKept
  <2>4. GoodSound'
    <3>1. \A y \in 1..Len(goodOut') : Position(goodOut'[y]) \in Wanted /\ goodOut'[y].file = current
      BY <1>1, <1>4, <2>1, <2>3 DEF GoodSound, ProductInv
    <3> QED BY <1>1, <1>2, <3>1 DEF GoodSound
  <2>5. ASSUME disk = "good"  PROVE GoodAll'
    <3>1. GoodAll /\ TmpAll
      BY <2>5 DEF ProductInv
    <3>2. \A p : InGood(p) => InGood(p)'
      BY <2>1 DEF InGood
    <3>3. \A p : p = Position(h) => InGood(p)'
      BY <2>1, <2>2 DEF InGood
    <3>4. ASSUME NEW x \in 1..Len(tmpOut), x <= read + 1, FieldOf(tmpOut[x]).good,
                 NEW p, p = Position(tmpOut[x])
          PROVE  InGood(p)'
      BY <1>1, <1>8, <3>1, <3>2, <3>3, <3>4 DEF GoodAll
    <3>5. ASSUME NEW y \in 1..Len(goodOut')
          PROVE  \E x \in 1..Len(tmpOut) : x <= read + 1 /\ goodOut'[y] = tmpOut[x]
      <4>1. CASE y \in 1..Len(goodOut)
        <5>1. PICK x \in 1..Len(tmpOut) : x <= read /\ goodOut[y] = tmpOut[x]
          BY <1>1, <3>1, <4>1 DEF GoodAll
        <5>2. x <= read + 1
          BY <1>3, <5>1
        <5> QED BY <2>1, <4>1, <5>1, <5>2
      <4>2. CASE y = Len(goodOut) + 1
        BY <1>3, <2>1, <4>2 DEF h
      <4> QED BY <2>1, <4>1, <4>2
    <3>6. InOrder(goodOut')
      <4>1. ASSUME NEW y \in 1..Len(goodOut)  PROVE Before(Position(goodOut[y]), Position(h))
        <5>1. PICK x \in 1..Len(tmpOut) : x <= read /\ goodOut[y] = tmpOut[x]
          BY <1>1, <3>1 DEF GoodAll
        <5>2. x < read + 1
          BY <1>3, <5>1
        <5> QED BY <1>1, <1>3, <3>1, <5>1, <5>2 DEF TmpAll, InOrder, h
      <4>2. InOrder(goodOut)
        BY <1>1, <3>1 DEF GoodAll
      <4> QED BY <1>3, <1>4, <2>1, <4>1, <4>2, AppendInOrder
    <3>7. read + 1 <= Len(tmpOut)
      BY <1>1, <1>3
    <3>8. \A x \in 1..Len(tmpOut') :
            x <= read' /\ FieldOf(tmpOut[x])'.good => InGood(Position(tmpOut[x]))'
      <4>1. ASSUME NEW x \in 1..Len(tmpOut'), x <= read', FieldOf(tmpOut[x])'.good,
                   NEW p, p = Position(tmpOut[x])
            PROVE  InGood(p)'
        <5>1. FieldOf(tmpOut[x])' = FieldOf(tmpOut[x])
          BY <1>1 DEF FieldOf
        <5> QED BY <1>1, <3>4, <4>1, <5>1
      <4>2. \A x, p : p = Position(tmpOut[x]) => p = Position(tmpOut[x])'
        BY <1>1 DEF Position
      <4> QED BY <1>1, <4>1, <4>2
    <3> QED BY <1>1, <3>5, <3>6, <3>7, <3>8 DEF GoodAll, InOrder
  <2> QED BY <1>1, <1>5, <1>6, <1>7, <2>4, <2>5 DEF ProductInv
<1>10. CASE ~FieldOf(h).good
  <2>1. goodOut' = goodOut
    BY <1>1, <1>10
  <2>2. GoodSound'
    BY <1>1, <1>2, <2>1 DEF GoodSound, ProductInv
  <2>3. ASSUME disk = "good"  PROVE GoodAll'
    <3>1. GoodAll
      BY <2>3 DEF ProductInv
    <3>2. \A x \in 1..Len(tmpOut) : x <= read + 1 /\ FieldOf(tmpOut[x]).good => x <= read
      BY <1>8, <1>10
    <3>3. read + 1 <= Len(tmpOut) /\ \A x \in Nat : x <= read => x <= read + 1
      BY <1>1, <1>3
    <3>4. \A x \in 1..Len(tmpOut) : x \in Nat
      BY <1>3
    <3>5. ASSUME NEW x \in 1..Len(tmpOut), x <= read + 1, FieldOf(tmpOut[x]).good
          PROVE  InGood(Position(tmpOut[x]))
      <4>1. x <= read
        BY <3>2, <3>5
      <4> QED BY <1>1, <3>1, <3>5, <4>1 DEF GoodAll
    <3>6. ASSUME NEW y \in 1..Len(goodOut)
          PROVE  \E x \in 1..Len(tmpOut) : x <= read + 1 /\ goodOut[y] = tmpOut[x]
      <4>1. PICK x \in 1..Len(tmpOut) : x <= read /\ goodOut[y] = tmpOut[x]
        BY <1>1, <3>1, <3>6 DEF GoodAll
      <4> QED BY <3>3, <3>4, <4>1
    <3>7. InOrder(goodOut)
      BY <1>1, <3>1 DEF GoodAll
    <3>8. \A x \in 1..Len(tmpOut') :
            x <= read' /\ FieldOf(tmpOut[x])'.good => InGood(Position(tmpOut[x]))'
      <4>1. ASSUME NEW x \in 1..Len(tmpOut'), x <= read', FieldOf(tmpOut[x])'.good,
                   NEW p, p = Position(tmpOut[x])
            PROVE  InGood(p)'
        <5>1. InGood(p)
          BY <1>1, <1>2, <3>5, <4>1
        <5>2. \A y \in 1..Len(goodOut) : Position(goodOut[y])' = Position(goodOut[y])
          BY <2>1 DEF Position
        <5> QED BY <2>1, <5>1, <5>2 DEF InGood
      <4>2. \A x, p : p = Position(tmpOut[x]) => p = Position(tmpOut[x])'
        BY <1>1 DEF Position
      <4> QED BY <1>1, <4>1, <4>2
    <3>9. InOrder(goodOut)'
      BY <2>1, <3>7, <1>1 DEF InOrder, Before, Position
    <3>10. \A y \in 1..Len(goodOut') :
             \E x \in 1..Len(tmpOut') : x <= read' /\ goodOut'[y] = tmpOut'[x]
      BY <1>1, <2>1, <3>6
    <3>11. tool' = "check" /\ tmpOut' = tmpOut /\ read' <= Len(tmpOut')
      BY <1>1, <3>3
    <3>12. (\A x \in 1..Len(tmpOut) :
             x <= read /\ FieldOf(tmpOut[x]).good => InGood(Position(tmpOut[x])))'
      BY <3>8, <3>11
    <3> QED BY <3>9, <3>10, <3>11, <3>12 DEF GoodAll
  <2> QED BY <1>1, <1>5, <1>6, <1>7, <2>2, <2>3 DEF ProductInv
<1> QED BY <1>9, <1>10

(* tigge_check ends, with all wanted fields of the file in its output.     *)
LEMMA CheckEndsKeeps ==
  ASSUME Inv, ProductInv, CheckEnds  PROVE ProductInv'
<1>1. /\ files' = files /\ disk' = disk /\ current' = current /\ tool' = "split" /\ tool = "check"
      /\ output' = output /\ tmpOut' = tmpOut /\ goodOut' = goodOut /\ read' = 0
      /\ read = Len(tmpOut)
  BY DEF CheckEnds, Start
<1>2. Wanted' = Wanted /\ Kept' = Kept
  BY <1>1, InputStays
<1>3. FilterSound' /\ TmpSound' /\ GoodSound' /\ TmpAll'
  BY <1>1, <1>2 DEF FilterSound, TmpSound, GoodSound, TmpAll, ProductInv
<1>4. OutputSound' /\ (disk' = "good" => OutputAll')
  BY <1>1, OutputStays DEF ProductInv
<1>5. ASSUME disk = "good"  PROVE GoodAll'
  <2>1. GoodAll /\ TmpAll
    BY <1>5 DEF ProductInv
  <2>2. ASSUME NEW p \in Wanted, p[1] = current  PROVE InGood(p)
    <3>1. p \in Kept /\ FieldAt(p).good
      BY WantedAreKept
    <3>2. PICK x \in 1..Len(tmpOut) : Position(tmpOut[x]) = p
      BY <1>1, <2>1, <2>2, <3>1 DEF TmpAll, InTmp
    <3>3. FieldOf(tmpOut[x]).good /\ x <= read
      BY <1>1, <3>1, <3>2, FileFacts
    <3> QED BY <1>1, <2>1, <3>2, <3>3 DEF GoodAll
  <2> QED BY <1>1, <1>2, <2>1, <2>2 DEF GoodAll, InGood, InOrder
<1>6. read' <= Len(goodOut')
  BY <1>1, FileFacts
<1> QED BY <1>1, <1>3, <1>4, <1>5, <1>6 DEF ProductInv

(* tigge_check cannot write.                                               *)
LEMMA CheckWriteFailsKeeps ==
  ASSUME Inv, ProductInv, CheckWriteFails  PROVE ProductInv'
<1>1. PICK n \in 0..Len(goodOut) : goodOut' = SubSeq(goodOut, 1, n)
  BY DEF CheckWriteFails
<1>2. /\ files' = files /\ disk' = disk /\ disk = "full" /\ current' = current
      /\ tool' = "split" /\ tool = "check"
      /\ output' = output /\ tmpOut' = tmpOut /\ read' = 0
  BY DEF CheckWriteFails, Start
<1>3. Wanted' = Wanted /\ Kept' = Kept
  BY <1>2, InputStays
<1>4. Len(goodOut') = n /\ \A x \in 1..n : goodOut'[x] = goodOut[x] /\ x \in 1..Len(goodOut)
  BY <1>1, FileFacts, Cutting
<1>5. FilterSound' /\ TmpSound' /\ GoodSound'
  BY <1>2, <1>3, <1>4 DEF FilterSound, TmpSound, GoodSound, ProductInv
<1>6. OutputSound'
  BY <1>2, OutputStays DEF ProductInv
<1>7. read' <= Len(goodOut')
  BY <1>2, <1>4
<1> QED BY <1>2, <1>5, <1>6, <1>7 DEF ProductInv

(* A record that is written again is the later one.                        *)
LEMMA SplitFieldKeeps ==
  ASSUME Inv, ProductInv, SplitField  PROVE ProductInv'
<1> DEFINE g == goodOut[read + 1]
           name == FieldOf(g).name
<1>1. /\ files' = files /\ disk' = disk /\ current' = current /\ tool' = "split" /\ tool = "split"
      /\ output' = [output EXCEPT ![name] = g] /\ read < Len(goodOut)
      /\ goodOut' = goodOut /\ tmpOut' = tmpOut /\ read' = read + 1
  BY DEF SplitField
<1>2. Wanted' = Wanted /\ Kept' = Kept /\ \A p : FieldAt(p)' = FieldAt(p)
  BY <1>1, InputStays
<1>3. read \in Nat /\ Len(goodOut) \in Nat /\ read + 1 \in 1..Len(goodOut)
  BY <1>1, FileFacts
<1>4. /\ g \in Handle /\ Position(g) \in Wanted /\ g.file = current
      /\ FieldAt(Position(g)) = FieldOf(g) /\ name \in Names
      /\ Position(g) \in Positions /\ Position(g)[1] = current
  BY <1>1, <1>3, FileFacts DEF ProductInv, GoodSound
<1>5. output \in [Names -> Handle \cup {None, Cut}]
  BY DEF Inv
<1> HIDE DEF g, name, Handle
<1>6. output'[name] = g /\ \A n \in Names : n # name => output'[n] = output[n]
  BY <1>1, <1>4, <1>5
<1>7. FilterSound' /\ TmpSound' /\ GoodSound' /\ TmpAll' /\ (disk' = "good" => GoodAll')
  BY <1>1, <1>2 DEF FilterSound, TmpSound, GoodSound, TmpAll, GoodAll, InGood, InOrder, ProductInv
<1>8. OutputSound'
  <2>1. \A n \in Names :
          \/ output'[n] = None
          \/ disk = "full" /\ output'[n] = Cut
          \/ Position(output'[n]) \in Wanted /\ FieldAt(Position(output'[n])).name = n
    BY <1>4, <1>6 DEF ProductInv, OutputSound, name
  <2> QED BY <1>1, <1>2, <2>1 DEF OutputSound
<1>9. ASSUME disk = "good"  PROVE OutputAll'
  <2>1. OutputAll /\ GoodAll /\ OutputSound
    BY <1>9 DEF ProductInv
  <2>2. ASSUME NEW p \in Wanted, Split(p)'
        PROVE  output'[FieldAt(p).name] # None /\ ~Before(Position(output'[FieldAt(p).name]), p)
    <3>1. p \in Positions /\ p[1] \in Nat /\ files \in Inputs /\ current \in Nat
          /\ FieldAt(p).name \in Names
      <4>1. p \in Positions /\ files \in Inputs /\ current \in Nat
        BY FileFacts, WantedAreKept
      <4> QED BY <4>1, PositionFacts, InputFacts DEF FieldAt, FieldsOf
    <3>2. CASE FieldAt(p).name = name
      <4>1. g # None
        BY <1>4, NoneAssumption
      <4>2. CASE p[1] < current
        BY <1>4, <1>6, <3>1, <3>2, <4>1, <4>2, BeforeOrders
      <4>3. CASE \E y \in 1..Len(goodOut) : y <= read + 1 /\ Position(goodOut[y]) = p
        <5>1. PICK y \in 1..Len(goodOut) : y <= read + 1 /\ Position(goodOut[y]) = p
          BY <4>3
        <5>2. CASE y = read + 1
          BY <1>4, <1>6, <3>1, <3>2, <4>1, <5>1, <5>2, BeforeOrders DEF g
        <5>3. CASE y < read + 1
          <6>1. Before(p, Position(g))
            BY <1>1, <1>3, <2>1, <5>1, <5>3 DEF GoodAll, InOrder, g
          <6> QED BY <1>4, <1>6, <3>1, <3>2, <4>1, <6>1, BeforeOrders
        <5> QED BY <1>3, <5>1, <5>2, <5>3
      <4> QED BY <1>1, <2>2, <4>2, <4>3 DEF Split
    <3>3. CASE FieldAt(p).name # name
      <4>1. Split(p)
        <5>1. CASE p[1] < current
          BY <5>1 DEF Split
        <5>2. CASE \E y \in 1..Len(goodOut) : y <= read + 1 /\ Position(goodOut[y]) = p
          <6>1. PICK y \in 1..Len(goodOut) : y <= read + 1 /\ Position(goodOut[y]) = p
            BY <5>2
          <6>2. y # read + 1
            BY <1>4, <3>3, <6>1 DEF g, name
          <6>3. y <= read
            BY <1>3, <6>1, <6>2
          <6> QED BY <1>1, <6>1, <6>3 DEF Split
        <5> QED BY <1>1, <2>2, <5>1, <5>2 DEF Split
      <4> QED BY <1>6, <2>1, <3>1, <3>3, <4>1 DEF OutputAll
    <3> QED BY <3>2, <3>3
  <2> QED BY <1>2, <2>2 DEF OutputAll
<1>10. read' <= Len(goodOut')
  BY <1>1, <1>3
<1> QED BY <1>1, <1>7, <1>8, <1>9, <1>10 DEF ProductInv

(* tigge_split ends, and with it the file.                                 *)
LEMMA SplitEndsKeeps ==
  ASSUME Inv, ProductInv, SplitEnds  PROVE ProductInv'
<1>1. /\ files' = files /\ disk' = disk /\ current' = current + 1 /\ tool' = "next" /\ tool = "split"
      /\ output' = output /\ tmpOut' = tmpOut /\ goodOut' = goodOut
      /\ read = Len(goodOut) /\ current \in Nat
  BY FileFacts DEF SplitEnds, NextFile
<1>2. Wanted' = Wanted /\ Kept' = Kept /\ \A p : FieldAt(p)' = FieldAt(p)
  BY <1>1, InputStays
<1>3. FilterSound' /\ TmpSound' /\ GoodSound' /\ TmpAll' /\ GoodAll' /\ OutputSound'
  BY <1>1, <1>2 DEF FilterSound, TmpSound, GoodSound, TmpAll, GoodAll, OutputSound, ProductInv
<1>4. ASSUME disk = "good"  PROVE OutputAll'
  <2>1. ASSUME NEW p \in Wanted, Split(p)'  PROVE Split(p)
    <3>1. p[1] \in Nat /\ (p[1] < current \/ p[1] = current)
      <4>1. p[1] \in Nat
        BY FileFacts, WantedAreKept, PositionFacts
      <4> QED BY <1>1, <2>1, <4>1 DEF Split
    <3>2. CASE p[1] = current
      <4>1. PICK y \in 1..Len(goodOut) : Position(goodOut[y]) = p
        BY <1>1, <1>4, <3>2 DEF ProductInv, GoodAll, InGood
      <4>2. y <= read
        BY <1>1, FileFacts
      <4> QED BY <1>1, <4>1, <4>2 DEF Split
    <3> QED BY <3>1, <3>2 DEF Split
  <2> QED BY <1>1, <1>2, <1>4, <2>1 DEF OutputAll, ProductInv
<1> QED BY <1>1, <1>3, <1>4 DEF ProductInv

(* tigge_split cannot write a product.                                     *)
LEMMA SplitWriteFailsKeeps ==
  ASSUME Inv, ProductInv, SplitWriteFails  PROVE ProductInv'
<1> DEFINE name == FieldOf(goodOut[read + 1]).name
<1>1. /\ files' = files /\ disk' = disk /\ disk = "full" /\ tool' = "next"
      /\ output' = [output EXCEPT ![name] = Cut]
      /\ tmpOut' = tmpOut /\ goodOut' = goodOut
  BY DEF SplitWriteFails, NextFile
<1>2. Wanted' = Wanted /\ Kept' = Kept /\ \A p : FieldAt(p)' = FieldAt(p)
  BY <1>1, InputStays
<1>3. FilterSound' /\ TmpSound' /\ GoodSound'
  BY <1>1, <1>2 DEF FilterSound, TmpSound, GoodSound, ProductInv
<1>4. output \in [Names -> Handle \cup {None, Cut}]
  BY DEF Inv
<1> HIDE DEF name, Handle
<1>5. \A n \in Names : output'[n] = IF n = name THEN Cut ELSE output[n]
  BY <1>1, <1>4
<1>6. OutputSound'
  <2>1. \A n \in Names :
          \/ output'[n] = None
          \/ disk = "full" /\ output'[n] = Cut
          \/ Position(output'[n]) \in Wanted /\ FieldAt(Position(output'[n])).name = n
    BY <1>1, <1>5 DEF ProductInv, OutputSound
  <2> QED BY <1>1, <1>2, <2>1 DEF OutputSound
<1> QED BY <1>1, <1>3, <1>6 DEF ProductInv

(* Nothing happens.                                                        *)
LEMMA StutterKeeps ==
  ASSUME ProductInv, UNCHANGED vars  PROVE ProductInv'
<1>1. /\ files' = files /\ disk' = disk /\ current' = current /\ tool' = tool /\ read' = read
      /\ support' = support /\ tmpOut' = tmpOut /\ goodOut' = goodOut /\ output' = output
  BY DEF vars
<1>2. /\ Positions' = Positions /\ Wanted' = Wanted /\ Kept' = Kept
      /\ \A p : FieldAt(p)' = FieldAt(p)
  BY <1>1, InputStays
<1>3. FilterSound' /\ TmpSound'
  <2>1. \A p : Stops(p)' <=> Stops(p)
    BY <1>1, InputStays
  <2>2. \A m, k : Passed(m, k)' <=> Passed(m, k)
    BY <1>1 DEF Passed, Pending
  <2>3. FilterSound'
    BY <1>1, <1>2, <2>1, <2>2 DEF FilterSound, ProductInv
  <2>4. TmpSound'
    BY <1>1, <1>2 DEF TmpSound, ProductInv, Passed, Pending
  <2> QED BY <2>3, <2>4
<1>4. GoodSound' /\ OutputSound'
  BY <1>1, <1>2 DEF GoodSound, OutputSound, ProductInv
<1>5. ASSUME disk = "good"  PROVE TmpAll' /\ GoodAll' /\ OutputAll'
  <2>1. TmpAll'
    BY <1>1, <1>2, <1>5 DEF TmpAll, ProductInv, InTmp, InOrder, Passed, Pending
  <2>2. GoodAll'
    BY <1>1, <1>2, <1>5 DEF GoodAll, ProductInv, InGood, InOrder, FieldOf
  <2>3. OutputAll'
    BY <1>1, <1>2, <1>5 DEF OutputAll, ProductInv, Split
  <2> QED BY <2>1, <2>2, <2>3
<1> QED BY <1>1, <1>3, <1>4, <1>5 DEF ProductInv

(* Products and intermediate files are always as they should be.           *)
LEMMA ProductInvariance == Spec => [](Inv /\ ProductInv)
<1>1. Init => ProductInv
  BY InitProduct
<1>2. Inv /\ BitmapInv /\ ProductInv /\ [Next]_vars => ProductInv'
  BY StartFileKeeps, SkipFileKeeps, FilterFieldKeeps, FilterEndsKeeps, FilterStopsShort,
     CheckFieldKeeps, CheckEndsKeeps, SplitFieldKeeps, SplitEndsKeeps,
     CheckWriteFailsKeeps, SplitWriteFailsKeeps, StutterKeeps DEF Next
<1> QED BY <1>1, <1>2, BitmapInvariance, PTL DEF Spec

(* Three tools in a row, whose failures nobody notices, lose nothing but   *)
(* what lies behind an error in its own file, and leave of two records of  *)
(* one product the later one; a disk that fills up leaves of each product  *)
(* nothing, a cut file or a record that is wanted.                         *)
THEOREM NothingLost == Spec => []ConvertedAsWanted
<1>1. ASSUME Inv, ProductInv  PROVE ConvertedAsWanted
  <2>1. ASSUME Done, NEW n \in Names,
               NEW wanted, wanted = {p \in Wanted : FieldAt(p).name = n}
        PROVE  IF disk = "good"
               THEN IF wanted = {} THEN output[n] = None
                    ELSE /\ output[n] # None /\ Position(output[n]) \in wanted
                         /\ \A p \in wanted : ~Before(Position(output[n]), p)
               ELSE output[n] \in {None, Cut} \/ Position(output[n]) \in wanted
    <3>1. /\ output[n] = None \/ (disk = "full" /\ output[n] = Cut) \/ Position(output[n]) \in wanted
          /\ disk \in {"good", "full"}
      BY <1>1, <2>1 DEF ProductInv, OutputSound, Inv
    <3>2. ASSUME disk = "good", NEW p \in wanted
          PROVE  output[n] # None /\ ~Before(Position(output[n]), p)
      <4>1. p \in Wanted /\ FieldAt(p).name = n /\ p[1] \in 1..Len(files) /\ Len(files) \in Nat
        BY <1>1, <2>1, FileFacts, WantedAreKept, PositionFacts, InputFacts
      <4>2. Split(p)
        BY <1>1, <2>1, <4>1, FileFacts DEF Done, Split
      <4> QED BY <1>1, <3>2, <4>1, <4>2 DEF ProductInv, OutputAll
    <3> QED BY <3>1, <3>2
  <2> QED BY <2>1 DEF ConvertedAsWanted
<1> QED BY <1>1, ProductInvariance, PTL
===============================================================================
