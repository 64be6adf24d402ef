---------------------------- MODULE RunCycleProofs ----------------------------
(***************************************************************************)
(* Proofs about RunCycle for any set of attempts, products, converted      *)
(* records and groups, and for everything that may go wrong.               *)
(***************************************************************************)
EXTENDS RunCycle, TLAPS

(* TypeOK is not inductive: the loop variable of mergeRecords() is         *)
(* incremented where it is not tested.                                     *)
IType == TypeOK /\ \A p \in Attempts : pc[p] = "unlink" => group[p] <= LastGroup

(* Types of the directories and their parts.                              *)
Directories == [Dirs -> Contents]
Singles == [Records -> Attempts \cup {None}]
Mergeds == [Records -> Seq(Attempts)]

(* The values to which RemoveOld resets.                                   *)
LEMMA EmptyType ==
  /\ Empty \in Contents
  /\ NoTar \in [state : {"none", "partial", "whole"}, holds : [Records -> Seq(Attempts)]]
BY DEF Empty, NoTar, Contents

(* Writing, moving or deleting one file.                                   *)
LEMMA WithSingle ==
  ASSUME NEW D \in Directories, NEW d \in Dirs, NEW r, NEW v \in Attempts \cup {None}
  PROVE  [D EXCEPT ![d].single[r] = v] \in Directories
<1>1. D[d] \in Contents  BY DEF Directories
<1>2. [D[d].single EXCEPT ![r] = v] \in Singles  BY <1>1 DEF Contents, Singles
<1>3. [D[d] EXCEPT !.single[r] = v] \in Contents
  BY <1>1, <1>2 DEF Contents, Singles
<1> QED BY <1>3 DEF Directories

(* Replacing the merged files of a directory.                              *)
LEMMA WithMerged ==
  ASSUME NEW D \in Directories, NEW d \in Dirs, NEW f \in Mergeds
  PROVE  [D EXCEPT ![d].merged = f] \in Directories
<1>1. D[d] \in Contents  BY DEF Directories
<1>3. [D[d] EXCEPT !.merged = f] \in Contents
  BY <1>1 DEF Contents, Mergeds
<1> QED BY <1>3 DEF Directories

(* What mergeRecords() appends are files of attempts.                      *)
LEMMA AppendedType ==
  ASSUME TypeOK, NEW p \in Attempts, NEW S \in SUBSET InGroup(p)
  PROVE  Appended(p, S) \in Directories
<1> DEFINE old == dir[place[p]]
           f == [r \in Records |->
                   IF r \in S THEN Append(old.merged[r], old.single[r]) ELSE old.merged[r]]
<1>1. place[p] \in Dirs /\ dir \in Directories /\ old \in Contents
  BY DEF TypeOK, Directories
<1>2. \A r \in Records : old.merged[r] \in Seq(Attempts)
  BY <1>1 DEF Contents
<1>3. \A r \in S : r \in Records /\ old.single[r] \in Attempts
  BY <1>1 DEF Contents, InGroup
<1>4. f \in Mergeds
  <2>1. ASSUME NEW r \in Records PROVE f[r] \in Seq(Attempts)
    BY <1>2, <1>3
  <2> QED BY <2>1 DEF Mergeds
<1>5. Appended(p, S) = [dir EXCEPT ![place[p]].merged = f]
  BY Zenon DEF Appended
<1> HIDE DEF f, old
<1>6. [dir EXCEPT ![place[p]].merged = f] \in Directories
  BY <1>1, <1>4, WithMerged
<1> QED BY <1>5, <1>6

(* Types through the steps before the conversion.                          *)
LEMMA PrepareType ==
  ASSUME IType, NEW p \in Attempts, Prepare(p)
  PROVE  IType'
<1>1. CASE CheckEnvironment(p)
  <2>1. CASE Go(p, "test") /\ UNCHANGED rc /\ CheckEnvironment(p)
    BY <2>1 DEF TypeOK, IType, CheckEnvironment, At, Go, tags, files, Steps,
       Over
  <2>2. CASE CheckEnvironment(p) /\ \E code \in {1, 2} : Return(p, code)
    <3>1. PICK code \in {1, 2} : Return(p, code)  BY <2>2
    <3>2. rc' \in [Attempts -> {0, 1, 2, 3, 10, 12}]
      BY <3>1 DEF TypeOK, IType, Return
    <3>3. pc' \in [Attempts -> Steps] /\ pc' = [pc EXCEPT ![p] = "returned"]
      BY <3>1 DEF TypeOK, IType, Return, Go, Steps, Over
    <3> QED BY <2>2, <3>2, <3>3 DEF TypeOK, IType, CheckEnvironment, tags, files
  <2> QED BY <1>1, <2>1, <2>2 DEF CheckEnvironment
<1>2. CASE TestLock(p)
  <2>1. /\ pc' \in [Attempts -> Steps] /\ rc' \in [Attempts -> {0, 1, 2, 3, 10, 12}]
        /\ \A q \in Attempts : pc'[q] = "unlink" => pc[q] = "unlink"
    BY <1>2 DEF TypeOK, IType, TestLock, Go, Return, Steps, Over
  <2> QED BY <1>2, <2>1 DEF TypeOK, IType, TestLock, tags, files
<1>3. CASE CreateLock(p)
  BY <1>3 DEF TypeOK, IType, CreateLock, At, Go, Keep, Write, tags, files,
     Steps, Over
<1>4. CASE RemoveOld(p)
  BY <1>4, EmptyType DEF TypeOK, IType, RemoveOld, At, Go, Keep, Steps, Over
<1>5. CASE ScanInput(p)
  <2>1. /\ pc' \in [Attempts -> Steps] /\ inTag' \in BOOLEAN
        /\ \A q \in Attempts : pc'[q] = "unlink" => pc[q] = "unlink"
    BY <1>5 DEF TypeOK, IType, ScanInput, Go, Write, Steps, Over
  <2> QED BY <1>5, <2>1 DEF TypeOK, IType, ScanInput, Keep, files
<1>6. CASE Verdict(p)
  BY <1>6 DEF TypeOK, IType, Verdict, At, Go, Keep, files, Steps, Over
<1>7. CASE RejectInput(p)
  BY <1>7 DEF TypeOK, IType, RejectInput, At, Go, Return, tags, files, Steps,
     Over
<1> QED BY <1>1, <1>2, <1>3, <1>4, <1>5, <1>6, <1>7 DEF Prepare

(* Types through run_ncep_convert.pl.                                      *)
LEMMA ConvertRecordsType ==
  ASSUME IType, NEW p \in Attempts, ConvertRecords(p)
  PROVE  IType'
<1>1. CASE Convert(p)
  <2>1. PICK made \in SUBSET Converted :
          dir' = [dir EXCEPT !["stash"] =
            [Empty EXCEPT !.single = [r \in Records |-> IF r \in made THEN p ELSE None]]]
    BY <1>1 DEF Convert
  <2>2. [Empty EXCEPT !.single = [r \in Records |-> IF r \in made THEN p ELSE None]]
          \in Contents
    BY EmptyType DEF Contents
  <2>3. dir' \in [Dirs -> Contents]
    BY <2>1, <2>2 DEF TypeOK, IType, Dirs
  <2> QED
    <3>1. /\ pc' \in [Attempts -> Steps]
          /\ \A q \in Attempts : pc'[q] = "unlink" => q # p /\ pc[q] = "unlink"
      BY <1>1 DEF TypeOK, IType, Convert, Go, Steps, Over
    <3>2. /\ place' \in [Attempts -> Dirs]
          /\ group' \in [Attempts -> 1..LastGroup + 1]
          /\ \A q \in Attempts : q # p => group'[q] = group[q]
      BY <1>1, GroupAssumption DEF TypeOK, IType, Convert, Dirs
    <3> QED BY <1>1, <2>3, <3>1, <3>2 DEF TypeOK, IType, Convert, tags
<1>2. CASE MoveMerged(p)
  <2>1. PICK g \in Groups :
          dir' = [d \in Dirs |-> [dir[d] EXCEPT !.merged = [r \in Records |->
                    IF Group[r] # g THEN @[r] ELSE IF d = "stash" THEN <<>> ELSE dir["stash"].merged[r]]]]
    BY <1>2 DEF MoveMerged
  <2>2. ASSUME NEW d \in Dirs PROVE dir'[d] \in Contents
    <3>1. dir[d] \in Contents /\ dir["stash"] \in Contents
      BY DEF TypeOK, IType, Dirs
    <3>2. \A r \in Records : /\ dir[d].merged[r] \in Seq(Attempts)
                            /\ dir["stash"].merged[r] \in Seq(Attempts)
      BY <3>1 DEF Contents
    <3> DEFINE f == [r \in Records |->
                       IF Group[r] # g THEN dir[d].merged[r]
                       ELSE IF d = "stash" THEN <<>> ELSE dir["stash"].merged[r]]
    <3>3. f \in Mergeds  BY <3>2 DEF Mergeds
    <3>4. dir'[d] = [dir[d] EXCEPT !.merged = f]  BY <2>1
    <3> HIDE DEF f
    <3> QED BY <3>1, <3>3, <3>4 DEF Contents, Mergeds
  <2>3. dir' \in [Dirs -> Contents]  BY <2>1, <2>2
  <2> QED
    BY <1>2, <2>3 DEF TypeOK, IType, MoveMerged, Keep, tags
<1>3. CASE MoveSingle(p)
  <2>1. PICK r \in Records :
       dir' = [dir EXCEPT !["archive"].single[r] = dir["stash"].single[r],
                             !["stash"].single[r] = None]
    BY <1>3 DEF MoveSingle
  <2>2. dir["stash"].single[r] \in Attempts \cup {None}
    BY DEF TypeOK, IType, Dirs, Contents
  <2>3. dir \in Directories /\ "stash" \in Dirs /\ "archive" \in Dirs
    BY DEF TypeOK, IType, Directories, Dirs
  <2>4. [dir EXCEPT !["archive"].single[r] = dir["stash"].single[r]] \in Directories
    BY <2>2, <2>3, WithSingle
  <2>5. dir' = [[dir EXCEPT !["archive"].single[r] = dir["stash"].single[r]]
                   EXCEPT !["stash"].single[r] = None]
    BY <2>1, Zenon
  <2>6. dir' \in Directories BY <2>4, <2>3, <2>5, WithSingle
  <2> QED
    BY <1>3, <2>6 DEF TypeOK, IType, MoveSingle, Keep, tags, Directories
<1>4. CASE MoveDone(p)
  BY <1>4 DEF TypeOK, IType, MoveDone, At, Go, Keep, tags, files, Steps, Over
<1>5. CASE Clean(p)
  <2>1. dir' \in [Dirs -> Contents]
    BY <1>5, EmptyType DEF Clean, TypeOK, IType, Dirs
  <2> QED
    BY <1>5, <2>1 DEF TypeOK, IType, Clean, Keep, tags, Go, Steps, Over
<1> QED BY <1>1, <1>2, <1>3, <1>4, <1>5 DEF ConvertRecords

(* Types through mergeRecords().                                           *)
LEMMA MergeType ==
  ASSUME IType, NEW p \in Attempts, Merge(p)
  PROVE  IType'
<1>1. CASE MergeGroup(p)
  <2>1. dir' \in Directories BY <1>1, AppendedType DEF MergeGroup, IType
  <2>2. InGroup(p) \subseteq Records BY DEF InGroup
  <2> QED
    BY <1>1, <2>1, <2>2 DEF TypeOK, IType, MergeGroup, tags, Go, Steps, Over,
       Directories
<1>2. CASE MergeFails(p)
  <2>1. dir' \in Directories BY <1>2, AppendedType DEF MergeFails, IType
  <2> QED
    BY <1>2, <2>1 DEF TypeOK, IType, MergeFails, AfterMerge, Keep, tags, Go,
       Steps, Over, Directories
<1>3. CASE UnlinkMerged(p)
  <2>1. dir' \in Directories
    <3>1. dir \in Directories /\ place[p] \in Dirs
      BY DEF TypeOK, IType, Directories
    <3>2. CASE \E r \in todo[p] : dir' = [dir EXCEPT ![place[p]].single[r] = None]
      <4>1. PICK r \in todo[p] : dir' = [dir EXCEPT ![place[p]].single[r] = None]
        BY <3>2
      <4>2. None \in Attempts \cup {None}  OBVIOUS
      <4>3. [dir EXCEPT ![place[p]].single[r] = None] \in Directories
        BY <3>1, <4>2, WithSingle
      <4> QED BY <4>1, <4>3
    <3>3. CASE UNCHANGED dir BY <3>1, <3>3
    <3> QED BY <1>3, <3>2, <3>3 DEF UnlinkMerged
  <2>2. CASE \E r \in todo[p] : todo' = [todo EXCEPT ![p] = @ \ {r}] /\ UNCHANGED <<pc, group>>
    BY <1>3, <2>1, <2>2 DEF TypeOK, IType, UnlinkMerged, tags, Directories
  <2>3. CASE group' = [group EXCEPT ![p] = @ + 1] /\ Go(p, "merge") /\ UNCHANGED <<dir, todo>>
    BY <1>3, <2>1, <2>3, GroupAssumption DEF TypeOK, IType, UnlinkMerged, At,
       tags, Go, Steps, Over, Directories
  <2> QED BY <1>3, <2>2, <2>3 DEF UnlinkMerged
<1>4. CASE MergeDone(p)
  BY <1>4 DEF TypeOK, IType, MergeDone, At, Go, Keep, tags, files, Steps,
     Over, AfterMerge
<1> QED BY <1>1, <1>2, <1>3, <1>4 DEF Merge

(* Types through the program and the check of its output.                  *)
LEMMA RunType ==
  ASSUME IType, NEW p \in Attempts, Run(p)
  PROVE  IType'
<1>1. CASE WriteProduct(p)
  BY <1>1 DEF TypeOK, IType, WriteProduct, At, Keep, tags, Steps, Over
<1>2. CASE RunEnds(p)
  BY <1>2 DEF TypeOK, IType, RunEnds, At, Go, Keep, tags, files, Steps, Over
<1>3. CASE QcOutputFails(p)
  BY <1>3 DEF TypeOK, IType, QcOutputFails, At, Go, Return, tags, files,
     Steps, Over
<1>4. CASE QcOutputPasses(p)
  BY <1>4 DEF TypeOK, IType, QcOutputPasses, At, Go, Keep, files, Steps, Over
<1> QED BY <1>1, <1>2, <1>3, <1>4 DEF Run

(* Types through archiveOutput().                                          *)
LEMMA ArchiveType ==
  ASSUME IType, NEW p \in Attempts, Archive(p)
  PROVE  IType'
<1>1. CASE List(p)
  BY <1>1 DEF TypeOK, IType, List, At, Go, tags, files, Steps, Over, Tag,
     Records
<1>2. CASE ArchiveTag(p)
  <2>1. todo' \in [Attempts -> SUBSET (Records \cup {Tag})]
    BY <1>2 DEF ArchiveTag, TypeOK, IType
  <2>2. outTag' \in BOOLEAN /\ status' \in {"none", "passed", "packaged"}
    BY <1>2 DEF ArchiveTag, TypeOK, IType
  <2> QED BY <1>2, <2>1, <2>2 DEF TypeOK, IType, ArchiveTag, files
<1>3. CASE ArchiveCopy(p)
  <2>1. PICK r \in todo[p] \cap Products :
          /\ todo' = [todo EXCEPT ![p] = @ \ {r}]
          /\ \/ /\ out[r] # None /\ Go(p, "check")
                /\ dir' = [dir EXCEPT !["archive"].single[r] = out[r]]
                /\ file' = [file EXCEPT ![p] = r]
             \/ /\ "disk" \in May /\ UNCHANGED <<pc, file>>
                /\ dir' = [dir EXCEPT !["archive"].single[r] = None]
    BY <1>3 DEF ArchiveCopy
  <2>2. dir \in Directories /\ "archive" \in Dirs /\ out[r] \in Attempts \cup {None}
    BY DEF TypeOK, IType, Directories, Dirs
  <2>3. dir' \in Directories
    <3>1. [dir EXCEPT !["archive"].single[r] = out[r]] \in Directories
      BY <2>2, WithSingle
    <3>2. [dir EXCEPT !["archive"].single[r] = None] \in Directories
      BY <2>2, WithSingle
    <3> QED BY <2>1, <3>1, <3>2
  <2>4. /\ pc' \in [Attempts -> Steps]
        /\ \A q \in Attempts : pc'[q] = "unlink" => pc[q] = "unlink"
    BY <2>1 DEF TypeOK, IType, Go, Steps, Over
  <2>5. file' \in [Attempts -> Products \cup {None}]  BY <2>1 DEF TypeOK, IType
  <2>6. todo' \in [Attempts -> SUBSET (Records \cup {Tag})]
    BY <2>1 DEF TypeOK, IType
  <2> QED BY <1>3, <2>3, <2>4, <2>5, <2>6 DEF TypeOK, IType, ArchiveCopy,
             tags, Directories
<1>4. CASE UnlinkArchived(p)
  BY <1>4 DEF TypeOK, IType, UnlinkArchived, At, Go, tags, Steps, Over
<1>5. CASE ArchiveEnds(p)
  BY <1>5 DEF TypeOK, IType, ArchiveEnds, At, Go, tags, files, Steps, Over
<1> QED BY <1>1, <1>2, <1>3, <1>4, <1>5 DEF Archive

(* Types through packCycle() and the end of runCycle().                    *)
LEMMA PackCycleType ==
  ASSUME IType, NEW p \in Attempts, PackCycle(p)
  PROVE  IType'
<1>1. CASE RescueTag(p)
  BY <1>1 DEF TypeOK, IType, RescueTag, At, Keep, files, Steps, Over
<1>2. CASE RefusePack(p)
  BY <1>2, AttemptAssumption, GroupAssumption, EmptyType DEF TypeOK, IType,
     RefusePack, At, Go, Keep, tags, files, Steps, Over
<1>3. CASE Pack(p)
  BY <1>3, GroupAssumption DEF TypeOK, IType, Pack, Dirs, At, Go, tags, files,
     Steps, Over
<1>4. CASE StartTar(p)
  BY <1>4, EmptyType DEF TypeOK, IType, StartTar, At, Go, Keep, tags, Steps,
     Over, NoTar
<1>5. CASE EndTar(p)
  <2>1. \A r \in Records : InArchive(r) \in Seq(Attempts)
    <3> TAKE r \in Records
    <3>1. /\ dir["archive"].merged[r] \in Seq(Attempts)
          /\ dir["archive"].single[r] \in Attempts \cup {None}
      BY DEF TypeOK, IType, Dirs, Contents
    <3> QED BY <3>1 DEF InArchive
  <2>2. tar' \in [state : {"none", "partial", "whole"}, holds : [Records -> Seq(Attempts)]]
    BY <1>5, <2>1 DEF EndTar, TypeOK, IType
  <2> QED BY <1>5, <2>2 DEF TypeOK, IType, EndTar, Go, Steps, Over, Keep, tags
<1>6. CASE Flag(p)
  BY <1>6 DEF TypeOK, IType, Flag, At, Go, Keep, Write, files, Steps, Over
<1>7. CASE Complete(p)
  BY <1>7 DEF TypeOK, IType, Complete, At, Go, Keep, Write, files, Steps, Over
<1>8. CASE Unlock(p)
  BY <1>8 DEF TypeOK, IType, Unlock, At, Go, Return, tags, files, Steps, Over
<1> QED BY <1>1, <1>2, <1>3, <1>4, <1>5, <1>6, <1>7, <1>8 DEF PackCycle

(* Types through everything else.                                          *)
LEMMA OutsideType ==
  ASSUME IType, NEW p \in Attempts, Submit(p) \/ Kill(p) \/ Environment
  PROVE  IType'
<1>1. CASE Submit(p)
  BY <1>1 DEF TypeOK, IType, Submit, At, Go, tags, files, Steps, Over
<1>2. CASE Kill(p)
  BY <1>2 DEF TypeOK, IType, Kill, Go, Keep, tags, files, Steps, Over, Running
<1>3. CASE Environment
  BY <1>3 DEF TypeOK, IType, Environment, RemoveLock, RelinkInput,
     SourceRepaired, SourceExpires, locals, tags, files
<1> QED BY <1>1, <1>2, <1>3

(* The initial state has the types.                                        *)
LEMMA TypeInit == Init => IType
<1> SUFFICES ASSUME Init PROVE IType
  OBVIOUS
<1>1. /\ dir \in [Dirs -> Contents] /\ place \in [Attempts -> Dirs]
      /\ tar \in [state : {"none", "partial", "whole"}, holds : [Records -> Seq(Attempts)]]
  BY EmptyType DEF Init, Dirs
<1>2. group \in [Attempts -> 1..LastGroup + 1]
  BY GroupAssumption DEF Init
<1>3. pc \in [Attempts -> Steps] /\ \A p \in Attempts : pc[p] # "unlink"
  BY DEF Init, Steps
<1>4. /\ todo \in [Attempts -> SUBSET (Records \cup {Tag})]
      /\ file \in [Attempts -> Products \cup {None}]
      /\ out \in [Products -> Attempts \cup {None}]
  BY DEF Init
<1> QED BY <1>1, <1>2, <1>3, <1>4 DEF Init, IType, TypeOK

(* Every step keeps them.                                                  *)
LEMMA TypeNext == IType /\ [Next]_vars => IType'
<1> SUFFICES ASSUME IType, [Next]_vars PROVE IType'
  OBVIOUS
<1>1. CASE UNCHANGED vars
  BY <1>1 DEF IType, TypeOK, vars, locals, tags, files
<1>2. CASE Next
  <2>1. CASE Environment
    BY <2>1 DEF TypeOK, IType, Environment, RemoveLock, RelinkInput,
       SourceRepaired, SourceExpires, locals, tags, files
  <2>2. ASSUME NEW p \in Attempts, Submit(p) \/ Kill(p) PROVE IType'
    BY <2>2, OutsideType
  <2>3. ASSUME NEW p \in Attempts, Step(p) PROVE IType'
    BY <2>3, PrepareType, ConvertRecordsType, MergeType, RunType, ArchiveType,
       PackCycleType DEF Step
  <2> QED BY <1>2, <2>1, <2>2, <2>3 DEF Next
<1> QED BY <1>1, <1>2

(* The invariant that the other results build on.                          *)
THEOREM ITypeHolds == Spec => []IType
  BY TypeInit, TypeNext, PTL DEF Spec

(* Type correctness of the driver: in particular the return codes of       *)
(* runCycle(), and the loop of mergeRecords() ends after the last group.   *)
THEOREM DriverTypeCorrect == Spec => []TypeOK
<1>1. IType => TypeOK  BY DEF IType
<1> QED BY <1>1, ITypeHolds, PTL

-------------------------------------------------------------------------------
(* The lock.                                                               *)

(* The owner of the lock has passed the place where it is created, and has *)
(* returned, if it has, with the code of a failed output check.            *)
Owned == \A p \in Attempts : lock = p =>
  /\ pc[p] \notin {"idle", "env", "test", "create"}
  /\ pc[p] = "returned" => rc[p] = 12

(* A step of an attempt keeps that.                                        *)
LEMMA StepOwned ==
  ASSUME IType, Owned, NEW p \in Attempts, Step(p)
  PROVE  Owned'
<1>0. pc \in [Attempts -> Steps] /\ rc \in [Attempts -> {0, 1, 2, 3, 10, 12}] /\ p # None
  BY AttemptAssumption DEF IType, TypeOK
<1>1. CASE Prepare(p)
  <2>1. CASE CheckEnvironment(p)
    BY <1>0, <2>1, AttemptAssumption DEF Owned, CheckEnvironment, At, Go,
       Return, tags
  <2>2. CASE TestLock(p)
    BY <1>0, <2>2, AttemptAssumption DEF Owned, TestLock, At, Go, Return, tags
  <2>3. CASE CreateLock(p)
    BY <1>0, <2>3, AttemptAssumption DEF Owned, CreateLock, At, Go, Write,
       Keep, tags
  <2>4. CASE RemoveOld(p)
    BY <1>0, <2>4, AttemptAssumption DEF Owned, RemoveOld, At, Go, Keep
  <2>5. CASE ScanInput(p)
    BY <1>0, <2>5, AttemptAssumption DEF Owned, ScanInput, At, Go, Write, Keep
  <2>6. CASE Verdict(p)
    BY <1>0, <2>6, AttemptAssumption DEF Owned, Verdict, At, Go, Keep
  <2>7. CASE RejectInput(p)
    BY <1>0, <2>7, AttemptAssumption DEF Owned, RejectInput, At, Go, Return,
       tags
  <2> QED BY <1>1, <2>1, <2>2, <2>3, <2>4, <2>5, <2>6, <2>7 DEF Prepare
<1>2. CASE ConvertRecords(p)
  BY <1>0, <1>2, AttemptAssumption DEF Owned, ConvertRecords, Convert,
     MoveMerged, MoveSingle, MoveDone, Clean, At, Go, Keep, tags
<1>3. CASE Merge(p)
  BY <1>0, <1>3, AttemptAssumption DEF Owned, Merge, MergeGroup, MergeFails,
     UnlinkMerged, MergeDone, AfterMerge, At, Go, Keep, tags
<1>4. CASE Run(p)
  BY <1>0, <1>4, AttemptAssumption DEF Owned, Run, WriteProduct, RunEnds,
     QcOutputFails, QcOutputPasses, At, Go, Return, Keep, tags
<1>5. CASE Archive(p)
  BY <1>0, <1>5, AttemptAssumption DEF Owned, Archive, List, ArchiveTag,
     ArchiveCopy, UnlinkArchived, ArchiveEnds, At, Go, tags
<1>6. CASE PackCycle(p)
  BY <1>0, <1>6, AttemptAssumption DEF Owned, PackCycle, RescueTag,
     RefusePack, Pack, StartTar, EndTar, Flag, Complete, Unlock, At, Go,
     Return, Write, Keep, tags
<1> QED BY <1>1, <1>2, <1>3, <1>4, <1>5, <1>6 DEF Step

(* A lock whose owner is over means that the owner was killed or that its  *)
(* output failed the check, also when attempts overlap or writes fail.     *)
THEOREM LockHasOwner == Spec => []LockOwner
<1>1. Init => Owned
  BY AttemptAssumption DEF Init, Owned
<1>2. IType /\ Owned /\ [Next]_vars => Owned'
  <2> SUFFICES ASSUME IType, Owned, [Next]_vars PROVE Owned'
    OBVIOUS
  <2>0. pc \in [Attempts -> Steps]  BY DEF IType, TypeOK
  <2>1. CASE UNCHANGED vars \/ Environment
    BY <2>1, AttemptAssumption DEF Owned, vars, locals, Environment,
       RemoveLock, RelinkInput, SourceRepaired, SourceExpires
  <2>2. ASSUME NEW p \in Attempts, Submit(p) \/ Kill(p) PROVE Owned'
    BY <2>0, <2>2 DEF Owned, Submit, Kill, At, Go, Running, Keep
  <2> QED BY <2>1, <2>2, StepOwned DEF Next
<1>3. IType /\ Owned => LockOwner
  BY DEF IType, TypeOK, Owned, LockOwner, Running, Over
<1> QED BY <1>1, <1>2, <1>3, ITypeHolds, PTL DEF Spec

-------------------------------------------------------------------------------
(* On a disk that works, and with one attempt at a time, no record gets    *)
(* into a merged file or into the tar file twice, wherever the attempts    *)
(* before were killed and whatever their input was.                        *)

(* A file of its own, and a place in a merged file, for a record.          *)
Single(d, r) == dir[d].single[r] # None
Merged(d, r) == dir[d].merged[r] # <<>>
In(d, r)     == Single(d, r) \/ Merged(d, r)

OnePlace(r) ==
  /\ \A d \in Dirs : ~(Single(d, r) /\ Merged(d, r))
  /\ ~(In("stash", r) /\ In("archive", r))

(* Without overlap one attempt runs at a time.                             *)
Alone == \A p, q \in Attempts : Running(p) /\ Running(q) => p = q

(* Where an attempt has emptied the directories and not filled them; where *)
(* it moves and archives; where it can only add what is not there.         *)
Swept   == {"scan", "verdict", "reject", "convert"}
Filling == {"move", "clean", "run", "qcout", "list", "archive", "check"}
Working == Filling \cup {"merge", "pack", "tar", "tarring"}

(* During a merge: what is left to unlink is also in the merged file.      *)
InProgress(p) == \A r \in Records :
  OnePlace(r) \/ (r \in todo[p] /\ \A d \in Dirs \ {place[p]} : ~In(d, r))

(* Until the archived files are merged.                                    *)
BeforeArchive(p) ==
  pc[p] \in Filling \/ (pc[p] \in {"merge", "unlink"} /\ place[p] = "stash")

(* What the running attempt can rely on, by the place where it is: empty   *)
(* directories until it converts; each record in one place while it        *)
(* merges, moves and archives, but for those appended and not yet          *)
(* unlinked; and until the archived files are merged, no product in the    *)
(* stash, or in a merged file of the archive.                              *)
Tidy(p) ==
  /\ pc[p] \in Swept   => dir = [d \in Dirs |-> Empty] /\ tar = NoTar
  /\ pc[p] \in Working => \A r \in Records : OnePlace(r)
  /\ pc[p] = "unlink"  => InProgress(p)
  /\ BeforeArchive(p)  => \A r \in Products : ~In("stash", r) /\ ~Merged("archive", r)

Inv == IType /\ Alone /\ NeverTwice /\ \A p \in Attempts : Tidy(p)

(* The disk never fails and the queue holds the job until the last is over. *)
Faultless == "disk" \notin May /\ "overlap" \notin May

-------------------------------------------------------------------------------
(* A step of an attempt belongs to one that runs, and to no other.         *)
LEMMA Frame ==
  ASSUME IType, NEW p \in Attempts, Step(p)
  PROVE  /\ Running(p)
         /\ \A q \in Attempts \ {p} : pc'[q] = pc[q]
<1>0. pc \in [Attempts -> Steps]  BY DEF IType, TypeOK
<1>1. CASE Prepare(p)
  BY <1>0, <1>1 DEF Prepare, CheckEnvironment, TestLock, CreateLock,
     RemoveOld, ScanInput, Verdict, RejectInput, At, Go, Return, Running, Over
<1>2. CASE ConvertRecords(p)
  BY <1>0, <1>2 DEF ConvertRecords, Convert, MoveMerged, MoveSingle, MoveDone,
     Clean, At, Go, Running, Over
<1>3. CASE Merge(p)
  BY <1>0, <1>3 DEF Merge, MergeGroup, MergeFails, UnlinkMerged, MergeDone,
     At, Go, Running, Over
<1>4. CASE Run(p)
  BY <1>0, <1>4 DEF Run, WriteProduct, RunEnds, QcOutputFails, QcOutputPasses,
     At, Go, Return, Running, Over
<1>5. CASE Archive(p)
  BY <1>0, <1>5 DEF Archive, List, ArchiveTag, ArchiveCopy, UnlinkArchived,
     ArchiveEnds, At, Go, Running, Over
<1>6. CASE PackCycle(p)
  BY <1>0, <1>6 DEF PackCycle, RescueTag, RefusePack, Pack, StartTar, EndTar,
     Flag, Complete, Unlock, At, Go, Return, Running, Over
<1> QED BY <1>1, <1>2, <1>3, <1>4, <1>5, <1>6 DEF Step

(* Steps that touch no directory and no tar file.                          *)
LEMMA SameFiles ==
  ASSUME Inv, Faultless, NEW p \in Attempts, UNCHANGED <<dir, tar>>
  PROVE  /\ NeverTwice'
         /\ \A r \in Records : OnePlace(r)' <=> OnePlace(r)
         /\ \A r \in Products, e \in Dirs :
              (In(e, r)' <=> In(e, r)) /\ (Merged(e, r)' <=> Merged(e, r))
BY DEF Inv, NeverTwice, OnePlace, In, Single, Merged

(* What the running attempt relies on, through the steps before the conversion. *)
LEMMA PrepareTidy ==
  ASSUME Inv, Faultless, NEW p \in Attempts, Prepare(p)
  PROVE  Tidy(p)' /\ NeverTwice'
<1> USE DEF Swept, Filling, Working, BeforeArchive, At, Go, Return, Over, Dirs
<1>0. pc \in [Attempts -> Steps] /\ place \in [Attempts -> Dirs] /\ Tidy(p)
  BY DEF Inv, IType, TypeOK
<1>1. CASE CheckEnvironment(p)
  <2>1. UNCHANGED <<dir, tar>>  BY <1>1 DEF CheckEnvironment, files
  <2> QED BY <1>0, <1>1, <2>1, SameFiles DEF Tidy, CheckEnvironment, Faultless
<1>2. CASE TestLock(p)
  <2>1. UNCHANGED <<dir, tar>>  BY <1>2 DEF TestLock, files
  <2> QED BY <1>0, <1>2, <2>1, SameFiles DEF Tidy, TestLock, Faultless
<1>3. CASE CreateLock(p)
  <2>1. UNCHANGED <<dir, tar>>  BY <1>3 DEF CreateLock, Keep, files
  <2> QED BY <1>0, <1>3, <2>1, SameFiles DEF Tidy, CreateLock, Keep, Faultless
<1>4. CASE RemoveOld(p)
  BY <1>0, <1>4 DEF RemoveOld, Tidy, NeverTwice, Empty, NoTar
<1>5. CASE ScanInput(p)
  <2>1. UNCHANGED <<dir, tar>>  BY <1>5 DEF ScanInput, Keep, files
  <2> QED BY <1>0, <1>5, <2>1, SameFiles DEF Tidy, ScanInput, Keep, Faultless
<1>6. CASE Verdict(p)
  <2>1. UNCHANGED <<dir, tar>>  BY <1>6 DEF Verdict, Keep, files
  <2> QED BY <1>0, <1>6, <2>1, SameFiles DEF Tidy, Verdict, Keep, Faultless
<1>7. CASE RejectInput(p)
  <2>1. UNCHANGED <<dir, tar>>  BY <1>7 DEF RejectInput, files
  <2> QED BY <1>0, <1>7, <2>1, SameFiles DEF Tidy, RejectInput, Faultless
<1> QED BY <1>1, <1>2, <1>3, <1>4, <1>5, <1>6, <1>7 DEF Prepare

(* What the running attempt relies on, through run_ncep_convert.pl.        *)
LEMMA ConvertRecordsTidy ==
  ASSUME Inv, Faultless, NEW p \in Attempts, ConvertRecords(p)
  PROVE  Tidy(p)' /\ NeverTwice'
<1> USE DEF Swept, Filling, Working, BeforeArchive, At, Go, Return, Over, Dirs
<1>0. pc \in [Attempts -> Steps] /\ place \in [Attempts -> Dirs] /\ Tidy(p)
  BY DEF Inv, IType, TypeOK
<1>1. CASE Convert(p)
  <2>1. dir = [d \in Dirs |-> Empty] /\ tar = NoTar
    BY <1>0, <1>1 DEF Tidy, Convert
  <2>2. PICK made \in SUBSET Converted :
          dir' = [dir EXCEPT !["stash"] =
            [Empty EXCEPT !.single = [r \in Records |-> IF r \in made THEN p ELSE None]]]
    BY <1>1 DEF Convert
  <2>3. /\ dir'["archive"] = Empty
        /\ dir'["stash"].single = [r \in Records |-> IF r \in made THEN p ELSE None]
        /\ dir'["stash"].merged = [r \in Records |-> <<>>]
    BY <2>1, <2>2 DEF Empty
  <2>4. \A r \in Records : OnePlace(r)'
    BY <2>3 DEF OnePlace, In, Single, Merged, Empty
  <2>5. \A r \in Products : ~In("stash", r)' /\ ~Merged("archive", r)'
    BY <2>3, FileAssumption DEF In, Single, Merged, Empty, Records
  <2>6. NeverTwice'
    BY <2>1, <2>3, <1>1 DEF NeverTwice, Convert, Empty, NoTar
  <2>7. pc'[p] = "merge"  BY <1>0, <2>1, <1>1 DEF Convert, NoTar
  <2> QED BY <2>4, <2>5, <2>6, <2>7 DEF Tidy
<1>2. CASE MoveMerged(p)
  <2>1. PICK g \in Groups :
          dir' = [d \in Dirs |-> [dir[d] EXCEPT !.merged = [r \in Records |->
                    IF Group[r] # g THEN @[r]
                    ELSE IF d = "stash" THEN <<>> ELSE dir["stash"].merged[r]]]]
    BY <1>2 DEF MoveMerged
  <2>2. dir["stash"] \in Contents /\ dir["archive"] \in Contents
    BY DEF Inv, IType, TypeOK
  <2>3. \A r \in Records :
          /\ dir'["stash"].single[r] = dir["stash"].single[r]
          /\ dir'["archive"].single[r] = dir["archive"].single[r]
          /\ dir'["stash"].merged[r] =
               IF Group[r] # g THEN dir["stash"].merged[r] ELSE <<>>
          /\ dir'["archive"].merged[r] =
               IF Group[r] # g THEN dir["archive"].merged[r] ELSE dir["stash"].merged[r]
    BY <2>1, <2>2 DEF Contents
  <2>4. \A r \in Records : OnePlace(r)  BY <1>0, <1>2 DEF MoveMerged, Tidy
  <2>5. \A r \in Records : OnePlace(r)'
    BY <2>3, <2>4 DEF OnePlace, In, Single, Merged
  <2>6. \A r \in Products : ~In("stash", r) /\ ~Merged("archive", r)
    BY <1>0, <1>2 DEF MoveMerged, Tidy
  <2>7. \A r \in Products : ~In("stash", r)' /\ ~Merged("archive", r)'
    BY <2>3, <2>6 DEF In, Single, Merged, Records
  <2>8. NeverTwice'
    BY <2>3, <1>2 DEF Inv, NeverTwice, MoveMerged
  <2> QED BY <2>5, <2>7, <2>8, <1>0, <1>2 DEF Tidy, MoveMerged
<1>3. CASE MoveSingle(p)
  <2>1. PICK r \in Records :
          /\ dir["stash"].single[r] # None
          /\ dir' = [dir EXCEPT !["archive"].single[r] = dir["stash"].single[r],
                                !["stash"].single[r] = None]
    BY <1>3 DEF MoveSingle
  <2>2. /\ dir["stash"] \in Contents /\ dir["archive"] \in Contents
        /\ dir \in [Dirs -> Contents]
    BY DEF Inv, IType, TypeOK
  <2>3. /\ dir'["stash"].merged = dir["stash"].merged
        /\ dir'["archive"].merged = dir["archive"].merged
        /\ dir'["stash"].single = [dir["stash"].single EXCEPT ![r] = None]
        /\ dir'["archive"].single =
             [dir["archive"].single EXCEPT ![r] = dir["stash"].single[r]]
    BY <2>1, <2>2 DEF Contents
  <2>4. \A s \in Records : OnePlace(s)  BY <1>0, <1>3 DEF MoveSingle, Tidy
  <2>5. \A s \in Records : OnePlace(s)'
    BY <2>1, <2>2, <2>3, <2>4 DEF OnePlace, In, Single, Merged, Contents
  <2>6. \A s \in Products : ~In("stash", s) /\ ~Merged("archive", s)
    BY <1>0, <1>3 DEF MoveSingle, Tidy
  <2>7. \A s \in Products : ~In("stash", s)' /\ ~Merged("archive", s)'
    BY <2>2, <2>3, <2>6 DEF In, Single, Merged, Records, Contents
  <2>8. NeverTwice'
    BY <2>3, <1>3 DEF Inv, NeverTwice, MoveSingle
  <2> QED BY <2>5, <2>7, <2>8, <1>0, <1>3 DEF Tidy, MoveSingle
<1>4. CASE MoveDone(p)
  <2>1. UNCHANGED <<dir, tar>>  BY <1>4 DEF MoveDone, Keep, files
  <2> QED BY <1>0, <1>4, <2>1, SameFiles DEF Tidy, MoveDone, Keep, Faultless
<1>5. CASE Clean(p)
  <2>1. dir'["stash"] = Empty /\ dir'["archive"] = dir["archive"]
    BY <1>5 DEF Clean, Inv, IType, TypeOK
  <2>2. \A r \in Records : OnePlace(r)  BY <1>0, <1>5 DEF Clean, Tidy
  <2>3. \A r \in Records : OnePlace(r)'
    BY <2>1, <2>2 DEF OnePlace, In, Single, Merged, Empty
  <2>4. \A r \in Products : ~In("stash", r)' /\ ~Merged("archive", r)'
    BY <1>0, <1>5, <2>1 DEF Clean, Tidy, In, Single, Merged, Empty, Records
  <2>5. NeverTwice'
    BY <2>1, <1>5 DEF Inv, NeverTwice, Clean, Empty
  <2> QED BY <2>3, <2>4, <2>5, <1>0, <1>5 DEF Tidy, Clean
<1> QED BY <1>1, <1>2, <1>3, <1>4, <1>5 DEF ConvertRecords

(* What the running attempt relies on, through mergeRecords().             *)
LEMMA MergeTidy ==
  ASSUME Inv, Faultless, NEW p \in Attempts, Merge(p)
  PROVE  Tidy(p)' /\ NeverTwice'
<1> USE DEF Swept, Filling, Working, BeforeArchive, At, Go, Return, Over, Dirs
<1>0. pc \in [Attempts -> Steps] /\ place \in [Attempts -> Dirs] /\ Tidy(p)
  BY DEF Inv, IType, TypeOK
<1>1. CASE MergeGroup(p)
  <2> DEFINE Longer(e, r) == IF r \in InGroup(p)
                               THEN Append(dir[e].merged[r], dir[e].single[r])
                               ELSE dir[e].merged[r]
  <2>1. PICK d \in Dirs : d = place[p]  BY <1>0
  <2>2. \A e \in Dirs : dir[e] \in Contents  BY DEF Inv, IType, TypeOK
  <2>3. \A e \in Dirs, r \in Records :
          /\ dir'[e].single[r] = dir[e].single[r]
          /\ dir'[e].merged[r] = IF e = d THEN Longer(d, r) ELSE dir[e].merged[r]
    <3>1. dir' = Appended(p, InGroup(p))  BY <1>1 DEF MergeGroup
    <3>2. dir'[d] = [dir[d] EXCEPT !.merged = [r \in Records |-> Longer(d, r)]]
      BY <2>1, <3>1, <2>2 DEF Appended, Inv, IType, TypeOK
    <3>3. \A e \in Dirs \ {d} : dir'[e] = dir[e]
      BY <2>1, <3>1 DEF Appended, Inv, IType, TypeOK
    <3>4. dir'[d].single = dir[d].single
      BY <3>2, <2>2 DEF Contents
    <3>5. dir'[d].merged = [r \in Records |-> Longer(d, r)]
      BY <3>2, <2>2 DEF Contents
    <3> SUFFICES ASSUME NEW e \in Dirs, NEW r \in Records
                 PROVE  /\ dir'[e].single[r] = dir[e].single[r]
                        /\ dir'[e].merged[r] =
                             IF e = d THEN Longer(d, r) ELSE dir[e].merged[r]
      OBVIOUS
    <3>6. CASE e = d  BY <3>4, <3>5, <3>6
    <3>7. CASE e # d
      <4>1. dir'[e] = dir[e]  BY <3>3, <3>7
      <4> QED BY <4>1, <3>7
    <3> QED BY <3>6, <3>7
  <2>4. \A r \in Records : OnePlace(r)  BY <1>0, <1>1 DEF MergeGroup, Tidy
  <2>5. \A r \in InGroup(p) :
          /\ r \in Records
          /\ dir[d].merged[r] = <<>> /\ dir[d].single[r] # None
          /\ \A e \in Dirs \ {d} : ~In(e, r)
    BY <2>1, <2>4 DEF InGroup, OnePlace, In, Single, Merged
  <2>6. todo'[p] = InGroup(p) /\ place' = place /\ pc'[p] = "unlink"
    BY <1>1, <1>0 DEF MergeGroup, Inv, IType, TypeOK
  <2>7. InProgress(p)'
    <3> SUFFICES ASSUME NEW r \in Records
                 PROVE  \/ OnePlace(r)'
                        \/ /\ r \in todo'[p]
                           /\ \A e \in Dirs \ {place'[p]} : ~In(e, r)'
      BY DEF InProgress
    <3>1. CASE r \in InGroup(p)
      BY <2>1, <2>3, <2>5, <2>6, <3>1 DEF In, Single, Merged
    <3>2. CASE r \notin InGroup(p)
      BY <2>3, <2>4, <3>2 DEF OnePlace, In, Single, Merged
    <3> QED BY <3>1, <3>2
  <2>8. BeforeArchive(p) => \A r \in Products : ~In("stash", r) /\ ~Merged("archive", r)
    BY <1>0 DEF Tidy
  <2>9. BeforeArchive(p)' =>
          \A r \in Products : ~In("stash", r)' /\ ~Merged("archive", r)'
    BY <2>1, <2>3, <2>6, <2>8, <2>5, <1>1 DEF MergeGroup, In, Single, Merged,
       Records
  <2>10. NeverTwice'
    <3>1. \A r \in InGroup(p) : Len(Append(<<>>, dir[d].single[r])) <= 1  OBVIOUS
    <3>2. ASSUME NEW r \in Records, NEW e \in Dirs PROVE Len(dir'[e].merged[r]) <= 1
      <4>1. Len(dir[e].merged[r]) <= 1  BY DEF Inv, NeverTwice
      <4>2. CASE r \in InGroup(p) /\ e = d
        <5>1. dir'[e].merged[r] = Append(<<>>, dir[d].single[r])
          BY <2>3, <2>5, <4>2
        <5> QED BY <3>1, <4>2, <5>1
      <4>3. CASE ~(r \in InGroup(p) /\ e = d)
        <5>1. dir'[e].merged[r] = dir[e].merged[r]  BY <2>3, <4>3
        <5> QED BY <4>1, <5>1
      <4> QED BY <4>2, <4>3
    <3> QED BY <3>2, <1>1 DEF Inv, NeverTwice, MergeGroup
  <2> QED BY <2>6, <2>7, <2>9, <2>10 DEF Tidy
<1>2. CASE MergeFails(p)
  BY <1>2 DEF MergeFails, Faultless
<1>3. CASE UnlinkMerged(p)
  <2>0. \A e \in Dirs : dir[e] \in Contents  BY DEF Inv, IType, TypeOK
  <2>1. CASE \E r \in todo[p] :
               /\ dir'  = [dir EXCEPT ![place[p]].single[r] = None]
               /\ todo' = [todo EXCEPT ![p] = @ \ {r}]
               /\ UNCHANGED <<pc, group>>
    <3>1. PICK r \in todo[p] :
               /\ dir'  = [dir EXCEPT ![place[p]].single[r] = None]
               /\ todo' = [todo EXCEPT ![p] = @ \ {r}]
               /\ UNCHANGED <<pc, group>>
      BY <2>1
    <3>2. PICK d \in Dirs : d = place[p]  BY <1>0
    <3>3. \A e \in Dirs, s \in Records :
            /\ dir'[e].merged[s] = dir[e].merged[s]
            /\ dir'[e].single[s] = IF e = d /\ s = r THEN None ELSE dir[e].single[s]
      <4>1. dir'[d] = [dir[d] EXCEPT !.single = [@ EXCEPT ![r] = None]]
        BY <3>1, <3>2 DEF Inv, IType, TypeOK
      <4>2. \A e \in Dirs \ {d} : dir'[e] = dir[e]
        BY <3>1, <3>2 DEF Inv, IType, TypeOK
      <4>3. /\ dir'[d].merged = dir[d].merged
            /\ dir'[d].single = [dir[d].single EXCEPT ![r] = None]
        BY <4>1, <2>0 DEF Contents
      <4> SUFFICES ASSUME NEW e \in Dirs, NEW s \in Records
                   PROVE  /\ dir'[e].merged[s] = dir[e].merged[s]
                          /\ dir'[e].single[s] =
                               IF e = d /\ s = r THEN None ELSE dir[e].single[s]
        OBVIOUS
      <4>4. CASE e = d
        <5>1. dir[d].single \in [Records -> Attempts \cup {None}]  BY <2>0 DEF Contents
        <5> QED BY <4>3, <4>4, <5>1
      <4>5. CASE e # d
        <5>1. dir'[e] = dir[e]  BY <4>2, <4>5
        <5> QED BY <4>5, <5>1
      <4> QED BY <4>4, <4>5
    <3>4. /\ todo'[p] = todo[p] \ {r} /\ place' = place
          /\ pc'[p] = "unlink" /\ pc[p] = "unlink"
      BY <3>1, <1>3 DEF UnlinkMerged, Inv, IType, TypeOK
    <3>5. InProgress(p)  BY <1>0, <3>4 DEF Tidy
    <3>6. InProgress(p)'
      <4> SUFFICES ASSUME NEW s \in Records
                   PROVE  \/ OnePlace(s)'
                          \/ /\ s \in todo'[p]
                             /\ \A e \in Dirs \ {place'[p]} : ~In(e, s)'
        BY DEF InProgress
      <4>1. CASE s = r
        BY <3>2, <3>3, <3>5, <4>1 DEF InProgress, OnePlace, In, Single, Merged
      <4>2. CASE s # r
        BY <3>2, <3>3, <3>4, <3>5, <4>2 DEF InProgress, OnePlace, In, Single,
           Merged
      <4> QED BY <4>1, <4>2
    <3>7. BeforeArchive(p)' =>
            \A s \in Products : ~In("stash", s)' /\ ~Merged("archive", s)'
      BY <1>0, <3>3, <3>4 DEF Tidy, In, Single, Merged, Records
    <3>8. NeverTwice'
      BY <3>3, <1>3 DEF Inv, NeverTwice, UnlinkMerged
    <3> QED BY <3>4, <3>6, <3>7, <3>8 DEF Tidy
  <2>2. CASE todo[p] = {} /\ Go(p, "merge") /\ UNCHANGED <<dir, todo>>
    <3>1. UNCHANGED <<dir, tar, place>> /\ pc'[p] = "merge" /\ pc[p] = "unlink"
      BY <2>2, <1>0, <1>3 DEF UnlinkMerged
    <3>2. \A r \in Records : OnePlace(r)
      BY <1>0, <2>2, <3>1 DEF Tidy, InProgress
    <3> QED BY <1>0, <3>1, <3>2, SameFiles DEF Tidy
  <2> QED BY <1>3, <2>1, <2>2 DEF UnlinkMerged
<1>4. CASE MergeDone(p)
  <2>1. UNCHANGED <<dir, tar>>  BY <1>4 DEF MergeDone, Keep, files
  <2> QED BY <1>0, <1>4, <2>1, SameFiles DEF Tidy, MergeDone, AfterMerge,
             Keep, Faultless
<1> QED BY <1>1, <1>2, <1>3, <1>4 DEF Merge

(* What the running attempt relies on, through the program and the check of its output. *)
LEMMA RunTidy ==
  ASSUME Inv, Faultless, NEW p \in Attempts, Run(p)
  PROVE  Tidy(p)' /\ NeverTwice'
<1> USE DEF Swept, Filling, Working, BeforeArchive, At, Go, Return, Over, Dirs
<1>0. pc \in [Attempts -> Steps] /\ place \in [Attempts -> Dirs] /\ Tidy(p)
  BY DEF Inv, IType, TypeOK
<1>1. CASE WriteProduct(p)
  <2>1. UNCHANGED <<dir, tar>>  BY <1>1 DEF WriteProduct, Keep
  <2> QED BY <1>0, <1>1, <2>1, SameFiles DEF Tidy, WriteProduct, Keep, Faultless
<1>2. CASE RunEnds(p)
  <2>1. UNCHANGED <<dir, tar>>  BY <1>2 DEF RunEnds, Keep, files
  <2> QED BY <1>0, <1>2, <2>1, SameFiles DEF Tidy, RunEnds, Keep, Faultless
<1>3. CASE QcOutputFails(p)
  <2>1. UNCHANGED <<dir, tar>>  BY <1>3 DEF QcOutputFails, files
  <2> QED BY <1>0, <1>3, <2>1, SameFiles DEF Tidy, QcOutputFails, Faultless
<1>4. CASE QcOutputPasses(p)
  <2>1. UNCHANGED <<dir, tar>>  BY <1>4 DEF QcOutputPasses, Keep, files
  <2> QED BY <1>0, <1>4, <2>1, SameFiles DEF Tidy, QcOutputPasses, Keep,
             Faultless
<1> QED BY <1>1, <1>2, <1>3, <1>4 DEF Run

(* What the running attempt relies on, through archiveOutput().            *)
LEMMA ArchiveTidy ==
  ASSUME Inv, Faultless, NEW p \in Attempts, Archive(p)
  PROVE  Tidy(p)' /\ NeverTwice'
<1> USE DEF Swept, Filling, Working, BeforeArchive, At, Go, Return, Over, Dirs
<1>0. pc \in [Attempts -> Steps] /\ place \in [Attempts -> Dirs] /\ Tidy(p)
  BY DEF Inv, IType, TypeOK
<1>1. CASE List(p)
  <2>1. UNCHANGED <<dir, tar>>  BY <1>1 DEF List, files
  <2> QED BY <1>0, <1>1, <2>1, SameFiles DEF Tidy, List, Faultless
<1>2. CASE ArchiveTag(p)
  <2>1. UNCHANGED <<dir, tar>>  BY <1>2 DEF ArchiveTag, files
  <2> QED BY <1>0, <1>2, <2>1, SameFiles DEF Tidy, ArchiveTag, Faultless
<1>3. CASE ArchiveCopy(p)
  <2>1. PICK r \in todo[p] \cap Products :
          /\ Go(p, "check")
          /\ dir' = [dir EXCEPT !["archive"].single[r] = out[r]]
    BY <1>3 DEF ArchiveCopy, Faultless
  <2>2. dir["archive"] \in Contents  BY DEF Inv, IType, TypeOK
  <2>3. /\ dir'["stash"] = dir["stash"]
        /\ dir'["archive"].merged = dir["archive"].merged
        /\ dir'["archive"].single = [dir["archive"].single EXCEPT ![r] = out[r]]
    BY <2>1 DEF Inv, IType, TypeOK, Contents
  <2>4. /\ \A s \in Records : OnePlace(s)
        /\ \A s \in Products : ~In("stash", s) /\ ~Merged("archive", s)
    BY <1>0, <1>3 DEF ArchiveCopy, Tidy
  <2>5. \A s \in Records : OnePlace(s)'
    BY <2>2, <2>3, <2>4 DEF OnePlace, In, Single, Merged, Contents
  <2>6. \A s \in Products : ~In("stash", s)' /\ ~Merged("archive", s)'
    BY <2>3, <2>4 DEF In, Single, Merged
  <2>7. NeverTwice'
    BY <2>3, <1>3 DEF Inv, NeverTwice, ArchiveCopy
  <2>8. pc'[p] = "check"  BY <1>0, <2>1
  <2> QED BY <2>5, <2>6, <2>7, <2>8 DEF Tidy
<1>4. CASE UnlinkArchived(p)
  <2>1. UNCHANGED <<dir, tar>>  BY <1>4 DEF UnlinkArchived
  <2> QED BY <1>0, <1>4, <2>1, SameFiles DEF Tidy, UnlinkArchived, Faultless
<1>5. CASE ArchiveEnds(p)
  <2>1. UNCHANGED <<dir, tar>>  BY <1>5 DEF ArchiveEnds, files
  <2> QED BY <1>0, <1>5, <2>1, SameFiles DEF Tidy, ArchiveEnds, Faultless
<1> QED BY <1>1, <1>2, <1>3, <1>4, <1>5 DEF Archive

(* What the running attempt relies on, through packCycle() and the end of runCycle(). *)
LEMMA PackCycleTidy ==
  ASSUME Inv, Faultless, NEW p \in Attempts, PackCycle(p)
  PROVE  Tidy(p)' /\ NeverTwice'
<1> USE DEF Swept, Filling, Working, BeforeArchive, At, Go, Return, Over, Dirs
<1>0. pc \in [Attempts -> Steps] /\ place \in [Attempts -> Dirs] /\ Tidy(p)
  BY DEF Inv, IType, TypeOK
<1>1. CASE RescueTag(p)
  <2>1. UNCHANGED <<dir, tar>>  BY <1>1 DEF RescueTag, Keep, files
  <2> QED BY <1>0, <1>1, <2>1, SameFiles DEF Tidy, RescueTag, Keep, Faultless
<1>2. CASE RefusePack(p)
  <2>1. UNCHANGED <<dir, tar>>  BY <1>2 DEF RefusePack, Keep, files
  <2> QED BY <1>0, <1>2, <2>1, SameFiles DEF Tidy, RefusePack, Keep, Faultless
<1>3. CASE Pack(p)
  <2>1. UNCHANGED <<dir, tar>>  BY <1>3 DEF Pack, files
  <2> QED BY <1>0, <1>3, <2>1, SameFiles DEF Tidy, Pack, Faultless
<1>4. CASE StartTar(p)
  <2>1. /\ UNCHANGED dir /\ tar'.holds = [r \in Records |-> <<>>]
        /\ pc'[p] = "tarring" /\ pc[p] = "tar"
    BY <1>0, <1>4 DEF StartTar, NoTar
  <2>2. \A r \in Records : OnePlace(r)'
    BY <1>0, <2>1 DEF Tidy, OnePlace, In, Single, Merged
  <2>3. NeverTwice'  BY <2>1 DEF Inv, NeverTwice
  <2> QED BY <2>1, <2>2, <2>3 DEF Tidy
<1>5. CASE EndTar(p)
  <2>1. /\ UNCHANGED dir /\ tar'.holds = [r \in Records |-> InArchive(r)]
        /\ pc'[p] = "flag" /\ pc[p] = "tarring"
    BY <1>0, <1>5 DEF EndTar, Faultless
  <2>2. ASSUME NEW r \in Records PROVE Len(InArchive(r)) <= 1
    <3>1. OnePlace(r)  BY <1>0, <2>1 DEF Tidy
    <3>2. dir["archive"].merged[r] \in Seq(Attempts) /\ Len(dir["archive"].merged[r]) <= 1
      BY DEF Inv, IType, TypeOK, Contents, NeverTwice
    <3>3. CASE Single("archive", r)
      <4>1. dir["archive"].merged[r] = <<>>  BY <3>1, <3>3 DEF OnePlace, Merged
      <4>2. InArchive(r) = <<>> \o <<dir["archive"].single[r]>>
        BY <3>3, <4>1 DEF InArchive, Single
      <4> QED BY <4>2
    <3>4. CASE ~Single("archive", r)
      <4>1. InArchive(r) = dir["archive"].merged[r] \o <<>>
        BY <3>4 DEF InArchive, Single
      <4> QED BY <3>2, <4>1
    <3> QED BY <3>3, <3>4
  <2>3. NeverTwice'  BY <2>1, <2>2 DEF Inv, NeverTwice
  <2> QED BY <2>1, <2>3 DEF Tidy
<1>6. CASE Flag(p)
  <2>1. UNCHANGED <<dir, tar>>  BY <1>6 DEF Flag, Keep, files
  <2> QED BY <1>0, <1>6, <2>1, SameFiles DEF Tidy, Flag, Keep, Faultless
<1>7. CASE Complete(p)
  <2>1. UNCHANGED <<dir, tar>>  BY <1>7 DEF Complete, Keep, files
  <2> QED BY <1>0, <1>7, <2>1, SameFiles DEF Tidy, Complete, Keep, Faultless
<1>8. CASE Unlock(p)
  <2>1. UNCHANGED <<dir, tar>>  BY <1>8 DEF Unlock, files
  <2> QED BY <1>0, <1>8, <2>1, SameFiles DEF Tidy, Unlock, Faultless
<1> QED BY <1>1, <1>2, <1>3, <1>4, <1>5, <1>6, <1>7, <1>8 DEF PackCycle

(* Every step keeps the invariant.                                         *)
LEMMA InvNext ==
  ASSUME Inv, IType', Faultless, [Next]_vars
  PROVE  Inv'
<1>0. pc \in [Attempts -> Steps]  BY DEF Inv, IType, TypeOK
<1>1. CASE UNCHANGED vars \/ Environment
  <2>1. UNCHANGED <<pc, place, todo, dir, tar>>
    BY <1>1 DEF vars, locals, files, Environment, RemoveLock, RelinkInput,
       SourceRepaired, SourceExpires
  <2>2. NeverTwice'  BY <2>1 DEF Inv, NeverTwice
  <2>3. Alone'  BY <2>1 DEF Inv, Alone, Running
  <2>4. \A p \in Attempts : Tidy(p)'
    BY <2>1 DEF Inv, Tidy, InProgress, OnePlace, In, Single, Merged,
       BeforeArchive
  <2> QED BY <2>2, <2>3, <2>4 DEF Inv
<1>2. ASSUME NEW p \in Attempts, Submit(p) PROVE Inv'
  <2>1. /\ Idle /\ pc' = [pc EXCEPT ![p] = "env"]
        /\ UNCHANGED <<place, todo, dir, tar>>
    BY <1>2 DEF Submit, Go, Faultless, files
  <2>2. \A q \in Attempts : ~Running(q)  BY <2>1 DEF Idle
  <2>3. Alone'  BY <1>0, <2>1, <2>2 DEF Alone, Running
  <2>4. NeverTwice'  BY <2>1 DEF Inv, NeverTwice
  <2>5. ASSUME NEW q \in Attempts PROVE Tidy(q)'
    BY <1>0, <2>1, <2>2 DEF Tidy, BeforeArchive, Running, Over, Swept,
       Working, Filling
  <2> QED BY <2>3, <2>4, <2>5 DEF Inv
<1>3. ASSUME NEW p \in Attempts, Kill(p) PROVE Inv'
  <2>1. /\ Running(p) /\ pc' = [pc EXCEPT ![p] = "killed"]
        /\ UNCHANGED <<place, todo, dir, tar>>
    BY <1>3 DEF Kill, Go, Keep, files
  <2>2. Alone'  BY <1>0, <2>1 DEF Inv, Alone, Running, Over
  <2>3. NeverTwice'  BY <2>1 DEF Inv, NeverTwice
  <2>4. \A q \in Attempts \ {p} : ~Running(q)  BY <2>1 DEF Inv, Alone
  <2>5. ASSUME NEW q \in Attempts PROVE Tidy(q)'
    BY <1>0, <2>1, <2>4 DEF Tidy, BeforeArchive, Running, Over, Swept,
       Working, Filling
  <2> QED BY <2>2, <2>3, <2>5 DEF Inv
<1>4. ASSUME NEW p \in Attempts, Step(p) PROVE Inv'
  <2>1. Running(p) /\ \A q \in Attempts \ {p} : pc'[q] = pc[q]
    BY <1>4, Frame DEF Inv
  <2>2. \A q \in Attempts \ {p} : ~Running(q)  BY <2>1 DEF Inv, Alone
  <2>3. Alone'  BY <2>1, <2>2 DEF Alone, Running
  <2>4. Tidy(p)' /\ NeverTwice'
    BY <1>4, PrepareTidy, ConvertRecordsTidy, MergeTidy, RunTidy, ArchiveTidy,
       PackCycleTidy DEF Step
  <2>5. ASSUME NEW q \in Attempts \ {p} PROVE Tidy(q)'
    BY <2>1, <2>2 DEF Tidy, BeforeArchive, Running, Over, Swept, Working,
       Filling
  <2> QED BY <2>3, <2>4, <2>5 DEF Inv
<1> QED BY <1>1, <1>2, <1>3, <1>4 DEF Next

(* So it always holds.                                                     *)
LEMMA InvHolds ==
  ASSUME Faultless
  PROVE  Spec => []Inv
<1>1. Init => Inv
  <2> SUFFICES ASSUME Init PROVE Inv
    OBVIOUS
  <2>1. IType  BY TypeInit
  <2>2. Alone  BY DEF Init, Alone, Running
  <2>3. NeverTwice  BY DEF Init, NeverTwice, Empty, NoTar, Dirs
  <2>4. \A p \in Attempts : Tidy(p)
    BY DEF Init, Tidy, BeforeArchive, Swept, Working, Filling
  <2> QED BY <2>1, <2>2, <2>3, <2>4 DEF Inv
<1>2. Inv /\ [Next]_vars => Inv'
  <2>1. Inv => IType  BY DEF Inv
  <2> QED BY <2>1, TypeNext, InvNext
<1> QED BY <1>1, <1>2, PTL DEF Spec

(* No record gets into a merged file or into the tar file twice, although  *)
(* mergeRecords() appends to files that may exist: every attempt starts    *)
(* with empty directories, a record is in one place at a time, and what    *)
(* has been appended is unlinked before the next merge.                    *)
THEOREM MergedOnce ==
  ASSUME Faultless
  PROVE  Spec => []NeverTwice
<1>1. Inv => NeverTwice  BY DEF Inv
<1> QED BY <1>1, InvHolds, PTL
===============================================================================
