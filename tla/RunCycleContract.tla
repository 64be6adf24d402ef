---------------------------- MODULE RunCycleContract ----------------------------
(***************************************************************************)
(* What runCycle() promises while one attempt is at work at a time.  Every *)
(* step of RunCycle is a step of DriverContract or changes nothing of it,  *)
(* and no record vanishes, whatever else goes wrong; and on a disk that    *)
(* works an attempt with good input delivers.                              *)
(***************************************************************************)
EXTENDS RunCycleDelivers, RunCycleProofs

(* The queue holds a job of the cycle until the last one is over.          *)
NoOverlap == "overlap" \notin May

(* Where the tar file of an earlier attempt is gone and the new one not    *)
(* begun; where the status file is gone; where the tag of the output check *)
(* is on its way to the archive; where it has arrived.                     *)
BeforeTar   == Swept \cup (Filling \cup {"merge", "unlink", "pack", "tar"})
MergesIn(p, d) == pc[p] \in {"merge", "unlink"} /\ place[p] = d
Unpassed(p) == \/ pc[p] \in Swept \cup {"move", "clean", "run", "qcout"}
               \/ MergesIn(p, "stash")
Passing(p)  == pc[p] \in {"list", "archive", "check", "pack"}
Passed(p)   == pc[p] \in {"tar", "tarring", "flag"} \/ MergesIn(p, "archive")

(* What the contract needs: nobody takes the lock between the test and the *)
(* creation; only input that was not good is rejected; the tar file is     *)
(* gone before a new one is built.  On a disk that works also: the program *)
(* has written all products if the input was good, and an attempt that     *)
(* comes to its end has passed the check of the output, so it packs.       *)
Promise(p) ==
  /\ pc[p] = "create" => lock = None
  /\ sound[p] => input = "good"
  /\ pc[p] \in {"verdict", "reject"} => ~sound[p]
  /\ pc[p] \in BeforeTar => tar.state = "none"
  /\ pc[p] = "tarring" => tar.state = "partial"

FaultlessPromise(p) ==
  /\ pc[p] = "qcout" /\ sound[p] => \A r \in Products : out[r] = p
  /\ Unpassed(p) => status = "none"
  /\ Passing(p) => (outTag /\ status = "none") \/ (~outTag /\ status = "passed")
  /\ Passed(p) => ~outTag /\ status = "passed"
  /\ pc[p] \in {"flag", "complete", "unlock"} => tar.state = "whole"
  /\ pc[p] \in {"complete", "unlock"} => ~outTag /\ status = "packaged"
  /\ pc[p] = "unlock" => completed

Promises ==
  /\ IType /\ Alone
  /\ \A p \in Attempts : Promise(p)
  /\ "disk" \notin May => \A p \in Attempts : FaultlessPromise(p)

-------------------------------------------------------------------------------
(* What an attempt at work relies on, through the steps before the         *)
(* conversion.                                                             *)
LEMMA PreparePromise ==
  ASSUME Promises, NoOverlap, NEW p \in Attempts, Prepare(p)
  PROVE  Promise(p)' /\ ("disk" \notin May => FaultlessPromise(p)')
<1> USE DEF Swept, Filling, BeforeTar, MergesIn, Unpassed, Passing, Passed, At,
            Go, Return, Over
<1>0. /\ pc \in [Attempts -> Steps] /\ rc \in [Attempts -> {0, 1, 2, 3, 10, 12}]
      /\ Promise(p) /\ ("disk" \notin May => FaultlessPromise(p))
  BY DEF Promises, IType, TypeOK
<1>1. CASE CheckEnvironment(p)
  BY <1>0, <1>1 DEF Promise, FaultlessPromise, CheckEnvironment, tags, files
<1>2. CASE TestLock(p)
  BY <1>0, <1>2 DEF Promise, FaultlessPromise, TestLock, tags, files
<1>3. CASE CreateLock(p)
  BY <1>0, <1>3 DEF Promise, FaultlessPromise, CreateLock, Keep, tags, files
<1>4. CASE RemoveOld(p)
  BY <1>0, <1>4 DEF Promise, FaultlessPromise, RemoveOld, Keep, NoTar
<1>5. CASE ScanInput(p)
  BY <1>0, <1>5 DEF Promise, FaultlessPromise, ScanInput, Keep, files
<1>6. CASE Verdict(p)
  BY <1>0, <1>6 DEF Promise, FaultlessPromise, Verdict, Keep, files
<1>7. CASE RejectInput(p)
  BY <1>0, <1>7 DEF Promise, FaultlessPromise, RejectInput, tags, files
<1> QED BY <1>1, <1>2, <1>3, <1>4, <1>5, <1>6, <1>7 DEF Prepare

(* The same through run_ncep_convert.pl and mergeRecords().                *)
LEMMA ConvertPromise ==
  ASSUME Promises, NoOverlap, NEW p \in Attempts, ConvertRecords(p) \/ Merge(p)
  PROVE  Promise(p)' /\ ("disk" \notin May => FaultlessPromise(p)')
<1> USE DEF Swept, Filling, BeforeTar, MergesIn, Unpassed, Passing, Passed, At,
            Go, Return, Over
<1>0. /\ pc \in [Attempts -> Steps] /\ place \in [Attempts -> Dirs]
      /\ Promise(p) /\ ("disk" \notin May => FaultlessPromise(p))
  BY DEF Promises, IType, TypeOK
<1>1. CASE Convert(p)
  BY <1>0, <1>1 DEF Promise, FaultlessPromise, Convert, tags, Dirs
<1>2. CASE MoveMerged(p) \/ MoveSingle(p)
  BY <1>0, <1>2 DEF Promise, FaultlessPromise, MoveMerged, MoveSingle, Keep, tags
<1>3. CASE MoveDone(p) \/ Clean(p)
  BY <1>0, <1>3 DEF Promise, FaultlessPromise, MoveDone, Clean, Keep, tags, files
<1>4. CASE MergeGroup(p)
  BY <1>0, <1>4 DEF Promise, FaultlessPromise, MergeGroup, tags
<1>5. CASE MergeFails(p)
  BY <1>0, <1>5 DEF Promise, FaultlessPromise, MergeFails, AfterMerge, Keep, tags
<1>6. CASE UnlinkMerged(p)
  BY <1>0, <1>6 DEF Promise, FaultlessPromise, UnlinkMerged, tags
<1>7. CASE MergeDone(p)
  BY <1>0, <1>7 DEF Promise, FaultlessPromise, MergeDone, AfterMerge, Keep, tags,
     files, Dirs
<1> QED BY <1>1, <1>2, <1>3, <1>4, <1>5, <1>6, <1>7 DEF ConvertRecords, Merge

(* The same through the program, the check of its output and               *)
(* archiveOutput().                                                        *)
LEMMA RunPromise ==
  ASSUME Promises, NoOverlap, NEW p \in Attempts, Run(p) \/ Archive(p)
  PROVE  Promise(p)' /\ ("disk" \notin May => FaultlessPromise(p)')
<1> USE DEF Swept, Filling, BeforeTar, MergesIn, Unpassed, Passing, Passed, At,
            Go, Return, Over
<1>0. /\ pc \in [Attempts -> Steps] /\ rc \in [Attempts -> {0, 1, 2, 3, 10, 12}]
      /\ Promise(p) /\ ("disk" \notin May => FaultlessPromise(p))
  BY DEF Promises, IType, TypeOK
<1>1. CASE WriteProduct(p)
  BY <1>0, <1>1 DEF Promise, FaultlessPromise, WriteProduct, Keep, tags
<1>2. CASE RunEnds(p)
  BY <1>0, <1>2 DEF Promise, FaultlessPromise, RunEnds, Keep, tags, files
<1>3. CASE QcOutputFails(p) \/ QcOutputPasses(p)
  BY <1>0, <1>3 DEF Promise, FaultlessPromise, QcOutputFails, QcOutputPasses,
     Keep, tags, files
<1>4. CASE List(p)
  BY <1>0, <1>4 DEF Promise, FaultlessPromise, List, tags, files
<1>5. CASE ArchiveTag(p)
  BY <1>0, <1>5 DEF Promise, FaultlessPromise, ArchiveTag, files
<1>6. CASE ArchiveCopy(p)
  BY <1>0, <1>6 DEF Promise, FaultlessPromise, ArchiveCopy, tags
<1>7. CASE UnlinkArchived(p) \/ ArchiveEnds(p)
  BY <1>0, <1>7 DEF Promise, FaultlessPromise, UnlinkArchived, ArchiveEnds, tags,
     files
<1> QED BY <1>1, <1>2, <1>3, <1>4, <1>5, <1>6, <1>7 DEF Run, Archive

(* The same through packCycle() and the end of runCycle().                 *)
LEMMA PackPromise ==
  ASSUME Promises, NoOverlap, NEW p \in Attempts, PackCycle(p)
  PROVE  Promise(p)' /\ ("disk" \notin May => FaultlessPromise(p)')
<1> USE DEF Swept, Filling, BeforeTar, MergesIn, Unpassed, Passing, Passed, At,
            Go, Return, Over
<1>0. /\ pc \in [Attempts -> Steps] /\ rc \in [Attempts -> {0, 1, 2, 3, 10, 12}]
      /\ place \in [Attempts -> Dirs]
      /\ Promise(p) /\ ("disk" \notin May => FaultlessPromise(p))
  BY DEF Promises, IType, TypeOK
<1>1. CASE RescueTag(p)
  BY <1>0, <1>1 DEF Promise, FaultlessPromise, RescueTag, Keep, files
<1>2. CASE RefusePack(p)
  BY <1>0, <1>2 DEF Promise, FaultlessPromise, RefusePack, Keep, tags, files
<1>3. CASE Pack(p)
  BY <1>0, <1>3 DEF Promise, FaultlessPromise, Pack, tags, files
<1>4. CASE StartTar(p)
  BY <1>0, <1>4 DEF Promise, FaultlessPromise, StartTar, Keep, tags, NoTar
<1>5. CASE EndTar(p)
  BY <1>0, <1>5 DEF Promise, FaultlessPromise, EndTar, Keep, tags
<1>6. CASE Flag(p)
  BY <1>0, <1>6 DEF Promise, FaultlessPromise, Flag, Keep, Write, files
<1>7. CASE Complete(p)
  BY <1>0, <1>7 DEF Promise, FaultlessPromise, Complete, Keep, Write, files
<1>8. CASE Unlock(p)
  BY <1>0, <1>8 DEF Promise, FaultlessPromise, Unlock, tags, files
<1> QED BY <1>1, <1>2, <1>3, <1>4, <1>5, <1>6, <1>7, <1>8 DEF PackCycle

(* A step of an attempt leaves the input as it is, and ends no other       *)
(* attempt.                                                                *)
LEMMA StepFrame ==
  ASSUME IType, NEW p \in Attempts, Step(p)
  PROVE  /\ UNCHANGED <<sound, input>>
         /\ \A q \in Attempts \ {p} : rc'[q] = rc[q]
<1>0. rc \in [Attempts -> {0, 1, 2, 3, 10, 12}]  BY DEF IType, TypeOK
<1>1. CASE Prepare(p)
  BY <1>0, <1>1 DEF Prepare, CheckEnvironment, TestLock, CreateLock, RemoveOld,
     ScanInput, Verdict, RejectInput, Return, Keep
<1>2. CASE ConvertRecords(p)
  BY <1>0, <1>2 DEF ConvertRecords, Convert, MoveMerged, MoveSingle, MoveDone,
     Clean, Keep
<1>3. CASE Merge(p)
  BY <1>0, <1>3 DEF Merge, MergeGroup, MergeFails, UnlinkMerged, MergeDone, Keep
<1>4. CASE Run(p)
  BY <1>0, <1>4 DEF Run, WriteProduct, RunEnds, QcOutputFails, QcOutputPasses,
     Return, Keep
<1>5. CASE Archive(p)
  BY <1>0, <1>5 DEF Archive, List, ArchiveTag, ArchiveCopy, UnlinkArchived,
     ArchiveEnds
<1>6. CASE PackCycle(p)
  BY <1>0, <1>6 DEF PackCycle, RescueTag, RefusePack, Pack, StartTar, EndTar,
     Flag, Complete, Unlock, Return, Keep
<1> QED BY <1>1, <1>2, <1>3, <1>4, <1>5, <1>6 DEF Step

(* An attempt that is not at work relies on nothing but its input.         *)
LEMMA RestingPromise ==
  ASSUME NEW p \in Attempts, pc[p] \in Over \cup {"idle"}
  PROVE  /\ Promise(p) <=> (sound[p] => input = "good")
         /\ FaultlessPromise(p)
BY DEF Promise, FaultlessPromise, BeforeTar, Swept, Filling, MergesIn, Unpassed,
       Passing, Passed, Over

(* The same in the next state.                                             *)
LEMMA RestsPromise ==
  ASSUME NEW p \in Attempts, pc'[p] \in Over \cup {"idle"}
  PROVE  /\ Promise(p)' <=> (sound'[p] => input' = "good")
         /\ FaultlessPromise(p)'
BY DEF Promise, FaultlessPromise, BeforeTar, Swept, Filling, MergesIn, Unpassed,
       Passing, Passed, Over

(* Every step keeps what the contract needs.                               *)
LEMMA PromisesNext ==
  ASSUME Promises, IType', NoOverlap, [Next]_vars
  PROVE  Promises'
<1>0. /\ pc \in [Attempts -> Steps] /\ sound \in [Attempts -> BOOLEAN]
      /\ \A q \in Attempts : Promise(q) /\ (sound[q] => input = "good")
  BY DEF Promises, IType, TypeOK, Promise
<1>1. CASE UNCHANGED vars
  BY <1>1 DEF Promises, Alone, Running, Promise, FaultlessPromise, vars, locals,
     tags, files, MergesIn, Unpassed, Passing, Passed
<1>2. ASSUME NEW p \in Attempts, Submit(p) PROVE Promises'
  <2>1. /\ Idle /\ pc' = [pc EXCEPT ![p] = "env"]
        /\ sound' = [sound EXCEPT ![p] = input = "good"] /\ input' = input
    BY <1>2 DEF Submit, Go, NoOverlap
  <2>2. \A q \in Attempts : ~Running(q)  BY <2>1 DEF Idle
  <2>3. Alone'  BY <1>0, <2>1, <2>2 DEF Alone, Running
  <2>4. Promise(p)' /\ FaultlessPromise(p)'
    BY <1>0, <2>1 DEF Promise, FaultlessPromise, BeforeTar, Swept, Filling,
       MergesIn, Unpassed, Passing, Passed
  <2>5. ASSUME NEW q \in Attempts \ {p} PROVE Promise(q)' /\ FaultlessPromise(q)'
    <3>1. pc'[q] \in Over \cup {"idle"}  BY <1>0, <2>1, <2>2 DEF Running
    <3>2. sound'[q] => input' = "good"  BY <1>0, <2>1
    <3> QED BY <3>1, <3>2, RestsPromise
  <2> QED BY <2>3, <2>4, <2>5 DEF Promises
<1>3. ASSUME NEW p \in Attempts, Kill(p) PROVE Promises'
  <2>1. /\ Running(p) /\ pc' = [pc EXCEPT ![p] = "killed"]
        /\ UNCHANGED <<sound, input>>
    BY <1>3 DEF Kill, Go, Keep
  <2>2. \A q \in Attempts \ {p} : ~Running(q)  BY <2>1 DEF Promises, Alone
  <2>3. \A q \in Attempts : pc'[q] \in Over \cup {"idle"}
    BY <1>0, <2>1, <2>2 DEF Running, Over
  <2>4. \A q \in Attempts : Promise(q)' /\ FaultlessPromise(q)'
    BY <1>0, <2>1, <2>3, RestsPromise
  <2>5. Alone'  BY <2>3 DEF Alone, Running
  <2> QED BY <2>4, <2>5 DEF Promises
<1>4. ASSUME NEW p \in Attempts, Step(p) PROVE Promises'
  <2>1. /\ Running(p) /\ \A q \in Attempts \ {p} : pc'[q] = pc[q]
        /\ UNCHANGED <<sound, input>>
    BY <1>4, Frame, StepFrame DEF Promises
  <2>2. \A q \in Attempts \ {p} : ~Running(q)  BY <2>1 DEF Promises, Alone
  <2>3. Alone'  BY <2>1, <2>2 DEF Alone, Running
  <2>4. Promise(p)' /\ ("disk" \notin May => FaultlessPromise(p)')
    BY <1>4, PreparePromise, ConvertPromise, RunPromise, PackPromise DEF Step
  <2>5. ASSUME NEW q \in Attempts \ {p} PROVE Promise(q)' /\ FaultlessPromise(q)'
    <3>1. pc'[q] \in Over \cup {"idle"}  BY <2>1, <2>2 DEF Running
    <3> QED BY <1>0, <2>1, <3>1, RestsPromise
  <2> QED BY <2>3, <2>4, <2>5 DEF Promises
<1>5. CASE RemoveLock \/ RelinkInput \/ SourceRepaired
  <2>1. /\ Idle /\ UNCHANGED <<pc, sound>> /\ (input = "good" => input' = "good")
    BY <1>5 DEF RemoveLock, RelinkInput, SourceRepaired, locals
  <2>2. \A q \in Attempts : pc'[q] \in Over \cup {"idle"}
    BY <2>1 DEF Idle, Running
  <2>3. \A q \in Attempts : Promise(q)' /\ FaultlessPromise(q)'
    BY <1>0, <2>1, <2>2, RestsPromise
  <2>4. Alone'  BY <2>2 DEF Alone, Running
  <2> QED BY <2>3, <2>4 DEF Promises
<1>6. CASE SourceExpires
  <2>1. /\ sound' = [p \in Attempts |-> FALSE]
        /\ UNCHANGED <<pc, place, lock, outTag, status, completed, out, tar>>
    BY <1>6 DEF SourceExpires, tags, files
  <2>2. Alone'  BY <2>1 DEF Promises, Alone, Running
  <2>3. ASSUME NEW q \in Attempts
        PROVE  Promise(q)' /\ ("disk" \notin May => FaultlessPromise(q)')
    BY <2>1 DEF Promises, Promise, FaultlessPromise, MergesIn, Unpassed, Passing,
       Passed
  <2> QED BY <2>2, <2>3 DEF Promises
<1> QED BY <1>1, <1>2, <1>3, <1>4, <1>5, <1>6 DEF Next, Environment

(* So it always holds.                                                     *)
LEMMA PromisesHold ==
  ASSUME NoOverlap
  PROVE  Spec => []Promises
<1>1. Init => Promises
  <2> SUFFICES ASSUME Init PROVE Promises
    OBVIOUS
  <2>1. IType  BY TypeInit
  <2>2. \A p \in Attempts : pc[p] = "idle" /\ ~sound[p]  BY DEF Init
  <2>3. Alone  BY <2>2 DEF Alone, Running
  <2> QED BY <2>1, <2>2, <2>3, RestingPromise DEF Promises
<1>2. Promises /\ [Next]_vars => Promises'
  <2>1. Promises => IType  BY DEF Promises
  <2> QED BY <2>1, TypeNext, PromisesNext
<1> QED BY <1>1, <1>2, PTL DEF Spec

-------------------------------------------------------------------------------
(* Flawed input is processed only after a kill.                            *)

SomeKilled == \E q \in Attempts : pc[q] = "killed"

(* While the input is flawed, a tag is that of a check that has not looked *)
(* at its findings yet, or some attempt was killed.                        *)
TagInv ==
  input = "flawed" =>
    /\ inTag => SomeKilled \/ \E q \in Attempts : pc[q] = "verdict"
    /\ \A p \in Attempts : pc[p] = "convert" => inTag /\ SomeKilled

(* A step that is not of the check leaves the tag alone.                   *)
LEMMA TagStays ==
  ASSUME NEW p \in Attempts, Step(p), ~ScanInput(p), ~Verdict(p)
  PROVE  inTag' = inTag
<1>1. CASE Prepare(p)
  BY <1>1 DEF Prepare, CheckEnvironment, TestLock, CreateLock, RemoveOld,
     RejectInput, tags
<1>2. CASE ConvertRecords(p)
  BY <1>2 DEF ConvertRecords, Convert, MoveMerged, MoveSingle, MoveDone, Clean, tags
<1>3. CASE Merge(p)
  BY <1>3 DEF Merge, MergeGroup, MergeFails, UnlinkMerged, MergeDone, tags
<1>4. CASE Run(p)
  BY <1>4 DEF Run, WriteProduct, RunEnds, QcOutputFails, QcOutputPasses, tags
<1>5. CASE Archive(p)
  BY <1>5 DEF Archive, List, ArchiveTag, ArchiveCopy, UnlinkArchived, ArchiveEnds, tags
<1>6. CASE PackCycle(p)
  BY <1>6 DEF PackCycle, RescueTag, RefusePack, Pack, StartTar, EndTar, Flag,
     Complete, Unlock, tags
<1> QED BY <1>1, <1>2, <1>3, <1>4, <1>5, <1>6 DEF Step

(* Only the check goes on to the conversion, and to its verdict; a step    *)
(* from the verdict is the verdict.                                        *)
LEMMA ConvertBegins ==
  ASSUME IType, NEW p \in Attempts, Step(p), ~ScanInput(p), ~Verdict(p)
  PROVE  pc'[p] \notin {"convert", "verdict", "killed"} /\ pc[p] # "verdict"
<1>0. pc \in [Attempts -> Steps]  BY DEF IType, TypeOK
<1>1. CASE Prepare(p)
  BY <1>0, <1>1 DEF Prepare, CheckEnvironment, TestLock, CreateLock, RemoveOld,
     RejectInput, At, Go, Return
<1>2. CASE ConvertRecords(p)
  BY <1>0, <1>2 DEF ConvertRecords, Convert, MoveMerged, MoveSingle, MoveDone,
     Clean, At, Go
<1>3. CASE Merge(p)
  BY <1>0, <1>3 DEF Merge, MergeGroup, MergeFails, UnlinkMerged, MergeDone,
     AfterMerge, At, Go
<1>4. CASE Run(p)
  BY <1>0, <1>4 DEF Run, WriteProduct, RunEnds, QcOutputFails, QcOutputPasses,
     At, Go, Return
<1>5. CASE Archive(p)
  BY <1>0, <1>5 DEF Archive, List, ArchiveTag, ArchiveCopy, UnlinkArchived,
     ArchiveEnds, At, Go
<1>6. CASE PackCycle(p)
  BY <1>0, <1>6 DEF PackCycle, RescueTag, RefusePack, Pack, StartTar, EndTar,
     Flag, Complete, Unlock, At, Go, Return
<1> QED BY <1>1, <1>2, <1>3, <1>4, <1>5, <1>6 DEF Step

(* With one attempt at a time, flawed input is processed only after a      *)
(* kill, by an attempt that finds a tag.                                   *)
THEOREM FlawedInputNeedsKill ==
  ASSUME NoOverlap
  PROVE  Spec => []FlawedNeedsKill
<1>1. Init => TagInv
  BY DEF Init, TagInv
<1>2. Promises /\ TagInv /\ [Next]_vars => TagInv'
  <2> SUFFICES ASSUME Promises, TagInv, [Next]_vars  PROVE TagInv'
    OBVIOUS
  <2>0. pc \in [Attempts -> Steps]  BY DEF Promises, IType, TypeOK
  <2>1. CASE UNCHANGED vars
    BY <2>1 DEF TagInv, SomeKilled, vars, locals, tags
  <2>2. CASE Environment
    BY <2>2 DEF TagInv, SomeKilled, Environment, RemoveLock, RelinkInput,
       SourceRepaired, SourceExpires, locals, tags
  <2>3. ASSUME NEW p \in Attempts, Submit(p)  PROVE TagInv'
    BY <2>0, <2>3 DEF TagInv, SomeKilled, Submit, At, Go, tags
  <2>4. ASSUME NEW p \in Attempts, Kill(p)  PROVE TagInv'
    <3>1. pc' = [pc EXCEPT ![p] = "killed"] /\ input' = input /\ inTag' = inTag
      BY <2>4 DEF Kill, Go, Keep, tags
    <3> QED BY <2>0, <3>1 DEF TagInv, SomeKilled
  <2>5. ASSUME NEW p \in Attempts, Step(p)  PROVE TagInv'
    <3>1. /\ Running(p) /\ \A q \in Attempts \ {p} : pc'[q] = pc[q]
          /\ input' = input
      BY <2>5, Frame, StepFrame DEF Promises
    <3>2. \A q \in Attempts \ {p} : pc[q] \notin {"verdict", "convert"}
      BY <2>0, <3>1 DEF Promises, Alone, Running, Over
    <3>3. pc[p] # "killed"  BY <3>1 DEF Running, Over
    <3>4. SomeKilled => SomeKilled'  BY <3>1, <3>3 DEF SomeKilled
    <3>5. CASE ScanInput(p)
      <4>0. /\ Go(p, "convert") => pc'[p] = "convert"
            /\ Go(p, "verdict") => pc'[p] = "verdict"
        BY <2>0 DEF Go
      <4>1. pc[p] = "scan"  BY <3>5 DEF ScanInput, At
      <4>2. CASE input # "flawed"
        BY <3>1, <4>2 DEF TagInv
      <4>3. CASE input = "flawed" /\ inTag
        <5>1. inTag' /\ pc'[p] = "convert"
          BY <3>5, <4>0, <4>3 DEF ScanInput
        <5>2. SomeKilled  BY <3>2, <4>1, <4>3 DEF TagInv
        <5> QED BY <3>4, <4>3, <5>1, <5>2 DEF TagInv
      <4>4. CASE input = "flawed" /\ ~inTag
        <5>1. pc'[p] = "verdict"
          BY <3>5, <4>0, <4>4 DEF ScanInput
        <5>2. \A q \in Attempts : pc'[q] # "convert"
          BY <3>1, <3>2, <5>1
        <5> QED BY <5>1, <5>2 DEF TagInv
      <4> QED BY <4>2, <4>3, <4>4
    <3>6. CASE Verdict(p)
      BY <2>0, <3>1, <3>2, <3>6 DEF Verdict, Go, TagInv
    <3>7. CASE ~ScanInput(p) /\ ~Verdict(p)
      <4>1. inTag' = inTag  BY <2>5, <3>7, TagStays
      <4>2. pc'[p] \notin {"convert", "verdict", "killed"} /\ pc[p] # "verdict"
        BY <2>5, <3>7, ConvertBegins DEF Promises
      <4> QED BY <3>1, <3>2, <3>4, <4>1, <4>2 DEF TagInv
    <3> QED BY <3>5, <3>6, <3>7
  <2> QED BY <2>1, <2>2, <2>3, <2>4, <2>5 DEF Next
<1>3. TagInv => FlawedNeedsKill
  BY DEF TagInv, FlawedNeedsKill, SomeKilled, At
<1> QED BY <1>1, <1>2, <1>3, PromisesHold, PTL DEF Spec

-------------------------------------------------------------------------------
(* The steps of the contract, one by one.                                  *)

(* What the workflow sees of the attempts after a step of one of them.     *)
LEMMA ProgressFrame ==
  ASSUME NEW p \in Attempts,
         \A q \in Attempts \ {p} : pc'[q] = pc[q] /\ rc'[q] = rc[q]
  PROVE  /\ \A q \in Attempts \ {p} : Progress(q)' = Progress(q)
         /\ \A from, to :
              Progress(p) = from /\ Progress(p)' = to => Contract!Becomes("cycle", p, from, to)
<1>1. \A q \in Attempts \ {p} : Progress(q)' = Progress(q)
  BY DEF Progress, Ending, Running
<1>2. ASSUME NEW from, NEW to, Progress(p) = from, Progress(p)' = to
      PROVE  Contract!Becomes("cycle", p, from, to)
  BY <1>1, <1>2 DEF Contract!Becomes
<1> QED BY <1>1, <1>2

(* What it sees of an attempt, by where the attempt is.                    *)
LEMMA ProgressValues ==
  ASSUME NEW p \in Attempts
  PROVE  /\ pc[p] = "idle" => Progress(p) = "waiting"
         /\ pc[p] \in {"env", "test", "create"} => Progress(p) = "starting"
         /\ pc[p] = "remove" => Progress(p) = "locked"
         /\ Running(p) /\ pc[p] \notin {"env", "test", "create", "remove"} =>
              Progress(p) = "working"
         /\ pc[p] = "killed" => Progress(p) = "killed"
         /\ pc[p] = "returned" =>
              /\ rc[p] \in {1, 2, 3} => Progress(p) = "refused"
              /\ rc[p] = 10 => Progress(p) = "rejected"
              /\ rc[p] = 12 => Progress(p) = "failed"
              /\ rc[p] = 0 => Progress(p) = "delivered"
<1>2. ASSUME pc[p] \in Over  PROVE Progress(p) = Ending(p)
  BY <1>2 DEF Progress, Running, Over
<1>3. pc[p] = "killed" => Ending(p) = "killed"
  BY DEF Ending
<1>4. ASSUME pc[p] = "returned"
      PROVE  /\ rc[p] \in {1, 2, 3} => Ending(p) = "refused"
             /\ rc[p] = 10 => Ending(p) = "rejected"
             /\ rc[p] = 12 => Ending(p) = "failed"
             /\ rc[p] = 0 => Ending(p) = "delivered"
  <2>1. CASE rc[p] \in {1, 2, 3}
    BY <1>4, <2>1 DEF Ending
  <2>2. CASE rc[p] = 10
    BY <1>4, <2>2 DEF Ending
  <2>3. CASE rc[p] = 12
    BY <1>4, <2>3 DEF Ending
  <2>4. CASE rc[p] = 0
    BY <1>4, <2>4 DEF Ending
  <2> QED BY <2>1, <2>2, <2>3, <2>4
<1>5. /\ pc[p] = "idle" => Progress(p) = "waiting"
      /\ pc[p] \in {"env", "test", "create"} => Progress(p) = "starting"
      /\ pc[p] = "remove" => Progress(p) = "locked"
      /\ Running(p) /\ pc[p] \notin {"env", "test", "create", "remove"} =>
           Progress(p) = "working"
  BY DEF Progress, Running, Over
<1> QED BY <1>2, <1>3, <1>4, <1>5 DEF Over

(* The same in the next state.                                             *)
LEMMA ProgressBecomes ==
  ASSUME NEW p \in Attempts
  PROVE  /\ pc'[p] = "idle" => Progress(p)' = "waiting"
         /\ pc'[p] \in {"env", "test", "create"} => Progress(p)' = "starting"
         /\ pc'[p] = "remove" => Progress(p)' = "locked"
         /\ Running(p)' /\ pc'[p] \notin {"env", "test", "create", "remove"} =>
              Progress(p)' = "working"
         /\ pc'[p] = "killed" => Progress(p)' = "killed"
         /\ pc'[p] = "returned" =>
              /\ rc'[p] \in {1, 2, 3} => Progress(p)' = "refused"
              /\ rc'[p] = 10 => Progress(p)' = "rejected"
              /\ rc'[p] = 12 => Progress(p)' = "failed"
              /\ rc'[p] = 0 => Progress(p)' = "delivered"
<1>2. ASSUME pc'[p] \in Over  PROVE Progress(p)' = Ending(p)'
  BY <1>2 DEF Progress, Running, Over
<1>3. pc'[p] = "killed" => Ending(p)' = "killed"
  BY DEF Ending
<1>4. ASSUME pc'[p] = "returned"
      PROVE  /\ rc'[p] \in {1, 2, 3} => Ending(p)' = "refused"
             /\ rc'[p] = 10 => Ending(p)' = "rejected"
             /\ rc'[p] = 12 => Ending(p)' = "failed"
             /\ rc'[p] = 0 => Ending(p)' = "delivered"
  <2>1. CASE rc'[p] \in {1, 2, 3}
    BY <1>4, <2>1 DEF Ending
  <2>2. CASE rc'[p] = 10
    BY <1>4, <2>2 DEF Ending
  <2>3. CASE rc'[p] = 12
    BY <1>4, <2>3 DEF Ending
  <2>4. CASE rc'[p] = 0
    BY <1>4, <2>4 DEF Ending
  <2> QED BY <2>1, <2>2, <2>3, <2>4
<1>5. /\ pc'[p] = "idle" => Progress(p)' = "waiting"
      /\ pc'[p] \in {"env", "test", "create"} => Progress(p)' = "starting"
      /\ pc'[p] = "remove" => Progress(p)' = "locked"
      /\ Running(p)' /\ pc'[p] \notin {"env", "test", "create", "remove"} =>
           Progress(p)' = "working"
  BY DEF Progress, Running, Over
<1> QED BY <1>2, <1>3, <1>4, <1>5 DEF Over

(* The steps of an attempt at work that the workflow does not see: neither *)
(* the lock nor the state of the tar file changes.                         *)
AtWork(p) == Running(p) /\ pc[p] \notin {"env", "test", "create", "remove"}

LEMMA Unseen ==
  ASSUME NEW p \in Attempts, AtWork(p), AtWork(p)', UNCHANGED <<sound, lock>>,
         tar'.state = tar.state,
         \A q \in Attempts \ {p} : pc'[q] = pc[q] /\ rc'[q] = rc[q]
  PROVE  UNCHANGED Contract!driver
<1>1. Progress(p) = "working" /\ Progress(p)' = "working"
  BY ProgressValues, ProgressBecomes DEF AtWork
<1>2. \A q \in Attempts : Progress(q)' = Progress(q)
  BY <1>1, ProgressFrame
<1> QED BY <1>2 DEF Contract!driver

(* The steps before the conversion, and the lock they take and drop.       *)
LEMMA PrepareContract ==
  ASSUME Promises, NEW p \in Attempts, Prepare(p)
  PROVE  Contract!DriverStep("cycle", p) \/ UNCHANGED Contract!driver
<1> USE DEF At, Go, Return
<1>0. /\ pc \in [Attempts -> Steps] /\ rc \in [Attempts -> {0, 1, 2, 3, 10, 12}]
      /\ Promise(p) /\ UNCHANGED sound
      /\ \A q \in Attempts \ {p} : pc'[q] = pc[q] /\ rc'[q] = rc[q]
  BY Frame, StepFrame DEF Promises, IType, TypeOK, Step
<1>1. CASE CheckEnvironment(p) \/ TestLock(p)
  <2>1. UNCHANGED <<lock, tar>>
    BY <1>1 DEF CheckEnvironment, TestLock, files
  <2>2. /\ Progress(p) = "starting"
        /\ Progress(p)' = "refused" \/ Progress(p)' = "starting"
    BY <1>0, <1>1, ProgressValues, ProgressBecomes DEF CheckEnvironment, TestLock
  <2>3. CASE Progress(p)' = "starting"
    <3>1. \A q \in Attempts : Progress(q)' = Progress(q)
      BY <1>0, <2>2, <2>3, ProgressFrame
    <3> QED BY <1>0, <2>1, <3>1 DEF Contract!driver
  <2>4. CASE Progress(p)' = "refused"
    <3>1. Contract!Becomes("cycle", p, "starting", "refused")
      BY <1>0, <2>2, <2>4, ProgressFrame
    <3>2. Contract!Refuse("cycle", p)  BY <1>0, <2>1, <3>1 DEF Contract!Refuse
    <3> QED BY <3>2 DEF Contract!DriverStep
  <2> QED BY <2>2, <2>3, <2>4
<1>2. CASE CreateLock(p)
  <2>1. lock = None /\ UNCHANGED tar /\ (lock' = p \/ ("disk" \in May /\ lock' = lock))
    BY <1>0, <1>2 DEF CreateLock, Promise, files, Write
  <2>2. Contract!Becomes("cycle", p, "starting", "locked")
    BY <1>0, <1>2, ProgressFrame, ProgressValues, ProgressBecomes DEF CreateLock
  <2>3. Contract!TakeLock("cycle", p)
    <3>1. ~(lock # None) /\ p # None
      BY <2>1, AttemptAssumption
    <3>2. CASE lock' = p
      BY <1>0, <2>1, <2>2, <3>1, <3>2 DEF Contract!TakeLock
    <3>3. CASE "disk" \in May /\ lock' = lock
      BY <1>0, <2>1, <2>2, <3>1, <3>3 DEF Contract!TakeLock
    <3> QED BY <2>1, <3>2, <3>3
  <2> QED BY <2>3 DEF Contract!DriverStep
<1>3. CASE RemoveOld(p)
  <2>1. UNCHANGED lock /\ tar'.state = "none"
    BY <1>3 DEF RemoveOld, NoTar
  <2>2. Contract!Becomes("cycle", p, "locked", "working")
    BY <1>0, <1>3, ProgressFrame, ProgressValues, ProgressBecomes
       DEF RemoveOld, Running, Over
  <2>3. Contract!Clear("cycle", p)
    BY <1>0, <2>1, <2>2 DEF Contract!Clear
  <2> QED BY <2>3 DEF Contract!DriverStep
<1>4. CASE ScanInput(p) \/ Verdict(p)
  <2>1. UNCHANGED <<lock, tar>> /\ AtWork(p) /\ AtWork(p)'
    BY <1>0, <1>4 DEF ScanInput, Verdict, files, AtWork, Running, Over
  <2> QED BY <1>0, <2>1, Unseen
<1>5. CASE RejectInput(p)
  <2>1. ~sound[p] /\ tar.state = "none" /\ UNCHANGED tar /\ lock' = None
    BY <1>0, <1>5 DEF RejectInput, Promise, BeforeTar, Swept, files
  <2>2. Contract!Becomes("cycle", p, "working", "rejected")
    BY <1>0, <1>5, ProgressFrame, ProgressValues, ProgressBecomes
       DEF RejectInput, Running, Over
  <2>3. Contract!Reject("cycle", p)
    BY <1>0, <2>1, <2>2 DEF Contract!Reject
  <2> QED BY <2>3 DEF Contract!DriverStep
<1> QED BY <1>1, <1>2, <1>3, <1>4, <1>5 DEF Prepare

(* Conversion and merging.                                                 *)
LEMMA ConvertContract ==
  ASSUME Promises, NEW p \in Attempts, ConvertRecords(p) \/ Merge(p)
  PROVE  UNCHANGED Contract!driver
<1> USE DEF At, Go
<1>0. /\ pc \in [Attempts -> Steps] /\ UNCHANGED sound
      /\ \A q \in Attempts \ {p} : pc'[q] = pc[q] /\ rc'[q] = rc[q]
  BY Frame, StepFrame DEF Promises, IType, TypeOK, Step
<1>1. UNCHANGED <<lock, tar>>
  BY DEF ConvertRecords, Merge, Convert, MoveMerged, MoveSingle, MoveDone, Clean,
     MergeGroup, MergeFails, UnlinkMerged, MergeDone, files
<1>2. AtWork(p) /\ AtWork(p)'
  BY <1>0 DEF ConvertRecords, Merge, Convert, MoveMerged, MoveSingle, MoveDone,
     Clean, MergeGroup, MergeFails, UnlinkMerged, MergeDone, AfterMerge, AtWork,
     Running, Over
<1> QED BY <1>0, <1>1, <1>2, Unseen

(* The program, the check of its output and archiveOutput().               *)
LEMMA RunContract ==
  ASSUME Promises, NEW p \in Attempts, Run(p) \/ Archive(p)
  PROVE  Contract!DriverStep("cycle", p) \/ UNCHANGED Contract!driver
<1> USE DEF At, Go, Return
<1>0. /\ pc \in [Attempts -> Steps] /\ rc \in [Attempts -> {0, 1, 2, 3, 10, 12}]
      /\ Promise(p) /\ ("disk" \notin May => FaultlessPromise(p)) /\ UNCHANGED sound
      /\ \A q \in Attempts \ {p} : pc'[q] = pc[q] /\ rc'[q] = rc[q]
  BY Frame, StepFrame DEF Promises, IType, TypeOK, Step
<1>1. CASE QcOutputFails(p)
  <2>1. UNCHANGED <<lock, tar>> /\ tar.state = "none"
    BY <1>0, <1>1 DEF QcOutputFails, Promise, BeforeTar, Filling, files
  <2>2. ~sound[p] \/ "disk" \in May
    BY <1>0, <1>1, AttemptAssumption DEF QcOutputFails, FaultlessPromise
  <2>3. Contract!Becomes("cycle", p, "working", "failed")
    BY <1>0, <1>1, ProgressFrame, ProgressValues, ProgressBecomes
       DEF QcOutputFails, Running, Over
  <2>4. Contract!FailOutput("cycle", p)
    BY <1>0, <2>1, <2>2, <2>3 DEF Contract!FailOutput
  <2> QED BY <2>4 DEF Contract!DriverStep
<1>2. CASE ~QcOutputFails(p)
  <2>1. UNCHANGED <<lock, tar>>
    BY <1>2 DEF Run, Archive, WriteProduct, RunEnds, QcOutputPasses, List,
       ArchiveTag, ArchiveCopy, UnlinkArchived, ArchiveEnds, files
  <2>2. AtWork(p) /\ AtWork(p)'
    BY <1>0, <1>2 DEF Run, Archive, WriteProduct, RunEnds, QcOutputPasses, List,
       ArchiveTag, ArchiveCopy, UnlinkArchived, ArchiveEnds, AtWork, Running, Over
  <2> QED BY <1>0, <2>1, <2>2, Unseen
<1> QED BY <1>1, <1>2

(* packCycle() and the end of runCycle().                                  *)
LEMMA PackContract ==
  ASSUME Promises, NEW p \in Attempts, PackCycle(p)
  PROVE  Contract!DriverStep("cycle", p) \/ UNCHANGED Contract!driver
<1> USE DEF At, Go, Return
<1>0. /\ pc \in [Attempts -> Steps] /\ rc \in [Attempts -> {0, 1, 2, 3, 10, 12}]
      /\ Promise(p) /\ ("disk" \notin May => FaultlessPromise(p)) /\ UNCHANGED sound
      /\ \A q \in Attempts \ {p} : pc'[q] = pc[q] /\ rc'[q] = rc[q]
  BY Frame, StepFrame DEF Promises, IType, TypeOK, Step
<1>1. CASE StartTar(p) \/ EndTar(p)
  <2>1. UNCHANGED lock /\ AtWork(p) /\ AtWork(p)'
    BY <1>0, <1>1 DEF StartTar, EndTar, AtWork, Running, Over
  <2>2. Progress(p) = "working" /\ Progress(p)' = "working"
    BY <2>1, ProgressValues, ProgressBecomes DEF AtWork
  <2>3. \A q \in Attempts : Progress(q)' = Progress(q)
    BY <1>0, <2>2, ProgressFrame
  <2>4. \/ tar.state = "none" /\ tar'.state = "partial"
        \/ tar.state = "partial" /\ tar'.state = "whole"
        \/ UNCHANGED tar
    BY <1>0, <1>1 DEF StartTar, EndTar, Promise, BeforeTar, NoTar
  <2>5. CASE UNCHANGED tar  BY <1>0, <2>1, <2>5, Unseen
  <2>6. CASE ~UNCHANGED tar
    <3>1. Contract!BuildTar("cycle", p)
      BY <1>0, <2>1, <2>2, <2>3, <2>4, <2>6 DEF Contract!BuildTar
    <3> QED BY <3>1 DEF Contract!DriverStep
  <2> QED BY <2>5, <2>6
<1>2. CASE Unlock(p)
  <2>1. UNCHANGED tar /\ lock' = None /\ (tar.state = "whole" \/ "disk" \in May)
    BY <1>0, <1>2 DEF Unlock, FaultlessPromise, files
  <2>2. Contract!Becomes("cycle", p, "working", "delivered")
    BY <1>0, <1>2, ProgressFrame, ProgressValues, ProgressBecomes
       DEF Unlock, Running, Over
  <2>3. Contract!Deliver("cycle", p)
    BY <1>0, <2>1, <2>2 DEF Contract!Deliver
  <2> QED BY <2>3 DEF Contract!DriverStep
<1>3. CASE RescueTag(p) \/ RefusePack(p) \/ Pack(p) \/ Flag(p) \/ Complete(p)
  <2>1. UNCHANGED <<lock, tar>>
    BY <1>3 DEF RescueTag, RefusePack, Pack, Flag, Complete, files
  <2>2. AtWork(p) /\ AtWork(p)'
    BY <1>0, <1>3 DEF RescueTag, RefusePack, Pack, Flag, Complete, AtWork, Running,
       Over
  <2> QED BY <1>0, <2>1, <2>2, Unseen
<1> QED BY <1>1, <1>2, <1>3 DEF PackCycle

(* An attempt is at work for the workflow as long as it runs.              *)
LEMMA ActiveMeansRunning ==
  Promises => \A p \in Attempts : (Progress(p) \in Contract!AtWork) <=> Running(p)
<1> SUFFICES ASSUME NEW p \in Attempts
             PROVE  (Progress(p) \in Contract!AtWork) <=> Running(p)
  OBVIOUS
<1>1. CASE Running(p)
  BY <1>1, ProgressValues DEF Contract!AtWork
<1>2. CASE ~Running(p)
  BY <1>2 DEF Contract!AtWork, Progress, Ending, Running, Over
<1> QED BY <1>1, <1>2

(* Submission and kill of an attempt.                                      *)
LEMMA SubmitContract ==
  ASSUME Promises, NoOverlap, NEW p \in Attempts, Submit(p) \/ Kill(p)
  PROVE  Contract!DriverNext
<1>0. /\ pc \in [Attempts -> Steps] /\ sound \in [Attempts -> BOOLEAN]
      /\ \A q \in Attempts : (Progress(q) \in Contract!AtWork) <=> Running(q)
  BY ActiveMeansRunning DEF Promises, IType, TypeOK
<1>1. CASE Submit(p)
  <2>1. /\ pc[p] = "idle" /\ Idle /\ pc' = [pc EXCEPT ![p] = "env"] /\ rc' = rc
        /\ sound' = [sound EXCEPT ![p] = input = "good"] /\ UNCHANGED <<lock, tar>>
    BY <1>1 DEF Submit, At, Go, NoOverlap, files
  <2>2. Contract!Becomes("cycle", p, "waiting", "starting")
    BY <1>0, <2>1, ProgressFrame, ProgressValues, ProgressBecomes
  <2>3. ~Contract!Active("cycle")
    BY <1>0, <2>1 DEF Contract!Active, Idle
  <2>4. Contract!Begin("cycle", p, input = "good")
    BY <1>0, <2>1, <2>2, <2>3 DEF Contract!Begin
  <2> QED BY <2>4 DEF Contract!DriverNext
<1>2. CASE Kill(p)
  <2>1. /\ Running(p) /\ pc' = [pc EXCEPT ![p] = "killed"]
        /\ UNCHANGED <<rc, sound, lock, tar>>
    BY <1>2 DEF Kill, Go, Keep, files
  <2>2. Progress(p) \in Contract!AtWork
    BY <1>0, <2>1
  <2>3. Contract!Becomes("cycle", p, Progress(p), "killed")
    BY <1>0, <2>1, ProgressFrame, ProgressBecomes
  <2>4. Contract!KillAttempt("cycle", p)
    BY <2>1, <2>2, <2>3 DEF Contract!KillAttempt
  <2> QED BY <2>4 DEF Contract!DriverNext
<1> QED BY <1>1, <1>2

(* What happens around the attempts.                                       *)
LEMMA EnvironmentContract ==
  ASSUME Promises, Environment
  PROVE  Contract!DriverNext \/ UNCHANGED Contract!driver
<1>1. CASE RemoveLock
  <2>1. Idle /\ lock' = None /\ UNCHANGED <<pc, rc, sound, tar>>
    BY <1>1 DEF RemoveLock, locals, files
  <2>2. ~Contract!Active("cycle")
    BY <2>1, ActiveMeansRunning DEF Contract!Active, Idle
  <2>3. \A q \in Attempts : Progress(q)' = Progress(q)
    BY <2>1 DEF Progress, Ending, Running
  <2>4. Contract!Unlock("cycle")
    BY <2>1, <2>2, <2>3 DEF Contract!Unlock
  <2> QED BY <2>4 DEF Contract!DriverNext
<1>2. CASE RelinkInput \/ SourceRepaired
  <2>1. UNCHANGED <<pc, rc, sound, lock, tar>>
    BY <1>2 DEF RelinkInput, SourceRepaired, locals, files
  <2> QED BY <2>1 DEF Contract!driver, Progress, Ending, Running
<1>3. CASE SourceExpires
  <2>1. sound' = [q \in Attempts |-> FALSE] /\ UNCHANGED <<pc, rc, lock, tar>>
    BY <1>3 DEF SourceExpires, files
  <2>2. \A q \in Attempts : Progress(q)' = Progress(q)
    BY <2>1 DEF Progress, Ending, Running
  <2>3. Contract!Spoil("cycle")
    BY <2>1, <2>2 DEF Contract!Spoil
  <2> QED BY <2>3 DEF Contract!DriverNext
<1> QED BY <1>1, <1>2, <1>3 DEF Environment

(* runCycle() keeps the contract of the workflow: it returns 0 only with a *)
(* whole tar file in place (or a disk that failed), 10 and 12 only without *)
(* one and only for input that was not good (or, for 12, a disk that       *)
(* failed), it takes only a lock that is free, touches the tar file only   *)
(* after that, and rebuilds it from nothing; wherever attempts are killed. *)
THEOREM ImplementsContract ==
  ASSUME NoOverlap
  PROVE  Spec => Contract!DriverInit /\ [][Contract!DriverNext]_(Contract!driver)
<1>1. Init => Contract!DriverInit
  <2> SUFFICES ASSUME Init PROVE Contract!DriverInit
    OBVIOUS
  <2>1. \A p \in Attempts : Progress(p) = "waiting"
    BY DEF Init, Progress
  <2>2. sound = [p \in Attempts |-> FALSE] /\ tar.state = "none" /\ lock = None
    BY DEF Init, NoTar
  <2> QED BY <2>1, <2>2 DEF Contract!DriverInit
<1>2. Promises /\ [Next]_vars => [Contract!DriverNext]_(Contract!driver)
  <2> SUFFICES ASSUME Promises, [Next]_vars
               PROVE  Contract!DriverNext \/ UNCHANGED Contract!driver
    OBVIOUS
  <2>1. CASE UNCHANGED vars
    BY <2>1 DEF vars, locals, files, Contract!driver, Progress, Ending, Running
  <2>2. ASSUME NEW p \in Attempts, Step(p)
        PROVE  Contract!DriverNext \/ UNCHANGED Contract!driver
    <3>1. Contract!DriverStep("cycle", p) \/ UNCHANGED Contract!driver
      BY <2>2, PrepareContract, ConvertContract, RunContract, PackContract DEF Step
    <3> QED BY <3>1 DEF Contract!DriverNext
  <2> QED BY <2>1, <2>2, SubmitContract, EnvironmentContract DEF Next
<1> QED BY <1>1, <1>2, PromisesHold, PTL DEF Spec

-------------------------------------------------------------------------------
(* The records.                                                            *)

(* What keeps the records of the attempt at work, also on a disk that      *)
(* fails: it converts into empty directories; what it unlinks after a      *)
(* merge is in the merged file; it moves no merged file over another; the  *)
(* clean-up after the move finds no product, and on a disk that works      *)
(* nothing; what archiveOutput() has still to copy is in the output, and   *)
(* what it unlinks is in the archive.                                      *)
Safe(p) ==
  /\ pc[p] \in Swept => dir = [d \in Dirs |-> Empty]
  /\ MergesIn(p, "stash") => \A r \in Records : ~In("archive", r)
  /\ pc[p] = "unlink" => \A r \in todo[p] : r \in Records /\ Merged(place[p], r)
  /\ pc[p] = "move" => \A r, s \in Records :
       Group[r] = Group[s] /\ Merged("stash", r) => ~Merged("archive", s)
  /\ BeforeArchive(p) => \A r \in Products : ~In("stash", r) /\ ~Merged("archive", r)
  /\ pc[p] = "clean" /\ "disk" \notin May => dir["stash"] = Empty
  /\ pc[p] \in {"archive", "check"} => \A r \in todo[p] \cap Products : out[r] # None
  /\ pc[p] = "check" => file[p] \in Products \ todo[p] /\ Single("archive", file[p])

Safety == Promises /\ \A p \in Attempts : Safe(p)

(* What an attempt with good input has made on a disk that works: all that *)
(* is in the directories; every converted record, in the archive from the  *)
(* clean-up on; every product, in the output or in the archive; and in the *)
(* end every record, once, in the tar file.                                *)
Archived(p) == pc[p] \in {"pack", "tar", "tarring"} \/ MergesIn(p, "archive")

Own(p) == \A d \in Dirs, r \in Records :
  dir[d].single[r] \in {None, p} /\ dir[d].merged[r] \in {<<>>, <<p>>}

Made(p) ==
  /\ pc[p] \in Swept \cup Working \cup {"unlink"} => Own(p)
  /\ pc[p] = "move" \/ MergesIn(p, "stash") =>
       \A r \in Converted : In("stash", r) \/ In("archive", r)
  /\ pc[p] \in {"clean", "run", "qcout", "list", "archive", "check"} =>
       \A r \in Converted : In("archive", r)
  /\ pc[p] = "list" => \A r \in Products : out[r] = p
  /\ pc[p] \in {"archive", "check"} =>
       \A r \in Products : IF r \in todo[p] THEN out[r] = p ELSE Single("archive", r)
  /\ Archived(p) => \A r \in Records : In("archive", r)
  /\ pc[p] \in {"flag", "complete", "unlock"} => tar.holds = [r \in Records |-> <<p>>]

Delivery == Inv /\ Safety /\ \A p \in Attempts : sound[p] => Made(p)

(* What the steps do to the directories, file by file.  The file of a      *)
(* record is written, or deleted.                                          *)
WithFile(e, r, v) == [dir EXCEPT ![e].single[r] = v]

LEMMA SingleEffect ==
  ASSUME IType, NEW e \in Dirs, NEW r \in Records, NEW v, dir' = WithFile(e, r, v)
  PROVE  \A d \in Dirs, s \in Records :
           /\ dir'[d].merged[s] = dir[d].merged[s]
           /\ dir'[d].single[s] = IF d = e /\ s = r THEN v ELSE dir[d].single[s]
<1>0. \A d \in Dirs : dir[d] \in Contents  BY DEF IType, TypeOK
<1>1. /\ dir'[e] = [dir[e] EXCEPT !.single = [@ EXCEPT ![r] = v]]
      /\ \A d \in Dirs \ {e} : dir'[d] = dir[d]
  BY DEF IType, TypeOK, WithFile
<1>2. /\ dir'[e].merged = dir[e].merged
      /\ dir'[e].single = [dir[e].single EXCEPT ![r] = v]
  BY <1>0, <1>1 DEF Contents
<1>3. dir[e].single \in [Records -> Attempts \cup {None}]  BY <1>0 DEF Contents
<1> SUFFICES ASSUME NEW d \in Dirs, NEW s \in Records
             PROVE  /\ dir'[d].merged[s] = dir[d].merged[s]
                    /\ dir'[d].single[s] = IF d = e /\ s = r THEN v ELSE dir[d].single[s]
  OBVIOUS
<1>4. CASE d = e  BY <1>2, <1>3, <1>4
<1>5. CASE d # e
  <2>1. dir'[d] = dir[d]  BY <1>1, <1>5
  <2> QED BY <1>5, <2>1
<1> QED BY <1>4, <1>5

(* Files are appended to the merged ones.                                  *)
LEMMA AppendEffect ==
  ASSUME IType, NEW p \in Attempts, NEW S \in SUBSET InGroup(p), dir' = Appended(p, S)
  PROVE  \A d \in Dirs, s \in Records :
           /\ dir'[d].single[s] = dir[d].single[s]
           /\ dir'[d].merged[s] = IF d = place[p] /\ s \in S
                                    THEN Append(dir[d].merged[s], dir[d].single[s])
                                    ELSE dir[d].merged[s]
<1> DEFINE Longer(e, r) == IF r \in S THEN Append(dir[e].merged[r], dir[e].single[r])
                                      ELSE dir[e].merged[r]
<1>0. \A d \in Dirs : dir[d] \in Contents  BY DEF IType, TypeOK
<1>1. PICK e \in Dirs : e = place[p]  BY DEF IType, TypeOK
<1>2. /\ dir'[e] = [dir[e] EXCEPT !.merged = [r \in Records |-> Longer(e, r)]]
      /\ \A d \in Dirs \ {e} : dir'[d] = dir[d]
  BY <1>0, <1>1 DEF Appended, IType, TypeOK
<1>3. dir'[e].single = dir[e].single /\ dir'[e].merged = [r \in Records |-> Longer(e, r)]
  BY <1>0, <1>2 DEF Contents
<1> SUFFICES ASSUME NEW d \in Dirs, NEW s \in Records
             PROVE  /\ dir'[d].single[s] = dir[d].single[s]
                    /\ dir'[d].merged[s] = IF d = e /\ s \in S THEN Longer(d, s)
                                                               ELSE dir[d].merged[s]
  BY <1>1
<1>4. CASE d = e  BY <1>3, <1>4
<1>5. CASE d # e
  <2>1. dir'[d] = dir[d]  BY <1>2, <1>5
  <2> QED BY <1>5, <2>1
<1> QED BY <1>4, <1>5

(* A merged file is moved, with all of its records.                        *)
LEMMA MoveMergedEffect ==
  ASSUME IType, NEW g \in Groups,
         dir' = [d \in Dirs |-> [dir[d] EXCEPT !.merged = [r \in Records |->
                   IF Group[r] # g THEN @[r]
                   ELSE IF d = "stash" THEN <<>> ELSE dir["stash"].merged[r]]]]
  PROVE  \A s \in Records :
           /\ dir'["stash"].single[s] = dir["stash"].single[s]
           /\ dir'["archive"].single[s] = dir["archive"].single[s]
           /\ dir'["stash"].merged[s] =
                IF Group[s] # g THEN dir["stash"].merged[s] ELSE <<>>
           /\ dir'["archive"].merged[s] =
                IF Group[s] # g THEN dir["archive"].merged[s] ELSE dir["stash"].merged[s]
BY DEF IType, TypeOK, Contents, Dirs

(* A single file is moved.                                                 *)
LEMMA MoveSingleEffect ==
  ASSUME IType, NEW r \in Records,
         dir' = [dir EXCEPT !["archive"].single[r] = dir["stash"].single[r],
                            !["stash"].single[r] = None]
  PROVE  \A s \in Records :
           /\ dir'["stash"].merged[s] = dir["stash"].merged[s]
           /\ dir'["archive"].merged[s] = dir["archive"].merged[s]
           /\ dir'["stash"].single[s] = IF s = r THEN None ELSE dir["stash"].single[s]
           /\ dir'["archive"].single[s] =
                IF s = r THEN dir["stash"].single[r] ELSE dir["archive"].single[s]
<1>1. dir["stash"] \in Contents /\ dir["archive"] \in Contents /\ dir \in [Dirs -> Contents]
  BY DEF IType, TypeOK, Dirs
<1>2. /\ dir'["stash"].merged = dir["stash"].merged
      /\ dir'["archive"].merged = dir["archive"].merged
      /\ dir'["stash"].single = [dir["stash"].single EXCEPT ![r] = None]
      /\ dir'["archive"].single = [dir["archive"].single EXCEPT ![r] = dir["stash"].single[r]]
  BY <1>1 DEF Contents, Dirs
<1> QED BY <1>1, <1>2 DEF Contents

(* An empty directory holds nothing.                                       *)
LEMMA NothingIn ==
  /\ \A d \in Dirs : dir[d] = Empty => \A r \in Records : ~In(d, r)
  /\ \A d \in Dirs : dir'[d] = Empty => \A r \in Records : ~In(d, r)'
BY DEF In, Single, Merged, Empty

(* A record is held where it has a file.                                   *)
LEMMA HeldIn ==
  ASSUME NEW r
  PROVE  /\ Held(r) <=> ((r \in Products /\ out[r] # None) \/ \E d \in Dirs : In(d, r))
         /\ Held(r)' <=> ((r \in Products /\ out'[r] # None) \/ \E d \in Dirs : In(d, r)')
BY DEF Held, In, Single, Merged

(* Nothing is lost in a step of the attempt, but where runCycle() cleans   *)
(* up.                                                                     *)
Retains(p) == \A r \in Records : Held(r) /\ ~Held(r)' =>
  At(p, "remove") \/ ("disk" \in May /\ r \in Converted /\ At(p, "clean"))

(* The records through the steps before the conversion.                    *)
LEMMA PrepareSafe ==
  ASSUME IType, NEW p \in Attempts, Safe(p), Promise(p), Prepare(p)
  PROVE  Safe(p)' /\ Retains(p)
<1> USE DEF Swept, Filling, MergesIn, BeforeArchive, At, Go, Return, Over
<1>0. pc \in [Attempts -> Steps]  BY DEF IType, TypeOK
<1>1. CASE RemoveOld(p)
  <2>1. pc[p] = "remove" /\ pc'[p] = "scan" /\ dir' = [d \in Dirs |-> Empty]
    BY <1>0, <1>1 DEF RemoveOld
  <2> QED BY <2>1 DEF Safe, Retains
<1>2. CASE ~RemoveOld(p)
  <2>1. UNCHANGED <<dir, out>>
    BY <1>2 DEF Prepare, CheckEnvironment, TestLock, CreateLock, ScanInput, Verdict,
       RejectInput, files
  <2>2. /\ pc[p] \in {"env", "test", "create"} =>
             pc'[p] \in {"returned", "test", "create", "remove"}
        /\ pc[p] \in Swept => pc'[p] \in Swept \cup {"returned"}
        /\ pc[p] \in Swept \cup {"env", "test", "create"}
    BY <1>0, <1>2 DEF Prepare, CheckEnvironment, TestLock, CreateLock, ScanInput,
       Verdict, RejectInput
  <2>3. Retains(p)  BY <2>1 DEF Retains, Held
  <2> QED BY <2>1, <2>2, <2>3 DEF Safe
<1> QED BY <1>1, <1>2

(* The records through run_ncep_convert.pl.                                *)
LEMMA ConvertSafe ==
  ASSUME IType, NEW p \in Attempts, Safe(p), Promise(p), ConvertRecords(p)
  PROVE  Safe(p)' /\ Retains(p)
<1> USE DEF Swept, Filling, MergesIn, BeforeArchive, At, Go, Over
<1>0. pc \in [Attempts -> Steps] /\ place \in [Attempts -> Dirs]
  BY DEF IType, TypeOK
<1>1. CASE Convert(p)
  <2>1. dir = [d \in Dirs |-> Empty] /\ tar.state = "none" /\ UNCHANGED out
    BY <1>1 DEF Convert, Safe, Promise, BeforeTar
  <2>2. pc'[p] = "merge" /\ place'[p] = "stash"
    BY <1>0, <1>1, <2>1 DEF Convert, Dirs
  <2>3. PICK made \in SUBSET Converted :
          dir' = [dir EXCEPT !["stash"] =
            [Empty EXCEPT !.single = [r \in Records |-> IF r \in made THEN p ELSE None]]]
    BY <1>1 DEF Convert
  <2>4. /\ dir'["archive"] = Empty
        /\ dir'["stash"].single = [r \in Records |-> IF r \in made THEN p ELSE None]
        /\ dir'["stash"].merged = [r \in Records |-> <<>>]
    BY <2>1, <2>3 DEF Empty, Dirs
  <2>5. \A r \in Products : ~In("stash", r)' /\ ~Merged("archive", r)'
    BY <2>4, FileAssumption DEF In, Single, Merged, Empty, Records
  <2>6. \A r \in Records : ~\E d \in Dirs : In(d, r)
    BY <2>1, NothingIn
  <2>7. Retains(p)  BY <2>1, <2>6, HeldIn DEF Retains
  <2>8. \A r \in Records : ~In("archive", r)'
    BY <2>4, NothingIn DEF Dirs
  <2> QED BY <2>2, <2>5, <2>7, <2>8 DEF Safe
<1>2. CASE MoveMerged(p)
  <2>1. PICK g \in Groups :
          /\ InMerged("stash", g) # {}
          /\ dir' = [d \in Dirs |-> [dir[d] EXCEPT !.merged = [r \in Records |->
                       IF Group[r] # g THEN @[r]
                       ELSE IF d = "stash" THEN <<>> ELSE dir["stash"].merged[r]]]]
    BY <1>2 DEF MoveMerged
  <2>2. PICK s \in Records : Group[s] = g /\ Merged("stash", s)
    BY <2>1 DEF InMerged, Merged
  <2>3. pc[p] = "move" /\ pc'[p] = "move" /\ UNCHANGED <<out, place>>
    BY <1>2 DEF MoveMerged, Keep
  <2>4. \A r \in Records :
          /\ Single("stash", r)' <=> Single("stash", r)
          /\ Single("archive", r)' <=> Single("archive", r)
          /\ Merged("stash", r)' <=> (Group[r] # g /\ Merged("stash", r))
          /\ Merged("archive", r)' <=>
               IF Group[r] # g THEN Merged("archive", r) ELSE Merged("stash", r)
    <3>1. \A r \in Records :
            /\ dir'["stash"].single[r] = dir["stash"].single[r]
            /\ dir'["archive"].single[r] = dir["archive"].single[r]
            /\ dir'["stash"].merged[r] =
                 IF Group[r] # g THEN dir["stash"].merged[r] ELSE <<>>
            /\ dir'["archive"].merged[r] =
                 IF Group[r] # g THEN dir["archive"].merged[r] ELSE dir["stash"].merged[r]
      BY <2>1, MoveMergedEffect
    <3> QED BY <3>1 DEF Single, Merged
  <2>5. \A r \in Records : Group[r] = g => ~Merged("archive", r)
    BY <2>2, <2>3 DEF Safe
  <2>6. Retains(p)
    <3>1. \A r \in Records, d \in Dirs : In(d, r) => \E e \in Dirs : In(e, r)'
      BY <2>4, <2>5 DEF In, Dirs
    <3> QED BY <2>3, <3>1, HeldIn DEF Retains
  <2>7. \A r \in Products : ~In("stash", r)' /\ ~Merged("archive", r)'
    BY <2>3, <2>4 DEF Safe, In, Records
  <2>8. \A r, t \in Records :
          Group[r] = Group[t] /\ Merged("stash", r)' => ~Merged("archive", t)'
    BY <2>3, <2>4 DEF Safe
  <2> QED BY <2>3, <2>6, <2>7, <2>8 DEF Safe
<1>3. CASE MoveSingle(p)
  <2>1. PICK r \in Records :
          /\ dir["stash"].single[r] # None
          /\ dir' = [dir EXCEPT !["archive"].single[r] = dir["stash"].single[r],
                                !["stash"].single[r] = None]
    BY <1>3 DEF MoveSingle
  <2>2. pc[p] = "move" /\ pc'[p] = "move" /\ UNCHANGED <<out, place>>
    BY <1>3 DEF MoveSingle, Keep
  <2>3. \A s \in Records :
          /\ Merged("stash", s)' <=> Merged("stash", s)
          /\ Merged("archive", s)' <=> Merged("archive", s)
          /\ Single("stash", s)' <=> (s # r /\ Single("stash", s))
          /\ Single("archive", s)' <=> (s = r \/ Single("archive", s))
    <3>1. \A s \in Records :
            /\ dir'["stash"].merged[s] = dir["stash"].merged[s]
            /\ dir'["archive"].merged[s] = dir["archive"].merged[s]
            /\ dir'["stash"].single[s] = IF s = r THEN None ELSE dir["stash"].single[s]
            /\ dir'["archive"].single[s] =
                 IF s = r THEN dir["stash"].single[r] ELSE dir["archive"].single[s]
      BY <2>1, MoveSingleEffect
    <3> QED BY <2>1, <3>1 DEF Single, Merged
  <2>4. Retains(p)
    <3>1. \A s \in Records, d \in Dirs : In(d, s) => \E e \in Dirs : In(e, s)'
      BY <2>3 DEF In, Dirs
    <3> QED BY <2>2, <3>1, HeldIn DEF Retains
  <2>5. \A s \in Products : ~In("stash", s)' /\ ~Merged("archive", s)'
    BY <2>2, <2>3 DEF Safe, In, Records
  <2>6. \A s, t \in Records :
          Group[s] = Group[t] /\ Merged("stash", s)' => ~Merged("archive", t)'
    BY <2>2, <2>3 DEF Safe
  <2> QED BY <2>2, <2>4, <2>5, <2>6 DEF Safe
<1>4. CASE MoveDone(p)
  <2>1. /\ UNCHANGED <<dir, out>> /\ pc[p] = "move" /\ pc'[p] = "clean"
        /\ dir["stash"] = Empty \/ "disk" \in May
    BY <1>0, <1>4 DEF MoveDone, Keep, files
  <2>2. Retains(p)  BY <2>1 DEF Retains, Held
  <2>3. \A r \in Products : ~In("stash", r)' /\ ~Merged("archive", r)'
    BY <2>1 DEF Safe, In, Single, Merged
  <2> QED BY <2>1, <2>2, <2>3 DEF Safe
<1>5. CASE Clean(p)
  <2>1. /\ dir'["stash"] = Empty /\ dir'["archive"] = dir["archive"]
        /\ pc[p] = "clean" /\ pc'[p] = "run" /\ UNCHANGED out
    BY <1>0, <1>5 DEF Clean, IType, TypeOK, Dirs
  <2>2. \A r \in Products : ~In("stash", r) /\ ~Merged("archive", r)
    BY <2>1 DEF Safe
  <2>3. \A r \in Records : ~In("stash", r)' /\ (In("archive", r)' <=> In("archive", r))
    BY <2>1, NothingIn DEF In, Single, Merged, Dirs
  <2>4. \A r \in Products : ~Merged("archive", r)'
    BY <2>1, <2>2 DEF Merged
  <2>5. Retains(p)
    <3> SUFFICES ASSUME NEW r \in Records, Held(r), ~Held(r)'
                 PROVE  "disk" \in May /\ r \in Converted
      BY <2>1 DEF Retains
    <3>1. In("stash", r)
      BY <2>1, <2>3, HeldIn DEF Dirs
    <3>2. r \in Converted
      BY <2>2, <3>1 DEF Records
    <3>3. "disk" \in May
      BY <2>1, <3>1, NothingIn DEF Safe, Dirs
    <3> QED BY <3>2, <3>3
  <2> QED BY <2>1, <2>3, <2>4, <2>5 DEF Safe, Records
<1> QED BY <1>1, <1>2, <1>3, <1>4, <1>5 DEF ConvertRecords

(* The records through mergeRecords().                                     *)
LEMMA MergeSafe ==
  ASSUME IType, NEW p \in Attempts, Safe(p), Merge(p)
  PROVE  Safe(p)' /\ Retains(p)
<1> USE DEF Swept, Filling, MergesIn, BeforeArchive, At, Go, Over
<1>0. /\ pc \in [Attempts -> Steps] /\ place \in [Attempts -> Dirs] /\ place[p] \in Dirs
      /\ todo \in [Attempts -> SUBSET (Records \cup {Tag})]
      /\ UNCHANGED <<out, place>>
  BY DEF IType, TypeOK, Merge, MergeGroup, MergeFails, UnlinkMerged, MergeDone, Keep,
     files
<1>1. ASSUME NEW S \in SUBSET InGroup(p), dir' = Appended(p, S)
      PROVE  /\ \A d \in Dirs, r \in Records :
                  /\ Single(d, r)' <=> Single(d, r)
                  /\ Merged(d, r)' <=> (Merged(d, r) \/ (d = place[p] /\ r \in S))
             /\ \A r \in S : r \in Records /\ Single(place[p], r)
  <2>1. \A d \in Dirs, s \in Records :
           /\ dir'[d].single[s] = dir[d].single[s]
           /\ dir'[d].merged[s] = IF d = place[p] /\ s \in S
                                    THEN Append(dir[d].merged[s], dir[d].single[s])
                                    ELSE dir[d].merged[s]
    BY <1>1, AppendEffect
  <2>2. \A r \in S : r \in Records /\ Single(place[p], r)
    BY DEF InGroup, Single
  <2>3. \A d \in Dirs, r \in Records : Append(dir[d].merged[r], dir[d].single[r]) # <<>>
    <3> SUFFICES ASSUME NEW d \in Dirs, NEW r \in Records
                 PROVE  Append(dir[d].merged[r], dir[d].single[r]) # <<>>
      OBVIOUS
    <3>1. dir[d].merged[r] \in Seq(Attempts)  BY DEF IType, TypeOK, Contents
    <3> QED BY <3>1
  <2> SUFFICES ASSUME NEW d \in Dirs, NEW r \in Records
               PROVE  /\ Single(d, r)' <=> Single(d, r)
                      /\ Merged(d, r)' <=> (Merged(d, r) \/ (d = place[p] /\ r \in S))
    BY <2>2
  <2>4. CASE d = place[p] /\ r \in S
    <3>1. dir'[d].merged[r] # <<>> /\ dir'[d].single[r] = dir[d].single[r]
      <4>1. dir'[d].merged[r] = Append(dir[d].merged[r], dir[d].single[r])
        BY <2>1, <2>4
      <4> QED BY <2>1, <2>3, <4>1
    <3> QED BY <2>4, <3>1 DEF Single, Merged
  <2>5. CASE ~(d = place[p] /\ r \in S)
    <3>1. dir'[d].merged[r] = dir[d].merged[r] /\ dir'[d].single[r] = dir[d].single[r]
      BY <2>1, <2>5
    <3> QED BY <2>5, <3>1 DEF Single, Merged
  <2> QED BY <2>4, <2>5
<1>2. ASSUME NEW S \in SUBSET InGroup(p), dir' = Appended(p, S)
      PROVE  /\ Retains(p)
             /\ MergesIn(p, "stash") =>
                  /\ \A r \in Records : ~In("archive", r)'
                  /\ \A r \in Products : ~In("stash", r)' /\ ~Merged("archive", r)'
  <2>1. Retains(p)
    BY <1>0, <1>1, <1>2, HeldIn DEF In, Retains
  <2> SUFFICES ASSUME MergesIn(p, "stash")
               PROVE  /\ \A r \in Records : ~In("archive", r)'
                      /\ \A r \in Products : ~In("stash", r)' /\ ~Merged("archive", r)'
    BY <2>1
  <2>2. "stash" \in Dirs /\ "archive" \in Dirs /\ place[p] = "stash"
    BY DEF Dirs
  <2>3. /\ \A r \in Records : ~In("archive", r)
        /\ \A r \in Products : r \in Records /\ ~In("stash", r)
    BY DEF Safe, Records
  <2> QED BY <1>1, <1>2, <2>2, <2>3 DEF In
<1>3. CASE MergeGroup(p)
  <2>1. /\ dir' = Appended(p, InGroup(p)) /\ todo'[p] = InGroup(p)
        /\ pc[p] = "merge" /\ pc'[p] = "unlink"
    BY <1>0, <1>3 DEF MergeGroup
  <2>2. PICK e \in Dirs : e = place[p] /\ e = place'[p]
    BY <1>0
  <2>3. \A r \in InGroup(p) : r \in Records /\ Merged(e, r)'
    BY <1>1, <2>1, <2>2
  <2>4. \A r \in todo'[p] : r \in Records /\ Merged(place[p], r)'
    BY <2>1, <2>2, <2>3 DEF Merged
  <2>5. /\ Retains(p)
        /\ MergesIn(p, "stash") =>
             /\ \A r \in Records : ~In("archive", r)'
             /\ \A r \in Products : ~In("stash", r)' /\ ~Merged("archive", r)'
    BY <1>2, <2>1
  <2> QED BY <1>0, <2>1, <2>4, <2>5 DEF Safe
<1>4. CASE MergeFails(p)
  <2>1. PICK S \in SUBSET InGroup(p) : dir' = Appended(p, S)
    BY <1>4 DEF MergeFails
  <2>2. /\ pc[p] = "merge" /\ (MergesIn(p, "stash") \/ MergesIn(p, "archive"))
        /\ pc'[p] = IF place[p] = "stash" THEN "move" ELSE "tar"
    BY <1>0, <1>4 DEF MergeFails, AfterMerge, Dirs
  <2>3. pc'[p] = "move" => \A r \in Records : ~Merged("archive", r)'
    BY <1>2, <2>1, <2>2 DEF In
  <2> QED BY <1>0, <1>2, <2>1, <2>2, <2>3 DEF Safe
<1>5. CASE UnlinkMerged(p)
  <2>1. pc[p] = "unlink"  BY <1>5 DEF UnlinkMerged
  <2>2. CASE \E r \in todo[p] :
               /\ dir'  = [dir EXCEPT ![place[p]].single[r] = None]
               /\ todo' = [todo EXCEPT ![p] = @ \ {r}]
               /\ UNCHANGED <<pc, group>>
    <3>1. PICK r \in todo[p] :
               /\ dir'  = [dir EXCEPT ![place[p]].single[r] = None]
               /\ todo' = [todo EXCEPT ![p] = @ \ {r}]
               /\ UNCHANGED <<pc, group>>
      BY <2>2
    <3>2. /\ r \in Records /\ Merged(place[p], r)
          /\ \E e \in Dirs : e = place[p] /\ e = place'[p]
      BY <1>0, <2>1 DEF Safe
    <3> PICK e \in Dirs : e = place[p] /\ e = place'[p]
      BY <3>2
    <3>0. dir' = WithFile(e, r, None)
      BY <3>1, <3>2 DEF WithFile
    <3>3. \A d \in Dirs, s \in Records :
            /\ dir'[d].merged[s] = dir[d].merged[s]
            /\ dir'[d].single[s] = IF d = e /\ s = r THEN None ELSE dir[d].single[s]
      BY <3>0, <3>2, SingleEffect
    <3>4. \A d \in Dirs, s \in Records :
            (Merged(d, s)' <=> Merged(d, s)) /\ (In(d, s)' <=> In(d, s))
      BY <3>2, <3>3 DEF In, Single, Merged
    <3>5. Retains(p)
      BY <1>0, <3>4, HeldIn DEF Retains
    <3>6. /\ \A s \in todo'[p] : s \in Records /\ Merged(e, s)'
          /\ pc'[p] = "unlink"
      BY <1>0, <2>1, <3>1, <3>4 DEF Safe
    <3>7. \A s \in todo'[p] : s \in Records /\ Merged(place[p], s)'
      BY <3>6 DEF Merged
    <3>8. MergesIn(p, "stash") =>
            /\ \A s \in Records : ~In("archive", s)'
            /\ \A s \in Products : ~In("stash", s)' /\ ~Merged("archive", s)'
      BY <3>4 DEF Safe, Records, Dirs
    <3> QED BY <1>0, <2>1, <3>5, <3>6, <3>7, <3>8 DEF Safe
  <2>3. CASE todo[p] = {} /\ Go(p, "merge") /\ UNCHANGED <<dir, todo>>
    <3>1. pc'[p] = "merge" /\ UNCHANGED dir  BY <1>0, <2>3
    <3>2. Retains(p)  BY <1>0, <3>1 DEF Retains, Held
    <3>3. MergesIn(p, "stash") =>
            /\ \A s \in Records : ~In("archive", s)'
            /\ \A s \in Products : ~In("stash", s)' /\ ~Merged("archive", s)'
      BY <3>1 DEF Safe, In, Single, Merged
    <3> QED BY <1>0, <2>1, <3>1, <3>2, <3>3 DEF Safe
  <2> QED BY <1>5, <2>2, <2>3 DEF UnlinkMerged
<1>6. CASE MergeDone(p)
  <2>1. /\ UNCHANGED dir /\ pc[p] = "merge"
        /\ pc'[p] = IF place[p] = "stash" THEN "move" ELSE "tar"
    BY <1>0, <1>6 DEF MergeDone, AfterMerge, files
  <2>2. Retains(p)  BY <1>0, <2>1 DEF Retains, Held
  <2>3. place[p] = "stash" =>
          /\ \A s \in Records : ~Merged("archive", s)'
          /\ \A s \in Products : ~In("stash", s)' /\ ~Merged("archive", s)'
    BY <2>1 DEF Safe, In, Single, Merged
  <2> QED BY <1>0, <2>1, <2>2, <2>3 DEF Safe
<1> QED BY <1>3, <1>4, <1>5, <1>6 DEF Merge

(* The records through the program and the check of its output.            *)
LEMMA RunSafe ==
  ASSUME IType, NEW p \in Attempts, Safe(p), Run(p)
  PROVE  Safe(p)' /\ Retains(p)
<1> USE DEF Swept, Filling, MergesIn, BeforeArchive, At, Go, Return, Over
<1>0. /\ pc \in [Attempts -> Steps] /\ out \in [Products -> Attempts \cup {None}]
      /\ UNCHANGED dir
  BY DEF IType, TypeOK, Run, WriteProduct, RunEnds, QcOutputFails, QcOutputPasses, files
<1>1. \A r \in Products : out[r] # None => out'[r] # None
  BY <1>0, AttemptAssumption DEF Run, WriteProduct, RunEnds, QcOutputFails,
     QcOutputPasses, files
<1>2. Retains(p)
  BY <1>0, <1>1 DEF Retains, Held
<1>3. /\ pc[p] \in {"run", "qcout"} /\ pc'[p] \in {"run", "qcout", "list", "returned"}
  BY <1>0 DEF Run, WriteProduct, RunEnds, QcOutputFails, QcOutputPasses
<1>4. \A r \in Products : ~In("stash", r)' /\ ~Merged("archive", r)'
  BY <1>0, <1>3 DEF Safe, In, Single, Merged
<1> QED BY <1>2, <1>3, <1>4 DEF Safe

(* The records through archiveOutput().                                    *)
LEMMA ArchiveSafe ==
  ASSUME IType, NEW p \in Attempts, Safe(p), Archive(p)
  PROVE  Safe(p)' /\ Retains(p)
<1> USE DEF Swept, Filling, MergesIn, BeforeArchive, At, Go, Over
<1>0. /\ pc \in [Attempts -> Steps] /\ out \in [Products -> Attempts \cup {None}]
      /\ todo \in [Attempts -> SUBSET (Records \cup {Tag})]
      /\ file \in [Attempts -> Products \cup {None}]
      /\ pc[p] \in {"list", "archive", "check"}
      /\ \A r \in Products : r \in Records /\ ~In("stash", r) /\ ~Merged("archive", r)
  BY DEF IType, TypeOK, Archive, List, ArchiveTag, ArchiveCopy, UnlinkArchived,
     ArchiveEnds, Safe, Records
<1>1. CASE List(p)
  <2>1. /\ UNCHANGED <<dir, out>> /\ pc'[p] = "archive"
        /\ todo'[p] = {r \in Products : out[r] # None} \cup (IF outTag THEN {Tag} ELSE {})
    BY <1>0, <1>1 DEF List, files
  <2>2. \A r \in todo'[p] \cap Products : out[r] # None
    BY <2>1, TagAssumption DEF Records
  <2> QED BY <1>0, <2>1, <2>2 DEF Safe, Retains, Held, In, Single, Merged
<1>2. CASE ArchiveTag(p)
  <2>1. /\ UNCHANGED <<dir, out, pc>> /\ pc[p] = "archive"
        /\ todo'[p] = todo[p] \ {Tag}
    BY <1>0, <1>2 DEF ArchiveTag, files
  <2> QED BY <1>0, <2>1 DEF Safe, Retains, Held, In, Single, Merged
<1>3. CASE ArchiveCopy(p)
  <2>1. PICK r \in todo[p] \cap Products :
          /\ todo' = [todo EXCEPT ![p] = @ \ {r}]
          /\ \/ /\ out[r] # None /\ Go(p, "check")
                /\ dir' = [dir EXCEPT !["archive"].single[r] = out[r]]
                /\ file' = [file EXCEPT ![p] = r]
             \/ /\ "disk" \in May /\ UNCHANGED <<pc, file>>
                /\ dir' = [dir EXCEPT !["archive"].single[r] = None]
    BY <1>3 DEF ArchiveCopy
  <2>2. PICK v : /\ dir' = [dir EXCEPT !["archive"].single[r] = v]
                 /\ v # None => pc'[p] = "check" /\ file'[p] = r
                 /\ pc'[p] = "check" => v # None /\ file'[p] = r
                 /\ pc'[p] \in {"archive", "check"}
    <3>1. CASE Go(p, "check")
      BY <1>0, <1>3, <2>1, <3>1 DEF ArchiveCopy
    <3>2. CASE ~Go(p, "check")
      BY <1>0, <1>3, <2>1, <3>2 DEF ArchiveCopy
    <3> QED BY <3>1, <3>2
  <2>3. \A d \in Dirs, s \in Records :
          /\ dir'[d].merged[s] = dir[d].merged[s]
          /\ dir'[d].single[s] = IF d = "archive" /\ s = r THEN v ELSE dir[d].single[s]
    <3>1. "archive" \in Dirs /\ r \in Records  BY <1>0 DEF Dirs
    <3>2. dir' = WithFile("archive", r, v)  BY <2>2 DEF WithFile
    <3> QED BY <3>1, <3>2, SingleEffect
  <2>4. /\ \A d \in Dirs, s \in Records :
             /\ Merged(d, s)' <=> Merged(d, s)
             /\ Single(d, s)' <=> IF d = "archive" /\ s = r THEN v # None ELSE Single(d, s)
    BY <2>3 DEF Single, Merged
  <2>5. out[r] # None /\ UNCHANGED out /\ pc[p] = "archive"
    BY <1>3 DEF Safe, ArchiveCopy
  <2>6. Retains(p)
    BY <2>4, <2>5, HeldIn DEF Retains, In
  <2>7. \A s \in Products : ~In("stash", s)' /\ ~Merged("archive", s)'
    BY <1>0, <2>4 DEF In, Dirs
  <2>8. todo'[p] = todo[p] \ {r}  BY <1>0, <2>1
  <2>9. pc'[p] = "check" => Single("archive", r)'
    BY <1>0, <2>2, <2>4 DEF Dirs
  <2>10. pc'[p] = "check" => file'[p] \in Products \ todo'[p] /\ Single("archive", file[p])'
    BY <2>1, <2>2, <2>8, <2>9 DEF Single
  <2>11. \A s \in todo'[p] \cap Products : out'[s] # None
    BY <2>5, <2>8 DEF Safe
  <2> QED BY <2>2, <2>6, <2>7, <2>10, <2>11 DEF Safe
<1>4. CASE UnlinkArchived(p)
  <2>1. /\ pc[p] = "check" /\ pc'[p] = "archive" /\ UNCHANGED <<dir, todo>>
        /\ out' = [out EXCEPT ![file[p]] = None]
    BY <1>0, <1>4 DEF UnlinkArchived
  <2>2. file[p] \in Products \ todo[p] /\ Single("archive", file[p])
    BY <2>1 DEF Safe
  <2>3. \A r \in Products : out'[r] = IF r = file[p] THEN None ELSE out[r]
    BY <1>0, <2>1
  <2>4. \A d \in Dirs : \A s : (In(d, s)' <=> In(d, s)) /\ (Merged(d, s)' <=> Merged(d, s))
    BY <2>1 DEF In, Single, Merged
  <2>5. Retains(p)
    BY <2>2, <2>3, <2>4, HeldIn DEF Retains, In, Dirs
  <2>6. \A r \in todo'[p] \cap Products : out'[r] # None
    BY <2>1, <2>2, <2>3 DEF Safe
  <2> QED BY <1>0, <2>1, <2>4, <2>5, <2>6 DEF Safe, Dirs
<1>5. CASE ArchiveEnds(p)
  <2>1. UNCHANGED <<dir, out>> /\ pc'[p] = "pack"
    BY <1>0, <1>5 DEF ArchiveEnds, files
  <2> QED BY <2>1 DEF Safe, Retains, Held
<1> QED BY <1>1, <1>2, <1>3, <1>4, <1>5 DEF Archive

(* The records through packCycle() and the end of runCycle().              *)
LEMMA PackSafe ==
  ASSUME IType, NEW p \in Attempts, Safe(p), PackCycle(p)
  PROVE  Safe(p)' /\ Retains(p)
<1> USE DEF Swept, Filling, MergesIn, BeforeArchive, At, Go, Return, Over
<1>0. pc \in [Attempts -> Steps] /\ place \in [Attempts -> Dirs]
  BY DEF IType, TypeOK
<1>1. UNCHANGED <<dir, out>>
  BY DEF PackCycle, RescueTag, RefusePack, Pack, StartTar, EndTar, Flag, Complete,
     Unlock, Keep, files
<1>2. \/ pc'[p] \in {"pack", "complete", "tarring", "flag", "unlock", "returned"}
      \/ pc'[p] = "merge" /\ place'[p] = "archive"
  BY <1>0 DEF PackCycle, RescueTag, RefusePack, Pack, StartTar, EndTar, Flag, Complete,
     Unlock, Dirs
<1>3. Retains(p)  BY <1>1 DEF Retains, Held
<1> QED BY <1>2, <1>3 DEF Safe

(* A step of an attempt keeps its records.                                 *)
LEMMA StepSafe ==
  ASSUME Safety, NEW p \in Attempts, Step(p)
  PROVE  Safe(p)' /\ Retains(p)
<1>1. IType /\ Safe(p) /\ Promise(p)  BY DEF Safety, Promises
<1> QED BY <1>1, PrepareSafe, ConvertSafe, MergeSafe, RunSafe, ArchiveSafe, PackSafe
        DEF Step

(* An attempt that is not at work has nothing to keep.                     *)
LEMMA RestsSafe ==
  ASSUME NEW p \in Attempts
  PROVE  /\ pc[p] \in Over \cup {"idle", "env"} => Safe(p)
         /\ pc'[p] \in Over \cup {"idle", "env"} => Safe(p)'
BY DEF Safe, Swept, Filling, MergesIn, BeforeArchive, Over

(* Every step keeps what keeps the records.                                *)
LEMMA SafetyNext ==
  ASSUME Safety, IType', NoOverlap, [Next]_vars
  PROVE  Safety'
<1>0. pc \in [Attempts -> Steps] /\ IType /\ Promises'
  BY PromisesNext DEF Safety, Promises, IType, TypeOK
<1>1. CASE UNCHANGED vars \/ Environment
  <2>1. UNCHANGED <<pc, place, todo, file, dir, out>>
    BY <1>1 DEF vars, locals, files, Environment, RemoveLock, RelinkInput,
       SourceRepaired, SourceExpires
  <2>2. \A p \in Attempts : Safe(p)'
    BY <2>1 DEF Safety, Safe, MergesIn, BeforeArchive, In, Single, Merged
  <2> QED BY <1>0, <2>2 DEF Safety
<1>2. ASSUME NEW p \in Attempts, Submit(p) \/ Kill(p) PROVE Safety'
  <2>1. /\ UNCHANGED <<place, todo, file, dir, out>>
        /\ pc'[p] \in {"env", "killed"} /\ \A q \in Attempts \ {p} : pc'[q] = pc[q]
    BY <1>0, <1>2 DEF Submit, Kill, Go, Keep, files
  <2>2. Safe(p)'
    BY <2>1, RestsSafe DEF Over
  <2>3. ASSUME NEW q \in Attempts \ {p} PROVE Safe(q)'
    BY <2>1 DEF Safety, Safe, MergesIn, BeforeArchive, In, Single, Merged
  <2> QED BY <1>0, <2>2, <2>3 DEF Safety
<1>3. ASSUME NEW p \in Attempts, Step(p) PROVE Safety'
  <2>1. Running(p) /\ \A q \in Attempts \ {p} : pc'[q] = pc[q]
    BY <1>0, <1>3, Frame
  <2>2. \A q \in Attempts \ {p} : pc'[q] \in Over \cup {"idle"}
    BY <2>1 DEF Safety, Promises, Alone, Running
  <2>3. \A q \in Attempts \ {p} : Safe(q)'
    BY <2>2, RestsSafe
  <2> QED BY <1>0, <1>3, <2>3, StepSafe DEF Safety
<1> QED BY <1>1, <1>2, <1>3 DEF Next

(* So it always holds.                                                     *)
LEMMA SafetyHolds ==
  ASSUME NoOverlap
  PROVE  Spec => []Safety
<1>1. Init /\ Promises => Safety
  <2> SUFFICES ASSUME Init, Promises PROVE Safety
    OBVIOUS
  <2>1. \A p \in Attempts : pc[p] = "idle"  BY DEF Init
  <2> QED BY <2>1, RestsSafe DEF Safety
<1>2. Safety /\ IType' /\ [Next]_vars => Safety'
  BY SafetyNext
<1> QED BY <1>1, <1>2, PromisesHold, ITypeHolds, PTL DEF Spec

(* A record of which there was a copy has one after every step, wherever   *)
(* attempts are killed and whatever writes fail, except where runCycle()   *)
(* removes what an earlier attempt has left, and where on a failing disk   *)
(* the clean-up of run_ncep_convert.pl deletes what mv did not move.       *)
THEOREM RecordsSurvive ==
  ASSUME NoOverlap
  PROVE  Spec => NoRecordVanishes
<1>1. Safety /\ [Next]_vars =>
        [\A r \in Records : Held(r) /\ ~Held(r)' =>
           \E p \in Attempts :
             At(p, "remove") \/ ("disk" \in May /\ r \in Converted /\ At(p, "clean"))]_vars
  <2> SUFFICES ASSUME Safety, Next, NEW r \in Records, Held(r), ~Held(r)'
               PROVE  \E p \in Attempts :
                        At(p, "remove") \/ ("disk" \in May /\ r \in Converted /\ At(p, "clean"))
    OBVIOUS
  <2>1. ASSUME NEW p \in Attempts, Step(p)
        PROVE  At(p, "remove") \/ ("disk" \in May /\ r \in Converted /\ At(p, "clean"))
    BY <2>1, StepSafe DEF Retains
  <2>2. ~Environment /\ \A p \in Attempts : ~Submit(p) /\ ~Kill(p)
    <3>1. ~UNCHANGED <<dir, out>>  BY DEF Held
    <3> QED BY <3>1 DEF Environment, RemoveLock, RelinkInput, SourceRepaired,
               SourceExpires, Submit, Kill, Keep, files
  <2> QED BY <2>1, <2>2 DEF Next
<1> QED BY <1>1, SafetyHolds, PTL DEF Spec, NoRecordVanishes

-------------------------------------------------------------------------------
(* What an attempt with good input delivers, on a disk that works.         *)

(* The files of the attempt, where a step leaves the directories alone.    *)
LEMMA SameDirectories ==
  ASSUME UNCHANGED dir, NEW p \in Attempts
  PROVE  /\ Own(p)' <=> Own(p)
         /\ \A d \in Dirs, r \in Records :
              (Single(d, r)' <=> Single(d, r)) /\ (In(d, r)' <=> In(d, r))
BY DEF Own, In, Single, Merged

(* The steps before the conversion.                                        *)
LEMMA PrepareMade ==
  ASSUME IType, NEW p \in Attempts, Made(p), Prepare(p)
  PROVE  Made(p)'
<1> USE DEF Swept, Filling, Working, MergesIn, Archived, At, Go, Return, Over
<1>0. pc \in [Attempts -> Steps]  BY DEF IType, TypeOK
<1>1. CASE RemoveOld(p)
  <2>1. pc'[p] = "scan" /\ dir' = [d \in Dirs |-> Empty]
    BY <1>0, <1>1 DEF RemoveOld
  <2>2. Own(p)'  BY <2>1 DEF Own, Empty
  <2> QED BY <2>1, <2>2 DEF Made
<1>2. CASE ~RemoveOld(p)
  <2>1. UNCHANGED dir
    BY <1>2 DEF Prepare, CheckEnvironment, TestLock, CreateLock, ScanInput, Verdict,
       RejectInput, files
  <2>2. /\ pc[p] \in {"env", "test", "create"} =>
             pc'[p] \in {"returned", "test", "create", "remove"}
        /\ pc[p] \in Swept => pc'[p] \in Swept \cup {"returned"}
        /\ pc[p] \in Swept \cup {"env", "test", "create"}
    BY <1>0, <1>2 DEF Prepare, CheckEnvironment, TestLock, CreateLock, ScanInput,
       Verdict, RejectInput
  <2> QED BY <2>1, <2>2, SameDirectories DEF Made
<1> QED BY <1>1, <1>2

(* run_ncep_convert.pl makes every record, and moves all of them.          *)
LEMMA ConvertMade ==
  ASSUME IType, Faultless, NEW p \in Attempts, Promise(p), Safe(p), sound[p], Made(p),
         ConvertRecords(p)
  PROVE  Made(p)'
<1> USE DEF Swept, Filling, Working, MergesIn, Archived, At, Go, Over
<1>0. pc \in [Attempts -> Steps] /\ place \in [Attempts -> Dirs]
      /\ \A r \in Converted : r \in Records
  BY DEF IType, TypeOK, Records
<1>1. CASE Convert(p)
  <2>1. dir = [d \in Dirs |-> Empty] /\ tar.state = "none"
    BY <1>1 DEF Convert, Safe, Promise, BeforeTar
  <2>2. pc'[p] = "merge" /\ place'[p] = "stash"
    BY <1>0, <1>1, <2>1 DEF Convert, Dirs
  <2>3. dir' = [dir EXCEPT !["stash"] =
            [Empty EXCEPT !.single = [r \in Records |-> IF r \in Converted THEN p ELSE None]]]
    BY <1>1 DEF Convert, Faultless
  <2>4. /\ dir'["archive"] = Empty
        /\ dir'["stash"].single = [r \in Records |-> IF r \in Converted THEN p ELSE None]
        /\ dir'["stash"].merged = [r \in Records |-> <<>>]
    BY <2>1, <2>3 DEF Empty, Dirs
  <2>5. Own(p)'  BY <2>4 DEF Own, Empty, Dirs
  <2>6. \A r \in Converted : In("stash", r)'
    BY <1>0, <2>4, AttemptAssumption DEF In, Single
  <2> QED BY <2>2, <2>5, <2>6 DEF Made
<1>2. CASE MoveMerged(p)
  <2>1. PICK g \in Groups :
          /\ InMerged("stash", g) # {}
          /\ dir' = [d \in Dirs |-> [dir[d] EXCEPT !.merged = [r \in Records |->
                       IF Group[r] # g THEN @[r]
                       ELSE IF d = "stash" THEN <<>> ELSE dir["stash"].merged[r]]]]
    BY <1>2 DEF MoveMerged
  <2>2. PICK s \in Records : Group[s] = g /\ Merged("stash", s)
    BY <2>1 DEF InMerged, Merged
  <2>3. pc[p] = "move" /\ pc'[p] = "move"
    BY <1>2 DEF MoveMerged
  <2>4. \A r \in Records :
           /\ dir'["stash"].single[r] = dir["stash"].single[r]
           /\ dir'["archive"].single[r] = dir["archive"].single[r]
           /\ dir'["stash"].merged[r] =
                IF Group[r] # g THEN dir["stash"].merged[r] ELSE <<>>
           /\ dir'["archive"].merged[r] =
                IF Group[r] # g THEN dir["archive"].merged[r] ELSE dir["stash"].merged[r]
    BY <2>1, MoveMergedEffect
  <2>5. \A r \in Records : Group[r] = g => ~Merged("archive", r)
    BY <2>2, <2>3 DEF Safe
  <2>6. Own(p)'
    <3>1. Own(p)  BY <2>3 DEF Made
    <3> QED BY <2>4, <3>1 DEF Own, Dirs
  <2>7. \A r \in Converted : In("stash", r)' \/ In("archive", r)'
    <3> SUFFICES ASSUME NEW r \in Converted PROVE In("stash", r)' \/ In("archive", r)'
      OBVIOUS
    <3>1. r \in Records /\ (In("stash", r) \/ In("archive", r))
      BY <1>0, <2>3 DEF Made
    <3> QED BY <2>4, <2>5, <3>1 DEF In, Single, Merged
  <2> QED BY <2>3, <2>6, <2>7 DEF Made
<1>3. CASE MoveSingle(p)
  <2>1. PICK r \in Records :
          /\ dir["stash"].single[r] # None
          /\ dir' = [dir EXCEPT !["archive"].single[r] = dir["stash"].single[r],
                                !["stash"].single[r] = None]
    BY <1>3 DEF MoveSingle
  <2>2. pc[p] = "move" /\ pc'[p] = "move"
    BY <1>3 DEF MoveSingle
  <2>3. \A s \in Records :
           /\ dir'["stash"].merged[s] = dir["stash"].merged[s]
           /\ dir'["archive"].merged[s] = dir["archive"].merged[s]
           /\ dir'["stash"].single[s] = IF s = r THEN None ELSE dir["stash"].single[s]
           /\ dir'["archive"].single[s] =
                IF s = r THEN dir["stash"].single[r] ELSE dir["archive"].single[s]
    BY <2>1, MoveSingleEffect
  <2>4. Own(p)'
    <3>1. Own(p)  BY <2>2 DEF Made
    <3> QED BY <2>3, <3>1 DEF Own, Dirs
  <2>5. \A s \in Converted : In("stash", s)' \/ In("archive", s)'
    <3> SUFFICES ASSUME NEW s \in Converted PROVE In("stash", s)' \/ In("archive", s)'
      OBVIOUS
    <3>1. s \in Records /\ (In("stash", s) \/ In("archive", s))
      BY <1>0, <2>2 DEF Made
    <3> QED BY <2>1, <2>3, <3>1 DEF In, Single, Merged
  <2> QED BY <2>2, <2>4, <2>5 DEF Made
<1>4. CASE MoveDone(p)
  <2>1. /\ UNCHANGED dir /\ pc[p] = "move" /\ pc'[p] = "clean" /\ dir["stash"] = Empty
    BY <1>0, <1>4 DEF MoveDone, files, Faultless
  <2>2. \A r \in Converted : In("archive", r)
    BY <1>0, <2>1, NothingIn DEF Made, Dirs
  <2> QED BY <1>0, <2>1, <2>2, SameDirectories DEF Made, Dirs
<1>5. CASE Clean(p)
  <2>1. /\ dir'["stash"] = Empty /\ dir'["archive"] = dir["archive"]
        /\ pc[p] = "clean" /\ pc'[p] = "run"
    BY <1>0, <1>5 DEF Clean, IType, TypeOK, Dirs
  <2>2. Own(p)'  BY <2>1 DEF Made, Own, Empty, Dirs
  <2>3. \A r \in Converted : In("archive", r)'
    BY <2>1 DEF Made, In, Single, Merged
  <2> QED BY <2>1, <2>2, <2>3 DEF Made
<1> QED BY <1>1, <1>2, <1>3, <1>4, <1>5 DEF ConvertRecords

(* mergeRecords() loses none, and appends none that is already there.      *)
LEMMA MergeMade ==
  ASSUME IType, Faultless, NEW p \in Attempts, Tidy(p), Safe(p), Made(p), Merge(p)
  PROVE  Made(p)'
<1> USE DEF Swept, Filling, Working, MergesIn, Archived, At, Go, Over
<1>0. /\ pc \in [Attempts -> Steps] /\ place \in [Attempts -> Dirs] /\ place[p] \in Dirs
      /\ \A r \in Converted : r \in Records
      /\ UNCHANGED place /\ Own(p)
  BY DEF IType, TypeOK, Records, Merge, MergeGroup, MergeFails, UnlinkMerged, MergeDone,
     Keep, Made
<1>1. ASSUME Own(p)', pc[p] \in {"merge", "unlink"}, pc'[p] \in {"merge", "unlink"},
             \A d \in Dirs, r \in Records : In(d, r)' <=> In(d, r)
      PROVE  Made(p)'
  BY <1>0, <1>1 DEF Made, Dirs
<1>2. CASE MergeGroup(p)
  <2>1. pc[p] = "merge" /\ pc'[p] = "unlink" /\ dir' = Appended(p, InGroup(p))
    BY <1>0, <1>2 DEF MergeGroup
  <2>2. \A d \in Dirs, s \in Records :
           /\ dir'[d].single[s] = dir[d].single[s]
           /\ dir'[d].merged[s] = IF d = place[p] /\ s \in InGroup(p)
                                    THEN Append(dir[d].merged[s], dir[d].single[s])
                                    ELSE dir[d].merged[s]
    <3>1. InGroup(p) \in SUBSET InGroup(p)  OBVIOUS
    <3> QED BY <2>1, <3>1, AppendEffect
  <2>3. ASSUME NEW d \in Dirs, NEW r \in Records, d = place[p], r \in InGroup(p)
        PROVE  Append(dir[d].merged[r], dir[d].single[r]) = <<p>> /\ In(d, r)
    <3>1. dir[d].single[r] = p /\ Single(d, r)
      BY <1>0, <2>3 DEF InGroup, Own, Single
    <3>2. dir[d].merged[r] = <<>>
      BY <2>1, <3>1 DEF Tidy, OnePlace, Merged
    <3> QED BY <3>1, <3>2 DEF In
  <2>4. Own(p)'
    <3> SUFFICES ASSUME NEW d \in Dirs, NEW r \in Records
                 PROVE  /\ dir'[d].single[r] \in {None, p}
                        /\ dir'[d].merged[r] \in {<<>>, <<p>>}
      BY DEF Own
    <3>1. CASE d = place[p] /\ r \in InGroup(p)
      <4>1. dir'[d].merged[r] = <<p>>  BY <2>2, <2>3, <3>1
      <4> QED BY <1>0, <2>2, <4>1 DEF Own
    <3>2. CASE ~(d = place[p] /\ r \in InGroup(p))
      BY <1>0, <2>2, <3>2 DEF Own
    <3> QED BY <3>1, <3>2
  <2>5. \A d \in Dirs, r \in Records : In(d, r)' <=> In(d, r)
    <3> SUFFICES ASSUME NEW d \in Dirs, NEW r \in Records PROVE In(d, r)' <=> In(d, r)
      OBVIOUS
    <3>1. CASE d = place[p] /\ r \in InGroup(p)
      <4>1. In(d, r) /\ dir'[d].merged[r] = <<p>>  BY <2>2, <2>3, <3>1
      <4> QED BY <4>1 DEF In, Merged
    <3>2. CASE ~(d = place[p] /\ r \in InGroup(p))
      BY <2>2, <3>2 DEF In, Single, Merged
    <3> QED BY <3>1, <3>2
  <2> QED BY <1>1, <2>1, <2>4, <2>5
<1>3. CASE MergeFails(p)
  BY <1>3 DEF MergeFails, Faultless
<1>4. CASE UnlinkMerged(p)
  <2>1. pc[p] = "unlink" /\ pc'[p] \in {"unlink", "merge"}
    BY <1>0, <1>4 DEF UnlinkMerged
  <2>2. CASE \E r \in todo[p] :
               /\ dir'  = [dir EXCEPT ![place[p]].single[r] = None]
               /\ todo' = [todo EXCEPT ![p] = @ \ {r}]
               /\ UNCHANGED <<pc, group>>
    <3>1. PICK r \in todo[p] : dir' = [dir EXCEPT ![place[p]].single[r] = None]
      BY <2>2
    <3>2. r \in Records /\ Merged(place[p], r)
      BY <2>1 DEF Safe
    <3>3. PICK e \in Dirs : e = place[p]
      BY <1>0
    <3>4. dir' = WithFile(e, r, None)
      BY <3>1, <3>3 DEF WithFile
    <3>5. \A d \in Dirs, s \in Records :
            /\ dir'[d].merged[s] = dir[d].merged[s]
            /\ dir'[d].single[s] = IF d = e /\ s = r THEN None ELSE dir[d].single[s]
      BY <3>2, <3>4, SingleEffect
    <3>6. Own(p)'
      BY <1>0, <3>5 DEF Own
    <3>7. \A d \in Dirs, s \in Records : In(d, s)' <=> In(d, s)
      BY <3>2, <3>3, <3>5 DEF In, Single, Merged
    <3> QED BY <1>1, <2>1, <3>6, <3>7
  <2>3. CASE UNCHANGED dir
    BY <1>0, <1>1, <2>1, <2>3, SameDirectories
  <2> QED BY <1>4, <2>2, <2>3 DEF UnlinkMerged
<1>5. CASE MergeDone(p)
  <2>1. /\ UNCHANGED dir /\ pc[p] = "merge"
        /\ pc'[p] = IF place[p] = "stash" THEN "move" ELSE "tar"
    BY <1>0, <1>5 DEF MergeDone, AfterMerge, files
  <2> QED BY <1>0, <2>1, SameDirectories DEF Made, Dirs
<1> QED BY <1>2, <1>3, <1>4, <1>5 DEF Merge

(* The program writes every product, and the check of the output passes.   *)
LEMMA RunMade ==
  ASSUME IType, Faultless, NEW p \in Attempts, FaultlessPromise(p), sound[p], Made(p),
         Run(p)
  PROVE  Made(p)'
<1> USE DEF Swept, Filling, Working, MergesIn, Archived, At, Go, Return, Over
<1>0. /\ pc \in [Attempts -> Steps] /\ UNCHANGED dir
      /\ \A r \in Converted : r \in Records
  BY DEF IType, TypeOK, Records, Run, WriteProduct, RunEnds, QcOutputFails,
     QcOutputPasses, files
<1>1. /\ pc[p] \in {"run", "qcout"} /\ pc'[p] \in {"run", "qcout", "list", "returned"}
      /\ pc'[p] = "list" => QcOutputPasses(p)
  BY <1>0 DEF Run, WriteProduct, RunEnds, QcOutputFails, QcOutputPasses
<1>2. pc'[p] = "list" => \A r \in Products : out'[r] = p
  BY <1>1 DEF QcOutputPasses, FaultlessPromise, files
<1>3. Own(p) /\ \A r \in Converted : In("archive", r)
  BY <1>1 DEF Made
<1>4. Own(p)' /\ \A r \in Converted : In("archive", r)'
  BY <1>0, <1>3, SameDirectories DEF Dirs
<1> QED BY <1>1, <1>2, <1>4 DEF Made

(* archiveOutput() copies every product of the attempt before it unlinks   *)
(* it, and leaves none behind.                                             *)
LEMMA ArchiveMade ==
  ASSUME IType, Faultless, NEW p \in Attempts, Safe(p), Made(p), Archive(p)
  PROVE  Made(p)'
<1> USE DEF Swept, Filling, Working, MergesIn, Archived, At, Go, Over
<1>0. /\ pc \in [Attempts -> Steps] /\ out \in [Products -> Attempts \cup {None}]
      /\ todo \in [Attempts -> SUBSET (Records \cup {Tag})]
      /\ \A r \in Converted : r \in Records
      /\ \A r \in Products : r \in Records
      /\ pc[p] \in {"list", "archive", "check"}
      /\ Own(p) /\ \A r \in Converted : In("archive", r)
  BY DEF IType, TypeOK, Records, Archive, List, ArchiveTag, ArchiveCopy, UnlinkArchived,
     ArchiveEnds, Made
<1>1. CASE ~ArchiveCopy(p)
  <2>0. UNCHANGED dir
    BY <1>1 DEF Archive, List, ArchiveTag, UnlinkArchived, ArchiveEnds, files
  <2>1. Own(p)' /\ \A r \in Converted : In("archive", r)'
    BY <1>0, <2>0, SameDirectories DEF Dirs
  <2>2. CASE List(p)
    <3>1. /\ pc[p] = "list" /\ pc'[p] = "archive" /\ UNCHANGED out
          /\ todo'[p] = {r \in Products : out[r] # None} \cup (IF outTag THEN {Tag} ELSE {})
      BY <1>0, <2>2 DEF List, files
    <3>2. \A r \in Products : r \in todo'[p] /\ out'[r] = p
      BY <3>1, AttemptAssumption DEF Made
    <3> QED BY <2>1, <3>1, <3>2 DEF Made
  <2>3. CASE ArchiveTag(p)
    <3>1. /\ pc[p] = "archive" /\ pc'[p] = "archive" /\ UNCHANGED out
          /\ todo'[p] = todo[p] \ {Tag}
      BY <1>0, <2>3 DEF ArchiveTag, files
    <3>2. \A r \in Products : IF r \in todo'[p] THEN out'[r] = p ELSE Single("archive", r)'
      BY <1>0, <2>0, <3>1, SameDirectories, TagAssumption DEF Made, Dirs
    <3> QED BY <2>1, <3>1, <3>2 DEF Made
  <2>4. CASE UnlinkArchived(p)
    <3>1. /\ pc[p] = "check" /\ pc'[p] = "archive" /\ UNCHANGED todo
          /\ out' = [out EXCEPT ![file[p]] = None]
      BY <1>0, <2>4 DEF UnlinkArchived
    <3>2. file[p] \in Products \ todo[p]
      BY <3>1 DEF Safe
    <3>3. \A r \in todo[p] \cap Products : out'[r] = out[r]
      BY <1>0, <3>1, <3>2
    <3>4. \A r \in Products : IF r \in todo'[p] THEN out'[r] = p ELSE Single("archive", r)'
      BY <1>0, <2>0, <3>1, <3>3, SameDirectories DEF Made, Dirs
    <3> QED BY <2>1, <3>1, <3>4 DEF Made
  <2>5. CASE ArchiveEnds(p)
    <3>1. pc[p] = "archive" /\ pc'[p] = "pack"
      BY <1>0, <2>5 DEF ArchiveEnds
    <3>2. todo[p] \cap Products = {}
      BY <2>5, <3>1 DEF ArchiveEnds, Safe, Faultless
    <3>3. \A r \in Products : In("archive", r)
      BY <3>1, <3>2 DEF Made, In
    <3>4. \A r \in Records : In("archive", r)'
      BY <1>0, <2>0, <3>3, SameDirectories DEF Dirs, Records
    <3> QED BY <2>1, <3>1, <3>4 DEF Made
  <2> QED BY <2>2, <2>3, <2>4, <2>5, <1>1 DEF Archive
<1>2. CASE ArchiveCopy(p)
  <2>1. PICK r \in todo[p] \cap Products :
          pc'[p] = "check" /\ dir' = [dir EXCEPT !["archive"].single[r] = out[r]]
          /\ todo'[p] = todo[p] \ {r} /\ pc[p] = "archive" /\ UNCHANGED out
    BY <1>0, <1>2 DEF ArchiveCopy, Faultless
  <2>2. dir' = WithFile("archive", r, out[r]) /\ out[r] = p
    BY <2>1 DEF WithFile, Made
  <2>3. \A d \in Dirs, s \in Records :
          /\ dir'[d].merged[s] = dir[d].merged[s]
          /\ dir'[d].single[s] = IF d = "archive" /\ s = r THEN p ELSE dir[d].single[s]
    BY <1>0, <2>2, SingleEffect DEF Dirs
  <2>4. Own(p)'  BY <1>0, <2>3 DEF Own
  <2>5. \A s \in Records : In("archive", s) => In("archive", s)'
    BY <2>3, AttemptAssumption DEF In, Single, Merged, Dirs
  <2>6. \A s \in Products : IF s \in todo'[p] THEN out'[s] = p ELSE Single("archive", s)'
    BY <1>0, <2>1, <2>3, AttemptAssumption DEF Made, Single, Dirs
  <2> QED BY <1>0, <2>1, <2>4, <2>5, <2>6 DEF Made
<1> QED BY <1>1, <1>2

(* packCycle() packs what is in the archive: every record once.            *)
LEMMA PackMade ==
  ASSUME IType, Faultless, NEW p \in Attempts, Tidy(p), FaultlessPromise(p), Made(p),
         PackCycle(p)
  PROVE  Made(p)'
<1> USE DEF Swept, Filling, Working, MergesIn, Archived, Passing, At, Go, Return, Over
<1>0. pc \in [Attempts -> Steps] /\ place \in [Attempts -> Dirs] /\ UNCHANGED dir
  BY DEF IType, TypeOK, PackCycle, RescueTag, RefusePack, Pack, StartTar, EndTar, Flag,
     Complete, Unlock, Keep, files
<1>1. CASE RescueTag(p) \/ Pack(p) \/ StartTar(p)
  <2>1. /\ pc[p] \in {"pack", "tar"}
        /\ \/ pc'[p] \in {"pack", "tarring"}
           \/ pc'[p] = "merge" /\ place'[p] = "archive"
    BY <1>0, <1>1 DEF RescueTag, Pack, StartTar
  <2>2. Own(p) /\ \A r \in Records : In("archive", r)
    BY <2>1 DEF Made
  <2>3. Own(p)' /\ \A r \in Records : In("archive", r)'
    BY <1>0, <2>2, SameDirectories DEF Dirs
  <2> QED BY <2>1, <2>3 DEF Made
<1>2. CASE RefusePack(p)
  BY <1>2 DEF RefusePack, FaultlessPromise, Faultless
<1>3. CASE EndTar(p)
  <2>1. /\ pc[p] = "tarring" /\ pc'[p] = "flag"
        /\ tar'.holds = [r \in Records |-> InArchive(r)]
    BY <1>0, <1>3 DEF EndTar, Faultless
  <2>2. ASSUME NEW r \in Records PROVE InArchive(r) = <<p>>
    <3>1. /\ OnePlace(r) /\ In("archive", r)
          /\ dir["archive"].single[r] \in {None, p}
          /\ dir["archive"].merged[r] \in {<<>>, <<p>>}
      BY <2>1 DEF Tidy, Made, Own, Dirs
    <3>2. CASE Single("archive", r)
      <4>1. dir["archive"].merged[r] = <<>>
        BY <3>1, <3>2 DEF OnePlace, Merged, Dirs
      <4>2. dir["archive"].single[r] = p /\ dir["archive"].single[r] # None
        BY <3>1, <3>2 DEF Single
      <4>3. InArchive(r) = <<>> \o <<p>>
        BY <4>1, <4>2 DEF InArchive
      <4> QED BY <4>3
    <3>3. CASE ~Single("archive", r)
      <4>1. dir["archive"].single[r] = None  BY <3>3 DEF Single
      <4>2. dir["archive"].merged[r] = <<p>>
        BY <3>1, <3>3 DEF In, Merged
      <4>3. InArchive(r) = <<p>> \o <<>>
        BY <4>1, <4>2 DEF InArchive
      <4> QED BY <4>3
    <3> QED BY <3>2, <3>3
  <2>3. tar'.holds = [r \in Records |-> <<p>>]  BY <2>1, <2>2
  <2> QED BY <2>1, <2>3 DEF Made
<1>4. CASE Flag(p) \/ Complete(p) \/ Unlock(p)
  <2>1. /\ pc[p] \in {"flag", "complete", "unlock"} /\ UNCHANGED tar
        /\ pc'[p] \in {"complete", "unlock", "returned"}
    BY <1>0, <1>4 DEF Flag, Complete, Unlock, Keep, files
  <2> QED BY <2>1 DEF Made
<1> QED BY <1>1, <1>2, <1>3, <1>4 DEF PackCycle

(* A step of an attempt with good input keeps what it has made.            *)
LEMMA StepMade ==
  ASSUME Delivery, Faultless, NEW p \in Attempts, sound[p], Step(p)
  PROVE  Made(p)'
<1>1. /\ IType /\ Tidy(p) /\ Safe(p) /\ Made(p) /\ Promise(p) /\ FaultlessPromise(p)
  BY DEF Delivery, Inv, Safety, Promises, Faultless
<1> QED BY <1>1, PrepareMade, ConvertMade, MergeMade, RunMade, ArchiveMade, PackMade
        DEF Step

(* An attempt that is not at work has made nothing yet, or delivered it.   *)
LEMMA RestsMade ==
  ASSUME NEW p \in Attempts
  PROVE  /\ pc[p] \in Over \cup {"idle", "env"} => Made(p)
         /\ pc'[p] \in Over \cup {"idle", "env"} => Made(p)'
BY DEF Made, Swept, Working, Filling, MergesIn, Archived, Over

(* What the attempt has made, in a step that leaves it and the files alone. *)
LEMMA SameMade ==
  ASSUME NEW p \in Attempts, Made(p), pc'[p] = pc[p],
         UNCHANGED <<place, todo, out, dir, tar>>
  PROVE  Made(p)'
<1>1. Own(p)' <=> Own(p)  BY SameDirectories
<1> QED BY <1>1 DEF Made, MergesIn, Archived, In, Single, Merged

(* Every step keeps it.                                                    *)
LEMMA MadeNext ==
  ASSUME Delivery, Faultless, [Next]_vars
  PROVE  \A p \in Attempts : sound'[p] => Made(p)'
<1>0. /\ pc \in [Attempts -> Steps] /\ sound \in [Attempts -> BOOLEAN] /\ IType /\ Alone
      /\ \A p \in Attempts : sound[p] => Made(p)
  BY DEF Delivery, Safety, Promises, IType, TypeOK
<1>1. CASE UNCHANGED vars \/ Environment
  <2>1. /\ UNCHANGED <<pc, place, todo, out, dir, tar>>
        /\ \A p \in Attempts : sound'[p] => sound[p]
    BY <1>1 DEF vars, locals, files, Environment, RemoveLock, RelinkInput,
       SourceRepaired, SourceExpires
  <2> QED BY <1>0, <2>1, SameMade
<1>2. ASSUME NEW p \in Attempts, Submit(p) \/ Kill(p)
      PROVE  \A q \in Attempts : sound'[q] => Made(q)'
  <2>1. /\ UNCHANGED <<place, todo, out, dir, tar>>
        /\ pc'[p] \in {"env", "killed"}
        /\ \A q \in Attempts \ {p} : pc'[q] = pc[q] /\ sound'[q] = sound[q]
    BY <1>0, <1>2 DEF Submit, Kill, Go, Keep, files
  <2>2. Made(p)'
    BY <2>1, RestsMade DEF Over
  <2>3. ASSUME NEW q \in Attempts \ {p}, sound'[q] PROVE Made(q)'
    BY <1>0, <2>1, <2>3, SameMade
  <2> QED BY <2>2, <2>3
<1>3. ASSUME NEW p \in Attempts, Step(p)
      PROVE  \A q \in Attempts : sound'[q] => Made(q)'
  <2>1. /\ Running(p) /\ \A q \in Attempts \ {p} : pc'[q] = pc[q]
        /\ UNCHANGED sound
    BY <1>0, <1>3, Frame, StepFrame
  <2>2. \A q \in Attempts \ {p} : pc'[q] \in Over \cup {"idle"}
    BY <1>0, <2>1 DEF Alone, Running
  <2>3. \A q \in Attempts \ {p} : Made(q)'
    BY <2>2, RestsMade
  <2> QED BY <1>3, <2>1, <2>3, StepMade
<1> QED BY <1>1, <1>2, <1>3 DEF Next

(* A step in which an attempt comes back with good input: it was refused,  *)
(* or all is where it should be.                                           *)
LEMMA ReturnDelivers ==
  ASSUME Delivery, Faultless, NEW p \in Attempts, sound[p], Step(p),
         pc[p] # "returned", pc'[p] = "returned"
  PROVE  rc'[p] \in {1, 2, 3} \/ (rc'[p] = 0 /\ Delivered(p)')
<1> USE DEF At, Go, Return
<1>0. /\ pc \in [Attempts -> Steps] /\ rc \in [Attempts -> {0, 1, 2, 3, 10, 12}]
      /\ tar \in [state : {"none", "partial", "whole"}, holds : [Records -> Seq(Attempts)]]
      /\ Made(p) /\ Promise(p) /\ FaultlessPromise(p)
  BY DEF Delivery, Safety, Promises, Faultless, IType, TypeOK
<1>1. CASE Prepare(p)
  BY <1>0, <1>1 DEF Prepare, CheckEnvironment, TestLock, CreateLock, RemoveOld,
     ScanInput, Verdict, RejectInput, Promise
<1>2. CASE ConvertRecords(p) \/ Merge(p)
  BY <1>0, <1>2 DEF ConvertRecords, Convert, MoveMerged, MoveSingle, MoveDone, Clean,
     Merge, MergeGroup, MergeFails, UnlinkMerged, MergeDone, AfterMerge
<1>3. CASE Run(p)
  BY <1>0, <1>3, AttemptAssumption DEF Run, WriteProduct, RunEnds, QcOutputFails,
     QcOutputPasses, FaultlessPromise, Faultless
<1>4. CASE Archive(p)
  BY <1>0, <1>4 DEF Archive, List, ArchiveTag, ArchiveCopy, UnlinkArchived, ArchiveEnds
<1>5. CASE PackCycle(p) /\ ~Unlock(p)
  BY <1>0, <1>5 DEF PackCycle, RescueTag, RefusePack, Pack, StartTar, EndTar, Flag,
     Complete
<1>6. CASE Unlock(p)
  <2>1. pc[p] = "unlock" /\ rc'[p] = 0 /\ UNCHANGED <<tar, outTag, status, completed>>
    BY <1>0, <1>6 DEF Unlock, tags, files
  <2>2. tar.state = "whole" /\ tar.holds = [r \in Records |-> <<p>>]
    BY <1>0, <2>1 DEF FaultlessPromise, Made
  <2>3. tar = [state |-> "whole", holds |-> [r \in Records |-> <<p>>]]
    BY <1>0, <2>2
  <2>4. status = "packaged" /\ completed /\ ~outTag
    BY <1>0, <2>1 DEF FaultlessPromise
  <2> QED BY <2>1, <2>3, <2>4 DEF Delivered
<1> QED BY <1>1, <1>2, <1>3, <1>4, <1>5, <1>6 DEF Step

(* An attempt whose input was good all the time, and which runs to its     *)
(* end, is refused at the door or returns 0 with a tar file that holds     *)
(* every record once, as this attempt made it, and with the tags that say  *)
(* so, whatever the attempts before it left behind: no kill, refusal or    *)
(* rejection of an earlier attempt makes a later one deliver less or       *)
(* anything of an earlier one.                                             *)
THEOREM SoundInputDelivers ==
  ASSUME Faultless
  PROVE  Spec => SoundAttemptDelivers
<1> DEFINE MadeInv == \A p \in Attempts : sound[p] => Made(p)
           Returns == \A p \in Attempts :
                        pc[p] # "returned" /\ pc'[p] = "returned" /\ sound[p] =>
                          rc'[p] \in {1, 2, 3} \/ (rc'[p] = 0 /\ Delivered(p)')
<1>1. Init => MadeInv
  <2> SUFFICES ASSUME Init, NEW p \in Attempts PROVE Made(p)
    OBVIOUS
  <2>1. pc[p] = "idle"  BY DEF Init
  <2> QED BY <2>1, RestsMade
<1>2. Inv /\ Safety /\ MadeInv /\ [Next]_vars => MadeInv'
  BY MadeNext DEF Delivery
<1>3. Inv /\ Safety /\ MadeInv /\ [Next]_vars => [Returns]_vars
  <2> SUFFICES ASSUME Delivery, Next, NEW p \in Attempts, sound[p],
                      pc[p] # "returned", pc'[p] = "returned"
               PROVE  rc'[p] \in {1, 2, 3} \/ (rc'[p] = 0 /\ Delivered(p)')
    BY DEF Delivery
  <2>0. pc \in [Attempts -> Steps] /\ IType
    BY DEF Delivery, Inv, IType, TypeOK
  <2>1. ASSUME NEW q \in Attempts, Step(q) PROVE q = p
    BY <2>0, <2>1, Frame
  <2>2. ~Environment /\ \A q \in Attempts : ~Submit(q) /\ ~Kill(q)
    <3>1. ~UNCHANGED pc  OBVIOUS
    <3>2. ~Environment
      BY <3>1 DEF Environment, RemoveLock, RelinkInput, SourceRepaired, SourceExpires,
         locals
    <3>3. \A q \in Attempts : ~Submit(q) /\ ~Kill(q)
      BY <2>0 DEF Submit, Kill, Go
    <3> QED BY <3>2, <3>3
  <2>3. Step(p)  BY <2>1, <2>2 DEF Next
  <2> QED BY <2>3, ReturnDelivers
<1>4. NoOverlap  BY DEF Faultless, NoOverlap
<1>5. (Spec => []Inv) /\ (Spec => []Safety)
  BY <1>4, InvHolds, SafetyHolds
<1> HIDE DEF MadeInv
<1>6. Spec => [][Returns]_vars
  BY <1>1, <1>2, <1>3, <1>5, PTL DEF Spec
<1> QED BY <1>6 DEF SoundAttemptDelivers

===============================================================================
