------------------------------- MODULE RunCycle -------------------------------
(***************************************************************************)
(* runCycle() of scripts/ncdcTigge.pm, with the subs and programs it       *)
(* calls, for one cycle: attempts at the cycle, one after the other or at  *)
(* the same time, on one file system.  An attempt may be killed between    *)
(* any two of its system calls, files of an attempt outlive it.            *)
(*                                                                         *)
(* Products are the files that the C program writes (see NcdcTigge),       *)
(* Converted those of run_ncep_convert.pl.  Each goes into one file of     *)
(* merged records, its group (a member and a kind of level).  Of a file    *)
(* the model keeps which attempt wrote it.                                 *)
(*                                                                         *)
(* A definition Name_Slip is a slip of the code that Name could have had.  *)
(***************************************************************************)
EXTENDS Integers, Sequences

CONSTANTS
  Attempts,   \* processes that run runTigge.pl for the cycle
  None,
  Products,   \* files expected of ncdcTigge
  Converted,  \* files expected of run_ncep_convert.pl
  LastGroup,  \* number of groups of mergeRecords()
  Group,      \* the group of each file
  May         \* what may go wrong

Records == Products \cup Converted
Groups  == 1..LastGroup

ASSUME AttemptAssumption == None \notin Attempts
ASSUME FileAssumption    == Products \cap Converted = {}
ASSUME GroupAssumption   == LastGroup \in Nat /\ Group \in [Records -> Groups]
ASSUME MayAssumption     == May \subseteq {"overlap", "kill", "disk", "expire"}

VARIABLES
  pc,         \* where each attempt is in runCycle()
  rc,         \* what it returned
  place,      \* the directory mergeRecords() works in
  group,      \* its loop variable
  todo,       \* files an attempt has listed and not yet handled
  file,       \* the one it has in hand
  sound,      \* was the input good throughout the attempt?
  input,      \* the linked input files
  lock,       \* runLatest.LOCKFILE
  inTag,      \* .qcGensCycle.passed
  outTag,     \* OUTPUT.QC.PASS in TIGGE_OUTPUT
  status,     \* OUTPUT.QC.PASS in the archive
  completed,  \* .completed
  out,        \* TIGGE_OUTPUT: who wrote each product
  dir,        \* TIGGE_OUTPUT/<cycle> and TIGGE_OUTPUT/archive/<cycle>
  tar         \* the tar file

locals == <<pc, rc, place, group, todo, file, sound>>
tags   == <<inTag, outTag, status, completed>>
files  == <<out, dir, tar>>
vars   == <<locals, input, lock, tags, files>>

Dirs    == {"stash", "archive"}
Empty   == [single |-> [r \in Records |-> None], merged |-> [r \in Records |-> <<>>]]
NoTar   == [state |-> "none", holds |-> [r \in Records |-> <<>>]]

Over       == {"returned", "killed"}
Running(p) == pc[p] \notin Over \cup {"idle"}
Idle       == \A p \in Attempts : ~Running(p)

Init ==
  /\ pc    = [p \in Attempts |-> "idle"]
  /\ rc    = [p \in Attempts |-> 0]
  /\ place = [p \in Attempts |-> "stash"]
  /\ group = [p \in Attempts |-> 1]
  /\ todo  = [p \in Attempts |-> {}]
  /\ file  = [p \in Attempts |-> None]
  /\ sound = [p \in Attempts |-> FALSE]
  /\ input \in {"good", "missing", "flawed"}
  /\ lock = None
  /\ inTag = FALSE /\ outTag = FALSE /\ status = "none" /\ completed = FALSE
  /\ out = [r \in Products |-> None]
  /\ dir = [d \in Dirs |-> Empty]
  /\ tar = NoTar

-------------------------------------------------------------------------------
(* Steps of an attempt.                                                    *)

At(p, here)     == pc[p] = here
Go(p, there)    == pc' = [pc EXCEPT ![p] = there]
Return(p, code) == Go(p, "returned") /\ rc' = [rc EXCEPT ![p] = code]
Keep            == UNCHANGED <<rc, place, group, todo, file, sound, input>>

(* A small file that is written without a look at the result.              *)
Write(x, value) == x' = value \/ ("disk" \in May /\ UNCHANGED x)

Submit(p) ==
  /\ At(p, "idle") /\ ("overlap" \in May \/ Idle)
  /\ Go(p, "env")
  /\ sound' = [sound EXCEPT ![p] = input = "good"]
  /\ UNCHANGED <<rc, place, group, todo, file, input, lock, tags, files>>

(* Missing environment variables and unreadable directories.               *)
CheckEnvironment(p) ==
  /\ At(p, "env")
  /\ \/ Go(p, "test") /\ UNCHANGED rc
     \/ \E code \in {1, 2} : Return(p, code)
  /\ UNCHANGED <<place, group, todo, file, sound, input, lock, tags, files>>

(* Two steps: another attempt may come between the test and the creation.  *)
TestLock(p) ==
  /\ At(p, "test")
  /\ \/ lock # None /\ Return(p, 3)
     \/ lock = None /\ Go(p, "create") /\ UNCHANGED rc
  /\ UNCHANGED <<place, group, todo, file, sound, input, lock, tags, files>>

CreateLock(p) ==
  /\ At(p, "create") /\ Go(p, "remove")
  /\ Write(lock, p)
  /\ Keep /\ UNCHANGED <<tags, files>>

(* The directories of an earlier attempt go, and the tar file.             *)
RemoveOld_KeepsArchive(p) ==
  /\ At(p, "remove") /\ Go(p, "scan")
  /\ dir' = [dir EXCEPT !["stash"] = Empty] /\ tar' = NoTar
  /\ Keep /\ UNCHANGED <<lock, tags, out>>

RemoveOld_KeepsTar(p) ==
  /\ At(p, "remove") /\ Go(p, "scan")
  /\ dir' = [d \in Dirs |-> Empty] /\ status' = "none"
  /\ Keep /\ UNCHANGED <<lock, inTag, outTag, completed, out, tar>>

RemoveOld(p) ==
  /\ At(p, "remove") /\ Go(p, "scan")
  /\ dir' = [d \in Dirs |-> Empty] /\ status' = "none" /\ tar' = NoTar
  /\ Keep /\ UNCHANGED <<lock, inTag, outTag, completed, out>>

(* qcGensCycle(): a tag of an earlier check settles it; missing files fail *)
(* at once; the scan of all files writes the tag before its verdict.       *)
ScanInput(p) ==
  /\ At(p, "scan")
  /\ \/ inTag /\ Go(p, "convert") /\ UNCHANGED inTag
     \/ ~inTag /\ input = "missing" /\ Go(p, "reject") /\ UNCHANGED inTag
     \/ ~inTag /\ input = "good"    /\ Go(p, "convert") /\ Write(inTag, TRUE)
     \/ ~inTag /\ input = "flawed"  /\ Go(p, "verdict") /\ Write(inTag, TRUE)
  /\ Keep /\ UNCHANGED <<lock, outTag, status, completed, files>>

Verdict_KeepsTag(p) ==
  /\ At(p, "verdict") /\ Go(p, "reject")
  /\ UNCHANGED inTag
  /\ Keep /\ UNCHANGED <<lock, outTag, status, completed, files>>

Verdict(p) ==
  /\ At(p, "verdict") /\ Go(p, "reject")
  /\ inTag' = FALSE
  /\ Keep /\ UNCHANGED <<lock, outTag, status, completed, files>>

RejectInput_KeepsLock(p) ==
  /\ At(p, "reject") /\ Return(p, 10)
  /\ UNCHANGED <<place, group, todo, file, sound, input, lock, tags, files>>

RejectInput(p) ==
  /\ At(p, "reject") /\ Return(p, 10)
  /\ lock' = None
  /\ UNCHANGED <<place, group, todo, file, sound, input, tags, files>>

-------------------------------------------------------------------------------
(* run_ncep_convert.pl; its exit code is 0 whatever happens.               *)

(* It empties its directory first.  Good input gives every record, unless  *)
(* the disk fails.  With a tar file in place it neither merges nor moves.  *)
Convert(p) ==
  /\ At(p, "convert")
  /\ \E made \in SUBSET Converted :
       /\ sound[p] /\ "disk" \notin May => made = Converted
       /\ dir' = [dir EXCEPT !["stash"] =
            [Empty EXCEPT !.single = [r \in Records |-> IF r \in made THEN p ELSE None]]]
  /\ IF tar.state = "none" THEN Go(p, "merge") ELSE Go(p, "clean")
  /\ place' = [place EXCEPT ![p] = "stash"]
  /\ group' = [group EXCEPT ![p] = 1]
  /\ UNCHANGED <<rc, todo, file, sound, input, lock, tags, out, tar>>

(* mergeRecords(): one group after the other.  It appends the files of the *)
(* group to the merged file, compares the sizes, and unlinks them.         *)
AfterMerge(p) == IF place[p] = "stash" THEN "move" ELSE "tar"

InGroup(p) == {r \in Records : Group[r] = group[p] /\ dir[place[p]].single[r] # None}

Appended(p, S) ==
  [dir EXCEPT ![place[p]].merged =
     [r \in Records |-> IF r \in S THEN Append(@[r], dir[place[p]].single[r]) ELSE @[r]]]

MergeGroup_OneTooFar(p) ==
  /\ At(p, "merge") /\ group[p] <= LastGroup + 1 /\ Go(p, "unlink")
  /\ dir'  = Appended(p, InGroup(p))
  /\ todo' = [todo EXCEPT ![p] = InGroup(p)]
  /\ UNCHANGED <<rc, place, group, file, sound, input, lock, tags, out, tar>>

MergeGroup(p) ==
  /\ At(p, "merge") /\ group[p] <= LastGroup /\ Go(p, "unlink")
  /\ dir'  = Appended(p, InGroup(p))
  /\ todo' = [todo EXCEPT ![p] = InGroup(p)]
  /\ UNCHANGED <<rc, place, group, file, sound, input, lock, tags, out, tar>>

(* A file that cannot be opened, or sizes that differ because not all was  *)
(* appended: mergeRecords() gives up and no caller looks at its return     *)
(* code.                                                                   *)
MergeFails_Unlinks(p) ==
  /\ "disk" \in May
  /\ At(p, "merge") /\ group[p] <= LastGroup /\ Go(p, "unlink")
  /\ \E S \in SUBSET InGroup(p) : (S # InGroup(p) \/ S = {}) /\ dir' = Appended(p, S)
  /\ todo' = [todo EXCEPT ![p] = InGroup(p)]
  /\ UNCHANGED <<rc, place, group, file, sound, input, lock, tags, out, tar>>

MergeFails(p) ==
  /\ "disk" \in May
  /\ At(p, "merge") /\ group[p] <= LastGroup /\ Go(p, AfterMerge(p))
  /\ \E S \in SUBSET InGroup(p) : (S # InGroup(p) \/ S = {}) /\ dir' = Appended(p, S)
  /\ Keep /\ UNCHANGED <<lock, tags, out, tar>>

UnlinkMerged_Stuck(p) ==
  /\ At(p, "unlink")
  /\ \/ \E r \in todo[p] :
          /\ dir'  = [dir EXCEPT ![place[p]].single[r] = None]
          /\ todo' = [todo EXCEPT ![p] = @ \ {r}]
          /\ UNCHANGED pc
     \/ /\ todo[p] = {} /\ Go(p, "merge")
        /\ UNCHANGED <<dir, todo>>
  /\ UNCHANGED <<rc, place, group, file, sound, input, lock, tags, out, tar>>

UnlinkMerged(p) ==
  /\ At(p, "unlink")
  /\ \/ \E r \in todo[p] :
          /\ dir'  = [dir EXCEPT ![place[p]].single[r] = None]
          /\ todo' = [todo EXCEPT ![p] = @ \ {r}]
          /\ UNCHANGED <<pc, group>>
     \/ /\ todo[p] = {}
        /\ group' = [group EXCEPT ![p] = @ + 1]
        /\ Go(p, "merge")
        /\ UNCHANGED <<dir, todo>>
  /\ UNCHANGED <<rc, place, file, sound, input, lock, tags, out, tar>>

MergeDone(p) ==
  /\ At(p, "merge") /\ group[p] > LastGroup /\ Go(p, AfterMerge(p))
  /\ Keep /\ UNCHANGED <<lock, tags, files>>

(* mv of every merged and every single file, one rename after the other.   *)
InMerged(d, g) == {r \in Records : Group[r] = g /\ dir[d].merged[r] # <<>>}

MoveMerged(p) ==
  /\ At(p, "move") /\ UNCHANGED pc
  /\ \E g \in Groups :
       /\ InMerged("stash", g) # {}
       /\ dir' = [d \in Dirs |-> [dir[d] EXCEPT !.merged = [r \in Records |->
                    IF Group[r] # g THEN @[r] ELSE IF d = "stash" THEN <<>> ELSE dir["stash"].merged[r]]]]
  /\ Keep /\ UNCHANGED <<lock, tags, out, tar>>

MoveSingle(p) ==
  /\ At(p, "move") /\ UNCHANGED pc
  /\ \E r \in Records :
       /\ dir["stash"].single[r] # None
       /\ dir' = [dir EXCEPT !["archive"].single[r] = dir["stash"].single[r],
                             !["stash"].single[r] = None]
  /\ Keep /\ UNCHANGED <<lock, tags, out, tar>>

(* Nobody looks at the exit code of mv.                                    *)
MoveDone_IgnoresMerged(p) ==
  /\ At(p, "move") /\ Go(p, "clean")
  /\ dir["stash"].single = Empty.single
  /\ Keep /\ UNCHANGED <<lock, tags, files>>

MoveDone(p) ==
  /\ At(p, "move") /\ Go(p, "clean")
  /\ dir["stash"] = Empty \/ "disk" \in May
  /\ Keep /\ UNCHANGED <<lock, tags, files>>

Clean(p) ==
  /\ At(p, "clean") /\ Go(p, "run")
  /\ dir' = [dir EXCEPT !["stash"] = Empty]
  /\ Keep /\ UNCHANGED <<lock, tags, out, tar>>

-------------------------------------------------------------------------------
(* ncdcTigge and the check of its output.                                  *)

WriteProduct(p) ==
  /\ At(p, "run") /\ UNCHANGED pc
  /\ \E r \in Products : out[r] # p /\ out' = [out EXCEPT ![r] = p]
  /\ Keep /\ UNCHANGED <<lock, tags, dir, tar>>

(* With good input and room on the disk the program writes every product;  *)
(* otherwise it may end anywhere.  Its exit code is not looked at.         *)
RunEnds(p) ==
  /\ At(p, "run") /\ Go(p, "qcout")
  /\ sound[p] /\ "disk" \notin May => \A r \in Products : out[r] = p
  /\ Keep /\ UNCHANGED <<lock, tags, files>>

(* qcOutput(): the tag of an earlier check settles it; the files are       *)
(* counted, and tigge_check reads them.                                    *)
QcOutputFails(p) ==
  /\ At(p, "qcout") /\ ~outTag /\ Return(p, 12)
  /\ (\E r \in Products : out[r] = None) \/ ~sound[p] \/ "disk" \in May
  /\ UNCHANGED <<place, group, todo, file, sound, input, lock, tags, files>>

QcOutputPasses(p) ==
  /\ At(p, "qcout") /\ Go(p, "list")
  /\ outTag \/ \A r \in Products : out[r] # None
  /\ outTag' = TRUE
  /\ Keep /\ UNCHANGED <<lock, inTag, status, completed, files>>

-------------------------------------------------------------------------------
(* archiveOutput(): copies every file it has listed, compares the sizes,   *)
(* unlinks the source.  The tag of the check is among the files.           *)

Tag == "OUTPUT.QC.PASS"

ASSUME TagAssumption == Tag \notin Records

List(p) ==
  /\ At(p, "list") /\ Go(p, "archive")
  /\ todo' = [todo EXCEPT ![p] = {r \in Products : out[r] # None} \cup (IF outTag THEN {Tag} ELSE {})]
  /\ UNCHANGED <<rc, place, group, file, sound, input, lock, tags, files>>

(* A full disk leaves the tag where it is.                                 *)
ArchiveTag(p) ==
  /\ At(p, "archive") /\ Tag \in todo[p] /\ UNCHANGED pc
  /\ todo' = [todo EXCEPT ![p] = @ \ {Tag}]
  /\ \/ outTag /\ outTag' = FALSE /\ status' = "passed"
     \/ (~outTag \/ "disk" \in May) /\ UNCHANGED <<outTag, status>>
  /\ UNCHANGED <<rc, place, group, file, sound, input, lock, inTag, completed, files>>

(* A short copy is deleted at once and its source stays.                   *)
ArchiveCopy(p) ==
  /\ At(p, "archive")
  /\ \E r \in todo[p] \cap Products :
       /\ todo' = [todo EXCEPT ![p] = @ \ {r}]
       /\ \/ /\ out[r] # None /\ Go(p, "check")
             /\ dir' = [dir EXCEPT !["archive"].single[r] = out[r]]
             /\ file' = [file EXCEPT ![p] = r]
          \/ /\ "disk" \in May /\ UNCHANGED <<pc, file>>
             /\ dir' = [dir EXCEPT !["archive"].single[r] = None]
  /\ UNCHANGED <<rc, place, group, sound, input, lock, tags, out, tar>>

UnlinkArchived(p) ==
  /\ At(p, "check") /\ Go(p, "archive")
  /\ out'  = [out EXCEPT ![file[p]] = None]
  /\ file' = [file EXCEPT ![p] = None]
  /\ UNCHANGED <<rc, place, group, todo, sound, input, lock, tags, dir, tar>>

(* No directory for a file, or a listed file that is gone: the rest stays. *)
ArchiveEnds(p) ==
  /\ At(p, "archive") /\ Go(p, "pack")
  /\ todo[p] = {} \/ "disk" \in May \/ \E r \in todo[p] \cap Products : out[r] = None
  /\ todo' = [todo EXCEPT ![p] = {}]
  /\ UNCHANGED <<rc, place, group, file, sound, input, lock, tags, files>>

-------------------------------------------------------------------------------
(* packCycle()                                                             *)

RescueTag(p) ==
  /\ At(p, "pack") /\ outTag /\ status = "none" /\ UNCHANGED pc
  /\ outTag' = FALSE /\ status' = "passed"
  /\ Keep /\ UNCHANGED <<lock, inTag, completed, files>>

RefusePack(p) ==
  /\ At(p, "pack") /\ Go(p, "complete")
  /\ \/ status = "none" /\ (~outTag \/ "disk" \in May)
     \/ status = "packaged"
  /\ Keep /\ UNCHANGED <<lock, tags, files>>

Pack(p) ==
  /\ At(p, "pack") /\ status = "passed" /\ Go(p, "merge")
  /\ place' = [place EXCEPT ![p] = "archive"]
  /\ group' = [group EXCEPT ![p] = 1]
  /\ UNCHANGED <<rc, todo, file, sound, input, lock, tags, files>>

StartTar(p) ==
  /\ At(p, "tar") /\ Go(p, "tarring")
  /\ tar' = [NoTar EXCEPT !.state = "partial"]
  /\ Keep /\ UNCHANGED <<lock, tags, out, dir>>

InArchive(r) ==
  dir["archive"].merged[r] \o
  (IF dir["archive"].single[r] = None THEN <<>> ELSE <<dir["archive"].single[r]>>)

(* tar reports its errors on the stream that nobody reads.                 *)
EndTar(p) ==
  /\ At(p, "tarring") /\ Go(p, "flag")
  /\ \/ tar' = [state |-> "whole", holds |-> [r \in Records |-> InArchive(r)]]
     \/ "disk" \in May /\ UNCHANGED tar
  /\ Keep /\ UNCHANGED <<lock, tags, out, dir>>

Flag(p) ==
  /\ At(p, "flag") /\ Go(p, "complete")
  /\ Write(status, "packaged")
  /\ Keep /\ UNCHANGED <<lock, inTag, outTag, completed, files>>

Complete(p) ==
  /\ At(p, "complete") /\ Go(p, "unlock")
  /\ Write(completed, TRUE)
  /\ Keep /\ UNCHANGED <<lock, inTag, outTag, status, files>>

Unlock(p) ==
  /\ At(p, "unlock") /\ Return(p, 0)
  /\ lock' = None
  /\ UNCHANGED <<place, group, todo, file, sound, input, tags, files>>

-------------------------------------------------------------------------------
(* What happens around the attempts.                                       *)

Kill(p) ==
  /\ "kill" \in May /\ Running(p)
  /\ Go(p, "killed")
  /\ Keep /\ UNCHANGED <<lock, tags, files>>

(* The rewind of process_tigge, and the operator whom the message of       *)
(* runCycle() tells to remove the lock.                                    *)
RemoveLock ==
  /\ Idle /\ lock # None
  /\ lock' = None
  /\ UNCHANGED <<locals, input, tags, files>>

(* link_input.py removes a directory of dangling links and links again.    *)
RelinkInput ==
  /\ Idle /\ input = "missing"
  /\ input' = "good" /\ inTag' = FALSE /\ completed' = FALSE
  /\ UNCHANGED <<locals, lock, outTag, status, files>>

(* A repaired source file shows through its link; the tags stay.           *)
SourceRepaired ==
  /\ Idle /\ input = "flawed"
  /\ input' = "good"
  /\ UNCHANGED <<locals, lock, tags, files>>

SourceExpires ==
  /\ "expire" \in May /\ input # "missing"
  /\ input' = "missing"
  /\ sound' = [p \in Attempts |-> FALSE]
  /\ UNCHANGED <<pc, rc, place, group, todo, file, lock, tags, files>>

-------------------------------------------------------------------------------
Prepare(p) ==
  \/ CheckEnvironment(p) \/ TestLock(p) \/ CreateLock(p) \/ RemoveOld(p)
  \/ ScanInput(p) \/ Verdict(p) \/ RejectInput(p)

ConvertRecords(p) ==
  \/ Convert(p) \/ MoveMerged(p) \/ MoveSingle(p) \/ MoveDone(p) \/ Clean(p)

Merge(p) == MergeGroup(p) \/ MergeFails(p) \/ UnlinkMerged(p) \/ MergeDone(p)

Run(p) == WriteProduct(p) \/ RunEnds(p) \/ QcOutputFails(p) \/ QcOutputPasses(p)

Archive(p) ==
  List(p) \/ ArchiveTag(p) \/ ArchiveCopy(p) \/ UnlinkArchived(p) \/ ArchiveEnds(p)

PackCycle(p) ==
  \/ RescueTag(p) \/ RefusePack(p) \/ Pack(p) \/ StartTar(p) \/ EndTar(p)
  \/ Flag(p) \/ Complete(p) \/ Unlock(p)

Step(p) ==
  Prepare(p) \/ ConvertRecords(p) \/ Merge(p) \/ Run(p) \/ Archive(p) \/ PackCycle(p)

Environment == RemoveLock \/ RelinkInput \/ SourceRepaired \/ SourceExpires

Next == (\E p \in Attempts : Submit(p) \/ Step(p) \/ Kill(p)) \/ Environment

Spec == Init /\ [][Next]_vars /\ \A p \in Attempts : WF_vars(Step(p))

-------------------------------------------------------------------------------
Steps ==
  {"idle", "env", "test", "create", "remove", "scan", "verdict", "reject", "convert",
   "merge", "unlink", "move", "clean", "run", "qcout", "list", "archive", "check",
   "pack", "tar", "tarring", "flag", "complete", "unlock"} \cup Over

Contents ==
  [single : [Records -> Attempts \cup {None}], merged : [Records -> Seq(Attempts)]]

(* Type correctness of the driver; the return codes are those of           *)
(* runCycle(), and the loop of mergeRecords() stops after the last group.  *)
TypeOK ==
  /\ pc \in [Attempts -> Steps]
  /\ rc \in [Attempts -> {0, 1, 2, 3, 10, 12}]
  /\ place \in [Attempts -> Dirs]
  /\ group \in [Attempts -> 1..LastGroup + 1]
  /\ todo \in [Attempts -> SUBSET (Records \cup {Tag})]
  /\ file \in [Attempts -> Products \cup {None}]
  /\ sound \in [Attempts -> BOOLEAN]
  /\ input \in {"good", "missing", "flawed"}
  /\ lock \in Attempts \cup {None}
  /\ inTag \in BOOLEAN /\ outTag \in BOOLEAN /\ completed \in BOOLEAN
  /\ status \in {"none", "passed", "packaged"}
  /\ out \in [Products -> Attempts \cup {None}]
  /\ dir \in [Dirs -> Contents]
  /\ tar \in [state : {"none", "partial", "whole"}, holds : [Records -> Seq(Attempts)]]

Held(r) ==
  \/ r \in Products /\ out[r] # None
  \/ \E d \in Dirs : dir[d].single[r] # None \/ dir[d].merged[r] # <<>>

(* Through copies, merges, moves and kills, a record of which there was a  *)
(* copy has one after every step, except where runCycle() removes what an  *)
(* earlier attempt has left.  A failing disk adds one place: the clean-up  *)
(* of run_ncep_convert.pl deletes what mv did not move.                    *)
NoRecordVanishes ==
  [][\A r \in Records : Held(r) /\ ~Held(r)' =>
       \E p \in Attempts :
         At(p, "remove") \/ ("disk" \in May /\ r \in Converted /\ At(p, "clean"))]_vars

(* Whatever an earlier attempt left behind when it was killed, refused or  *)
(* failed, merged files never hold a record twice, and neither does the    *)
(* tar file: mergeRecords() appends to files that may exist.               *)
NeverTwice ==
  \A r \in Records :
    /\ \A d \in Dirs : Len(dir[d].merged[r]) <= 1
    /\ Len(tar.holds[r]) <= 1

Delivered(p) ==
  /\ tar = [state |-> "whole", holds |-> [r \in Records |-> <<p>>]]
  /\ status = "packaged" /\ completed /\ ~outTag

(* An attempt whose input was good all the time, and which runs to its end, *)
(* is refused at the door or ends with a tar file that holds every record  *)
(* once, as this attempt made it, whatever the attempts before it left.    *)
SoundAttemptDelivers ==
  [][\A p \in Attempts :
       pc[p] # "returned" /\ pc'[p] = "returned" /\ sound[p] =>
         rc'[p] \in {1, 2, 3} \/ (rc'[p] = 0 /\ Delivered(p)')]_vars

(* The tag of the input check is written before the problems it found are  *)
(* looked at, and removed after that.  Flawed input goes on to be          *)
(* processed only when an earlier attempt was killed, for instance in      *)
(* between; its tag makes qcGensCycle() say that it has checked out.       *)
FlawedNeedsKill ==
  (\E p \in Attempts : At(p, "convert")) /\ input = "flawed" =>
    inTag /\ \E q \in Attempts : pc[q] = "killed"

(* Of all the ways out of runCycle() one alone keeps the lock, the return  *)
(* 12 after a failed check of the output: a lock whose attempt is over     *)
(* means that or a kill, even if attempts overlap and take the lock from   *)
(* each other.  LockUnlinked below is what the code says instead.          *)
LockOwner ==
  \A p \in Attempts : lock = p => Running(p) \/ pc[p] = "killed" \/ rc[p] = 12

(* runCycle() always comes to an end.                                      *)
AttemptEnds == \A p \in Attempts : Running(p) ~> ~Running(p)

-------------------------------------------------------------------------------
(* What comments of the code say.                                          *)

(* "Flag the status file as sucesssfully processed", where packCycle()     *)
(* writes it: a status file that says packaged has a tar file beside it.   *)
Packaged == status = "packaged" => tar.state = "whole"

(* "anything that breaks this loop must also unlink this LOCKFILE", where  *)
(* runCycle() creates it: only a kill leaves the lock of an attempt that   *)
(* is over.                                                                *)
LockUnlinked == \A p \in Attempts : lock = p => Running(p) \/ pc[p] = "killed"
===============================================================================
