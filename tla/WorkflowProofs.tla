---------------------------- MODULE WorkflowProofs ----------------------------
(***************************************************************************)
(* Proofs about Workflow for any finite set of cycles, any number of       *)
(* attempts of the driver, tries and rewinds, and whatever may happen      *)
(* around the jobs.                                                        *)
(***************************************************************************)
EXTENDS Workflow, TLAPS, FiniteSetTheorems

Requests(c) == \E t \in Tasks : Submit(c, t) \/ FailTask(c, t) \/ Rewind(c, t)
StepOf(c)   == Requests(c) \/ Jobs(c) \/ Expire(c)

(* A step of the workflow is a step of one of its cycles.                  *)
LEMMA NextIsStepOf == Next <=> \E c \in Cycles : StepOf(c)
BY DEF Next, StepOf, Requests

-------------------------------------------------------------------------------
(* How a step moves the tasks.                                             *)

(* The task t of cycle c is the only one that changes.                     *)
OnlyTask(c, t) ==
  \A d \in Cycles, u \in Tasks : d # c \/ u # t =>
    /\ task'[d][u] = task[d][u] /\ at'[d][u] = at[d][u]
    /\ tries'[d][u] = tries[d][u]

RocotoType ==
  /\ task \in [Cycles -> [Tasks -> {"ready", "running", "succeeded", "dead"}]]
  /\ at \in [Cycles -> [Tasks -> Places]]
  /\ tries \in [Cycles -> [Tasks -> Nat]]
  /\ rewinds \in [Cycles -> 0..MaxRewinds]

TriesLeft ==
  \A c \in Cycles, t \in Tasks :
    /\ tries[c][t] <= MaxTries[t]
    /\ task[c][t] = "ready" => tries[c][t] < MaxTries[t]
    /\ task[c][t] # "ready" => tries[c][t] > 0
    /\ task[c][t] = "dead" => tries[c][t] = MaxTries[t]

RocotoOK == RocotoType /\ TriesLeft

(* A job that goes on to its next place.                                   *)
LEMMA GotoEffect ==
  ASSUME RocotoOK, NEW c \in Cycles, NEW t \in Tasks, NEW s \in Places, Goto(c, t, s)
  PROVE  /\ RocotoOK' /\ OnlyTask(c, t)
         /\ at'[c][t] = s /\ task'[c][t] = task[c][t] /\ tries'[c][t] = tries[c][t]
         /\ rewinds' = rewinds
BY DEF RocotoOK, RocotoType, TriesLeft, Goto, OnlyTask

(* A job that ends: well, with another try left, or for good.              *)
LEMMA EndsEffect ==
  ASSUME RocotoOK, NEW c \in Cycles, NEW t \in Tasks, NEW good \in BOOLEAN,
         task[c][t] = "running", Ends(c, t, good)
  PROVE  /\ RocotoOK' /\ OnlyTask(c, t)
         /\ task'[c][t] = IF good THEN "succeeded"
                          ELSE IF tries[c][t] < MaxTries[t] THEN "ready" ELSE "dead"
         /\ tries'[c][t] = tries[c][t]
         /\ rewinds' = rewinds
<1>1. /\ task' = [task EXCEPT ![c][t] = IF good THEN "succeeded"
                          ELSE IF tries[c][t] < MaxTries[t] THEN "ready" ELSE "dead"]
      /\ at' = [at EXCEPT ![c][t] = "end"]
      /\ tries' = tries /\ rewinds' = rewinds
  BY DEF Ends, State
<1>2. "end" \in Places
  BY DEF Places
<1>3. OnlyTask(c, t) /\ RocotoType'
  BY <1>1, <1>2 DEF RocotoOK, RocotoType, OnlyTask
<1>4. TriesLeft'
  <2>1. tries[c][t] <= MaxTries[t] /\ tries[c][t] \in Nat /\ MaxTries[t] \in Nat
    BY TriesAssumption DEF RocotoOK, RocotoType, TriesLeft
  <2> QED BY <1>1, <2>1 DEF RocotoOK, RocotoType, TriesLeft
<1> QED BY <1>1, <1>3, <1>4 DEF RocotoOK, RocotoType

(* A task that is submitted: its dependencies hold, one try is used up.    *)
LEMMA SubmitEffect ==
  ASSUME RocotoOK, NEW c \in Cycles, NEW t \in Tasks, Submit(c, t)
  PROVE  /\ RocotoOK' /\ OnlyTask(c, t)
         /\ task[c][t] = "ready" /\ Dependency(c, t)
         /\ task'[c][t] = "running" /\ at'[c][t] = First(t)
         /\ tries'[c][t] = tries[c][t] + 1
         /\ rewinds' = rewinds
         /\ UNCHANGED <<driver, input, output>>
<1>1. First(t) \in Places
  BY DEF First, Tasks, Places
<1>2. /\ task' = [task EXCEPT ![c][t] = "running"]
      /\ tries' = [tries EXCEPT ![c][t] = @ + 1]
      /\ at' = [at EXCEPT ![c][t] = First(t)]
      /\ task[c][t] = "ready" /\ Dependency(c, t)
      /\ rewinds' = rewinds /\ UNCHANGED <<driver, input, output>>
  BY DEF Submit, State
<1> HIDE DEF First
<1> QED BY <1>1, <1>2, TriesAssumption DEF RocotoOK, RocotoType, TriesLeft, OnlyTask

(* A rewind gives a dead task all its tries again.                         *)
LEMMA RewindEffect ==
  ASSUME RocotoOK, NEW c \in Cycles, NEW t \in Tasks, Rewind(c, t)
  PROVE  /\ RocotoOK' /\ OnlyTask(c, t)
         /\ task[c][t] = "dead" /\ task'[c][t] = "ready"
         /\ tries'[c][t] = 0
         /\ rewinds'[c] = rewinds[c] + 1
         /\ \A d \in Cycles \ {c} : rewinds'[d] = rewinds[d]
         /\ UNCHANGED <<input, output>>
         /\ IF t = "process" THEN Unlock(c) ELSE UNCHANGED driver
<1>1. /\ task' = [task EXCEPT ![c][t] = "ready"]
      /\ tries' = [tries EXCEPT ![c][t] = 0]
      /\ rewinds' = [rewinds EXCEPT ![c] = @ + 1]
      /\ at' = at /\ task[c][t] = "dead" /\ rewinds[c] < MaxRewinds
      /\ UNCHANGED <<input, output>>
      /\ IF t = "process" THEN Unlock(c) ELSE UNCHANGED driver
  BY DEF Rewind, State
<1> QED BY <1>1, TriesAssumption, RewindsAssumption
        DEF RocotoOK, RocotoType, TriesLeft, OnlyTask

(* A job moves its own task only.                                          *)
JobMove(c, t) ==
  /\ RocotoOK' /\ OnlyTask(c, t)
  /\ task[c][t] = "running" /\ tries'[c][t] = tries[c][t]
  /\ rewinds' = rewinds

(* A job that dies under way.                                              *)
LEMMA FailTaskMove ==
  ASSUME RocotoOK, NEW c \in Cycles, NEW t \in Tasks, FailTask(c, t)
  PROVE  JobMove(c, t) /\ task'[c][t] \in {"ready", "dead"}
BY EndsEffect DEF FailTask, JobMove

(* A step of pull_from_hpss.                                               *)
LEMMA PullMove ==
  ASSUME RocotoOK, NEW c \in Cycles, Pull(c)
  PROVE  JobMove(c, "pull")
<1> "pull" \in Tasks  BY DEF Tasks
<1>1. \A s \in Places : Goto(c, "pull", s) /\ task[c]["pull"] = "running" => JobMove(c, "pull")
  BY GotoEffect DEF JobMove
<1>2. \A good \in BOOLEAN : Ends(c, "pull", good) /\ task[c]["pull"] = "running" => JobMove(c, "pull")
  BY EndsEffect DEF JobMove
<1>3. ASSUME NEW f \in Letters, LastHourArrives(c, f)  PROVE JobMove(c, "pull")
  BY <1>3 DEF LastHourArrives, rocoto, Here, JobMove, OnlyTask, RocotoOK, RocotoType, TriesLeft
<1> QED BY <1>1, <1>2, <1>3 DEF Pull, MakeDirs, EndPull, PullLost, StartExtract, EndExtract,
           Here, Places, Letters

(* A step of link_input.                                                   *)
LEMMA LinkMove ==
  ASSUME RocotoOK, NEW c \in Cycles, Link(c)
  PROVE  JobMove(c, "link")
<1> "link" \in Tasks  BY DEF Tasks
<1>1. \A s \in Places : Goto(c, "link", s) /\ task[c]["link"] = "running" => JobMove(c, "link")
  BY GotoEffect DEF JobMove
<1>2. \A good \in BOOLEAN : Ends(c, "link", good) /\ task[c]["link"] = "running" => JobMove(c, "link")
  BY EndsEffect DEF JobMove
<1> QED BY <1>1, <1>2 DEF Link, AlreadyLinked, RemoveLinks, LinkFails, StartLinks,
           EndLinks, LinkEnds, Here, Places

(* A step of process_tigge.                                                *)
LEMMA ProcessMove ==
  ASSUME RocotoOK, NEW c \in Cycles, BeginDriver(c) \/ RunDriver(c)
  PROVE  JobMove(c, "process")
<1> "process" \in Tasks  BY DEF Tasks
<1>1. CASE BeginDriver(c)
  BY <1>1, GotoEffect DEF BeginDriver, JobMove, Here, Places
<1>2. CASE RunDriver(c)
  <2>1. CASE UNCHANGED rocoto
    BY <1>2, <2>1 DEF RunDriver, rocoto, Here, JobMove, OnlyTask, RocotoOK, RocotoType, TriesLeft
  <2>2. CASE Ends(c, "process", \E p \in Attempts :
                 attempt[c][p] \in AtWork /\ attempt'[c][p] = "delivered")
    BY <1>2, <2>2, EndsEffect DEF RunDriver, Here, JobMove
  <2> QED BY <1>2, <2>1, <2>2 DEF RunDriver
<1> QED BY <1>1, <1>2

(* A step of transfer_output.                                              *)
LEMMA TransferMove ==
  ASSUME RocotoOK, NEW c \in Cycles, Transfer(c)
  PROVE  JobMove(c, "transfer")
<1> "transfer" \in Tasks  BY DEF Tasks
<1>1. \A s \in Places : Goto(c, "transfer", s) /\ task[c]["transfer"] = "running" => JobMove(c, "transfer")
  BY GotoEffect DEF JobMove
<1>2. \A good \in BOOLEAN : Ends(c, "transfer", good) /\ task[c]["transfer"] = "running" => JobMove(c, "transfer")
  BY EndsEffect DEF JobMove
<1> QED BY <1>1, <1>2 DEF Transfer, Checksum, NothingToSend, SendTar, SendChecksum, Here, Places

(* A step of archive_output.                                               *)
LEMMA ArchiveMove ==
  ASSUME RocotoOK, NEW c \in Cycles, PutTar(c)
  PROVE  JobMove(c, "archive")
BY EndsEffect DEF PutTar, Here, JobMove, Tasks

(* A step of cleanup.                                                      *)
LEMMA CleanupMove ==
  ASSUME RocotoOK, NEW c \in Cycles, Cleanup(c)
  PROVE  JobMove(c, "cleanup")
<1> "cleanup" \in Tasks  BY DEF Tasks
<1>1. \A s \in Places : Goto(c, "cleanup", s) /\ task[c]["cleanup"] = "running" => JobMove(c, "cleanup")
  BY GotoEffect DEF JobMove
<1>2. \A good \in BOOLEAN : Ends(c, "cleanup", good) /\ task[c]["cleanup"] = "running" => JobMove(c, "cleanup")
  BY EndsEffect DEF JobMove
<1> QED BY <1>1, <1>2 DEF Cleanup, RemoveSource, RemoveLinkDir, RemoveTar, DeleteEmpty, Here, Places

-------------------------------------------------------------------------------
(* Types.                                                                  *)

TarStates == {"none", "partial", "whole"}

DriverType ==
  /\ attempt \in [Cycles -> [Attempts -> {"waiting"} \cup AtWork \cup Endings]]
  /\ sound \in [Cycles -> [Attempts -> BOOLEAN]]
  /\ tar \in [Cycles -> TarStates] /\ lock \in [Cycles -> BOOLEAN]

Files == {"none", "some", "last", "stale", "full"}

DataType ==
  /\ made \in [Cycles -> BOOLEAN]
  /\ source \in [Cycles -> [Letters -> Files]]
  /\ links \in [Cycles -> {"none", "some", "all"}]
  /\ sum \in [Cycles -> BOOLEAN]
  /\ sent \in [Cycles -> [tar : TarStates, sum : BOOLEAN]]
  /\ stored \in [Cycles -> TarStates]

(* TypeOK is not inductive: the tries of a task that is ready must be left.*)
TInv == DriverType /\ DataType /\ RocotoOK

(* What a step of cycle c leaves to the other cycles; only the directory   *)
(* of another cycle may go.                                                *)
OtherCycles(c) ==
  \A d \in Cycles \ {c} :
    /\ attempt'[d] = attempt[d] /\ sound'[d] = sound[d]
    /\ tar'[d] = tar[d] /\ lock'[d] = lock[d]
    /\ source'[d] = source[d] /\ links'[d] = links[d]
    /\ sum'[d] = sum[d] /\ sent'[d] = sent[d] /\ stored'[d] = stored[d]

(* A step of the driver keeps its types and leaves other cycles alone.     *)
LEMMA DriverStepType ==
  ASSUME DriverType, NEW c \in Cycles, NEW p \in Attempts,
         DriverStep(c, p) \/ KillAttempt(c, p) \/ \E good \in BOOLEAN : Begin(c, p, good)
  PROVE  /\ DriverType'
         /\ \A d \in Cycles \ {c} :
              /\ attempt'[d] = attempt[d] /\ sound'[d] = sound[d]
              /\ tar'[d] = tar[d] /\ lock'[d] = lock[d]
<1>1. CASE \E good \in BOOLEAN : Begin(c, p, good)
  BY <1>1 DEF Begin, Becomes, DriverType, AtWork
<1>2. CASE KillAttempt(c, p)
  BY <1>2 DEF KillAttempt, Becomes, DriverType, Endings
<1>3. CASE Refuse(c, p)
  BY <1>3 DEF Refuse, Becomes, DriverType, Endings
<1>4. CASE TakeLock(c, p)
  BY <1>4, DiskAssumption DEF TakeLock, Becomes, DriverType, AtWork
<1>5. CASE Clear(c, p)
  BY <1>5 DEF Clear, Becomes, DriverType, AtWork, TarStates
<1>6. CASE Reject(c, p)
  BY <1>6 DEF Reject, Becomes, DriverType, Endings
<1>7. CASE FailOutput(c, p)
  BY <1>7 DEF FailOutput, Becomes, DriverType, Endings
<1>8. CASE BuildTar(c, p)
  BY <1>8 DEF BuildTar, DriverType, TarStates
<1>9. CASE Deliver(c, p)
  BY <1>9 DEF Deliver, Becomes, DriverType, Endings
<1> QED BY <1>1, <1>2, <1>3, <1>4, <1>5, <1>6, <1>7, <1>8, <1>9 DEF DriverStep

(* Submitting and rewinding keep the types.                                *)
LEMMA RequestType ==
  ASSUME TInv, NEW c \in Cycles, Requests(c)
  PROVE  /\ TInv' /\ OtherCycles(c) /\ UNCHANGED <<input, output, attempt, sound, tar>>
         /\ \A d \in Cycles : lock'[d] = lock[d] \/ d = c
<1>1. ASSUME NEW t \in Tasks, Submit(c, t)
      PROVE  RocotoOK' /\ UNCHANGED <<driver, input, output>>
  BY <1>1, SubmitEffect DEF TInv
<1>2. ASSUME NEW t \in Tasks, FailTask(c, t)
      PROVE  RocotoOK' /\ UNCHANGED <<driver, input, output>>
  BY <1>2, FailTaskMove DEF TInv, JobMove, FailTask
<1>3. ASSUME NEW t \in Tasks, Rewind(c, t)
      PROVE  /\ RocotoOK' /\ UNCHANGED <<attempt, sound, tar, input, output>>
             /\ \A d \in Cycles \ {c} : lock'[d] = lock[d]
             /\ lock' \in [Cycles -> BOOLEAN]
  <2>1. RocotoOK' /\ UNCHANGED <<input, output>> /\ (Unlock(c) \/ UNCHANGED driver)
    BY <1>3, RewindEffect DEF TInv
  <2> QED BY <2>1 DEF Unlock, driver, TInv, DriverType
<1> QED BY <1>1, <1>2, <1>3
        DEF Requests, TInv, driver, input, output, DriverType, DataType, OtherCycles

(* pull_from_hpss keeps the types.                                         *)
LEMMA PullType ==
  ASSUME TInv, NEW c \in Cycles, Pull(c)
  PROVE  /\ DriverType' /\ DataType' /\ OtherCycles(c)
         /\ UNCHANGED <<attempt, tar, lock, links, output>>
         /\ \A d \in Cycles \ {c} : made'[d] = made[d]
<1> USE DEF TInv, DriverType, DataType, OtherCycles, output, input, driver
<1>1. CASE MakeDirs(c)
  BY <1>1 DEF MakeDirs
<1>2. CASE EndPull(c) \/ PullLost(c)
  BY <1>2 DEF EndPull, PullLost
<1>3. ASSUME NEW f \in Letters, StartExtract(c, f)
      PROVE  /\ DriverType' /\ DataType' /\ OtherCycles(c)
             /\ UNCHANGED <<attempt, tar, lock, links, output, made>>
  <2>1. CASE Spoil(c)
    BY <1>3, <2>1 DEF StartExtract, Spoil, Files
  <2>2. CASE UNCHANGED driver
    BY <1>3, <2>2 DEF StartExtract, Files
  <2> QED BY <1>3, <2>1, <2>2 DEF StartExtract
<1>4. ASSUME NEW f \in Letters, EndExtract(c, f)
      PROVE  /\ DriverType' /\ DataType' /\ OtherCycles(c)
             /\ UNCHANGED <<attempt, tar, lock, links, output, made>>
  BY <1>4 DEF EndExtract, Files
<1>5. ASSUME NEW f \in Letters, LastHourArrives(c, f)
      PROVE  /\ DriverType' /\ DataType' /\ OtherCycles(c)
             /\ UNCHANGED <<attempt, tar, lock, links, output, made>>
  BY <1>5 DEF LastHourArrives, Files
<1> QED BY <1>1, <1>2, <1>3, <1>4, <1>5 DEF Pull

(* link_input keeps the types.                                             *)
LEMMA LinkType ==
  ASSUME TInv, NEW c \in Cycles, Link(c)
  PROVE  /\ DriverType' /\ DataType' /\ OtherCycles(c)
         /\ UNCHANGED <<driver, made, source, output>>
BY DEF TInv, DriverType, DataType, OtherCycles, output, input, driver, Link, AlreadyLinked,
   RemoveLinks, LinkFails, StartLinks, EndLinks, LinkEnds

(* process_tigge keeps the types.                                          *)
LEMMA ProcessType ==
  ASSUME TInv, NEW c \in Cycles, BeginDriver(c) \/ RunDriver(c)
  PROVE  /\ DriverType' /\ DataType' /\ OtherCycles(c)
         /\ UNCHANGED <<input, output>>
<1>1. UNCHANGED <<input, output>>
  BY DEF BeginDriver, RunDriver
<1>2. GoodInput(c) \in BOOLEAN
  BY DEF GoodInput
<1>3. PICK p \in Attempts :
        DriverStep(c, p) \/ KillAttempt(c, p) \/ \E good \in BOOLEAN : Begin(c, p, good)
  BY <1>2 DEF BeginDriver, RunDriver
<1>4. DriverType' /\ \A d \in Cycles \ {c} :
              /\ attempt'[d] = attempt[d] /\ sound'[d] = sound[d]
              /\ tar'[d] = tar[d] /\ lock'[d] = lock[d]
  BY <1>3, DriverStepType DEF TInv
<1> QED BY <1>1, <1>4 DEF TInv, DataType, OtherCycles, input, output

(* The copies of a cycle after a step of transfer_output.sh.               *)
LEMMA SendEffect ==
  ASSUME DataType, NEW c \in Cycles
  PROVE  /\ SendTar(c) => sent' = [sent EXCEPT ![c] = [tar |-> tar[c], sum |-> sent[c].sum]]
         /\ SendChecksum(c) => sent' = [sent EXCEPT ![c] = [tar |-> sent[c].tar, sum |-> TRUE]]
<1>1. \A r \in [tar : TarStates, sum : BOOLEAN] : \A x, y :
        /\ [r EXCEPT !.tar = x] = [tar |-> x, sum |-> r.sum]
        /\ [r EXCEPT !.sum = y] = [tar |-> r.tar, sum |-> y]
  OBVIOUS
<1>2. sent[c] \in [tar : TarStates, sum : BOOLEAN]
  BY DEF DataType
<1> QED BY <1>1, <1>2 DEF SendTar, SendChecksum

(* The two tasks that copy the tar file keep the types.                    *)
LEMMA CopyType ==
  ASSUME TInv, NEW c \in Cycles, Transfer(c) \/ PutTar(c)
  PROVE  /\ DriverType' /\ DataType' /\ OtherCycles(c)
         /\ UNCHANGED <<driver, input>>
<1> USE DEF TInv, DriverType, DataType, OtherCycles, output, input, driver, TarStates
<1>1. CASE Checksum(c) \/ NothingToSend(c)
  BY <1>1 DEF Checksum, NothingToSend
<1>2. CASE SendTar(c)
  <2>1. sent' = [sent EXCEPT ![c] = [tar |-> tar[c], sum |-> sent[c].sum]]
    BY <1>2, SendEffect
  <2>2. UNCHANGED <<driver, input, sum, stored>>
    BY <1>2 DEF SendTar
  <2> QED BY <2>1, <2>2
<1>3. CASE SendChecksum(c)
  <2>1. sent' = [sent EXCEPT ![c] = [tar |-> sent[c].tar, sum |-> TRUE]]
    BY <1>3, SendEffect
  <2>2. UNCHANGED <<driver, input, sum, stored>>
    BY <1>3 DEF SendChecksum
  <2> QED BY <2>1, <2>2
<1>4. CASE PutTar(c)
  BY <1>4 DEF PutTar
<1> QED BY <1>1, <1>2, <1>3, <1>4 DEF Transfer

(* cleanup keeps the types.                                                *)
LEMMA CleanupType ==
  ASSUME TInv, NEW c \in Cycles, Cleanup(c)
  PROVE  /\ DriverType' /\ DataType' /\ OtherCycles(c)
         /\ UNCHANGED <<attempt, lock, sent, stored>>
<1> USE DEF TInv, DriverType, DataType, OtherCycles, output, input, driver
<1>1. CASE RemoveSource(c)
  BY <1>1 DEF RemoveSource, Spoil, Files
<1>2. CASE RemoveLinkDir(c)
  BY <1>2 DEF RemoveLinkDir
<1>3. CASE RemoveTar(c)
  BY <1>3 DEF RemoveTar, TarStates
<1>4. CASE DeleteEmpty(c)
  BY <1>4 DEF DeleteEmpty, EmptyDir
<1> QED BY <1>1, <1>2, <1>3, <1>4 DEF Cleanup

(* Input that expires keeps the types.                                     *)
LEMMA ExpireType ==
  ASSUME TInv, NEW c \in Cycles, Expire(c)
  PROVE  /\ TInv' /\ OtherCycles(c)
         /\ UNCHANGED <<attempt, tar, lock, rocoto, made, links, output>>
<1>1. \A x \in Files : Fewer(x) \subseteq Files
  BY DEF Fewer, Files
<1> HIDE DEF Files
<1>2. PICK f \in Letters : \E left \in Fewer(source[c][f]) :
        source' = [source EXCEPT ![c][f] = left]
  BY DEF Expire
<1>3. PICK left \in Fewer(source[c][f]) : source' = [source EXCEPT ![c][f] = left]
  BY <1>2
<1>4. left \in Files
  BY <1>1, <1>3 DEF TInv, DataType
<1> QED BY <1>3, <1>4 DEF Expire, Spoil, TInv, DriverType, DataType, OtherCycles, output, rocoto,
           RocotoOK, RocotoType, TriesLeft

(* A job keeps the types, and all of the other cycles but the directory.   *)
LEMMA JobsType ==
  ASSUME TInv, NEW c \in Cycles, Jobs(c)
  PROVE  TInv' /\ OtherCycles(c)
<1>1. RocotoOK'
  BY PullMove, LinkMove, ProcessMove, TransferMove, ArchiveMove, CleanupMove
     DEF Jobs, JobMove, TInv
<1>2. DriverType' /\ DataType' /\ OtherCycles(c)
  BY PullType, LinkType, ProcessType, CopyType, CleanupType DEF Jobs
<1> QED BY <1>1, <1>2 DEF TInv

(* Every step of a cycle keeps the types.                                  *)
LEMMA StepType ==
  ASSUME TInv, NEW c \in Cycles, StepOf(c)
  PROVE  TInv' /\ OtherCycles(c)
BY JobsType, RequestType, ExpireType DEF StepOf

(* The types at the beginning.                                             *)
LEMMA InitType == Init => TInv
BY TriesAssumption, RewindsAssumption
   DEF Init, DriverInit, TInv, DriverType, DataType, TarStates, RocotoOK, RocotoType,
       TriesLeft, Places, NotSent, Files

-------------------------------------------------------------------------------
(* What each cycle is in.                                                  *)

Good(x)     == x = "whole" \/ Disk
Both(c)     == Done(c, "transfer") /\ Done(c, "archive")

(* The dependencies, once they held, go on to hold.                        *)
Ordered(c) ==
  /\ task[c]["process"] # "ready" => Done(c, "link")
  /\ task[c]["transfer"] # "ready" => Done(c, "process")
  /\ task[c]["archive"] # "ready" => Done(c, "process")
  /\ task[c]["cleanup"] # "ready" => Both(c)

(* runTigge.pl is at work only while its job runs.                         *)
DriverInJob(c) == Active(c) => Here(c, "process", "wait")

(* The tar file of a processed cycle stays what it is until both copies    *)
(* are made, and so the copies are the same.                               *)
Copies(c) ==
  /\ Done(c, "process") /\ ~Both(c) => Good(tar[c])
  /\ Done(c, "archive") =>
       /\ stored[c] # "none" /\ Good(stored[c])
       /\ ~Both(c) => stored[c] = tar[c]
  /\ Here(c, "transfer", "tar") => tar[c] # "none"
  /\ Here(c, "transfer", "checksum") => sent[c].tar = tar[c] /\ tar[c] # "none"
  /\ Done(c, "transfer") =>
       /\ sent[c].sum /\ sent[c].tar # "none"
       /\ sent[c].tar = IF Both(c) THEN stored[c] ELSE tar[c]

(* Until the first pull is in its last step files are missing; so          *)
(* link_input.py, which may have been started, makes no links.             *)
BeforeFirstPull(c) ==
  /\ rewinds[c] = 0
  /\ \/ tries[c]["pull"] = 0
     \/ (tries[c]["pull"] = 1 /\ task[c]["pull"] = "running" /\ at[c]["pull"] # "last")

NotLinked(c) ==
  /\ links[c] = "none" /\ ~Done(c, "link")
  /\ ~Here(c, "link", "symlink") /\ ~Here(c, "link", "exit")

FirstPull(c) ==
  BeforeFirstPull(c) => source[c]["b"] \notin {"stale", "full"} /\ NotLinked(c)

(* The first try of link_input.py finds no links; it ends well only with   *)
(* all of them made.                                                       *)
FirstLink(c) ==
  /\ rewinds[c] = 0
  /\ tries[c]["link"] = 0 \/ (tries[c]["link"] = 1 /\ Here(c, "link", "check"))

LinkedAgain(c) == tries[c]["link"] > 1 \/ rewinds[c] > 0

Linked(c) ==
  /\ FirstLink(c) => links[c] = "none"
  /\ Here(c, "link", "exit") => links[c] = "all"
  /\ Done(c, "link") /\ ~Done(c, "process") =>
       links[c] = "all" \/ (links[c] = "none" /\ LinkedAgain(c))

(* How far cleanup.sh is.                                                  *)
Repulled(c) == EmptyDir(c) \/ tries[c]["pull"] > 1 \/ rewinds[c] > 0

Cleaned(c) ==
  /\ Here(c, "cleanup", "links") \/ Here(c, "cleanup", "tar") => Repulled(c)
  /\ Here(c, "cleanup", "tar") => links[c] = "none"
  /\ Here(c, "cleanup", "find") \/ Done(c, "cleanup") =>
       /\ Repulled(c) /\ links[c] = "none" /\ tar[c] = "none" /\ ~sum[c]

(* The tries of a pull are lost to the clean-ups of other cycles, before   *)
(* it has written its first file.                                          *)
PullStarted(c) ==
  \/ task[c]["pull"] = "running" /\ (made[c] \/ at[c]["pull"] # "a")
  \/ task[c]["pull"] = "succeeded"

PullPlace(c) ==
  /\ task[c]["pull"] \in {"ready", "dead"} \/ (task[c]["pull"] = "running" /\ at[c]["pull"] # "last") =>
       source[c]["b"] \notin {"stale", "full"} /\ NotLinked(c)
  /\ task[c]["pull"] = "running" =>
       at[c]["pull"] \in {"mkdir", "a", "extract a", "b", "extract b", "last"}
  /\ task[c]["pull"] = "running" /\ at[c]["pull"] \in {"extract a", "b", "extract b"} =>
       made[c] /\ source[c]["a"] # "none"

PullBound(c) ==
  tries[c]["pull"] <= Cardinality(CleanedOthers(c)) + (IF PullStarted(c) THEN 1 ELSE 0)

PullTries(c) == PullPlace(c) /\ PullBound(c)

CycleInv(c) ==
  /\ Ordered(c) /\ DriverInJob(c) /\ Copies(c) /\ FirstPull(c) /\ Linked(c) /\ Cleaned(c)

Inv == TInv /\ \A c \in Cycles : CycleInv(c)

PullInv == "fail" \notin May => \A c \in Cycles : PullTries(c)

-------------------------------------------------------------------------------
(* A step keeps what the cycle it is about is in.                          *)

Frame(c) ==
  /\ OtherCycles(c)
  /\ \A d \in Cycles \ {c} :
       /\ rewinds'[d] = rewinds[d]
       /\ \A t \in Tasks : /\ task'[d][t] = task[d][t] /\ at'[d][t] = at[d][t]
                           /\ tries'[d][t] = tries[d][t]

(* A step of one cycle leaves the others alone, except for clean-up.       *)
LEMMA StepFrame ==
  ASSUME TInv, NEW c \in Cycles, StepOf(c)
  PROVE  Frame(c)
<1>1. OtherCycles(c)
  BY StepType
<1>2. CASE Expire(c)
  BY <1>1, <1>2 DEF Expire, rocoto, Frame
<1>3. CASE Jobs(c)
  <2>1. \E t \in Tasks : JobMove(c, t)
    BY <1>3, PullMove, LinkMove, ProcessMove, TransferMove, ArchiveMove, CleanupMove
       DEF Jobs, TInv, Tasks
  <2> QED BY <1>1, <2>1 DEF JobMove, OnlyTask, Frame
<1>4. CASE Requests(c)
  <2>1. PICK t \in Tasks : Submit(c, t) \/ FailTask(c, t) \/ Rewind(c, t)
    BY <1>4 DEF Requests
  <2>2. OnlyTask(c, t) /\ \A d \in Cycles \ {c} : rewinds'[d] = rewinds[d]
    BY <2>1, SubmitEffect, FailTaskMove, RewindEffect DEF TInv, JobMove
  <2> QED BY <1>1, <2>2 DEF OnlyTask, Frame
<1> QED BY <1>2, <1>3, <1>4 DEF StepOf

(* What the invariant says of a cycle is a matter of that cycle alone.     *)
LEMMA OthersKeep ==
  ASSUME NEW c \in Cycles, Frame(c), NEW d \in Cycles \ {c}, CycleInv(d)
  PROVE  CycleInv(d)'
<1>1. /\ attempt'[d] = attempt[d] /\ tar'[d] = tar[d] /\ source'[d] = source[d]
      /\ links'[d] = links[d] /\ sum'[d] = sum[d] /\ sent'[d] = sent[d]
      /\ stored'[d] = stored[d] /\ rewinds'[d] = rewinds[d]
  BY DEF Frame, OtherCycles
<1>2. \A t \in Tasks : /\ task'[d][t] = task[d][t] /\ at'[d][t] = at[d][t]
                       /\ tries'[d][t] = tries[d][t]
  BY DEF Frame
<1> USE DEF Tasks, Done, Here, Both
<1>3. Ordered(d)' /\ DriverInJob(d)'
  BY <1>1, <1>2 DEF CycleInv, Ordered, DriverInJob, Active
<1>4. Copies(d)'
  BY <1>1, <1>2 DEF CycleInv, Copies, Good
<1>5. FirstPull(d)'
  BY <1>1, <1>2 DEF CycleInv, FirstPull, BeforeFirstPull, NotLinked
<1>6. Linked(d)'
  BY <1>1, <1>2 DEF CycleInv, Linked, FirstLink, LinkedAgain
<1>7. Cleaned(d)'
  BY <1>1, <1>2 DEF CycleInv, Cleaned, Repulled, EmptyDir
<1> QED BY <1>3, <1>4, <1>5, <1>6, <1>7 DEF CycleInv

(* What a cycle relies on, through a submission.                           *)
LEMMA SubmitKeeps ==
  ASSUME TInv, NEW c \in Cycles, CycleInv(c), NEW t \in Tasks, Submit(c, t)
  PROVE  CycleInv(c)'
<1>1. /\ OnlyTask(c, t) /\ task[c][t] = "ready" /\ Dependency(c, t)
      /\ task'[c][t] = "running" /\ at'[c][t] = First(t)
      /\ tries'[c][t] = tries[c][t] + 1 /\ tries[c][t] \in Nat
      /\ rewinds' = rewinds /\ UNCHANGED <<driver, input, output>>
  BY SubmitEffect DEF TInv, RocotoOK, RocotoType
<1> USE <1>1 DEF OnlyTask, Tasks, Done, Here, Both, driver, input, output
<1>2. Ordered(c)'
  BY DEF CycleInv, Ordered, Dependency
<1>3. DriverInJob(c)'
  BY DEF CycleInv, DriverInJob, Active
<1>4. Copies(c)'
  BY DEF CycleInv, Copies, First, Good
<1>5. FirstPull(c)'
  <2>1. BeforeFirstPull(c)' => BeforeFirstPull(c)
    BY DEF BeforeFirstPull
  <2> QED BY <2>1 DEF CycleInv, FirstPull, NotLinked, First
<1>6. Linked(c)'
  BY DEF CycleInv, Linked, FirstLink, LinkedAgain, First, Ordered
<1>7. Cleaned(c)'
  BY DEF CycleInv, Cleaned, Repulled, First, EmptyDir
<1> QED BY <1>2, <1>3, <1>4, <1>5, <1>6, <1>7 DEF CycleInv

(* The same, through a job that dies under way.                            *)
LEMMA FailTaskKeeps ==
  ASSUME TInv, NEW c \in Cycles, CycleInv(c), NEW t \in Tasks, FailTask(c, t)
  PROVE  CycleInv(c)'
<1>1. /\ OnlyTask(c, t) /\ task[c][t] = "running" /\ task'[c][t] \in {"ready", "dead"}
      /\ tries'[c][t] = tries[c][t] /\ tries[c][t] \in Nat /\ tries[c][t] > 0
      /\ t # "process" /\ rewinds' = rewinds /\ UNCHANGED <<driver, input, output>>
  <2>1. RocotoOK /\ JobMove(c, t) /\ task'[c][t] \in {"ready", "dead"}
    BY FailTaskMove DEF TInv
  <2> QED BY <2>1 DEF JobMove, FailTask, RocotoOK, RocotoType, TriesLeft
<1> USE <1>1 DEF OnlyTask, Tasks, Done, Here, Both, driver, input, output
<1>2. Ordered(c)' /\ DriverInJob(c)'
  BY DEF CycleInv, Ordered, DriverInJob, Active
<1>4. Copies(c)'
  BY DEF CycleInv, Copies, Good
<1>5. FirstPull(c)'
  BY DEF CycleInv, FirstPull, BeforeFirstPull, NotLinked
<1>6. Linked(c)'
  BY DEF CycleInv, Linked, FirstLink, LinkedAgain
<1>7. Cleaned(c)'
  BY DEF CycleInv, Cleaned, Repulled, EmptyDir
<1> QED BY <1>2, <1>4, <1>5, <1>6, <1>7 DEF CycleInv

(* The same, through a rewind.                                             *)
LEMMA RewindKeeps ==
  ASSUME TInv, NEW c \in Cycles, CycleInv(c), NEW t \in Tasks, Rewind(c, t)
  PROVE  CycleInv(c)'
<1>1. /\ OnlyTask(c, t) /\ task[c][t] = "dead" /\ task'[c][t] = "ready"
      /\ rewinds'[c] > 0 /\ UNCHANGED <<attempt, tar, input, output>>
  <2>1. /\ OnlyTask(c, t) /\ task[c][t] = "dead" /\ task'[c][t] = "ready"
        /\ rewinds'[c] = rewinds[c] + 1 /\ rewinds[c] \in Nat
        /\ UNCHANGED <<input, output>>
    BY RewindEffect, RewindsAssumption DEF TInv, RocotoOK, RocotoType
  <2>2. UNCHANGED <<attempt, tar>>
    BY DEF Rewind, Unlock, driver
  <2> QED BY <2>1, <2>2
<1> USE <1>1 DEF OnlyTask, Tasks, Done, Here, Both, input, output
<1>2. Ordered(c)' /\ DriverInJob(c)'
  BY DEF CycleInv, Ordered, DriverInJob, Active
<1>4. Copies(c)'
  BY DEF CycleInv, Copies, Good
<1>5. FirstPull(c)' /\ Linked(c)'
  BY DEF CycleInv, FirstPull, BeforeFirstPull, Linked, FirstLink, LinkedAgain
<1>7. Cleaned(c)'
  BY DEF CycleInv, Cleaned, Repulled
<1> QED BY <1>2, <1>4, <1>5, <1>7 DEF CycleInv

(* What expires was there, and is not all there any more.                  *)
LEMMA ExpireEffect ==
  ASSUME TInv, NEW c \in Cycles, Expire(c)
  PROVE  /\ ~EmptyDir(c)
         /\ source'[c]["b"] \in {"stale", "full"} => source[c]["b"] \in {"stale", "full"}
<1>1. PICK f \in Letters : \E left \in Fewer(source[c][f]) :
        source' = [source EXCEPT ![c][f] = left]
  BY DEF Expire
<1>2. PICK left \in Fewer(source[c][f]) : source' = [source EXCEPT ![c][f] = left]
  BY <1>1
<1>3. source \in [Cycles -> [Letters -> Files]]
  BY DEF TInv, DataType
<1>4. \A x \in Files : x # "none" \/ Fewer(x) = {}
  BY DEF Fewer, Files
<1>5. \A x \in Files : Fewer(x) \subseteq {"none", "some", "last"}
  BY DEF Fewer, Files
<1> HIDE DEF Files
<1>6. source[c][f] # "none" /\ left \notin {"stale", "full"}
  BY <1>2, <1>3, <1>4, <1>5
<1>7. source'[c]["b"] = IF f = "b" THEN left ELSE source[c]["b"]
  BY <1>2, <1>3 DEF Letters
<1> QED BY <1>6, <1>7 DEF EmptyDir

(* The same, through input that expires.                                   *)
LEMMA ExpireKeeps ==
  ASSUME TInv, NEW c \in Cycles, CycleInv(c), Expire(c)
  PROVE  CycleInv(c)'
<1>1. /\ ~EmptyDir(c)
      /\ source'[c]["b"] \in {"stale", "full"} => source[c]["b"] \in {"stale", "full"}
      /\ UNCHANGED <<attempt, tar, task, tries, at, rewinds, links, output>>
  BY ExpireEffect DEF Expire, Spoil, rocoto
<1> USE <1>1 DEF Done, Here, Both, output
<1> QED BY DEF CycleInv, Ordered, DriverInJob, Active, Copies, Good, FirstPull, NotLinked,
               BeforeFirstPull, Linked, FirstLink, LinkedAgain, Cleaned, Repulled

(* A pull whose directory has all files, or is to have them again, is not  *)
(* the first one.                                                          *)
LEMMA PullKeeps ==
  ASSUME TInv, NEW c \in Cycles, CycleInv(c), Pull(c)
  PROVE  CycleInv(c)'
<1>1. /\ OnlyTask(c, "pull") /\ task[c]["pull"] = "running"
      /\ tries'[c]["pull"] = tries[c]["pull"] /\ tries[c]["pull"] \in Nat
      /\ tries[c]["pull"] > 0 /\ rewinds' = rewinds /\ rewinds[c] \in Nat
      /\ UNCHANGED <<attempt, tar, links, output>>
  <2>1. RocotoOK /\ JobMove(c, "pull") /\ UNCHANGED <<attempt, tar, links, output>>
    BY PullMove, PullType DEF TInv
  <2> QED BY <2>1, RewindsAssumption DEF JobMove, RocotoOK, RocotoType, TriesLeft, Tasks
<1>2. /\ task'[c]["pull"] = "running" => at[c]["pull"] # "last"
      /\ EmptyDir(c) => EmptyDir(c)' \/ at[c]["pull"] # "last"
      /\ source'[c]["b"] \in {"stale", "full"} =>
           source[c]["b"] \in {"stale", "full"} \/ at'[c]["pull"] = "last"
  <2>0. /\ source \in [Cycles -> [Letters -> Files]] /\ at \in [Cycles -> [Tasks -> Places]]
        /\ "pull" \in Tasks /\ "a" \in Letters /\ "b" \in Letters
    BY DEF TInv, DataType, RocotoOK, RocotoType, Tasks, Letters
  <2> HIDE DEF Files
  <2>1. CASE MakeDirs(c)
    BY <2>1 DEF MakeDirs, Here, EmptyDir
  <2>2. CASE EndPull(c) \/ PullLost(c)
    <3>1. source' = source /\ (task'[c]["pull"] = "running" => FALSE)
      BY <2>2, EndsEffect DEF EndPull, PullLost, Here, input, TInv, Tasks
    <3> QED BY <3>1 DEF EmptyDir
  <2>3. ASSUME NEW f \in Letters, StartExtract(c, f)
        PROVE  /\ source'[c][f] \in {"stale", "full"} => source[c][f] \in {"stale", "full"}
               /\ \A g \in Letters \ {f} : source'[c][g] = source[c][g]
    BY <2>3, <2>0 DEF StartExtract
  <2>4. ASSUME NEW f \in Letters, EndExtract(c, f)
        PROVE  /\ source'[c][f] = "full"
               /\ \A g \in Letters \ {f} : source'[c][g] = source[c][g]
    BY <2>4, <2>0 DEF EndExtract
  <2>5. ASSUME EndExtract(c, "b")
        PROVE  at'[c]["pull"] = "last"
    BY <2>5, <2>0 DEF EndExtract, Goto
  <2>6. ASSUME NEW f \in Letters, StartExtract(c, f) \/ LastHourArrives(c, f) \/ EndExtract(c, f)
        PROVE  at[c]["pull"] # "last"
    BY <2>6 DEF StartExtract, LastHourArrives, EndExtract, Here, Letters
  <2>7. CASE \E f \in Letters : StartExtract(c, f)
    BY <2>0, <2>3, <2>6, <2>7 DEF EmptyDir, Letters
  <2>8. CASE EndExtract(c, "a")
    BY <2>0, <2>4, <2>6, <2>8 DEF EmptyDir, Letters
  <2>9. CASE EndExtract(c, "b")
    BY <2>0, <2>4, <2>5, <2>6, <2>9 DEF EmptyDir, Letters
  <2>10. ASSUME NEW f \in Letters, LastHourArrives(c, f)
         PROVE  /\ source'[c][f] = "last" /\ source[c][f] = "some"
                /\ \A g \in Letters \ {f} : source'[c][g] = source[c][g]
    BY <2>10, <2>0 DEF LastHourArrives
  <2>11. CASE \E f \in Letters : LastHourArrives(c, f)
    BY <2>0, <2>6, <2>10, <2>11 DEF EmptyDir, Letters
  <2> QED BY <2>1, <2>2, <2>7, <2>8, <2>9, <2>11 DEF Pull, Letters
<1> USE <1>1 DEF OnlyTask, Tasks, Done, Here, Both, output
<1>3. Ordered(c)' /\ DriverInJob(c)'
  BY DEF CycleInv, Ordered, DriverInJob, Active
<1>4. Copies(c)'
  BY DEF CycleInv, Copies, Good
<1>5. FirstPull(c)'
  BY <1>2 DEF CycleInv, FirstPull, BeforeFirstPull, NotLinked
<1>6. Linked(c)'
  BY <1>2 DEF CycleInv, Linked, FirstLink, LinkedAgain
<1>7. Cleaned(c)'
  <2>1. task[c]["cleanup"] # "ready" => Done(c, "link")
    BY DEF CycleInv, Ordered
  <2>2. task[c]["cleanup"] # "ready" /\ EmptyDir(c) => Repulled(c)'
    BY <1>2, <2>1 DEF CycleInv, FirstPull, NotLinked, BeforeFirstPull, Repulled
  <2> QED BY <2>2 DEF CycleInv, Cleaned, Repulled
<1> QED BY <1>3, <1>4, <1>5, <1>6, <1>7 DEF CycleInv

(* link_input.py makes no link while a file is missing.                    *)
LEMMA LinkWaits ==
  ASSUME TInv, NEW c \in Cycles, Link(c), LinksDangle(c), NotLinked(c)
  PROVE  NotLinked(c)'
<1>1. LinkFails(c)
  BY DEF Link, AlreadyLinked, RemoveLinks, StartLinks, EndLinks, LinkEnds, NotLinked, Here
<1>2. RocotoOK /\ "link" \in Tasks
  BY DEF TInv, Tasks
<1> QED BY <1>1, <1>2, EndsEffect DEF LinkFails, NotLinked, Here, Done, input

(* link_input.py, when it has all files.                                   *)
LEMMA LinkKeeps ==
  ASSUME TInv, NEW c \in Cycles, CycleInv(c), Link(c)
  PROVE  CycleInv(c)'
<1>1. /\ OnlyTask(c, "link") /\ task[c]["link"] = "running"
      /\ tries'[c]["link"] = tries[c]["link"] /\ tries[c]["link"] \in Nat /\ tries[c]["link"] > 0
      /\ rewinds' = rewinds /\ rewinds[c] \in Nat /\ UNCHANGED <<driver, source, output>>
  <2>1. RocotoOK /\ JobMove(c, "link") /\ UNCHANGED <<driver, source, output>>
    BY LinkMove, LinkType DEF TInv
  <2> QED BY <2>1, RewindsAssumption DEF JobMove, RocotoOK, RocotoType, TriesLeft, Tasks
<1>2. /\ Done(c, "link")' => \/ links'[c] = "all"
                             \/ links'[c] = "none" /\ links[c] = "all" /\ Here(c, "link", "check")
      /\ Here(c, "link", "exit")' => links'[c] = "all"
      /\ ~Here(c, "link", "check")'
  <2> USE DEF Here, Done
  <2>0. /\ RocotoOK /\ "link" \in Tasks /\ links \in [Cycles -> {"none", "some", "all"}]
        /\ Here(c, "link", "exit") => links[c] = "all"
    BY DEF TInv, DataType, Tasks, CycleInv, Linked
  <2>1. CASE AlreadyLinked(c)
    BY <2>0, <2>1, EndsEffect DEF AlreadyLinked, input
  <2>2. CASE RemoveLinks(c)
    BY <2>0, <2>2, EndsEffect DEF RemoveLinks
  <2>3. CASE LinkFails(c)
    BY <2>0, <2>3, EndsEffect DEF LinkFails, input
  <2>4. CASE StartLinks(c)
    BY <2>0, <2>4, GotoEffect DEF StartLinks, Places
  <2>5. CASE EndLinks(c)
    BY <2>0, <2>5, GotoEffect DEF EndLinks, Places
  <2>6. CASE LinkEnds(c)
    BY <2>0, <2>6, EndsEffect DEF LinkEnds, input
  <2> QED BY <2>1, <2>2, <2>3, <2>4, <2>5, <2>6 DEF Link
<1> USE <1>1 DEF OnlyTask, Tasks, Done, Here, Both, driver, output
<1>3. Ordered(c)' /\ DriverInJob(c)'
  BY DEF CycleInv, Ordered, DriverInJob, Active
<1>4. Copies(c)'
  BY DEF CycleInv, Copies, Good
<1>5. FirstPull(c)'
  <2>1. source[c]["b"] \notin {"stale", "full"} => LinksDangle(c)
    BY DEF LinksDangle, Letters
  <2> QED BY <2>1, LinkWaits DEF CycleInv, FirstPull, BeforeFirstPull
<1>6. Linked(c)'
  BY <1>2 DEF CycleInv, Linked, FirstLink, LinkedAgain
<1>7. Cleaned(c)'
  BY DEF CycleInv, Cleaned, Repulled, Ordered
<1> QED BY <1>3, <1>4, <1>5, <1>6, <1>7 DEF CycleInv

(* The tar file a cycle is processed with is the one runTigge.pl returned  *)
(* 0 for.                                                                  *)
LEMMA ProcessKeeps ==
  ASSUME TInv, NEW c \in Cycles, CycleInv(c), BeginDriver(c) \/ RunDriver(c)
  PROVE  CycleInv(c)'
<1>1. /\ OnlyTask(c, "process") /\ task[c]["process"] = "running"
      /\ tries' = tries /\ rewinds' = rewinds /\ UNCHANGED <<input, output>>
  <2>1. RocotoOK /\ JobMove(c, "process") /\ UNCHANGED <<input, output>>
    BY ProcessMove, ProcessType DEF TInv
  <2>2. tries' = tries
    BY DEF BeginDriver, RunDriver, Goto, Ends, rocoto
  <2> QED BY <2>1, <2>2 DEF JobMove
<1>2. RocotoOK /\ "process" \in Tasks
  BY DEF TInv, Tasks
<1>3. /\ Active(c)' => Here(c, "process", "wait")'
      /\ Done(c, "process")' => Good(tar[c]) /\ tar' = tar
  <2>1. CASE BeginDriver(c)
    BY <2>1, <1>2, GotoEffect DEF BeginDriver, Here, Done, Places
  <2>2. CASE RunDriver(c)
    <3>1. CASE Active(c)'
      BY <3>1, <2>2 DEF RunDriver, rocoto, Here, Done
    <3>2. ASSUME ~Active(c)', Done(c, "process")'
          PROVE  Good(tar[c]) /\ tar' = tar
      <4>1. PICK p \in Attempts : attempt[c][p] \in AtWork /\ attempt'[c][p] = "delivered"
        BY <3>2, <2>2, <1>2, EndsEffect DEF RunDriver, Here, Done
      <4>2. PICK q \in Attempts : DriverStep(c, q) \/ KillAttempt(c, q)
        BY <2>2 DEF RunDriver
      <4>3. attempt \in [Cycles -> [Attempts -> {"waiting"} \cup AtWork \cup Endings]]
        BY DEF TInv, DriverType
      <4>4. Deliver(c, q)
        BY <4>1, <4>2, <4>3 DEF DriverStep, KillAttempt, Refuse, TakeLock, Clear, Reject,
           FailOutput, BuildTar, Becomes, AtWork
      <4> QED BY <4>4 DEF Deliver, Good
    <3> QED BY <3>1, <3>2
  <2> QED BY <2>1, <2>2
<1> USE <1>1 DEF OnlyTask, Tasks, Done, Here, Both, input, output
<1>4. Ordered(c)' /\ DriverInJob(c)'
  BY <1>3 DEF CycleInv, Ordered, DriverInJob
<1>5. Copies(c)'
  BY <1>3 DEF CycleInv, Copies, Ordered, Good
<1>6. FirstPull(c)'
  BY DEF CycleInv, FirstPull, BeforeFirstPull, NotLinked
<1>7. Linked(c)'
  BY DEF CycleInv, Linked, FirstLink, LinkedAgain
<1>8. Cleaned(c)'
  BY DEF CycleInv, Cleaned, Repulled, EmptyDir, Ordered
<1> QED BY <1>4, <1>5, <1>6, <1>7, <1>8 DEF CycleInv

(* Neither transfer_output.sh nor archive_output.sh touches the input.     *)
LEMMA CopyKeepsInput ==
  ASSUME TInv, NEW c \in Cycles, CycleInv(c), NEW t \in {"transfer", "archive"},
         JobMove(c, t), UNCHANGED <<driver, input>>
  PROVE  /\ Ordered(c)' /\ DriverInJob(c)' /\ FirstPull(c)' /\ Linked(c)' /\ Cleaned(c)'
         /\ Done(c, "process") /\ ~Both(c)
<1> USE DEF JobMove, OnlyTask, Tasks, Done, Here, Both, input, driver
<1>1. Ordered(c)' /\ DriverInJob(c)'
  BY DEF CycleInv, Ordered, DriverInJob, Active
<1>2. Done(c, "process") /\ ~Both(c) /\ task[c]["cleanup"] = "ready"
  BY DEF CycleInv, Ordered
<1>3. FirstPull(c)'
  BY DEF CycleInv, FirstPull, BeforeFirstPull, NotLinked
<1>4. Linked(c)'
  BY <1>2 DEF CycleInv, Linked, FirstLink, LinkedAgain
<1>5. Cleaned(c)'
  BY <1>2 DEF Cleaned
<1> QED BY <1>1, <1>2, <1>3, <1>4, <1>5

(* transfer_output.sh and archive_output.sh copy the same tar file.        *)
LEMMA TransferKeeps ==
  ASSUME TInv, NEW c \in Cycles, CycleInv(c), Transfer(c)
  PROVE  CycleInv(c)'
<1>1. JobMove(c, "transfer") /\ UNCHANGED <<driver, input>>
  BY TransferMove, CopyType DEF TInv
<1>2. /\ Ordered(c)' /\ DriverInJob(c)' /\ FirstPull(c)' /\ Linked(c)' /\ Cleaned(c)'
      /\ Done(c, "process") /\ ~Both(c)
  BY <1>1, CopyKeepsInput
<1>3. /\ RocotoOK /\ DataType /\ "transfer" \in Tasks
      /\ sent \in [Cycles -> [tar : TarStates, sum : BOOLEAN]]
  BY DEF TInv, DataType, Tasks
<1>4. /\ at'[c]["transfer"] = "tar" => tar[c] # "none"
      /\ at'[c]["transfer"] = "checksum" =>
           sent'[c].tar = tar[c] /\ Here(c, "transfer", "tar")
      /\ Done(c, "transfer")' =>
           sent'[c].sum /\ sent'[c].tar = sent[c].tar /\ Here(c, "transfer", "checksum")
      /\ stored' = stored
  <2>1. CASE Checksum(c)
    BY <1>3, <2>1, GotoEffect DEF Checksum, Places, Here, Done
  <2>2. CASE NothingToSend(c)
    BY <1>3, <2>2, EndsEffect DEF NothingToSend, Ends, RocotoOK, RocotoType, Here, Done
  <2>3. CASE SendTar(c)
    <3>1. sent'[c].tar = tar[c]
      BY <1>3, <2>3, SendEffect
    <3>2. at'[c]["transfer"] = "checksum" /\ task'[c]["transfer"] = "running"
      BY <1>3, <2>3, GotoEffect DEF SendTar, Places, Here
    <3> QED BY <2>3, <3>1, <3>2 DEF SendTar, Done
  <2>4. CASE SendChecksum(c)
    BY <1>3, <2>4, EndsEffect, SendEffect DEF SendChecksum, Ends, RocotoOK, RocotoType, Here, Done
  <2> QED BY <2>1, <2>2, <2>3, <2>4 DEF Transfer
<1>5. Copies(c)'
  BY <1>1, <1>2, <1>4
     DEF CycleInv, Copies, JobMove, OnlyTask, Tasks, Done, Here, Both, Good, driver
<1> QED BY <1>2, <1>5 DEF CycleInv

(* The same, through archive_output.                                       *)
LEMMA ArchiveKeeps ==
  ASSUME TInv, NEW c \in Cycles, CycleInv(c), PutTar(c)
  PROVE  CycleInv(c)'
<1>1. JobMove(c, "archive") /\ UNCHANGED <<driver, input>>
  BY ArchiveMove, CopyType DEF TInv
<1>2. /\ Ordered(c)' /\ DriverInJob(c)' /\ FirstPull(c)' /\ Linked(c)' /\ Cleaned(c)'
      /\ Done(c, "process") /\ ~Both(c)
  BY <1>1, CopyKeepsInput
<1>3. RocotoOK /\ "archive" \in Tasks /\ stored \in [Cycles -> TarStates]
  BY DEF TInv, DataType, Tasks
<1>4. sent' = sent /\ (Done(c, "archive")' => stored'[c] = tar[c] /\ tar[c] # "none")
  BY <1>3, EndsEffect DEF PutTar, Here, Done
<1>5. Copies(c)'
  BY <1>1, <1>2, <1>4
     DEF CycleInv, Copies, JobMove, OnlyTask, Tasks, Done, Here, Both, Good, driver
<1> QED BY <1>2, <1>5 DEF CycleInv

(* cleanup.sh works on a cycle that is processed and copied.               *)
LEMMA CleanupKeeps ==
  ASSUME TInv, NEW c \in Cycles, CycleInv(c), Cleanup(c)
  PROVE  CycleInv(c)'
<1>1. JobMove(c, "cleanup") /\ UNCHANGED <<attempt, sent, stored>>
  BY CleanupMove, CleanupType DEF TInv
<1> USE DEF JobMove, OnlyTask, Tasks, Done, Here, Both
<1>2. Both(c) /\ Done(c, "process") /\ task[c]["link"] # "ready"
  BY <1>1 DEF CycleInv, Ordered
<1>3. Ordered(c)' /\ DriverInJob(c)'
  BY <1>1 DEF CycleInv, Ordered, DriverInJob, Active
<1>4. Copies(c)'
  BY <1>1, <1>2 DEF CycleInv, Copies, Good
<1>5. FirstPull(c)' /\ Linked(c)'
  <2>1. Done(c, "link") /\ tries[c]["link"] > 0 /\ ~BeforeFirstPull(c)
    BY <1>2 DEF CycleInv, Ordered, FirstPull, NotLinked, TInv, RocotoOK, TriesLeft
  <2> QED BY <1>1, <1>2, <2>1 DEF CycleInv, FirstPull, BeforeFirstPull, Linked, FirstLink
<1>6. Cleaned(c)'
  <2>0. /\ RocotoOK /\ "cleanup" \in Tasks
        /\ source \in [Cycles -> [Letters -> Files]]
        /\ links \in [Cycles -> {"none", "some", "all"}] /\ sum \in [Cycles -> BOOLEAN]
        /\ tar \in [Cycles -> TarStates]
    BY DEF TInv, DataType, DriverType
  <2> HIDE DEF Tasks
  <2>1. source' = source \/ EmptyDir(c)'
    <3>1. CASE RemoveSource(c)
      BY <2>0, <3>1 DEF RemoveSource, EmptyDir
    <3>2. CASE RemoveLinkDir(c) \/ RemoveTar(c)
      BY <2>0, <3>2 DEF RemoveLinkDir, RemoveTar, input
    <3>3. CASE DeleteEmpty(c)
      BY <2>0, <3>3 DEF DeleteEmpty, input
    <3> QED BY <3>1, <3>2, <3>3 DEF Cleanup
  <2>2. Repulled(c) \/ EmptyDir(c)' => Repulled(c)'
    BY <1>1, <2>1 DEF Repulled, EmptyDir, Tasks
  <2>3. CASE RemoveSource(c)
    <3>1. EmptyDir(c)' /\ Here(c, "cleanup", "links")'
      BY <2>0, <2>3, GotoEffect DEF RemoveSource, EmptyDir, Places
    <3> QED BY <2>2, <3>1 DEF Cleaned
  <2>4. CASE RemoveLinkDir(c)
    <3>1. links'[c] = "none" /\ Here(c, "cleanup", "tar")' /\ Here(c, "cleanup", "links")
      BY <2>0, <2>4, GotoEffect DEF RemoveLinkDir, Places
    <3> QED BY <2>2, <3>1 DEF Cleaned, CycleInv
  <2>5. CASE RemoveTar(c)
    <3>1. /\ tar'[c] = "none" /\ ~sum'[c] /\ links' = links
          /\ Here(c, "cleanup", "find")' /\ Here(c, "cleanup", "tar")
      BY <2>0, <2>5, GotoEffect DEF RemoveTar, Places, input
    <3> QED BY <2>2, <3>1 DEF Cleaned, CycleInv
  <2>6. CASE DeleteEmpty(c)
    <3>1. /\ UNCHANGED <<tar, sum, links>> /\ Done(c, "cleanup")' /\ Here(c, "cleanup", "find")
      BY <2>0, <2>6, EndsEffect DEF DeleteEmpty, driver, output
    <3> QED BY <2>2, <3>1 DEF Cleaned, CycleInv
  <2> QED BY <2>3, <2>4, <2>5, <2>6 DEF Cleanup
<1> QED BY <1>3, <1>4, <1>5, <1>6 DEF CycleInv

(* The same, through any step of the cycle itself.                         *)
LEMMA CycleKeeps ==
  ASSUME TInv, NEW c \in Cycles, CycleInv(c), StepOf(c)
  PROVE  CycleInv(c)'
BY SubmitKeeps, FailTaskKeeps, RewindKeeps, ExpireKeeps, PullKeeps, LinkKeeps, ProcessKeeps,
   TransferKeeps, ArchiveKeeps, CleanupKeeps DEF StepOf, Requests, Jobs

(* The inductive invariant holds at the beginning,                         *)
LEMMA InitInv == Init => Inv
<1> SUFFICES ASSUME Init  PROVE Inv
  OBVIOUS
<1>1. TInv
  BY InitType
<1>2. ASSUME NEW c \in Cycles  PROVE CycleInv(c)
  <2>1. /\ \A t \in Tasks : task[c][t] = "ready" /\ tries[c][t] = 0
        /\ source[c]["b"] = "none" /\ links[c] = "none" /\ ~Active(c)
    BY DEF Init, DriverInit, Active, AtWork, Letters
  <2> QED BY <2>1 DEF CycleInv, Ordered, DriverInJob, Copies, FirstPull, BeforeFirstPull,
             NotLinked, Linked, FirstLink, Cleaned, Done, Here, Tasks
<1> QED BY <1>1, <1>2 DEF Inv

(* every step keeps it,                                                    *)
LEMMA NextInv == Inv /\ [Next]_vars => Inv'
<1> SUFFICES ASSUME Inv, [Next]_vars  PROVE Inv'
  OBVIOUS
<1>1. CASE Next
  <2>1. PICK c \in Cycles : StepOf(c)
    BY <1>1, NextIsStepOf
  <2>2. TInv' /\ Frame(c)
    BY <2>1, StepType, StepFrame DEF Inv
  <2>3. CycleInv(c)'
    BY <2>1, CycleKeeps DEF Inv
  <2>4. \A d \in Cycles \ {c} : CycleInv(d)'
    BY <2>2, OthersKeep DEF Inv
  <2> QED BY <2>2, <2>3, <2>4 DEF Inv
<1>2. CASE UNCHANGED vars
  BY <1>2 DEF vars, driver, rocoto, input, output, Inv, TInv, DriverType, DataType, RocotoOK,
     RocotoType, TriesLeft, CycleInv, Ordered, DriverInJob, Active, Copies, FirstPull,
     BeforeFirstPull, NotLinked, Linked, FirstLink, LinkedAgain, Cleaned, Repulled, EmptyDir,
     Done, Here, Both, Good
<1> QED BY <1>1, <1>2

(* and so it always holds.                                                 *)
LEMMA Invariance == Spec => []Inv
BY InitInv, NextInv, PTL DEF Spec

-------------------------------------------------------------------------------
(* The theorems.                                                           *)

(* The variables stay in their sets, and no task is submitted more often   *)
(* than hpss.xml allows.                                                   *)
THEOREM TypeCorrect == Spec => []TypeOK
<1>1. Inv => TypeOK
  BY TriesAssumption DEF Inv, TInv, DriverType, DataType, TarStates, RocotoOK, RocotoType,
     TriesLeft, TypeOK, Files
<1> QED BY <1>1, Invariance, PTL

(* cleanup.sh deletes nothing of which the bucket and the tape have not    *)
(* the same whole copy.                                                    *)
THEOREM CopiesBeforeCleanup == Spec => []SafeToDelete
<1>1. Inv => SafeToDelete
  <2> SUFFICES ASSUME Inv, NEW c \in Cycles, task[c]["cleanup"] # "ready"
               PROVE  /\ sent[c].sum /\ sent[c].tar = stored[c]
                      /\ stored[c] \in (IF Disk THEN {"partial", "whole"} ELSE {"whole"})
    BY DEF SafeToDelete
  <2>1. Both(c) /\ Copies(c)
    BY DEF Inv, CycleInv, Ordered
  <2>2. stored[c] \in TarStates
    BY DEF Inv, TInv, DataType
  <2> QED BY <2>1, <2>2 DEF Copies, Both, Good, TarStates
<1> QED BY <1>1, Invariance, PTL

(* A cycle that link_input has passed on has all its links, whatever files *)
(* were there when it was started; or none, after a second try.            *)
THEOREM LinksAreAllOrNone == Spec => []LinksAllOrNone
<1>1. Inv => LinksAllOrNone
  BY DEF Inv, CycleInv, Linked, LinkedAgain, LinksAllOrNone
<1> QED BY <1>1, Invariance, PTL

(* Only what a second pull has fetched outlives cleanup.sh.                *)
THEOREM CleanupLeavesNothing == Spec => []LeftClean
<1>1. Inv => LeftClean
  BY DEF Inv, CycleInv, Cleaned, Repulled, LeftClean
<1> QED BY <1>1, Invariance, PTL

(* No job of the workflow but a second pull of the same cycle changes the  *)
(* input under a running driver.                                           *)
THEOREM DriverUndisturbed == Spec => OnlyRefetchDisturbs
<1>1. ASSUME Inv, [Next]_vars
      PROVE  [\A c \in Cycles :
                Active(c) /\ Active(c)' /\ source'[c] # source[c] =>
                  \/ Pull(c) /\ (tries[c]["pull"] > 1 \/ rewinds[c] > 0)
                  \/ Expire(c)]_vars
  <2> SUFFICES ASSUME Next, NEW c \in Cycles,
                      Active(c), source'[c] # source[c], ~Expire(c)
               PROVE  Pull(c) /\ (tries[c]["pull"] > 1 \/ rewinds[c] > 0)
    BY <1>1
  <2>1. PICK d \in Cycles : StepOf(d)
    BY NextIsStepOf
  <2>2. d = c
    BY <1>1, <2>1, StepType DEF Inv, OtherCycles
  <2>3. Here(c, "process", "wait") /\ Done(c, "link") /\ task[c]["cleanup"] = "ready"
    BY <1>1 DEF Inv, CycleInv, DriverInJob, Ordered, Here, Both, Done
  <2>4. ~Requests(c) /\ ~Link(c) /\ ~BeginDriver(c) /\ ~RunDriver(c) /\ ~Transfer(c) /\ ~PutTar(c)
    BY <1>1, <2>2, RequestType, LinkType, ProcessType, CopyType DEF Inv, input
  <2>5. ~Cleanup(c)
    BY <2>3, <1>1, CleanupMove DEF Inv, TInv, JobMove
  <2>6. Pull(c)
    BY <2>1, <2>2, <2>4, <2>5 DEF StepOf, Jobs
  <2>7. task[c]["pull"] = "running" /\ at[c]["pull"] # "last"
    BY <2>6 DEF Pull, MakeDirs, EndPull, PullLost, StartExtract, LastHourArrives, EndExtract, Here, input, Letters
  <2>8. tries[c]["pull"] \in Nat /\ rewinds[c] \in Nat /\ ~BeforeFirstPull(c)
    BY <1>1, <2>3, RewindsAssumption
       DEF Inv, TInv, RocotoOK, RocotoType, CycleInv, FirstPull, NotLinked, Done, Tasks
  <2> QED BY <2>6, <2>7, <2>8 DEF BeforeFirstPull
<1> QED BY <1>1, Invariance, PTL DEF Spec, OnlyRefetchDisturbs
-------------------------------------------------------------------------------
(* The pull that loses its directory.                                      *)

(* The cycles already cleaned up are finitely many.                        *)
LEMMA OthersBound ==
  ASSUME NEW c \in Cycles
  PROVE  /\ IsFiniteSet(CleanedOthers(c)) /\ Cardinality(CleanedOthers(c)) \in Nat
<1>1. CleanedOthers(c) \subseteq Cycles
  BY DEF CleanedOthers
<1> QED BY <1>1, CyclesAssumption, FS_Subset, FS_CardinalityType

(* They are finitely many after a step as well.                            *)
LEMMA OthersBoundNext ==
  ASSUME NEW c \in Cycles
  PROVE  Cardinality(CleanedOthers(c)') \in Nat /\ IsFiniteSet(CleanedOthers(c)')
<1>1. CleanedOthers(c)' \subseteq Cycles
  BY DEF CleanedOthers
<1> QED BY <1>1, CyclesAssumption, FS_Subset, FS_CardinalityType

(* A cycle that is cleaned up stays so; it becomes so by the last step of  *)
(* its clean-up.                                                           *)
LEMMA OthersGrow ==
  ASSUME TInv, NEW c \in Cycles, NEW d \in Cycles, StepOf(d), TInv'
  PROVE  /\ Cardinality(CleanedOthers(c)) <= Cardinality(CleanedOthers(c)')
         /\ DeleteEmpty(d) /\ d # c =>
              Cardinality(CleanedOthers(c)') = Cardinality(CleanedOthers(c)) + 1
<1>1. \A e \in Cycles : Done(e, "cleanup") => Done(e, "cleanup")'
  <2>1. \A e \in Cycles \ {d} : task'[e]["cleanup"] = task[e]["cleanup"]
    BY StepFrame DEF Frame, Tasks
  <2>2. CASE Expire(d)
    BY <2>1, <2>2 DEF Expire, rocoto, Done
  <2>3. CASE Jobs(d)
    <3>1. \E t \in Tasks : JobMove(d, t)
      BY <2>3, PullMove, LinkMove, ProcessMove, TransferMove, ArchiveMove, CleanupMove
         DEF Jobs, TInv, Tasks
    <3> QED BY <2>1, <3>1 DEF JobMove, OnlyTask, Done, Tasks
  <2>4. CASE Requests(d)
    <3>1. PICK t \in Tasks : Submit(d, t) \/ FailTask(d, t) \/ Rewind(d, t)
      BY <2>4 DEF Requests
    <3>2. OnlyTask(d, t) /\ task[d][t] # "succeeded"
      BY <3>1, SubmitEffect, FailTaskMove, RewindEffect DEF TInv, JobMove
    <3> QED BY <2>1, <3>2 DEF OnlyTask, Done, Tasks
  <2> QED BY <2>2, <2>3, <2>4 DEF StepOf
<1>2. CleanedOthers(c) \subseteq CleanedOthers(c)'
  BY <1>1 DEF CleanedOthers
<1>4. Cardinality(CleanedOthers(c)) <= Cardinality(CleanedOthers(c)')
  BY <1>2, OthersBoundNext, FS_Subset
<1>5. ASSUME DeleteEmpty(d), d # c
      PROVE  Cardinality(CleanedOthers(c)') = Cardinality(CleanedOthers(c)) + 1
  <2>1. /\ task'[d]["cleanup"] = "succeeded" /\ ~Done(d, "cleanup")
        /\ \A e \in Cycles \ {d} : task'[e]["cleanup"] = task[e]["cleanup"]
    BY <1>5, EndsEffect, StepFrame DEF DeleteEmpty, Here, Done, TInv, Frame, Tasks
  <2>2. CleanedOthers(c)' = CleanedOthers(c) \cup {d} /\ d \notin CleanedOthers(c)
    BY <2>1, <1>5 DEF CleanedOthers, Done
  <2> QED BY <2>2, OthersBound, FS_AddElement
<1> QED BY <1>4, <1>5

(* Only find in cleanup.sh reaches the directory of another cycle.         *)
LEMMA DirectoryOfAnother ==
  ASSUME TInv, NEW c \in Cycles, NEW d \in Cycles \ {c}, StepOf(d)
  PROVE  \/ made'[c] = made[c]
         \/ DeleteEmpty(d) /\ made'[c] = (made[c] /\ ~EmptyDir(c))
<1>1. CASE Requests(d) \/ Expire(d) \/ Link(d) \/ BeginDriver(d) \/ RunDriver(d) \/ Transfer(d) \/ PutTar(d)
  BY <1>1, RequestType, ExpireType, LinkType, ProcessType, CopyType DEF input
<1>2. CASE Pull(d)
  BY <1>2, PullType
<1>3. CASE Cleanup(d)
  <2>1. CASE DeleteEmpty(d)
    BY <2>1 DEF DeleteEmpty
  <2>2. CASE RemoveSource(d)
    BY <2>2 DEF RemoveSource, TInv, DataType
  <2>3. CASE RemoveLinkDir(d) \/ RemoveTar(d)
    BY <2>3 DEF RemoveLinkDir, RemoveTar, input
  <2> QED BY <1>3, <2>1, <2>2, <2>3 DEF Cleanup
<1> QED BY <1>1, <1>2, <1>3 DEF StepOf, Jobs

(* Each clean-up of another cycle costs a pull one try at most.            *)
LEMMA PullTriesOther ==
  ASSUME TInv, TInv', NEW c \in Cycles, NEW d \in Cycles \ {c}, StepOf(d), PullTries(c)
  PROVE  PullTries(c)'
<1>1. /\ task'[c]["pull"] = task[c]["pull"] /\ task'[c]["link"] = task[c]["link"]
      /\ at'[c]["pull"] = at[c]["pull"] /\ at'[c]["link"] = at[c]["link"]
      /\ tries'[c]["pull"] = tries[c]["pull"]
      /\ source'[c] = source[c] /\ links'[c] = links[c]
  BY StepFrame DEF Frame, OtherCycles, Tasks
<1>2. PullPlace(c)'
  <2>1. made[c] /\ source[c]["a"] # "none" => made'[c]
    BY DirectoryOfAnother DEF EmptyDir, Letters
  <2> QED BY <1>1, <2>1 DEF PullTries, PullPlace, NotLinked, Done, Here
<1>3. PullBound(c)'
  <2> DEFINE N == Cardinality(CleanedOthers(c))
             M == Cardinality(CleanedOthers(c)')
  <2>1. /\ N <= M /\ N \in Nat /\ M \in Nat /\ tries[c]["pull"] \in Nat
        /\ made'[c] = made[c] \/ M = N + 1
    BY OthersBound, OthersBoundNext, OthersGrow, DirectoryOfAnother
       DEF TInv, RocotoOK, RocotoType, Tasks
  <2>2. tries[c]["pull"] <= N + (IF PullStarted(c) THEN 1 ELSE 0)
    BY DEF PullTries, PullBound
  <2> HIDE DEF N, M
  <2>3. tries'[c]["pull"] <= M + (IF PullStarted(c)' THEN 1 ELSE 0)
    BY <1>1, <2>1, <2>2 DEF PullStarted
  <2> QED BY <2>3 DEF PullBound, M
<1> QED BY <1>2, <1>3 DEF PullTries

(* A pull that is through, or whose files and link task a step leaves.     *)
LEMMA PullTriesKept ==
  ASSUME TInv, TInv', NEW c \in Cycles, StepOf(c), PullTries(c),
         task'[c]["pull"] = task[c]["pull"], at'[c]["pull"] = at[c]["pull"],
         tries'[c]["pull"] = tries[c]["pull"],
         \/ task[c]["pull"] = "succeeded" \/ Here(c, "pull", "last")
         \/ /\ made'[c] = made[c] /\ (NotLinked(c) => NotLinked(c)')
            /\ source'[c] = source[c] \/ task[c]["pull"] = "dead"
            /\ source'[c]["b"] \in {"stale", "full"} => source[c]["b"] \in {"stale", "full"}
  PROVE  PullTries(c)'
<1>1. PullPlace(c)'
  BY DEF PullTries, PullPlace, Here
<1>2. PullBound(c)'
  <2> DEFINE N == Cardinality(CleanedOthers(c))
             M == Cardinality(CleanedOthers(c)')
  <2>1. N <= M /\ N \in Nat /\ M \in Nat /\ tries[c]["pull"] \in Nat
    BY OthersBound, OthersBoundNext, OthersGrow DEF TInv, RocotoOK, RocotoType, Tasks
  <2>2. tries[c]["pull"] <= N + (IF PullStarted(c) THEN 1 ELSE 0)
    BY DEF PullTries, PullBound
  <2> HIDE DEF N, M
  <2>3. tries'[c]["pull"] <= M + (IF PullStarted(c)' THEN 1 ELSE 0)
    BY <2>1, <2>2 DEF PullStarted, Here
  <2> QED BY <2>3 DEF PullBound, M
<1> QED BY <1>1, <1>2 DEF PullTries


(* A step of pull_from_hpss.py: its place, and the try it may lose.        *)
LEMMA PullTriesPull ==
  ASSUME TInv, TInv', NEW c \in Cycles, Pull(c), PullTries(c)
  PROVE  PullTries(c)'
<1>1. /\ RocotoOK /\ DataType /\ "pull" \in Tasks /\ "a" \in Letters /\ "b" \in Letters
      /\ source \in [Cycles -> [Letters -> Files]]
      /\ made \in [Cycles -> BOOLEAN] /\ StepOf(c)
  BY DEF TInv, DataType, Tasks, Letters, StepOf, Jobs
<1> HIDE DEF Files
<1>2. /\ task[c]["pull"] = "running" /\ tries'[c]["pull"] = tries[c]["pull"]
      /\ NotLinked(c) => NotLinked(c)'
  BY PullMove, PullType DEF TInv, JobMove, OnlyTask, Tasks, NotLinked, Done, Here
<1>3. PullStarted(c)' \/ ~PullStarted(c) => PullBound(c)'
  <2> DEFINE N == Cardinality(CleanedOthers(c))
             M == Cardinality(CleanedOthers(c)')
  <2>1. N <= M /\ N \in Nat /\ M \in Nat /\ tries[c]["pull"] \in Nat
    BY <1>1, OthersBound, OthersBoundNext, OthersGrow DEF RocotoOK, RocotoType
  <2>2. tries[c]["pull"] <= N + (IF PullStarted(c) THEN 1 ELSE 0)
    BY DEF PullTries, PullBound
  <2> HIDE DEF N, M
  <2>3. PullStarted(c)' \/ ~PullStarted(c) =>
          tries'[c]["pull"] <= M + (IF PullStarted(c)' THEN 1 ELSE 0)
    BY <1>2, <2>1, <2>2
  <2> QED BY <2>3 DEF PullBound, M
<1>5. CASE MakeDirs(c)
  <2>1. Here(c, "pull", "a")' /\ made'[c] /\ source' = source /\ Here(c, "pull", "mkdir")
    BY <1>1, <1>5, GotoEffect DEF MakeDirs, Here, Places
  <2> QED BY <1>2, <1>3, <2>1 DEF PullTries, PullPlace, PullStarted, Here
<1>6. CASE EndPull(c)
  <2>1. task'[c]["pull"] = "succeeded"
    BY <1>1, <1>6, EndsEffect DEF EndPull, Here
  <2> QED BY <1>3, <2>1 DEF PullTries, PullPlace, PullStarted
<1>7. CASE PullLost(c)
  <2>1. at[c]["pull"] = "a" /\ ~made[c]
    BY <1>7 DEF PullLost, PullTries, PullPlace
  <2>2. task'[c]["pull"] \in {"ready", "dead"} /\ source' = source
    BY <1>1, <1>7, EndsEffect DEF PullLost, input
  <2> QED BY <1>2, <1>3, <2>1, <2>2 DEF PullTries, PullPlace, PullStarted
<1>8. ASSUME NEW f \in Letters, StartExtract(c, f)  PROVE PullTries(c)'
  <2>1. /\ Here(c, "pull", f) /\ made[c] /\ made' = made
        /\ Here(c, "pull", IF f = "a" THEN "extract a" ELSE "extract b")'
    BY <1>1, <1>8, GotoEffect DEF StartExtract, Here, Places
  <2>2. /\ source'[c][f] \in {"stale", "full"} => source[c][f] \in {"stale", "full"}
        /\ source'[c][f] # "none"
        /\ \A g \in Letters \ {f} : source'[c][g] = source[c][g]
    BY <1>1, <1>8 DEF StartExtract
  <2>3. f = "a" \/ f = "b"
    BY DEF Letters
  <2> QED BY <1>1, <1>2, <1>3, <2>1, <2>2, <2>3 DEF PullTries, PullPlace, PullStarted, Here
<1>9. ASSUME NEW f \in Letters, EndExtract(c, f)  PROVE PullTries(c)'
  <2>1. /\ Here(c, "pull", IF f = "a" THEN "extract a" ELSE "extract b") /\ made[c] /\ made' = made
        /\ Here(c, "pull", IF f = "a" THEN "b" ELSE "last")'
    BY <1>1, <1>9, GotoEffect DEF EndExtract, Here, Places
  <2>2. /\ source'[c][f] = "full"
        /\ \A g \in Letters \ {f} : source'[c][g] = source[c][g]
    BY <1>1, <1>9 DEF EndExtract
  <2>3. f = "a" \/ f = "b"
    BY DEF Letters
  <2> QED BY <1>1, <1>2, <1>3, <2>1, <2>2, <2>3 DEF PullTries, PullPlace, PullStarted, Here
<1>10. ASSUME NEW f \in Letters, LastHourArrives(c, f)  PROVE PullTries(c)'
  <2>1. /\ made[c] /\ made' = made /\ at' = at /\ task' = task
        /\ at[c]["pull"] \in {"extract a", "extract b"}
    BY <1>10 DEF LastHourArrives, rocoto, Here
  <2>2. /\ source'[c][f] = "last"
        /\ \A g \in Letters \ {f} : source'[c][g] = source[c][g]
    BY <1>1, <1>10 DEF LastHourArrives
  <2>3. f = "a" \/ f = "b"
    BY DEF Letters
  <2> QED BY <1>1, <1>2, <1>3, <2>1, <2>2, <2>3 DEF PullTries, PullPlace, PullStarted
<1> QED BY <1>5, <1>6, <1>7, <1>8, <1>9, <1>10 DEF Pull

(* A step of the cycle itself.                                             *)
LEMMA PullTriesOwn ==
  ASSUME Inv, TInv', NEW c \in Cycles, StepOf(c), PullTries(c), "fail" \notin May
  PROVE  PullTries(c)'
<1>1. TInv /\ RocotoOK /\ Ordered(c) /\ "pull" \in Tasks /\ "link" \in Tasks
  BY DEF Inv, TInv, CycleInv, Tasks
<1> DEFINE SamePull == /\ task'[c]["pull"] = task[c]["pull"] /\ at'[c]["pull"] = at[c]["pull"]
                       /\ tries'[c]["pull"] = tries[c]["pull"]
           Through == task[c]["pull"] = "succeeded" \/ Here(c, "pull", "last")
<1>2. Through \/ (source[c]["b"] \notin {"stale", "full"} /\ NotLinked(c))
  BY <1>1 DEF PullTries, PullPlace, Here, Inv, TInv, RocotoOK, RocotoType
<1>3. ASSUME NEW t \in Tasks, Submit(c, t)  PROVE PullTries(c)'
  <2>1. /\ OnlyTask(c, t) /\ task[c][t] = "ready"
        /\ task'[c][t] = "running" /\ at'[c][t] = First(t)
        /\ tries'[c][t] = tries[c][t] + 1 /\ UNCHANGED <<driver, input, output>>
    BY <1>1, <1>3, SubmitEffect
  <2>2. NotLinked(c) => NotLinked(c)'
    BY <1>1, <2>1 DEF NotLinked, OnlyTask, Done, Here, First, input
  <2>3. CASE t = "pull"
    <3>1. at'[c]["pull"] = "mkdir" /\ PullStarted(c)' /\ ~PullStarted(c)
      BY <2>1, <2>3 DEF First, PullStarted
    <3>2. PullPlace(c)'
      BY <2>1, <2>2, <2>3, <3>1 DEF PullTries, PullPlace, input
    <3>3. tries'[c]["pull"] <= Cardinality(CleanedOthers(c)') + 1
      <4>1. tries[c]["pull"] <= Cardinality(CleanedOthers(c)) + 0
        BY <3>1 DEF PullTries, PullBound
      <4>2. tries[c]["pull"] \in Nat
        BY <1>1 DEF RocotoOK, RocotoType
      <4> QED BY <2>1, <2>3, <4>1, <4>2, <1>1, OthersBound, OthersBoundNext, OthersGrow
    <3> QED BY <3>1, <3>2, <3>3 DEF PullTries, PullBound
  <2>4. CASE t # "pull"
    <3>1. SamePull /\ made' = made /\ source' = source
      BY <1>1, <2>1, <2>4 DEF OnlyTask, input
    <3> QED BY <1>1, <2>2, <3>1, PullTriesKept
  <2> QED BY <2>3, <2>4
<1>4. ASSUME NEW t \in Tasks, FailTask(c, t)  PROVE PullTries(c)'
  BY <1>4 DEF FailTask
<1>5. ASSUME NEW t \in Tasks, Rewind(c, t)  PROVE PullTries(c)'
  <2>1. /\ OnlyTask(c, t) /\ task[c][t] = "dead" /\ task'[c][t] = "ready"
        /\ tries'[c][t] = 0 /\ UNCHANGED <<input, output>>
    BY <1>1, <1>5, RewindEffect
  <2>2. NotLinked(c) => NotLinked(c)'
    BY <1>1, <2>1 DEF NotLinked, OnlyTask, Done, Here, input
  <2>3. CASE t = "pull"
    <3>1. PullPlace(c)'
      BY <2>1, <2>2, <2>3 DEF PullTries, PullPlace, input
    <3>2. Cardinality(CleanedOthers(c)') \in Nat
      BY OthersBoundNext
    <3> QED BY <2>1, <2>3, <3>1, <3>2 DEF PullTries, PullBound
  <2>4. CASE t # "pull"
    <3>1. SamePull /\ made' = made /\ source' = source
      BY <1>1, <2>1, <2>4 DEF OnlyTask, input
    <3> QED BY <1>1, <2>2, <3>1, PullTriesKept
  <2> QED BY <2>3, <2>4
<1>6. CASE Pull(c)
  BY <1>1, <1>6, PullTriesPull
<1>7. CASE Link(c)
  <2>1. SamePull
    BY <1>1, <1>7, LinkMove DEF JobMove, OnlyTask
  <2>2. UNCHANGED <<made, source>>
    BY <1>1, <1>7, LinkType
  <2>3. source[c]["b"] \notin {"stale", "full"} => LinksDangle(c)
    BY DEF LinksDangle, Letters
  <2>4. Through \/ NotLinked(c)'
    BY <1>1, <1>2, <1>7, <2>3, LinkWaits
  <2> QED BY <1>1, <2>1, <2>2, <2>4, PullTriesKept
<1>8. CASE BeginDriver(c) \/ RunDriver(c) \/ Transfer(c) \/ PutTar(c)
  <2>1. PICK t \in Tasks \ {"pull", "link"} : JobMove(c, t)
    BY <1>1, <1>8, ProcessMove, TransferMove, ArchiveMove DEF Tasks
  <2>2. UNCHANGED input
    BY <1>1, <1>8, ProcessType, CopyType
  <2>3. SamePull /\ (NotLinked(c) => NotLinked(c)')
    BY <1>1, <2>1, <2>2 DEF JobMove, OnlyTask, NotLinked, Done, Here, input
  <2> QED BY <1>1, <2>2, <2>3, PullTriesKept DEF input
<1>9. CASE Cleanup(c)
  <2>1. SamePull /\ task[c]["cleanup"] = "running"
    BY <1>1, <1>9, CleanupMove DEF JobMove, OnlyTask, Tasks
  <2>2. ~NotLinked(c)
    BY <1>1, <2>1 DEF Ordered, Both, Done, NotLinked
  <2> QED BY <1>1, <1>2, <2>1, <2>2, PullTriesKept
<1>10. CASE Expire(c)
  <2>1. SamePull /\ UNCHANGED made /\ (NotLinked(c) => NotLinked(c)')
    BY <1>1, <1>10 DEF Expire, rocoto, NotLinked, Done, Here
  <2>2. task[c]["pull"] = "dead" \/ Through
    BY <1>10 DEF Expire
  <2> QED BY <1>1, <1>10, <2>1, <2>2, ExpireEffect, PullTriesKept
<1> QED BY <1>3, <1>4, <1>5, <1>6, <1>7, <1>8, <1>9, <1>10 DEF StepOf, Requests, Jobs

(* find in cleanup.sh costs a pull one try for each other cycle that was   *)
(* cleaned up, and no more: whatever the limit on tries and the number of  *)
(* cycles, a pull dies of it only when there were as many as it has tries. *)
THEOREM PullsLoseOneTryEach == Spec => []OneTryForEach
<1>1. Init => PullInv
  <2> SUFFICES ASSUME Init, NEW c \in Cycles  PROVE PullTries(c)
    BY DEF PullInv
  <2>1. /\ task[c]["pull"] = "ready" /\ task[c]["link"] = "ready" /\ tries[c]["pull"] = 0
        /\ source[c]["b"] = "none" /\ links[c] = "none"
    BY DEF Init, Tasks, Letters
  <2> QED BY <2>1, OthersBound DEF PullTries, PullPlace, PullBound, PullStarted, NotLinked, Done, Here
<1>2. Inv /\ PullInv /\ [Next]_vars => PullInv'
  <2> SUFFICES ASSUME Inv, PullInv, [Next]_vars, "fail" \notin May
               PROVE  \A c \in Cycles : PullTries(c)'
    BY DEF PullInv
  <2>1. \A c \in Cycles : PullTries(c)
    BY DEF PullInv
  <2>2. CASE Next
    <3>1. PICK d \in Cycles : StepOf(d)
      BY <2>2, NextIsStepOf
    <3>2. TInv /\ TInv'
      BY <3>1, StepType DEF Inv
    <3> QED BY <2>1, <3>1, <3>2, PullTriesOwn, PullTriesOther
  <2>3. CASE UNCHANGED vars
    BY <2>1, <2>3 DEF vars, rocoto, input, PullTries, PullPlace, PullBound, PullStarted,
       CleanedOthers, NotLinked, Done, Here
  <2> QED BY <2>2, <2>3
<1>3. Inv /\ PullInv => OneTryForEach
  <2> SUFFICES ASSUME Inv, PullInv, "fail" \notin May, NEW c \in Cycles
               PROVE  /\ LostPulls(c) <= Cardinality(CleanedOthers(c))
                      /\ task[c]["pull"] = "dead" => MaxTries["pull"] <= Cardinality(CleanedOthers(c))
    BY DEF OneTryForEach
  <2> DEFINE N == Cardinality(CleanedOthers(c))
  <2>1. tries[c]["pull"] <= N + (IF PullStarted(c) THEN 1 ELSE 0)
    BY DEF PullInv, PullTries, PullBound
  <2>2. N \in Nat
    BY OthersBound
  <2>3. /\ tries[c]["pull"] \in Nat
        /\ task[c]["pull"] = "dead" => tries[c]["pull"] = MaxTries["pull"]
    BY DEF Inv, TInv, RocotoOK, RocotoType, TriesLeft, Tasks
  <2> HIDE DEF N
  <2>4. LostPulls(c) <= N /\ (task[c]["pull"] = "dead" => MaxTries["pull"] <= N)
    BY <2>1, <2>2, <2>3 DEF PullStarted, LostPulls
  <2> QED BY <2>4 DEF N
<1> QED BY <1>1, <1>2, <1>3, Invariance, PTL DEF Spec

===============================================================================
