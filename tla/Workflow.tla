-------------------------------- MODULE Workflow --------------------------------
(***************************************************************************)
(* The Rocoto workflow of hpss.xml for cycles of one day: which task may   *)
(* be submitted when, how often, and what each does to the files the tasks *)
(* share.  process_tigge is the contract of the cycle driver; the other    *)
(* tasks are their scripts, step by step.  Any job may fail or be killed   *)
(* between two of its steps.                                               *)
(*                                                                         *)
(* Of a file set of the input some files are there, or the last hour's     *)
(* files with others missing, or it is stale: all are there and are being  *)
(* written a second time.                                                  *)
(***************************************************************************)
EXTENDS DriverContract, FiniteSets

CONSTANTS
  MaxTries,    \* of each task
  MaxRewinds,  \* how often the operator rewinds a dead task of a cycle
  May          \* what may happen around the jobs

Tasks   == {"pull", "link", "process", "transfer", "archive", "cleanup"}
Letters == {"a", "b"}

(* The steps of the scripts; "end" is where no job of the task runs.       *)
Places ==
  {"mkdir", "a", "extract a", "b", "extract b", "last",
   "check", "symlink", "exit", "driver", "wait",
   "sum", "tar", "checksum", "put", "source", "links", "find", "end"}

ASSUME CyclesAssumption == IsFiniteSet(Cycles)
ASSUME TriesAssumption   == MaxTries \in [Tasks -> Nat \ {0}]
ASSUME RewindsAssumption == MaxRewinds \in Nat
ASSUME EventsAssumption  == May \subseteq {"fail", "expire"}

VARIABLES
  task,     \* the state Rocoto has of each task of a cycle
  tries,    \* how often it was submitted
  at,       \* where the script of a running task is
  rewinds,
  made,     \* is there a directory hpss/gefs.<PDY>/<cyc>?
  source,   \* the files in it
  links,    \* the symbolic links of link_input.py
  sum,      \* the checksum file beside the tar file
  sent,     \* what the S3 bucket has
  stored    \* the tar file on tape

rocoto == <<task, tries, at, rewinds>>
input  == <<made, source, links>>
output == <<sum, sent, stored>>
vars   == <<driver, rocoto, input, output>>

NotSent == [tar |-> "none", sum |-> FALSE]

Init ==
  /\ DriverInit
  /\ task    = [c \in Cycles |-> [t \in Tasks |-> "ready"]]
  /\ tries   = [c \in Cycles |-> [t \in Tasks |-> 0]]
  /\ at      = [c \in Cycles |-> [t \in Tasks |-> "end"]]
  /\ rewinds = [c \in Cycles |-> 0]
  /\ made    = [c \in Cycles |-> FALSE]
  /\ source  = [c \in Cycles |-> [f \in Letters |-> "none"]]
  /\ links   = [c \in Cycles |-> "none"]
  /\ sum     = [c \in Cycles |-> FALSE]
  /\ sent    = [c \in Cycles |-> NotSent]
  /\ stored  = [c \in Cycles |-> "none"]

-------------------------------------------------------------------------------
(* Rocoto.                                                                 *)

State(c, t, s)  == task' = [task EXCEPT ![c][t] = s]
Done(c, t)      == task[c][t] = "succeeded"
Here(c, t, s)   == task[c][t] = "running" /\ at[c][t] = s
Goto(c, t, s)   == at' = [at EXCEPT ![c][t] = s] /\ UNCHANGED <<task, tries, rewinds>>

(* The datadep of link_input looks at the files of the last hour only, in  *)
(* both file sets.  Their age, five minutes, is not counted.               *)
FilesAppear(c) == \A f \in Letters : source[c][f] \in {"last", "stale", "full"}

Dependency_Either(c, t) ==
  CASE t = "pull"     -> TRUE
    [] t = "link"     -> FilesAppear(c)
    [] t = "process"  -> Done(c, "link")
    [] t = "transfer" -> Done(c, "process")
    [] t = "archive"  -> Done(c, "process")
    [] t = "cleanup"  -> Done(c, "archive") \/ Done(c, "transfer")

Dependency_Crossed(c, t) ==
  CASE t = "pull"     -> TRUE
    [] t = "link"     -> FilesAppear(c)
    [] t = "process"  -> Done(c, "link")
    [] t = "transfer" -> Done(c, "archive")
    [] t = "archive"  -> Done(c, "transfer")
    [] t = "cleanup"  -> Done(c, "archive") /\ Done(c, "transfer")

Dependency(c, t) ==
  CASE t = "pull"     -> TRUE
    [] t = "link"     -> FilesAppear(c)
    [] t = "process"  -> Done(c, "link")
    [] t = "transfer" -> Done(c, "process")
    [] t = "archive"  -> Done(c, "process")
    [] t = "cleanup"  -> Done(c, "archive") /\ Done(c, "transfer")

First(t) ==
  CASE t = "pull" -> "mkdir" [] t = "link" -> "check" [] t = "process" -> "driver"
    [] t = "transfer" -> "sum" [] t = "archive" -> "put" [] t = "cleanup" -> "source"

Submit(c, t) ==
  /\ task[c][t] = "ready" /\ Dependency(c, t)
  /\ t = "process" => \E p \in Attempts : attempt[c][p] = "waiting"
  /\ State(c, t, "running")
  /\ tries' = [tries EXCEPT ![c][t] = @ + 1]
  /\ at' = [at EXCEPT ![c][t] = First(t)]
  /\ UNCHANGED <<driver, rewinds, input, output>>

(* A task is dead when it has used up its tries.                           *)
Ends_Forever(c, t, good) ==
  /\ State(c, t, IF good THEN "succeeded" ELSE "ready")
  /\ at' = [at EXCEPT ![c][t] = "end"]
  /\ UNCHANGED <<tries, rewinds>>

Ends(c, t, good) ==
  /\ State(c, t, IF good THEN "succeeded"
                 ELSE IF tries[c][t] < MaxTries[t] THEN "ready" ELSE "dead")
  /\ at' = [at EXCEPT ![c][t] = "end"]
  /\ UNCHANGED <<tries, rewinds>>

(* An error of a command, the walltime, a node that goes down.             *)
FailTask(c, t) ==
  /\ "fail" \in May
  /\ t # "process" /\ task[c][t] = "running"
  /\ Ends(c, t, FALSE)
  /\ UNCHANGED <<driver, input, output>>

(* The operator; the rewind of process_tigge removes the lock.             *)
Rewind(c, t) ==
  /\ task[c][t] = "dead" /\ rewinds[c] < MaxRewinds
  /\ State(c, t, "ready")
  /\ tries' = [tries EXCEPT ![c][t] = 0]
  /\ rewinds' = [rewinds EXCEPT ![c] = @ + 1]
  /\ IF t = "process" THEN Unlock(c) ELSE UNCHANGED driver
  /\ UNCHANGED <<at, input, output>>

-------------------------------------------------------------------------------
(* pull_from_hpss.py                                                       *)

MakeDirs(c) ==
  /\ Here(c, "pull", "mkdir")
  /\ made' = [made EXCEPT ![c] = TRUE]
  /\ Goto(c, "pull", "a")
  /\ UNCHANGED <<driver, source, links, output>>

(* htar has written its first file.  A second htar writes the files of the *)
(* first one again.                                                        *)
StartExtract(c, f) ==
  /\ Here(c, "pull", f) /\ made[c]
  /\ LET again == source[c][f] \in {"stale", "full"}
     IN  /\ source' = [source EXCEPT ![c][f] =
             IF again THEN "stale" ELSE IF @ = "last" THEN "last" ELSE "some"]
         /\ IF again THEN Spoil(c) ELSE UNCHANGED driver
  /\ Goto(c, "pull", IF f = "a" THEN "extract a" ELSE "extract b")
  /\ UNCHANGED <<made, links, output>>

(* The archive need not have the last hour's files at its end.             *)
LastHourArrives(c, f) ==
  /\ Here(c, "pull", IF f = "a" THEN "extract a" ELSE "extract b") /\ made[c]
  /\ source[c][f] = "some"
  /\ source' = [source EXCEPT ![c][f] = "last"]
  /\ UNCHANGED <<driver, rocoto, made, links, output>>

EndExtract(c, f) ==
  /\ Here(c, "pull", IF f = "a" THEN "extract a" ELSE "extract b") /\ made[c]
  /\ source' = [source EXCEPT ![c][f] = "full"]
  /\ IF f = "a" THEN Goto(c, "pull", "b") ELSE Goto(c, "pull", "last")
  /\ UNCHANGED <<driver, made, links, output>>

EndPull(c) ==
  /\ Here(c, "pull", "last")
  /\ Ends(c, "pull", TRUE)
  /\ UNCHANGED <<driver, input, output>>

(* The directory has been deleted under the running job.                   *)
PullLost(c) ==
  /\ task[c]["pull"] = "running" /\ at[c]["pull"] \notin {"mkdir", "last"} /\ ~made[c]
  /\ Ends(c, "pull", FALSE)
  /\ UNCHANGED <<driver, input, output>>

-------------------------------------------------------------------------------
(* link_input.py                                                           *)

LinksDangle(c) == \E f \in Letters : source[c][f] \notin {"stale", "full"}

AlreadyLinked_Any(c) ==
  /\ Here(c, "link", "check")
  /\ links[c] # "none" /\ ~LinksDangle(c)
  /\ Ends(c, "link", TRUE)
  /\ UNCHANGED <<driver, input, output>>

AlreadyLinked(c) ==
  /\ Here(c, "link", "check")
  /\ links[c] = "all" /\ ~LinksDangle(c)
  /\ Ends(c, "link", TRUE)
  /\ UNCHANGED <<driver, input, output>>

(* "Data no longer exists, removing old directory": it exits with 0.       *)
RemoveLinks(c) ==
  /\ Here(c, "link", "check")
  /\ links[c] = "all" /\ LinksDangle(c)
  /\ links' = [links EXCEPT ![c] = "none"]
  /\ Ends(c, "link", TRUE)
  /\ UNCHANGED <<driver, made, source, output>>

(* A source file is missing, or a link of an earlier try is in the way.    *)
LinkFails(c) ==
  /\ Here(c, "link", "check")
  /\ links[c] # "all" /\ (LinksDangle(c) \/ links[c] = "some")
  /\ Ends(c, "link", FALSE)
  /\ UNCHANGED <<driver, input, output>>

StartLinks(c) ==
  /\ Here(c, "link", "check")
  /\ links[c] = "none" /\ ~LinksDangle(c)
  /\ links' = [links EXCEPT ![c] = "some"]
  /\ Goto(c, "link", "symlink")
  /\ UNCHANGED <<driver, made, source, output>>

EndLinks(c) ==
  /\ Here(c, "link", "symlink")
  /\ links' = [links EXCEPT ![c] = "all"]
  /\ Goto(c, "link", "exit")
  /\ UNCHANGED <<driver, made, source, output>>

LinkEnds(c) ==
  /\ Here(c, "link", "exit")
  /\ Ends(c, "link", TRUE)
  /\ UNCHANGED <<driver, input, output>>

-------------------------------------------------------------------------------
(* runTigge.sh: one attempt of the driver for each submission.             *)
GoodInput(c) == links[c] = "all" /\ \A f \in Letters : source[c][f] = "full"

BeginDriver(c) ==
  /\ Here(c, "process", "driver")
  /\ \E p \in Attempts : Begin(c, p, GoodInput(c))
  /\ Goto(c, "process", "wait")
  /\ UNCHANGED <<input, output>>

RunDriver(c) ==
  /\ Here(c, "process", "wait")
  /\ \E p \in Attempts : DriverStep(c, p) \/ ("fail" \in May /\ KillAttempt(c, p))
  /\ IF Active(c)' THEN UNCHANGED rocoto
     ELSE Ends(c, "process", \E p \in Attempts :
                 attempt[c][p] \in AtWork /\ attempt'[c][p] = "delivered")
  /\ UNCHANGED <<input, output>>

-------------------------------------------------------------------------------
(* transfer_output.sh ends at the first command that fails.                *)
Checksum(c) ==
  /\ Here(c, "transfer", "sum") /\ tar[c] # "none"
  /\ sum' = [sum EXCEPT ![c] = TRUE]
  /\ Goto(c, "transfer", "tar")
  /\ UNCHANGED <<driver, input, sent, stored>>

(* sha256sum leaves an empty file.                                         *)
NothingToSend(c) ==
  /\ Here(c, "transfer", "sum") /\ tar[c] = "none"
  /\ sum' = [sum EXCEPT ![c] = TRUE]
  /\ Ends(c, "transfer", FALSE)
  /\ UNCHANGED <<driver, input, sent, stored>>

SendTar(c) ==
  /\ Here(c, "transfer", "tar")
  /\ sent' = [sent EXCEPT ![c].tar = tar[c]]
  /\ Goto(c, "transfer", "checksum")
  /\ UNCHANGED <<driver, input, sum, stored>>

SendChecksum(c) ==
  /\ Here(c, "transfer", "checksum")
  /\ sent' = [sent EXCEPT ![c].sum = TRUE]
  /\ Ends(c, "transfer", TRUE)
  /\ UNCHANGED <<driver, input, sum, stored>>

(* archive_output.sh                                                       *)
PutTar(c) ==
  /\ Here(c, "archive", "put")
  /\ stored' = [stored EXCEPT ![c] = IF tar[c] = "none" THEN @ ELSE tar[c]]
  /\ Ends(c, "archive", tar[c] # "none")
  /\ UNCHANGED <<driver, input, sum, sent>>

-------------------------------------------------------------------------------
(* cleanup.sh                                                              *)
RemoveSource_Day(c) ==
  /\ Here(c, "cleanup", "source")
  /\ source' = [source EXCEPT ![c] = [f \in Letters |-> "none"]]
  /\ made' = [d \in Cycles |-> FALSE]
  /\ Spoil(c)
  /\ Goto(c, "cleanup", "links")
  /\ UNCHANGED <<links, output>>

RemoveSource(c) ==
  /\ Here(c, "cleanup", "source")
  /\ source' = [source EXCEPT ![c] = [f \in Letters |-> "none"]]
  /\ made' = [made EXCEPT ![c] = FALSE]
  /\ Spoil(c)
  /\ Goto(c, "cleanup", "links")
  /\ UNCHANGED <<links, output>>

RemoveLinkDir(c) ==
  /\ Here(c, "cleanup", "links")
  /\ links' = [links EXCEPT ![c] = "none"]
  /\ Goto(c, "cleanup", "tar")
  /\ UNCHANGED <<driver, made, source, output>>

RemoveTar_KeepsSum(c) ==
  /\ Here(c, "cleanup", "tar")
  /\ tar' = [tar EXCEPT ![c] = "none"]
  /\ Goto(c, "cleanup", "find")
  /\ UNCHANGED <<attempt, sound, lock, input, output>>

RemoveTar(c) ==
  /\ Here(c, "cleanup", "tar")
  /\ tar' = [tar EXCEPT ![c] = "none"]
  /\ sum' = [sum EXCEPT ![c] = FALSE]
  /\ Goto(c, "cleanup", "find")
  /\ UNCHANGED <<attempt, sound, lock, input, sent, stored>>

(* find -type d -empty -delete, in the directory all cycles of the day     *)
(* have in common.                                                         *)
EmptyDir(d) == \A f \in Letters : source[d][f] = "none"

DeleteEmpty_All(c) ==
  /\ Here(c, "cleanup", "find")
  /\ made' = [d \in Cycles |-> FALSE]
  /\ source' = [d \in Cycles |-> [f \in Letters |-> "none"]]
  /\ Ends(c, "cleanup", TRUE)
  /\ UNCHANGED <<driver, links, output>>

DeleteEmpty(c) ==
  /\ Here(c, "cleanup", "find")
  /\ made' = [d \in Cycles |-> made[d] /\ ~EmptyDir(d)]
  /\ Ends(c, "cleanup", TRUE)
  /\ UNCHANGED <<driver, source, links, output>>

-------------------------------------------------------------------------------
(* Files on a scratch disk are deleted after a while, not all at once.     *)
Fewer(files) ==
  IF files \in {"stale", "full"} THEN {"none", "some", "last"}
  ELSE IF files = "last" THEN {"none", "some"}
  ELSE IF files = "some" THEN {"none"} ELSE {}

Expire(c) ==
  /\ "expire" \in May
  /\ task[c]["pull"] \in {"succeeded", "dead"}
  /\ \E f \in Letters : \E left \in Fewer(source[c][f]) :
       source' = [source EXCEPT ![c][f] = left]
  /\ Spoil(c)
  /\ UNCHANGED <<rocoto, made, links, output>>

Pull(c) ==
  \/ MakeDirs(c) \/ EndPull(c) \/ PullLost(c)
  \/ \E f \in Letters : StartExtract(c, f) \/ LastHourArrives(c, f) \/ EndExtract(c, f)

Link(c) ==
  \/ AlreadyLinked(c) \/ RemoveLinks(c) \/ LinkFails(c)
  \/ StartLinks(c) \/ EndLinks(c) \/ LinkEnds(c)

Transfer(c) == Checksum(c) \/ NothingToSend(c) \/ SendTar(c) \/ SendChecksum(c)

Cleanup(c) == RemoveSource(c) \/ RemoveLinkDir(c) \/ RemoveTar(c) \/ DeleteEmpty(c)

Jobs(c) ==
  Pull(c) \/ Link(c) \/ BeginDriver(c) \/ RunDriver(c) \/ Transfer(c) \/ PutTar(c) \/ Cleanup(c)

Next ==
  \E c \in Cycles :
    \/ \E t \in Tasks : Submit(c, t) \/ FailTask(c, t) \/ Rewind(c, t)
    \/ Jobs(c) \/ Expire(c)

(* Rocoto is run again and again, and a running job goes on: this is the   *)
(* fairness of the batch system.  Nothing makes a job fail, and nothing    *)
(* makes the operator act.                                                 *)
Fairness ==
  \A c \in Cycles :
    /\ \A t \in Tasks : WF_vars(Submit(c, t))
    /\ WF_vars(Pull(c)) /\ WF_vars(Link(c)) /\ WF_vars(Transfer(c))
    /\ WF_vars(BeginDriver(c)) /\ WF_vars(RunDriver(c))
    /\ WF_vars(PutTar(c)) /\ WF_vars(Cleanup(c))

Spec == Init /\ [][Next]_vars /\ Fairness

-------------------------------------------------------------------------------
TypeOK ==
  /\ attempt \in [Cycles -> [Attempts -> {"waiting"} \cup AtWork \cup Endings]]
  /\ sound \in [Cycles -> [Attempts -> BOOLEAN]]
  /\ tar \in [Cycles -> {"none", "partial", "whole"}] /\ lock \in [Cycles -> BOOLEAN]
  /\ task \in [Cycles -> [Tasks -> {"ready", "running", "succeeded", "dead"}]]
  /\ tries \in [Cycles -> [Tasks -> Nat]] /\ at \in [Cycles -> [Tasks -> Places]]
  /\ \A c \in Cycles, t \in Tasks : tries[c][t] \in 0..MaxTries[t]
  /\ rewinds \in [Cycles -> 0..MaxRewinds]
  /\ made \in [Cycles -> BOOLEAN]
  /\ source \in [Cycles -> [Letters -> {"none", "some", "last", "stale", "full"}]]
  /\ links \in [Cycles -> {"none", "some", "all"}]
  /\ sum \in [Cycles -> BOOLEAN]
  /\ sent \in [Cycles -> [tar : {"none", "partial", "whole"}, sum : BOOLEAN]]
  /\ stored \in [Cycles -> {"none", "partial", "whole"}]

(* Before cleanup.sh may delete the input and the tar file of a cycle, the *)
(* bucket and the tape have the same tar file, with its checksum; and it   *)
(* is whole, unless writes can fail, when runTigge.pl may return 0 for a   *)
(* tar file that is not.                                                   *)
SafeToDelete ==
  \A c \in Cycles : task[c]["cleanup"] # "ready" =>
    /\ sent[c].sum /\ sent[c].tar = stored[c]
    /\ stored[c] \in (IF Disk THEN {"partial", "whole"} ELSE {"whole"})

(* link_input may be started while other files than those of the last hour *)
(* are missing, and again when it failed between two links.  Whatever it   *)
(* met, a cycle it has passed on has all its links until it is processed,  *)
(* or none: those are removed, with exit 0, by a second try that finds     *)
(* files purged.                                                           *)
LinksAllOrNone ==
  \A c \in Cycles : Done(c, "link") /\ ~Done(c, "process") =>
    \/ links[c] = "all"
    \/ links[c] = "none" /\ (tries[c]["link"] > 1 \/ rewinds[c] > 0)

(* While the driver works on a cycle nothing changes its input, cleaning   *)
(* up another cycle of the day included, except the purge of the disk and  *)
(* a second try to pull the cycle itself, which does not wait for what the *)
(* first one has started.                                                  *)
OnlyRefetchDisturbs ==
  [][\A c \in Cycles :
       Active(c) /\ Active(c)' /\ source'[c] # source[c] =>
         \/ Pull(c) /\ (tries[c]["pull"] > 1 \/ rewinds[c] > 0)
         \/ Expire(c)]_vars

(* What is left of a cycle after it was cleaned up can only be input that  *)
(* a second try has pulled.                                                *)
LeftClean ==
  \A c \in Cycles : Done(c, "cleanup") =>
    /\ links[c] = "none" /\ tar[c] = "none" /\ ~sum[c]
    /\ EmptyDir(c) \/ tries[c]["pull"] > 1 \/ rewinds[c] > 0

(* find in cleanup.sh may delete the directory a pull of another cycle has *)
(* just made, and the pull then fails.  When nothing else makes jobs fail  *)
(* a pull loses at most one try for each other cycle that was cleaned up;  *)
(* so it is not dead before as many of them were as it has tries.          *)
CleanedOthers(c) == {d \in Cycles \ {c} : Done(d, "cleanup")}

LostPulls(c) ==
  tries[c]["pull"] - (IF task[c]["pull"] \in {"running", "succeeded"} THEN 1 ELSE 0)

OneTryForEach ==
  "fail" \notin May =>
    \A c \in Cycles :
      /\ LostPulls(c) <= Cardinality(CleanedOthers(c))
      /\ task[c]["pull"] = "dead" => MaxTries["pull"] <= Cardinality(CleanedOthers(c))

(* A cycle is cleaned up in the end, or one of its tasks is dead and the   *)
(* operator can see it; but a cycle of which files of the last hour were   *)
(* purged after they were pulled and before they were linked waits for     *)
(* ever.                                                                   *)
Purged(c) == Done(c, "pull") /\ task[c]["link"] = "ready" /\ ~FilesAppear(c)

CycleSettles ==
  \A c \in Cycles :
    <>[](Done(c, "cleanup") \/ Purged(c) \/ \E t \in Tasks : task[c][t] = "dead")
===============================================================================
