# A TLA+ development of TIGGE

TIGGE turns the output of NCEP's global ensemble (GEFS) into the products of
the TIGGE archive. This directory models the parts of the repository whose
control is hard to get right, checks them with TLC and proves what matters most
with TLAPS. Paths below are relative to the repository.

## 1. Inventory

| Part | Code | State it keeps | Operations | Hard behaviour |
|---|---|---|---|---|
| ncdcTigge main loop | `src/ncdcTigge.c` | member, forecast hour, two open files, one array per time-integrated variable | open, load, generate, close, integrate, free | twelve readers share two file positions; arrays and counters live across steps and members |
| loaders | `src/loadDataForVariable.c`, the `loadDataFor...` halves of `src/generate*.c` | array, `numberOfSavedRecords`, `bytesPerRecord` | scan, append, give up | a loader that gives up drops the array but not its counter, and does not rewind |
| generators | `src/generate*.c`, `src/generateVariable.c` | a running sum | scan and write; integrate | no generator tells its caller that it failed |
| process queue | `src/util.c` 85-196, `src/ncdcTigge.c` 38-108 | `variablesToProcess` | add, contains, defaults | -1 serves as end mark and as error, and is true |
| potential temperature | `src/generatePotentialTemperature.c` | four slots of handles | scan, keep or delete, merge two hemispheres | a handle is deleted one round after it was read; an assignment for a comparison |
| calendar, names, metadata | `src/util.c`, `src/newGribRecord.c` | none | `timeAdd`, `qleap`, file names, GRIB keys | ends of months; three copies of the ensemble's cut-over date |
| cycle driver | `scripts/ncdcTigge.pm` (`runCycle` and the subs it calls) | lock file, tags, three output directories, a tar file | check input, convert, run, check output, archive, merge, pack | every step may be killed; tags of an earlier attempt survive; the lock is tested and created in two calls |
| conversion | `scripts/run_ncep_convert.pl`, `grib-api/tools/grib_filter.c`, `grib_tools.c`, `tigge_check.c`, `tigge_split.c` | two intermediate files, `output/<cycle>` | filter, check, split, merge, move | no exit code is looked at; a tool stops at its first error; always exits with 0 |
| messages of several fields | `grib-api/src/grib_handle.c`, `grib_io.c` | the message that is not used up, pointers to its sections | next field | sections shared by the fields of a message, kept from call to call |
| linking, retrieval, transfer, archive, cleanup | `scripts/*.py`, `scripts/*.sh` | directories, symbolic links, tar file, checksum, remote copies | one command each | killed half way; retried by the workflow; started on the last hour's files alone |
| workflow | `workflow/hpss.xml`, `workflow/tasks/ursa/*.xml` | task states in Rocoto's database | submit, retry, rewind | transfer and archive run at the same time; cycles of a day share a directory; a rewind removes the lock |
| rest of the GRIB library | `grib-api/` | - | - | vendored; the models assume what the program uses of it |

How they interact. Rocoto runs, for each cycle, `pull_from_hpss`, then
`link_input` when the files of the last hour are there, then `process_tigge`
(`runTigge.sh` -> `runTigge.pl` -> `runCycle`), then `transfer_output` and
`archive_output`, then `cleanup`. The tasks communicate through the file system
and their exit status. `runCycle` calls the conversion script and the C program
as child processes and looks at nothing but the files they leave. Inside the C
program everything is one sequential process: `main()` calls loaders and
generators through two dispatch functions, and they share the open files, the
arrays and the counters as globals and pointers.

What makes each part correct:

* main loop: a product of step f is made from the records of step f (instant)
  or of steps 1 to f (integrated), of the member at hand, whatever order the
  records come in; a record that is missing spoils as little as possible; no
  member inherits anything from the one before it; the program ends.
* process queue: what is on the list is what the command line said, and the
  keyword all, no names, or a list of all names means everything.
* potential temperature: no handle is used after it was deleted, none leaks, and
  both values of a point come from the point's hemisphere.
* calendar: a valid time is the initial time plus the step; all parts agree
  which ensemble a cycle has.
* conversion: of the fields the rules keep and the check finds good, none is
  lost; a field taken from a message of several fields gets the grid and bitmap
  of its own message.
* cycle driver: a cycle marked as completed has been packed with every product
  of that attempt exactly once; no product disappears before it is in the tar
  file; a cycle is not processed twice at once, and can be processed again
  after any failure.
* workflow: nothing is deleted before it is transferred and archived; nobody
  changes the input of a cycle that is being processed; a cycle is finished, or
  the operator sees that it is not.

## 2. Plan

| Order | Module | Models | Abstract specification / properties | State |
|---|---|---|---|---|
| 1 | `GribScan` | the scan idiom | operators | done |
| 1 | `NcdcTigge` | main loop, loaders, generators, integration | implements `TiggeProducts`; alignment, shared positions, crashes | done |
| 1 | `NcdcTiggeProducts` | the mapping to `TiggeProducts`; input that lacks nothing | `ImplementsProducts` | done |
| 1 | `NcdcTiggeProofs`, `NcdcTiggeAlignment` | - | type correctness, alignment of arrays and output, first step, crash freedom, shared positions, causes of a loss | done |
| 1 | `NcdcTiggeProductsProofs` | - | the safety part of `ImplementsProducts` | done |
| 2 | `RunCycle` | the cycle driver with kills, retries and two processes | no product lost, exactly once in the tar, lock, every attempt ends | done |
| 2 | `RunCycleProofs`, `RunCycleContract` | - | type correctness, the lock's owner, nothing merged or packed twice; the contract, no record vanishes, good input delivers | done |
| 3 | `ArgParser` | command line and list | against what the words ask for and what the usage message promises | done |
| 4 | `PotentialTemperature` | choice of the four records, merge of the hemispheres | against `GribScan` and a reference merge | done |
| 5 | `Calendar` | `timeAdd`, `qleap`, ensemble size | against a count of minutes | done |
| 5 | `ProgramParts` | 3 to 5 in the order of a run | - | done |
| 6 | `DriverContract`, `RunCycleDelivers` | what the workflow may count on of the driver | `RunCycle` implements it | done |
| 6 | `Workflow` | six tasks with retries and rewinds, built on `DriverContract` | safe deletion, undisturbed input, cycles settle | done |
| 7 | `Conversion` | the three tools of the conversion and their reading of messages | against the set of wanted fields | done |
| 8 | `WorkflowProofs`, `ProgramPartsProofs`, `ConversionProofs` | - | every safety property of 3 to 7 | done |

What is left is liveness, which only TLC can check here (section 5).

## 3. The modules

### The C program

`GribScan` holds the kinds of records the program looks for and the scan that
every reader performs: from the present position of one file, or of the a file
and then the b file, to the first record of a wanted kind. A file is a sequence
of kinds and a position is the number of records read.

`NcdcTigge` is `main()` with everything it calls. Correspondence:

| Model | Code |
|---|---|
| `phase` = open, hour, integrate, done, exit, crash | the three parts of the member loop, `return 0`, `return 1`, abnormal end |
| `ensembleMember`, `forecastHour`, `turn` | the loop counters (`forecastHour` counts steps of six hours) and how far the body of the loop has come |
| `aFile`, `bFile`, `posA`, `posB` | the open files and the offsets of their streams |
| `allocated`, `resource`, `numberOfSavedRecords` | the array pointers, the arrays, their counters |
| `runningSum` | the running sum of an integration, kept as the sequence of cells added up |
| `output` | the files written for the member, each with the cells it was made from |
| `OpenInputs`, `OpenFails` | lines 152-184 |
| `LoadTTR` ... `LoadSF`, `SkipVariable` | the `loadDataFor...` functions, lines 186-190 and 208-209 |
| `GenerateSF6` ... `GenerateST` | lines 198-202 |
| `CloseInputs` | lines 211-216 and the end of the hour loop |
| `IntegrateTTR` ... `IntegrateTP`, `SkipIntegration` | lines 223-229 |
| `FreeData`, `FreeCrashes` | lines 232-247 |

One load or one generator is one step: nothing else runs in between, and what
they do to the shared files is the state they leave. An integration is one step
per slot, because it may crash at any of them.

Abstractions. A record's values are a cell: which step it came from and whether
it is the right field, a combination of the wrong records, a blank, zeros or
whatever was in memory. A slot that `realloc()` left uninitialised is "wild"; a
use of it may crash, read as NULL, or deliver rubbish, and all three are steps
of the model. So is a slot whose `bytesPerRecord` belongs to an earlier member.
Records that the GRIB library cannot decode, a full disk and failed allocations
are left out.

`TiggeProducts` is the promise for input that lacks nothing: member after
member, every variable of the list and every step, in order, from exactly the
right cells; the program may stop at a file that does not open, and otherwise
finishes. `NcdcTiggeProducts` maps the main loop to it (`Status` is what is left of
`phase`), and says what input that lacks nothing is: `Suffices(a, b, v)`, that a pair
of files has the records `v` is made from, in any order and among any others, and
none its reader could take for one of them; `LackNothing`, that every pair suffices
for every variable of the list, the analysis for the instant ones. The input that
`MCNcdcTigge` gives to the run `complete` is of this kind (`CompleteAssumption`).

Three smaller modules model what `NcdcTigge` takes as given.

`ArgParser` is the command line. `parser`, `argv`, `index` and
`variablesToProcess` are where `main()` is, the words after the date, the loop
counter and the array; `ReadNames`, `TooManyNames`, `AddVariable`, `AddAll`,
`RefuseWord`, `EndOfWords` are the branches of lines 70-108. What it leaves in
the array is the constant `ProcessQueue` of `NcdcTigge`.

`PotentialTemperature` is one call of `generatePotentialTemperature()`, record
by record: `slot` holds the four handles, `temp` and `skipFlag` the handle read
last and whether it was kept, `deleted` what went to `grib_handle_delete()`,
`product` the merged grid. `NcdcTigge` takes for all of this one operator,
`PtSlots` of `GribScan`; that the scan takes these records is the property
`TakesPtSlots`. A field is the set of points where it has a value; the power
law is left out.

`Calendar` is `timeAdd()` and `qleap()`, one step per branch (`NormalizeMonths`,
`AddRest`, `StayOnLeapDay`, `CarryDays`, `ReturnTime`), and the three definitions of the
size of the ensemble, in C, Perl and Python.

`ProgramParts` composes the three in the order of a run. They share nothing but
this order, so `Init` lets at most one of the three inputs be other than plain;
`MCProgramParts` gives the inputs.

### The conversion

`Conversion` is `convertFile()` of `run_ncep_convert.pl` for every file of the
input directory: `grib_filter`, `tigge_check -z -g`, `tigge_split`.

| Model | Code |
|---|---|
| `current`, `tool` | the loop of the script and the child process it waits for |
| `read`, `support` | messages read of the tool's file; the `multi_support` of the library: the message that is not used up, its last field, where its grid and its bitmap come from |
| `tmpOut`, `goodOut`, `output` | the two intermediate files; what is in the file of each product |
| `NewHandle`, `Grid`, `Bitmap`, `Remember` | `grib_handle_new_multi()`, `grib_handle.c` |
| `FilterField`, `FilterEnds` | `grib_tool_new_handle_action()` and the exits of `grib_tools.c` without `-f` |
| `CheckField`, `SplitField` | the same of `tigge_check.c` and `tigge_split.c` |
| `FilterWriteFails`, `CheckWriteFails`, `SplitWriteFails` | a write that fails, of a buffer that is emptied at any time |

What the rules of the filter and the test of `tigge_check` make of a field is an
input: every field comes with a fate. A handle is known by the fields its
sections come from. Decoding is left out, and so is section 2, which the input
has none of. Kills during the conversion, and what follows it in the script
(merge, move, clean-up), belong to `RunCycle`, which takes of `Conversion` only
that some converted records appear.

### The driver

`RunCycle` is one cycle on one file system, seen by the attempts
(`Attempts`) at it: `runTigge.pl` calling `runCycle()`, which calls
`run_ncep_convert.pl` and the C program. An attempt is a program counter that
walks through `runCycle()`; every system call that changes a file another
attempt may meet is a step of its own.

| Model | Code |
|---|---|
| `pc`, `rc` | where an attempt is, what `runCycle()` returned (`ncdcTigge.pm` 832-966) |
| `lock`, `inTag`, `outTag`, `status`, `completed` | `runLatest.LOCKFILE.<cycle>`, `.qcGensCycle.passed`, `OUTPUT.QC.PASS.<cycle>` in the output directory and in the archive (with or without DATA_PACKAGED_SUCCESSFULLY), `.completed` |
| `out`, `dir["stash"]`, `dir["archive"]`, `tar` | the products in `TIGGE_OUTPUT`, the files in `TIGGE_OUTPUT/<cycle>` and `TIGGE_OUTPUT/archive/<cycle>`, the tar file. Of each file the model keeps which attempt wrote it; a merged file is, per record, the sequence of what was appended |
| `input`, `sound` | whether the linked files are good, missing or flawed; whether they were good throughout an attempt |
| `Submit` ... `RejectInput` | up to line 917, with `qcGensCycle()` |
| `Convert` ... `Clean` | `run_ncep_convert.pl` |
| `MergeGroup`, `MergeFails`, `UnlinkMerged`, `MergeDone` | `mergeRecords()`, called from there and from `packCycle()` |
| `WriteProduct`, `RunEnds` | `bin/ncdcTigge` as its caller sees it: files appear one by one, the exit code is ignored |
| `QcOutputFails`, `QcOutputPasses` | `qcOutput()` |
| `List` ... `ArchiveEnds` | `archiveOutput()` |
| `RescueTag` ... `Flag` | `packCycle()` |
| `Complete`, `Unlock` | 950-966 |

`May` says what can go wrong: `kill` (an attempt ends between any two steps,
and its files stay), `disk` (a write, a copy, a rename or tar fails), `expire`
(the files behind the links are removed), `overlap` (an attempt starts before
another is over). Between attempts the lock may be removed, the links made
again, a flawed source repaired. `rmtree` of the old directories and the unlink
of the old tar file are one step: a kill between them leaves less than a kill
before them, and the next attempt starts with the same step. A file that a
killed program leaves half written is not distinguished from one it did not
write, except the tar file. The reads of the disk never fail.

What `RunCycle` takes of the C program is what is shown of `NcdcTigge`: with input
that lacks nothing it writes every product (`CompleteInputPublishes` and the run
`complete`), otherwise it may stop anywhere.

### The workflow

`DriverContract` is what the rest of the workflow may count on when it runs
`runTigge.pl`: of a cycle's files only the lock and the tar file, of an attempt
only how it ended. `RunCycleDelivers` maps `RunCycle` to it; the property
`KeepsContract` says that every step of the detailed driver is one of the
contract or invisible, and that an attempt which may go on does.

`Workflow` extends `DriverContract` (the driver's steps are steps of the job
`process_tigge`) with the other five tasks, each script step by step, and with
Rocoto.

| Model | Code |
|---|---|
| `task`, `tries`, `rewinds` | Rocoto's state of each task, its `maxtries`, the operator's `rocotorewind` |
| `Dependency`, `Submit`, `Ends`, `FailTask`, `Rewind` | `workflow/hpss.xml` and `workflow/tasks/ursa/*.xml`; `at` is the place of a job in its script |
| `made`, `source` | the directory of a cycle and its files, of the two kinds (a and b) an archive each holds: none; some, without those of the last hour (f384); last, with those of the last hour and others missing; full; stale while all are there and one is written again |
| `FilesAppear` | the dependency of `link_input.xml` 13-129: the last hour's files of both kinds. Their age of five minutes is not counted: a model without clocks lets the task start as soon as they are there |
| `links` | the directory of `link_input.py`: none, some, all |
| `sum`, `sent`, `stored` | the checksum file, the S3 bucket, the tape |
| `MakeDirs` ... `PullLost` | `pull_from_hpss.py`; `LastHourArrives` happens anywhere in a call of htar, since nothing in the repository says in which order an archive has its files |
| `AlreadyLinked` ... `LinkEnds` | `link_input.py` |
| `BeginDriver`, `RunDriver` | `runTigge.sh` |
| `Checksum` ... `SendChecksum` | `transfer_output.sh` |
| `PutTar` | `archive_output.sh` |
| `RemoveSource` ... `DeleteEmpty` | `cleanup.sh`; `DeleteEmpty` looks at the directories of all cycles of the day |
| `Expire` | the purge of a scratch disk, which takes some of the files or all |

`May` says what happens around the jobs: `fail` (a job ends between any two
steps, by an error, the walltime or its node), `expire` (the purge). Attempts of
the driver at one cycle do not overlap here, as the contract says.

Everywhere, a definition called `Name_Slip` is a plausible slip of the code that
`Name` models. Nothing uses it; each property is tried against one of them, to
see that it can fail.

## 4. Runs

| Run | Instance | Shows |
|---|---|---|
| `complete` | two members, four steps, all variables, complete input in two record orders | `ImplementsProducts`: the main loop refines `TiggeProducts`, with its fairness |
| `defects` | two members, three steps, all variables but sshf; in every step after the analysis any one of thirteen kinds of records may be missing, in the analysis one (about 25 thousand states) | `ArraysAligned`, `FreshScan`, `LossHasCause`, `STFromInputAlone`: what a failed scan can and cannot spoil; `TypeOK`, `OutputAligned`, `CrashNeedsLoss`, `FirstStepNeverLost`: arrays and counters used again; `Termination` |
| `retry` | two attempts in turn; kills, expiring input; two products and a converted record in two groups | `SoundAttemptDelivers`, `NeverTwice`, `FlawedNeedsKill`, `NoRecordVanishes`, `LockOwner`, `AttemptEnds`, `KeepsContract` |
| `failing_disk` | two attempts in turn, kills, failing writes; one product and one converted record in one group, the other empty | `TypeOK`, `NoRecordVanishes`, `KeepsContract` |
| `parts` | every command line of up to four words for a queue of three places; every b file of up to five records on two points; times around the ends of months in years of all four kinds and around the cut-over of the ensemble | `SearchIsExact`, `AsListed`; `TakesPtSlots`, `HandlesKept`, `WholeGlobe`; `TimeKept`, `SameEnsemble`, `TimeAddReturns`; `TypeOK` |
| `conversion` | two input files, the first with one or two messages of up to three fields, with fields that refer to a bitmap their message or no message has defined, unreadable messages, rules that fail, two records of one name; a file that is gone; a disk that fills up | `ConvertedAsWanted`, `LastSections`, `ConversionEnds`, `TypeOK` |
| `workflow` | one cycle, the tries of the task files, two attempts of the driver, one rewind, failing jobs, a disk that may cut the tar file, input purged in part (about 1.2 million states) | `SafeToDelete`, `LinksAllOrNone`, `LeftClean`, `CycleSettles`, `TypeOK` |
| `three_cycles` | three cycles of a day, two tries of the pull and one of the others, no job that fails by itself (about 94 thousand states up to symmetry) | `OnlyRefetchDisturbs`; `OneTryForEach`, where a pull can die |

The other runs each refute one sentence of the repository. Their counterexamples
are the findings of this project.

| Run | Instance | Refuted |
|---|---|---|
| `packed_without_tar` | a failing disk | `Packaged`: the status file is flagged "as sucesssfully processed" (`ncdcTigge.pm` 1354) |
| `lock_left` | input that may be missing | `LockUnlinked`: "anything that breaks this loop must also unlink this LOCKFILE" (`ncdcTigge.pm` 883) |
| `all_but_one` | as `parts` | `AllMeansAll`: "You may list as many as you like. All variables will be processed if none are supplied, or the keyword "all" is used" (`src/src/ncdcTigge.c` 278) |
| `south_level` | as `parts` | `SouthIsSouth`: the record kept as "S. Hemisphere pressure" is of the southern hemisphere (`generatePotentialTemperature.c` 144) |

Bounds of the C program. Two members are enough to see what one leaves to the
next, since all of it is in the arrays, the counters and the bound memory, and
the third member starts from what the second could have left. Three steps give
a step with no precipitation, a first and a later accumulation, and a loss
before and after a good record. One missing kind per file suffices for the
readers' interference: a failed scan leaves the files at their end, and no
second failure leaves them anywhere else. All variables but sshf, which is loaded and
integrated as slhf is, are on the list of `defects`, so that each way a loader can
treat a missing record is there, and one variable is skipped.

Bounds of the parts. Four words are one more than the queue has places; one
variable has no place in the default list, as sf6 in the code; the longest command
line has one name more than places, as the fourteen names of the usage message. Five records of
potential temperature are the four it takes and one in the way. One point of
each hemisphere tells whose value a point has. The offsets end a day, do not,
and reach over the end of a month; the last one is the last forecast hour.

Bounds of the conversion. Three fields are a first, a middle and a last one; a
second message meets what the first has left; the second file meets what the
first has left. Two names let one product be written twice and another once. A
first field may define a bitmap, have none, or refer to one: in the first message,
where there is none and the tool dies, and in the second, behind one that has
defined a bitmap.

Bounds of the driver. Two attempts: the second meets everything a first one can
leave, and what a third one meets is what the second left, which starts by
removing the directories of the first. A product and a converted record share a
merged file, and a group holds two, one or no records: the cases of
`mergeRecords()`.

Bounds of the workflow. `workflow` takes the tries of the task files as they
are, but three of the six of the transfer, whose third try meets nothing the second
could not meet; one rewind gives `process_tigge` a second attempt. Two cycles would suffice
for the order of steps in which one disturbs another: the only shared file is the
directory of the day. They do not suffice to count what the clean-ups cost a
pull. Deployed are three tries (`pull_from_hpss.xml` 1) with four cycles a day of
which four may be in flight (`hpss.xml` 30 and 36), so that all three other
clean-ups may hit one pull; `three_cycles` is the smallest instance with that
relation, two tries and three cycles, and reaches a dead pull. `OneTryForEach` is
proved for any numbers.

Fairness.

* `NcdcTigge`, `Conversion`: `WF_vars(Next)`. One sequential process (or one child
  after the other) without locks or waits; weak fairness says only that it is
  scheduled. `ProgramParts` has it for `timeAdd()` alone, the one loop whose end is
  claimed.
* `RunCycle`: weak fairness of each attempt's own steps: a running process is
  scheduled, and none of its steps waits for another process. Kills, expiry,
  repairs and submissions have none. `AttemptEnds` is checked without overlap.
* `DriverContract`: weak fairness of an attempt's steps; `KeepsContract` shows
  that it follows from that of `RunCycle`.
* `Workflow`: cron starts Rocoto again and again, so a task that may be submitted
  is submitted, and a job in the batch system goes on. Nothing makes a job fail,
  a disk be purged or the operator act.

`CHECK_DEADLOCK FALSE` because all of these really stop: the program in done,
exit and crash, the driver when all attempts are over, the conversion after the
last file, the workflow of finitely many cycles when each is cleaned up or has a
dead task.

What is learnt about the code.

* The C program. A missing record costs its own variable the whole member (the
  array is dropped and the integration dereferences what is not there), costs the
  readers after it their records of that step, and nothing at any later step;
  soil temperature, the one generator that rewinds first, is immune; step 0
  cannot lose anything. The program crashes only in a member that lost a record.
  The first-step message of the ttr loader says that a blank record is implanted;
  no blank is, and `LossHasCause` and `FirstStepNeverLost` hold with that.
* The command line. `processQueueContains()` says yes to unknown words, and still
  a list of names that fits, without the keyword all, is processed as it was given
  if it is correct, and refused otherwise (`AsListed`). The promises of the usage
  message are not kept: the default list has no place for sf6 (two of its places go
  to the test variables), so neither an empty list nor `all` makes it; and a list of
  more names than there are places is passed over, without a message, and nothing is
  processed (`AsListed` again). The list of all fourteen names is such a one, so that
  no command line processes everything (finding `all_but_one`).
* Potential temperature. Its southern records are any of their parameter, so it
  depends on the order of the file (finding `south_level`): with the two hemispheres
  first, each with values of its own, every point is right (`WholeGlobe`). Where
  both have a value the average is stored and then overwritten by the missing value
  (`generatePotentialTemperature.c` 255 and 265), although the comment at line 242
  says to merge the values; `WholeGlobe` leaves such points out. No handle is used after its deletion; when the file
  ends too early the handles in the four slots leak, and only those (`HandlesKept`).
* The calendar is right for every date tried. `generateTotalPrecipitation.c` 92-97
  passes the initial time for the end of the interval where the other six
  integrations pass the sum; the model of the calendar stops at the sum.
* The conversion. A message that cannot be read, or a rule that fails, costs
  everything behind it in its file, and nobody notices; nothing else is lost on a
  disk that works (`ConvertedAsWanted`). The first field of a file that refers to an
  earlier bitmap when there is none does the same in another way: `grib_handle.c`
  686 takes the context for its error message from a handle that is still NULL, so
  the tool dies with what its output buffer holds (`FilterCrashes`). The copy of a
  bitmap outlives its message: a field that refers to an earlier bitmap before its
  own message has defined one gets that of another message, where the library's own
  code table 6.0 says that the indicator means a bitmap "defined previously in the
  same "GRIB" message" (`grib-api/definitions/grib2/tables/0/6.0.table` 6).
  `LastSections` says exactly what a field gets: the last grid of its message and the
  last bitmap of its file.
* The driver. An attempt with good input delivers whatever the ones before it
  left, because the directories are removed first and every product is written
  anew. The weak places are the files that are not removed. The lock: a comment says
  that everything that breaks the loop must unlink it, but the return of a failed
  output check does not (finding `lock_left`); `LockOwner`, which holds, says that
  this return and a kill are the only ways in which a lock outlives its attempt. The
  lock is tested and created in two calls, which nothing makes one (`ncdcTigge.pm`
  872): two processes started at once may both run, and nothing but `LockOwner` is
  claimed of them. The tag of the input check: it is written before the verdict and
  removed after it, so an attempt killed in between lets the next one process flawed
  input; `FlawedNeedsKill` says that without a kill this cannot happen. The tag of the output
  check: with it `qcOutput()` counts nothing, and a cycle whose second attempt has
  worse input than the first and lacks products is packed and marked as completed;
  `SoundAttemptDelivers` is about attempts with good input and does not cover it. With
  a failing disk, records of the conversion can vanish, because the clean-up deletes
  what `mv` left (`run_ncep_convert.pl` 379, the exception in `NoRecordVanishes`), or
  get into the tar file twice (a merge that failed half way
  is done again by `packCycle()`); nothing counts them, so `NeverTwice` is claimed
  only for a disk that works; and a tar that fails is not noticed (finding
  `packed_without_tar`).
* The workflow. Nothing is deleted before tape and bucket have the same tar file,
  though with a failing disk it need not be a whole one. `link_input` starts when
  the files of the last hour are there, not when the pull has ended, and its script
  tests every file: if others are missing it fails and uses a try. What it passes on
  has all its links, or none (`LinksAllOrNone`); none, because when linked files have
  expired `link_input.py` removes the links and ends well, so that `process_tigge`
  runs without input. That takes a second try or a rewind, and is the exception the
  property names. A second try of the pull writes files of a cycle that is being
  processed (`OnlyRefetchDisturbs` says that nothing but this and the purge does, the
  clean-up of another cycle included), and leaves files behind when the cycle was
  cleaned up (`LeftClean`). The clean-up of one cycle may delete the directory another
  cycle's pull has just made: each costs that pull one try at most
  (`OneTryForEach`). As deployed, with three tries and four cycles in flight, a pull
  can die of it, but only if all three other clean-ups come between its `mkdir` and
  its first file. A cycle whose last hour's files are purged between pull and link
  waits for ever with no dead task (the exception in `CycleSettles`); and a dead task
  is seen only by whoever looks, since `handle_dead`, which would send a mail, is
  commented out in `hpss.xml` 43.

Hazards without a property: the two calls that test and create the lock, an output
check that passes on an old tag or on files of an earlier attempt, the overwritten
average, and what `mv` could not move do go wrong in the code, as told above; the
properties say how far the rest holds without them. An `fopen()` whose result is not
tested (`util.c` 226) would be one more way to crash at any write. Whether a rewind
of `process_tigge` removes the lock under a running attempt depends on Rocoto,
which is not in the repository.

## 5. Proofs

`NcdcTiggeProofs` proves, for every number of members and steps, every list of
variables and every choice of input files, that `IInv` is an invariant: the type
invariant together with

* `CountsBounded`: no array has more records than loads were made. `TypeOK` alone
  is not inductive: a counter at its bound could be incremented once more;
* `QueuedOnly`: a variable that is not on the list has no records.

One lemma states what a load may do (`LoadAt`) and that every loader does only
that; another does so for the instant generators (`InstantAt`) and for the
integrations (`IntegrationAt`); then each kind of step keeps the invariant.

`NcdcTiggeAlignment` adds on top of `IInv`:

* `ArraysStayAligned`, `FirstStepKept`, `CrashesNeedLoss`. The heart is
  `LoadKeepsAligned`: a successful load puts the record of step f at index f exactly
  when all earlier loads were successful, and a lost load makes `NothingLost` false
  for the rest of the member;
* `OutputStaysAligned`. What is being added up is not in `OutputAligned`, so
  `OutputInv` says of the running sum that it has the steps before the slot at hand
  (`SumsAligned`) and of the files written before the integrations that they are of
  instant variables (`WrittenBefore`);
* `ScansStartFresh`: every reader that gets its records rewinds both files;
* `LossesHaveCause` and `STNeedsInputAlone`, two action properties. `CauseInv` says
  that when every reader before this one was provided for, the files are at their
  top; `ScanFileFinds`, `ScanBothFinds` and `TwoScansFind` say that a scan from the
  top finds a record if and only if there is one, and two scans two records.

`NcdcTiggeProductsProofs` proves `CompleteInputPublishes`: from input that lacks
nothing every step of the main loop is a step of `TiggeProducts` or changes nothing
of it. This is the safety part of `ImplementsProducts`, for any number of members
and steps, any list, and any order of the records. One lemma shows for every reader
that such files give it the right records (`LoadStoresRight`, `InstantWritesRight`);
`CompleteInv` then says that the open files are of the step and at their top
(`Opened`), that no record is lost and none is wrong (`AllStored`, `SumOfFields`), and
that the files written are the products of the variables and steps the member has
come past (`WrittenOnly`). A crash, a wild slot and an early end of a reader are
then impossible, and `FreeData` finds the promised set complete.

The assumptions are those of `NcdcTigge`: `LastMember` a natural number,
`LastStep` a positive one, the list a subset of the variables, files sequences of
the kinds of records. `CompleteInputPublishes` has the hypothesis
`LackNothing(InputFiles)`, which the run `complete` evaluates on its input.

`RunCycleProofs` proves, for any number of attempts, any products, converted
records and merge groups, and anything that may go wrong, overlap included:

* `DriverTypeCorrect`. `TypeOK` alone is not inductive, because the loop variable
  of `mergeRecords()` is incremented in one step and tested in another: `IType`
  adds that it is at most the last group while a merged group is unlinked;
* `LockHasOwner`. A lock that is still there when its owner is over means a
  kill or a failed output check, the exact complement of the finding `lock_left`.
  `Owned` adds that the owner has passed the step that creates the lock: otherwise
  it could return from a test before it;
* `MergedOnce`. Without a failing disk and without overlap, no record is in a merged
  file or in the tar file twice, however many attempts are killed. `NeverTwice` says
  nothing about the files that are about to be appended, so its strengthening `Inv`
  says where a record can be at each place of the running attempt: nowhere before
  the conversion; afterwards in one directory, in a file of its own or in a merged
  file but not both, except for the records a merge has appended and not yet
  unlinked. That there is one running attempt (`Alone`) lets every other step leave
  this alone, and a kill needs no case of its own, because the next attempt starts
  with empty directories.

`RunCycleContract` proves what the driver promises while one attempt is at work at a
time (`overlap` is not in `May`):

* `ImplementsContract`: every step of `RunCycle` is a step of `DriverContract` or
  changes nothing of it; the safety part of `KeepsContract`, through kills, expiring
  input and failing writes. `Promise` says of each place of an attempt what the
  contract needs there: nobody takes the lock between test and creation, only input
  that was not good is rejected, the tar file is gone before a new one is begun. On a
  disk that works `FaultlessPromise` adds the way of the tags from the output check
  to the archive and the status file;
* `FlawedInputNeedsKill`: flawed input is converted only by an attempt that finds a
  tag, after a kill. `TagInv` says where a tag can come from while the input is
  flawed: the check that is on its way to its verdict, or a killed attempt;
* `RecordsSurvive`: no step loses the last copy of a record, except the removal of
  what an earlier attempt left and, on a failing disk, the clean-up of the
  conversion. `Safety` adds what each deletion relies on: what is unlinked after a
  merge is in the merged file, what is unlinked after a copy is in the archive, a
  merged file never replaces another;
* `SoundInputDelivers`, on a disk that works: an attempt with good input that runs
  to its end is refused at the door or leaves a tar file with every record once, as
  it made it. `Delivery` joins the two invariants above with `Made`: all that is in
  the directories is the attempt's own, and every record is where its place in the
  program says.

The assumptions are those of `RunCycle`: products and converted records are
different files (`FileAssumption`), every record has a group of the merge list
(`GroupAssumption`), `None` is no attempt (`AttemptAssumption`), the tag is no record
(`TagAssumption`), `May` is a subset of the four faults (`MayAssumption`); the theorems
about a disk that works or attempts in turn say so as hypotheses on `May`.

`WorkflowProofs` proves, for any finite set of cycles, any numbers of tries and
any faults, `TypeCorrect`, `CopiesBeforeCleanup`, `LinksAreAllOrNone`,
`CleanupLeavesNothing` and `DriverUndisturbed`. Their invariant is `TInv` with, for each
cycle, `CycleInv`: a task that has begun finds the tasks before it done (`Ordered`); the
driver is at work only inside its job (`DriverInJob`); a processed cycle's tar file
stays what it is until both copies are made, so that they are equal (`Copies`);
`Cleaned` follows the clean-up. What `link_input` waits for is not in it, since a purge
may undo it and files may be missing when it holds. Instead `FirstPull` says that
before the first pull is in its last step files are missing, so that a `link_input`
that was started early has made no link (`NotLinked`); and `Linked`, that a first try
finds no links, that the script ends with all of them, and that only a later try
(`LinkedAgain`) can have ended well without. A step for one cycle leaves all of this
alone in the others (`Frame` and the lemmas that use it). `PullsLoseOneTryEach` needs
counting: where no job dies by itself, the tries a pull has used are at most the
other cycles that were cleaned up, and the one it is in (`PullBound`); `PullPlace` says
that a directory with a file in it is not deleted from under the pull. It holds for
any number of cycles and of tries.
Assumed are a finite set of cycles (`CyclesAssumption`), at least one try for each
task (`TriesAssumption`), a number of rewinds (`RewindsAssumption`), `May` as above
(`EventsAssumption`) and that `Disk` is true or false (`DiskAssumption`).

`ProgramPartsProofs` proves the eight safety properties of the run `parts`:

* the command line (`ArgInv`): the list is what was copied so far (`Copied`), the
  default list (`ByDefault`), or was refused (`Refused`); for any variables, default
  list and command lines. `QueueIsAsListed` is about lists of names: those that fit,
  and those that do not, of which no word is read. It says nothing of `all` and of no
  names, which the run `all_but_one` refutes. The default list is assumed to have no
  variable twice and to fit into the places (`DefaultAssumption`), as that of the
  code;
* potential temperature (`PtInv`): what the four slots hold after any part of any
  file (`Scanned`), where every handle is that was read (`Accounted`), and the merge
  (`Merged`). `HandlesAreKept` says which handles are deleted in both ways the
  function ends: all, or all but the four slots';
* `timeAdd()` (`TimeInv`): before the months are added the offset is entered
  (`Entered`), afterwards the minutes counted so far are the initial time and the
  offset (`Added`), through leap years and for any offset; all dates are since the year 1
  (`InitialTimesAssumption`, `OffsetsAssumption`).

The other assumptions say that variables, words and files are of their kinds
(`NamesAssumption`, `CommandLineAssumption`, `PointsAssumption`, `PtFilesAssumption`,
`MissingAssumption`) and name the inputs of the parts that are idle
(`PlainAssumption`).

`ConversionProofs` proves, for any input directory and a disk that may fill up at
any write, `TypeCorrect`, from an invariant that says which grid the library
remembers while a message is not used up (`SupportInv`, `Sectioned`);
`SectionsAreLast`, that is `LastSections`, with what it says of the bitmap that is
remembered from message to message (`BitmapInv`, `TmpBitmaps`); and `NothingLost`,
that is `ConvertedAsWanted`. Its invariant `ProductInv` follows the records through the
three tools: what is in a file is wanted there (`FilterSound`, `TmpSound`, `GoodSound`,
`OutputSound`), and on a disk that works all that a tool has dealt with is there, in
the order of the input (`TmpAll`, `GoodAll`, `OutputAll`). Assumed: the input is files of
messages that have a field and a grid before it (`InputsAssumption`); nothing is
assumed of their bitmaps. `None` is no handle (`NoneAssumption`).

Only model-checked is all liveness, which is out of the prover's reach:
`Termination`, `AttemptEnds`, `TimeAddReturns`, `CycleSettles`, `ConversionEnds`, and of
the refinements `ImplementsProducts` and `KeepsContract` the fairness of the abstract
specification. Every invariant and every action property that a run checks is
also proved. The four documented claims the code does not keep are refuted by
TLC on an instance each.

## 6. Not modelled

* The GRIB library, but for the three tools and the reading of messages in
  `Conversion`. It is vendored and makes up 95 % of the implementation's lines,
  most of them generated (parser, hash table, wrappers) or interfaces and tools
  TIGGE does not use (Fortran, Python, netCDF). TIGGE needs of it that a field can
  be read, changed and written; a model of its decoding would say nothing about
  TIGGE. The share of all lines that is modelled stays small for this reason.
* Output names and GRIB metadata (`generateFileName()`, `newGribRecord()`): a
  sequence of `grib_set_long()` with constants. The arithmetic on grid points.
* The test variables: `main()` has the calls commented out.
* Of the driver: the wait of `qcGensCycle()` for a download in progress,
  `runLatest()` and the subs nothing calls, a lock that is removed while its
  attempt runs. Of attempts that overlap there are the steps, with `overlap` in
  `May`, and the theorems `DriverTypeCorrect` and `LockHasOwner`, but no run.
* Of the tools: `tigge_split` ends with `exit(1)` when a key cannot be read
  (`tigge_split.c` 57-73) or a file name is taken (line 172, only with an option the
  script does not give). On a disk that works the model has no such end: that every
  record `tigge_check` passes has the keys of a file name is an assumption about the
  input, which the models do not examine. If it failed, all that lies behind the
  record in its file would be lost, as with an error of `grib_filter`.
* Of the conversion script: the report of `qcOutput2()`, which decides nothing, and
  the removal of old temporary files.
* Of the workflow: `prod.xml`, which is `hpss.xml` without the pull;
  `handle_dead.sh`, which sends a mail and whose task is commented out in `hpss.xml`
  43; the age of the files `link_input` waits for; the deletion of old logs; the
  names the tape archives had over the years; what Rocoto does to a running job it
  rewinds.
* Build files and shell set-up.
