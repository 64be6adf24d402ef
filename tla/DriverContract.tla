----------------------------- MODULE DriverContract -----------------------------
(***************************************************************************)
(* What the workflow may count on when it runs runTigge.pl for a cycle: an *)
(* abstract specification of runCycle(), which RunCycle implements (see    *)
(* RunCycleDelivers) and Workflow is built with.  Of everything an attempt *)
(* reads and writes only the lock and the tar file are left.  Attempts at  *)
(* the same cycle are never at work at the same time.                      *)
(***************************************************************************)
EXTENDS Integers

CONSTANTS
  Cycles,
  Attempts,   \* at each cycle
  Disk        \* may writing fail?

ASSUME DiskAssumption == Disk \in BOOLEAN

VARIABLES
  attempt,  \* how far each attempt is, or how it ended
  sound,    \* was its input good throughout?
  tar,      \* the tar file of each cycle
  lock      \* is there a lock file?

driver == <<attempt, sound, tar, lock>>

AtWork    == {"starting", "locked", "working"}
Endings   == {"refused", "rejected", "failed", "delivered", "killed"}
Active(c) == \E p \in Attempts : attempt[c][p] \in AtWork

DriverInit ==
  /\ attempt = [c \in Cycles |-> [p \in Attempts |-> "waiting"]]
  /\ sound   = [c \in Cycles |-> [p \in Attempts |-> FALSE]]
  /\ tar     = [c \in Cycles |-> "none"]
  /\ lock    = [c \in Cycles |-> FALSE]

Becomes(c, p, from, to) ==
  /\ attempt[c][p] = from
  /\ attempt' = [attempt EXCEPT ![c][p] = to]

Begin(c, p, good) ==
  /\ ~Active(c)
  /\ Becomes(c, p, "waiting", "starting")
  /\ sound' = [sound EXCEPT ![c][p] = good]
  /\ UNCHANGED <<tar, lock>>

(* Return codes 1, 2 and 3: the environment is incomplete, or another      *)
(* attempt seems to be running.                                            *)
Refuse(c, p) ==
  /\ Becomes(c, p, "starting", "refused")
  /\ UNCHANGED <<sound, tar, lock>>

TakeLock(c, p) ==
  /\ ~lock[c]
  /\ Becomes(c, p, "starting", "locked")
  /\ \E written \in {TRUE} \cup (IF Disk THEN {FALSE} ELSE {}) :
       lock' = [lock EXCEPT ![c] = written]
  /\ UNCHANGED <<sound, tar>>

Clear(c, p) ==
  /\ Becomes(c, p, "locked", "working")
  /\ tar' = [tar EXCEPT ![c] = "none"]
  /\ UNCHANGED <<sound, lock>>

(* Return code 10.                                                         *)
Reject(c, p) ==
  /\ ~sound[c][p] /\ tar[c] = "none"
  /\ Becomes(c, p, "working", "rejected")
  /\ lock' = [lock EXCEPT ![c] = FALSE]
  /\ UNCHANGED <<sound, tar>>

(* Return code 12; the lock stays.                                         *)
FailOutput(c, p) ==
  /\ ~sound[c][p] \/ Disk
  /\ tar[c] = "none"
  /\ Becomes(c, p, "working", "failed")
  /\ UNCHANGED <<sound, tar, lock>>

BuildTar(c, p) ==
  /\ attempt[c][p] = "working"
  /\ \/ tar[c] = "none"    /\ tar' = [tar EXCEPT ![c] = "partial"]
     \/ tar[c] = "partial" /\ tar' = [tar EXCEPT ![c] = "whole"]
  /\ UNCHANGED <<attempt, sound, lock>>

(* Return code 0.                                                          *)
Deliver(c, p) ==
  /\ tar[c] = "whole" \/ Disk
  /\ Becomes(c, p, "working", "delivered")
  /\ lock' = [lock EXCEPT ![c] = FALSE]
  /\ UNCHANGED <<sound, tar>>

KillAttempt(c, p) ==
  /\ \E here \in AtWork : Becomes(c, p, here, "killed")
  /\ UNCHANGED <<sound, tar, lock>>

(* The rewind of process_tigge.                                            *)
Unlock(c) ==
  /\ ~Active(c)
  /\ lock' = [lock EXCEPT ![c] = FALSE]
  /\ UNCHANGED <<attempt, sound, tar>>

(* The input of a cycle is no longer what it was.                          *)
Spoil(c) ==
  /\ sound' = [sound EXCEPT ![c] = [p \in Attempts |-> FALSE]]
  /\ UNCHANGED <<attempt, tar, lock>>

DriverStep(c, p) ==
  \/ Refuse(c, p) \/ TakeLock(c, p) \/ Clear(c, p) \/ Reject(c, p)
  \/ FailOutput(c, p) \/ BuildTar(c, p) \/ Deliver(c, p)

DriverNext ==
  \E c \in Cycles :
    \/ \E p \in Attempts :
         \/ \E good \in BOOLEAN : Begin(c, p, good)
         \/ DriverStep(c, p) \/ KillAttempt(c, p)
    \/ Unlock(c) \/ Spoil(c)

DriverSpec ==
  /\ DriverInit /\ [][DriverNext]_driver
  /\ \A c \in Cycles, p \in Attempts : WF_driver(DriverStep(c, p))
===============================================================================
