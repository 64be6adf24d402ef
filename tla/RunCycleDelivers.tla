---------------------------- MODULE RunCycleDelivers ----------------------------
(***************************************************************************)
(* RunCycle implements DriverContract, for one cycle: every step of an     *)
(* attempt is one of the steps the workflow knows of, or changes nothing   *)
(* it can see.                                                             *)
(***************************************************************************)
EXTENDS RunCycle

Ending(p) ==
  IF pc[p] = "killed" THEN "killed"
  ELSE CASE rc[p] \in {1, 2, 3} -> "refused"
         [] rc[p] = 10          -> "rejected"
         [] rc[p] = 12          -> "failed"
         [] OTHER               -> "delivered"

Progress(p) ==
  IF pc[p] = "idle" THEN "waiting"
  ELSE IF pc[p] \in {"env", "test", "create"} THEN "starting"
  ELSE IF pc[p] = "remove" THEN "locked"
  ELSE IF Running(p) THEN "working"
  ELSE Ending(p)

Contract == INSTANCE DriverContract WITH
  Cycles  <- {"cycle"},
  Disk    <- "disk" \in May,
  attempt <- [c \in {"cycle"} |-> [p \in Attempts |-> Progress(p)]],
  sound   <- [c \in {"cycle"} |-> sound],
  tar     <- [c \in {"cycle"} |-> tar.state],
  lock    <- [c \in {"cycle"} |-> lock # None]

(* runCycle() keeps the contract the workflow is built on: it returns 0    *)
(* only with a whole tar file in place, 10 and 12 only with none and only  *)
(* for input that was not good; it touches the tar file only after it has  *)
(* taken the lock; and it always returns.                                  *)
KeepsContract == Contract!DriverSpec
===============================================================================
