------------------------------- MODULE MCWorkflow -------------------------------
(***************************************************************************)
(* One cycle with the tries of the task files, or three cycles of a day.   *)
(***************************************************************************)
EXTENDS Workflow, TLC

CONSTANTS c00, c06, c12, p1, p2

(* As in src/workflow/tasks/ursa, but for the transfer, which has six: its *)
(* third try meets nothing that its second could not meet.                 *)
TaskTries ==
  [t \in Tasks |-> CASE t \in {"pull", "transfer"} -> 3 [] t = "archive" -> 2 [] OTHER -> 1]

TwoPulls == [t \in Tasks |-> IF t = "pull" THEN 2 ELSE 1]

All == {"fail", "expire"}
Nothing == {}

Day == Permutations(Cycles)
===============================================================================
