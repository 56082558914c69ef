----------------------------- MODULE MCAttemptPool -----------------------------
(***************************************************************************)
(* Instances of AttemptPool for TLC, and the statements about it that the  *)
(* program's own text makes and its behaviour does not keep.               *)
(***************************************************************************)
EXTENDS AttemptPool

CONSTANTS api

(* The first task of the plan shares the group `api`, limit 1. *)
FirstTaskGrouped == [t \in Task |-> IF t = 1 THEN api ELSE NoGroup]
AllTasksGrouped == [t \in Task |-> api]
OneAtATime == [g \in Group |-> 1]

(* docs/design/triggers.rst: the runner dispatches attempt n of every task  *)
(* as one batch and waits for it before it starts n + 1.                    *)
BatchPerAttemptIndex ==
    serialWithinTask =>
        \A a \in Busy : \A t \in Task, n \in 1..(a[2] - 1) : <<t, n>> \in Reported

(* tests/test_pool_worker_crash.py: a worker that dies costs its own        *)
(* attempt and nothing else, and the run still writes its report.           *)
CrashStillReports == parent = "exited" => "report" \in published
=============================================================================
