------------------------------- MODULE RunLedger -------------------------------
(***************************************************************************)
(* What `agent-exam run` promises, with no pool, no worker and no harness  *)
(* in sight: a plan of attempts, a ledger that gives each of them at most  *)
(* one verdict, and a publication that closes the ledger.                  *)
(*                                                                         *)
(* A run ends in one of three ways.  It is `complete`: every attempt has   *)
(* its verdict, and the report and then run.json are written.  It is       *)
(* `partial`: a rate limit cut it short, and what was graded until then is *)
(* published, with exit code 3.  Or it is `abandoned`: an error escaped,   *)
(* and nothing is published.                                               *)
(*                                                                         *)
(* AttemptPool, the parallel dispatch path, is shown to implement it.      *)
(***************************************************************************)
CONSTANTS
    Attempt,        \* the attempts of the plan
    Verdict,        \* what an attempt can be graded as
    NonGating,      \* the verdicts that leave the exit code at 0
    RealityCheck,   \* the run is informational: its verdicts never gate
    Ungraded        \* the entry of an attempt that has no verdict yet

VARIABLES
    ledger,         \* ledger[a]: the verdict of attempt a, or Ungraded
    status,         \* "open", or the way the run ended
    published,      \* which files a reader finds, a subset of {"report", "run"}
    code            \* the exit code, or "none" while the process lives

ledgerVars == <<ledger, status, published, code>>

Graded == {a \in Attempt : ledger[a] # Ungraded}

(* What the process answers once everything is published. *)
ExitCode ==
    IF status = "partial" THEN "3"
    ELSE IF RealityCheck \/ \A a \in Attempt : ledger[a] \in NonGating THEN "0"
    ELSE "1"

LedgerInit ==
    /\ ledger = [a \in Attempt |-> Ungraded]
    /\ status = "open"
    /\ published = {}
    /\ code = "none"

(* An attempt gets its verdict, once, while the ledger is open. *)
Grade(a, v) ==
    /\ status = "open"
    /\ a \notin Graded
    /\ ledger' = [ledger EXCEPT ![a] = v]
    /\ UNCHANGED <<status, published, code>>

(* The run decides how it ends; only a complete ledger closes as complete. *)
Close(how) ==
    /\ status = "open"
    /\ how = "complete" => Graded = Attempt
    /\ status' = how
    /\ UNCHANGED <<ledger, published, code>>

PublishReport ==
    /\ status \in {"complete", "partial"}
    /\ published = {}
    /\ published' = {"report"}
    /\ UNCHANGED <<ledger, status, code>>

PublishRun ==
    /\ published = {"report"}
    /\ published' = {"report", "run"}
    /\ UNCHANGED <<ledger, status, code>>

(* The process ends: with the verdicts' exit code once all is published, *)
(* or with an error code when the run was abandoned.                     *)
Exit ==
    /\ code = "none"
    /\ \/ /\ published = {"report", "run"}
          /\ code' = ExitCode
       \/ /\ status = "abandoned"
          /\ code' \in {"1", "2"}
    /\ UNCHANGED <<ledger, status, published>>

LedgerNext ==
    \/ \E a \in Attempt, v \in Verdict : Grade(a, v)
    \/ \E how \in {"complete", "partial", "abandoned"} : Close(how)
    \/ PublishReport
    \/ PublishRun
    \/ Exit

LedgerSpec == LedgerInit /\ [][LedgerNext]_ledgerVars
=============================================================================
