---------------------------- MODULE InvokeContract ----------------------------
(***************************************************************************)
(* What Provider.invoke promises the worker that calls it, with no stream, *)
(* no thread and no trajectory in sight: an agent process is started,      *)
(* perhaps again after a rate limit, each time under a deadline of its     *)
(* own, and invoke ends once, in one of the ways _execute_attempt          *)
(* handles, with that process gone unless an exception came between.       *)
(*                                                                         *)
(* ProviderInvoke (claude_code) and CliInvoke (codex_cli, opencode and     *)
(* copilot_cli) are shown to implement it.                                 *)
(***************************************************************************)
EXTENDS Naturals

CONSTANT MaxRetries     \* how often a rate limit is answered by a new try

VARIABLES
    agent,      \* the agent process: "none", "running" or "dead"
    tries,      \* how many were started
    late,       \* the deadline of the last one has passed
    ended       \* the way invoke ended, or "none"

contractVars == <<agent, tries, late, ended>>

(* A result, a ProviderTimeout, a FrameworkError, RateLimitExhausted, or, on *)
(* its way through, an error of what comes before the wait or a              *)
(* KeyboardInterrupt.                                                        *)
Way == {"graded", "timeout", "abort", "exhausted", "raised", "interrupted"}

ContractInit == agent = "none" /\ tries = 0 /\ late = FALSE /\ ended = "none"

(* One process at a time, with a new deadline.                               *)
Start ==
    /\ ended = "none"
    /\ agent # "running" /\ tries <= MaxRetries
    /\ agent' = "running" /\ tries' = tries + 1 /\ late' = FALSE
    /\ UNCHANGED ended

Dies ==
    /\ agent = "running"
    /\ agent' = "dead"
    /\ UNCHANGED <<tries, late, ended>>

DeadlinePasses ==
    /\ ended = "none"
    /\ agent # "none" /\ ~late
    /\ late' = TRUE
    /\ UNCHANGED <<agent, tries, ended>>

(* What passes through may leave the process or take it with it.  Anything   *)
(* else waits for its end; a timeout is one of the last deadline, and invoke *)
(* gives up on rate limits after its last retry only.                        *)
End(way) ==
    /\ ended = "none" /\ tries > 0
    /\ way = "timeout" => late
    /\ way = "exhausted" => tries = MaxRetries + 1
    /\ IF way \in {"raised", "interrupted"}
       THEN agent' \in {agent, "dead"}
       ELSE agent = "dead" /\ UNCHANGED agent
    /\ ended' = way
    /\ UNCHANGED <<tries, late>>

ContractNext == Start \/ Dies \/ DeadlinePasses \/ \E way \in Way : End(way)

ContractSpec == ContractInit /\ [][ContractNext]_contractVars
=============================================================================
