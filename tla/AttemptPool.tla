------------------------------ MODULE AttemptPool ------------------------------
(***************************************************************************)
(* One parallel `agent-exam run`: the parent process, which submits the    *)
(* attempts, scores each one as it comes back and writes the report        *)
(* (runner.run around pool.run_plan), and the worker processes of the      *)
(* ProcessPoolExecutor, each taking one attempt at a time through          *)
(* pool._execute_attempt.                                                  *)
(*                                                                         *)
(* The executor's work queue is FIFO and submission follows a fixed order, *)
(* so the queue is not a variable: its head is the first attempt in that   *)
(* order that is still queued.                                             *)
(*                                                                         *)
(* A definition whose name ends in _Mut is a plausible slip in the one     *)
(* below it; no specification uses it.                                     *)
(***************************************************************************)
EXTENDS Integers, FiniteSets

CONSTANTS
    NTasks,         \* len(plan.tasks); a task is its position in the plan
    K,              \* plan.attempts_per_task
    NParallel,      \* plan.n_parallel, the number of worker processes
    Group,          \* the concurrency groups the plan's tasks name
    NoGroup,        \* of a task that names none
    GroupOf,        \* the group of each task
    Limit,          \* config.yaml's concurrency_groups
    KnownIssue,     \* the tasks annotated known_issue
    RealityCheck,   \* req.reality_check
    Failures,       \* which failures the environment may inject
    MaxFailures     \* how many of them one run may meet

Task == 1..NTasks
Attempt == Task \X (1..K)
NoAttempt == <<0, 0>>

FailureKind == {"setup", "config", "timeout", "unattached", "rateLimit",
                "providerCrash", "record", "workerDeath", "judge", "judgeLimit"}

ASSUME PlanAssumption ==
    /\ NTasks \in Nat \ {0}
    /\ K \in Nat \ {0}
    /\ NParallel \in Nat \ {0, 1}
    /\ KnownIssue \subseteq Task
    /\ RealityCheck \in BOOLEAN
    /\ Failures \subseteq FailureKind
    /\ MaxFailures \in Nat

(* A group's limit is at least 1 here.  config.yaml accepts 0 as well, and *)
(* then no attempt of the group ever gets past the acquire.                *)
ASSUME GroupAssumption ==
    /\ NoGroup \notin Group
    /\ GroupOf \in [Task -> Group \cup {NoGroup}]
    /\ Limit \in [Group -> Nat \ {0}]

VARIABLES
    serialWithinTask,   \* plan.serial_within_task: two batches, or one
    parent,     \* where the parent process is
    batch,      \* the batch being dispatched or collected
    awaited,    \* futures as_completed still has to yield
    current,    \* the attempt whose outcome the runner is scoring
    abort,      \* the exception on its way out of run_plan, if any
    reports,    \* attempt_reports, one verdict per attempt
    inFlight,   \* _Heartbeat._in_flight
    done,       \* _Heartbeat._done
    tmpRoot,    \* run_tmp_root exists
    published,  \* which of the report file and run.json are written
    code,       \* the exit code, or "none"
    phase,      \* where each attempt is, on the worker's side
    outcome,    \* the AttemptOutcome the worker is building
    permits,    \* the value of each group's semaphore
    holds,      \* the attempts that acquired and have not released
    disk,       \* which files of the attempt's directory are written
    future,     \* what each attempt's Future holds
    broken,     \* executor._broken
    failures    \* how many failures were injected so far

endVars    == <<tmpRoot, published, code>>
beatVars   == <<inFlight, done>>
runnerVars == <<serialWithinTask, parent, batch, awaited, current, abort,
                reports, beatVars, endVars>>
workerVars == <<phase, outcome, permits, holds, disk>>
vars       == <<runnerVars, workerVars, future, broken, failures>>

Phase == {"planned", "queued", "staging", "waiting", "invoking",
          "archiving", "recording", "returned", "dead", "killed"}
FutureState == {"pending", "outcome", "exception", "config", "rateLimit"}
Outcome == [result: BOOLEAN, verdict: {"none", "timeout", "error"}]
NoOutcome == [result |-> FALSE, verdict |-> "none"]
ScoredVerdict == {"pass", "fail", "known_issue", "unexpected_pass"}
Verdict == ScoredVerdict \cup {"timeout", "error"}
NonGating == {"pass", "known_issue", "unexpected_pass"}

(* The phases in which a worker process is inside _execute_attempt. *)
Running == {"staging", "waiting", "invoking", "archiving", "recording"}

Grp(a) == GroupOf[a[1]]
Grouped(a) == Grp(a) # NoGroup
Busy == {a \in Attempt : phase[a] \in Running}
Reported == {a \in Attempt : reports[a] # "none"}
InPhase(p) == {a \in Attempt : phase[a] = p}

(* Batch 1 is attempt 1 of every task, batch 2 everything else; a plan that *)
(* is not warmed up has one batch.                                         *)
BatchOf(a) == IF serialWithinTask /\ a[2] > 1 THEN 2 ELSE 1
LastBatch == IF serialWithinTask /\ K > 1 THEN 2 ELSE 1
ToSubmit == {a \in InPhase("planned") : BatchOf(a) = batch}

(* The order of submission: batch by batch, within a batch task by task.    *)
Before(a, b) ==
    \/ BatchOf(a) < BatchOf(b)
    \/ /\ BatchOf(a) = BatchOf(b)
       /\ \/ a[1] < b[1]
          \/ a[1] = b[1] /\ a[2] < b[2]

First(S, a) == a \in S /\ \A b \in S : b = a \/ Before(a, b)

Init ==
    /\ serialWithinTask \in BOOLEAN
    /\ parent = "dispatching"
    /\ batch = 1
    /\ awaited = {}
    /\ current = NoAttempt
    /\ abort = "no"
    /\ reports = [a \in Attempt |-> "none"]
    /\ inFlight = {}
    /\ done = 0
    /\ tmpRoot = TRUE
    /\ published = {}
    /\ code = "none"
    /\ phase = [a \in Attempt |-> "planned"]
    /\ outcome = [a \in Attempt |-> NoOutcome]
    /\ permits = Limit
    /\ holds = {}
    /\ disk = [a \in Attempt |-> {}]
    /\ future = [a \in Attempt |-> "pending"]
    /\ broken = FALSE
    /\ failures = 0

(* One more failure, of a kind this instance may meet. *)
Strike(kind) ==
    /\ kind \in Failures
    /\ failures < MaxFailures
    /\ failures' = failures + 1

-----------------------------------------------------------------------------
(* The worker's side. *)

Enter(a, p) == phase' = [phase EXCEPT ![a] = p]

(* A result or an exception reaches the future only while the executor is *)
(* whole: a broken one has failed every pending future already.           *)
Resolve(a, f) ==
    future' = IF future[a] = "pending" THEN [future EXCEPT ![a] = f] ELSE future

(* sem.release() in the finally clause: it runs however invoke ended. *)
Release(a) ==
    /\ holds' = holds \ {a}
    /\ permits' = IF a \in holds
                  THEN [permits EXCEPT ![Grp(a)] = @ + 1]
                  ELSE permits

(* An idle worker takes the head of the queue. *)
Take(a) ==
    /\ ~broken
    /\ First(InPhase("queued"), a)
    /\ Cardinality(Busy) < NParallel
    /\ Enter(a, "staging")
    /\ UNCHANGED <<runnerVars, outcome, permits, holds, disk, future, broken,
                   failures>>

(* The attempt's cwd, its skills, its MCP servers and its token are staged  *)
(* before the semaphore is asked for.                                       *)
Stage(a) ==
    /\ phase[a] = "staging"
    /\ Enter(a, IF Grouped(a) THEN "waiting" ELSE "invoking")
    /\ UNCHANGED <<runnerVars, outcome, permits, holds, disk, future, broken,
                   failures>>

(* Staging inside the try block that releases. *)
StageFails_Mut(a) ==
    /\ phase[a] = "staging"
    /\ Strike("setup")
    /\ Resolve(a, "exception")
    /\ Enter(a, "returned")
    /\ permits' = IF Grouped(a) THEN [permits EXCEPT ![Grp(a)] = @ + 1] ELSE permits
    /\ UNCHANGED <<runnerVars, outcome, holds, disk, broken>>

(* Staging fails with an OSError (a fixture that cannot be copied), or with *)
(* one of the framework's own errors (a credential that cannot be had).     *)
StageFails(a) ==
    /\ phase[a] = "staging"
    /\ \/ Strike("setup") /\ Resolve(a, "exception")
       \/ Strike("config") /\ Resolve(a, "config")
    /\ Enter(a, "returned")
    /\ UNCHANGED <<runnerVars, outcome, permits, holds, disk, broken>>

(* A shared counter in place of the semaphore: nobody waits. *)
Acquire_Mut(a) ==
    /\ phase[a] = "waiting"
    /\ permits' = [permits EXCEPT ![Grp(a)] = @ - 1]
    /\ holds' = holds \cup {a}
    /\ Enter(a, "invoking")
    /\ UNCHANGED <<runnerVars, outcome, disk, future, broken, failures>>

Acquire(a) ==
    /\ phase[a] = "waiting"
    /\ permits[Grp(a)] > 0
    /\ permits' = [permits EXCEPT ![Grp(a)] = @ - 1]
    /\ holds' = holds \cup {a}
    /\ Enter(a, "invoking")
    /\ UNCHANGED <<runnerVars, outcome, disk, future, broken, failures>>

(* invoke leaves _execute_attempt something to archive. *)
Invoked(a, o) ==
    /\ phase[a] = "invoking"
    /\ outcome' = [outcome EXCEPT ![a] = o]
    /\ Release(a)
    /\ Enter(a, "archiving")
    /\ UNCHANGED <<runnerVars, disk, future, broken>>

InvokeReturns(a) ==
    /\ Invoked(a, [result |-> TRUE, verdict |-> "none"])
    /\ UNCHANGED failures

(* A server of the task never attached, and its target tool was not called: *)
(* the result is an error, even if invoke timed out.                        *)
InvokeUnattached(a) ==
    /\ Invoked(a, [result |-> TRUE, verdict |-> "error"])
    /\ Strike("unattached")

(* A ProviderTimeout may carry a partial result; the verdict goes when that *)
(* result settles the task all the same.                                    *)
InvokeTimesOut(a) ==
    /\ \E o \in {[result |-> FALSE, verdict |-> "timeout"],
                 [result |-> TRUE,  verdict |-> "timeout"],
                 [result |-> TRUE,  verdict |-> "none"]} : Invoked(a, o)
    /\ Strike("timeout")

(* Release after the call instead of in a finally clause. *)
InvokeRaises_Mut(a) ==
    /\ phase[a] = "invoking"
    /\ \/ Strike("rateLimit") /\ Resolve(a, "rateLimit")
       \/ Strike("providerCrash") /\ Resolve(a, "config")
       \/ Strike("setup") /\ Resolve(a, "exception")
    /\ Enter(a, "returned")
    /\ UNCHANGED <<runnerVars, outcome, permits, holds, disk, broken>>

(* Every other exception of invoke leaves _execute_attempt: the retries are *)
(* used up, the harness crashed (a FrameworkError), or something else broke. *)
InvokeRaises(a) ==
    /\ phase[a] = "invoking"
    /\ \/ Strike("rateLimit") /\ Resolve(a, "rateLimit")
       \/ Strike("providerCrash") /\ Resolve(a, "config")
       \/ Strike("setup") /\ Resolve(a, "exception")
    /\ Release(a)
    /\ Enter(a, "returned")
    /\ UNCHANGED <<runnerVars, outcome, disk, broken>>

(* The end-of-attempt cwd is mirrored and, if there is a result, the raw    *)
(* stream is copied and attempt.json written.  An OSError of the mirror     *)
(* itself is swallowed; without a result nothing more is recorded.          *)
Archive(a) ==
    /\ phase[a] = "archiving"
    /\ \/ /\ outcome[a].result
          /\ disk' = [disk EXCEPT ![a] = @ \cup {"attempt"}]
          /\ Enter(a, "recording")
          /\ UNCHANGED future
       \/ /\ ~outcome[a].result
          /\ Resolve(a, "outcome")
          /\ Enter(a, "returned")
          /\ UNCHANGED disk
    /\ UNCHANGED <<runnerVars, outcome, permits, holds, broken, failures>>

(* trajectory.json, and the return of the AttemptOutcome. *)
Record(a) ==
    /\ phase[a] = "recording"
    /\ disk' = [disk EXCEPT ![a] = @ \cup {"trajectory"}]
    /\ Resolve(a, "outcome")
    /\ Enter(a, "returned")
    /\ UNCHANGED <<runnerVars, outcome, permits, holds, broken, failures>>

(* The tolerance of the mirror's OSError stretched over the writes. *)
RecordFails_Mut(a) ==
    /\ phase[a] \in {"archiving", "recording"}
    /\ outcome[a].result
    /\ Strike("record")
    /\ Resolve(a, "outcome")
    /\ Enter(a, "returned")
    /\ UNCHANGED <<runnerVars, outcome, permits, holds, disk, broken>>

(* Copying the raw stream or writing either file fails. *)
RecordFails(a) ==
    /\ phase[a] \in {"archiving", "recording"}
    /\ outcome[a].result
    /\ Strike("record")
    /\ Resolve(a, "exception")
    /\ Enter(a, "returned")
    /\ UNCHANGED <<runnerVars, outcome, permits, holds, disk, broken>>

(* A worker process dies in the middle of an attempt (killed for memory, a  *)
(* crash in native code): no finally clause runs, a permit it held is gone. *)
WorkerDies(a) ==
    /\ phase[a] \in Running
    /\ Strike("workerDeath")
    /\ Enter(a, "dead")
    /\ UNCHANGED <<runnerVars, outcome, permits, holds, disk, future, broken>>

-----------------------------------------------------------------------------
(* The executor's manager thread. *)

(* Failing the futures that were running, not the ones still queued. *)
PoolBreaks_Mut ==
    /\ ~broken
    /\ InPhase("dead") # {}
    /\ broken' = TRUE
    /\ future' = [a \in Attempt |->
                    IF future[a] = "pending" /\ phase[a] \in Running \cup {"dead"}
                    THEN "exception" ELSE future[a]]
    /\ UNCHANGED <<runnerVars, workerVars, failures>>

(* It sees a worker's sentinel: the pool is broken, and every submitted     *)
(* future that is still pending fails with BrokenProcessPool.               *)
PoolBreaks ==
    /\ ~broken
    /\ InPhase("dead") # {}
    /\ broken' = TRUE
    /\ future' = [a \in Attempt |->
                    IF future[a] = "pending" /\ phase[a] # "planned"
                    THEN "exception" ELSE future[a]]
    /\ UNCHANGED <<runnerVars, workerVars, failures>>

(* It then terminates the workers that are left, wherever they are. *)
KillWorker(a) ==
    /\ broken
    /\ phase[a] \in Running
    /\ Enter(a, "killed")
    /\ UNCHANGED <<runnerVars, outcome, permits, holds, disk, future, broken,
                   failures>>

(* shutdown(wait=False): only the queue has to be empty. *)
Drained_Mut == broken \/ InPhase("queued") = {}

(* shutdown(wait=True) returns: no worker is inside an attempt, and nothing *)
(* is queued that a worker would still take.                                *)
Drained ==
    /\ Busy = {}
    /\ broken \/ InPhase("queued") \cup InPhase("dead") = {}

-----------------------------------------------------------------------------
(* The parent's side: runner.run consuming run_plan's generator. *)

PoolUnchanged == UNCHANGED <<workerVars, future, broken>>

(* The heartbeat counts an attempt in flight as soon as it is announced,    *)
(* just before it is submitted.  Submitting to a broken pool raises, and    *)
(* nothing in run_plan or in run catches that.                              *)
Dispatch(a) ==
    /\ parent = "dispatching"
    /\ First(ToSubmit, a)
    /\ inFlight' = inFlight \cup {a}
    /\ \/ /\ broken
          /\ abort' = "broken"
          /\ parent' = "draining"
          /\ UNCHANGED <<phase, awaited>>
       \/ /\ ~broken
          /\ Enter(a, "queued")
          /\ awaited' = awaited \cup {a}
          /\ UNCHANGED <<abort, parent>>
    /\ UNCHANGED <<serialWithinTask, batch, current, reports, done, endVars,
                   outcome, permits, holds, disk, future, broken, failures>>

Dispatched ==
    /\ parent = "dispatching"
    /\ ToSubmit = {}
    /\ parent' = "collecting"
    /\ UNCHANGED <<serialWithinTask, batch, awaited, current, abort, reports,
                   beatVars, endVars, failures>>
    /\ PoolUnchanged

(* Skipping an attempt whose worker raised. *)
CollectOutcome_Mut(a) ==
    /\ parent = "collecting"
    /\ a \in awaited
    /\ future[a] \in {"outcome", "exception"}
    /\ awaited' = awaited \ {a}
    /\ IF future[a] = "outcome"
       THEN parent' = "scoring" /\ current' = a
       ELSE UNCHANGED <<parent, current>>
    /\ UNCHANGED <<serialWithinTask, batch, abort, reports, beatVars, endVars,
                   failures>>
    /\ PoolUnchanged

(* Yielding a future without striking it off. *)
CollectAgain_Mut(a) ==
    /\ parent = "collecting"
    /\ a \in awaited
    /\ future[a] \in {"outcome", "exception"}
    /\ parent' = "scoring"
    /\ current' = a
    /\ UNCHANGED <<serialWithinTask, batch, awaited, abort, reports, beatVars,
                   endVars, failures>>
    /\ PoolUnchanged

(* as_completed yields a finished future, and run_plan its outcome: an      *)
(* exception that is not the framework's own is an outcome with no result.  *)
CollectOutcome(a) ==
    /\ parent = "collecting"
    /\ a \in awaited
    /\ future[a] \in {"outcome", "exception"}
    /\ awaited' = awaited \ {a}
    /\ parent' = "scoring"
    /\ current' = a
    /\ UNCHANGED <<serialWithinTask, batch, abort, reports, beatVars, endVars,
                   failures>>
    /\ PoolUnchanged

(* A framework error is raised again: it leaves the generator, through the  *)
(* pool's shutdown(wait=True), and what is still queued runs to its end.    *)
CollectAbort(a) ==
    /\ parent = "collecting"
    /\ a \in awaited
    /\ future[a] \in {"config", "rateLimit"}
    /\ awaited' = awaited \ {a}
    /\ abort' = future[a]
    /\ parent' = "draining"
    /\ UNCHANGED <<serialWithinTask, batch, current, reports, beatVars, endVars,
                   failures>>
    /\ PoolUnchanged

(* The attempt reaches score_attempt with its trajectory and no verdict. *)
Gradable(a) ==
    future[a] = "outcome" /\ outcome[a].result /\ outcome[a].verdict = "none"

(* One attempt's report, and the heartbeat told. *)
Append(a, v) ==
    /\ parent = "scoring"
    /\ current = a
    /\ reports' = [reports EXCEPT ![a] = v]
    /\ inFlight' = inFlight \ {a}
    /\ done' = done + 1
    /\ parent' = "collecting"
    /\ current' = NoAttempt
    /\ UNCHANGED <<serialWithinTask, batch, awaited, abort, endVars>>
    /\ PoolUnchanged

(* The assertions are evaluated and aggregated. *)
ScoreGraded(a) ==
    /\ Gradable(a)
    /\ \E v \in IF a[1] \in KnownIssue
                THEN {"known_issue", "unexpected_pass"} ELSE {"pass", "fail"} :
          Append(a, v)
    /\ UNCHANGED failures

(* The error path through score_attempt returning before the bookkeeping. *)
ScoreUngraded_Mut(a) ==
    /\ ~Gradable(a)
    /\ parent = "scoring"
    /\ current = a
    /\ reports' = [reports EXCEPT ![a] = "error"]
    /\ parent' = "collecting"
    /\ current' = NoAttempt
    /\ UNCHANGED <<serialWithinTask, batch, awaited, abort, beatVars, endVars,
                   failures>>
    /\ PoolUnchanged

(* Nothing to grade: the verdict is the outcome's own, or "error". *)
ScoreUngraded(a) ==
    /\ ~Gradable(a)
    /\ Append(a, IF future[a] = "outcome" /\ outcome[a].verdict # "none"
                 THEN outcome[a].verdict ELSE "error")
    /\ UNCHANGED failures

(* A judge that fails to answer is an error of this attempt alone. *)
ScoreFails(a) ==
    /\ Gradable(a)
    /\ Append(a, "error")
    /\ Strike("judge")

(* A judge used up its retries: the exception closes the suspended          *)
(* generator, and with it the pool.                                         *)
ScoreRateLimited(a) ==
    /\ parent = "scoring"
    /\ current = a
    /\ Gradable(a)
    /\ Strike("judgeLimit")
    /\ abort' = "rateLimit"
    /\ parent' = "draining"
    /\ current' = NoAttempt
    /\ UNCHANGED <<serialWithinTask, batch, awaited, reports, beatVars, endVars>>
    /\ PoolUnchanged

(* Dispatching batch 2 as soon as one future of batch 1 is in. *)
BatchDone_Mut ==
    /\ parent = "collecting"
    /\ awaited = {} \/ (batch < LastBatch /\ Reported # {})
    /\ \/ batch < LastBatch /\ batch' = batch + 1 /\ parent' = "dispatching"
       \/ batch = LastBatch /\ parent' = "draining" /\ UNCHANGED batch
    /\ UNCHANGED <<serialWithinTask, awaited, current, abort, reports, beatVars,
                   endVars, failures>>
    /\ PoolUnchanged

(* Every future of the batch was yielded: on to the next batch, or out of   *)
(* the with statement.                                                      *)
BatchDone ==
    /\ parent = "collecting"
    /\ awaited = {}
    /\ \/ batch < LastBatch /\ batch' = batch + 1 /\ parent' = "dispatching"
       \/ batch = LastBatch /\ parent' = "draining" /\ UNCHANGED batch
    /\ UNCHANGED <<serialWithinTask, awaited, current, abort, reports, beatVars,
                   endVars, failures>>
    /\ PoolUnchanged

(* The finally clause of run: the temporary root goes, and an exception     *)
(* other than RateLimitExhausted carries on past everything below.          *)
Cleanup ==
    /\ parent = "draining"
    /\ Drained
    /\ tmpRoot' = FALSE
    /\ parent' = IF abort \in {"no", "rateLimit"} THEN "reporting" ELSE "failing"
    /\ UNCHANGED <<serialWithinTask, batch, awaited, current, abort, reports,
                   beatVars, published, code, failures>>
    /\ PoolUnchanged

WriteReport ==
    /\ parent = "reporting"
    /\ published' = published \cup {"report"}
    /\ parent' = "finalizing"
    /\ UNCHANGED <<serialWithinTask, batch, awaited, current, abort, reports,
                   beatVars, tmpRoot, code, failures>>
    /\ PoolUnchanged

WriteRun ==
    /\ parent = "finalizing"
    /\ published' = published \cup {"run"}
    /\ parent' = "exiting"
    /\ UNCHANGED <<serialWithinTask, batch, awaited, current, abort, reports,
                   beatVars, tmpRoot, code, failures>>
    /\ PoolUnchanged

(* Deriving the code from the verdicts alone. *)
ExitCode_Mut ==
    IF RealityCheck \/ \A a \in Reported : reports[a] \in NonGating
    THEN "0" ELSE "1"

ExitCode ==
    IF abort = "rateLimit" THEN "3"
    ELSE IF RealityCheck \/ \A a \in Reported : reports[a] \in NonGating THEN "0"
    ELSE "1"

(* The exit code of a run that published, or of the error that escaped:     *)
(* cli.main knows an AgentExamError's code, and a traceback exits with 1.   *)
Exit ==
    /\ \/ parent = "exiting" /\ code' = ExitCode
       \/ parent = "failing" /\ code' = IF abort = "config" THEN "2" ELSE "1"
    /\ parent' = "exited"
    /\ UNCHANGED <<serialWithinTask, batch, awaited, current, abort, reports,
                   beatVars, tmpRoot, published, failures>>
    /\ PoolUnchanged

(* The process is killed between its last writes. *)
Killed ==
    /\ parent \in {"reporting", "finalizing", "exiting"}
    /\ parent' = "killed"
    /\ UNCHANGED <<serialWithinTask, batch, awaited, current, abort, reports,
                   beatVars, endVars, failures>>
    /\ PoolUnchanged

WorkerStep(a) ==
    \/ Take(a) \/ Stage(a) \/ StageFails(a) \/ Acquire(a)
    \/ InvokeReturns(a) \/ InvokeUnattached(a) \/ InvokeTimesOut(a)
    \/ InvokeRaises(a)
    \/ Archive(a) \/ Record(a) \/ RecordFails(a)

ParentStep ==
    \/ \E a \in Attempt :
          \/ Dispatch(a) \/ CollectOutcome(a) \/ CollectAbort(a)
          \/ ScoreGraded(a) \/ ScoreUngraded(a) \/ ScoreFails(a)
          \/ ScoreRateLimited(a)
    \/ Dispatched \/ BatchDone \/ Cleanup \/ WriteReport \/ WriteRun \/ Exit

Over == parent \in {"exited", "killed"} /\ UNCHANGED vars

Next ==
    \/ \E a \in Attempt : WorkerStep(a) \/ WorkerDies(a) \/ KillWorker(a)
    \/ PoolBreaks
    \/ ParentStep
    \/ Killed
    \/ Over

(* Every process keeps running: the parent, the executor's manager thread,  *)
(* and each worker in each attempt.  invoke ends because every provider     *)
(* bounds it by a deadline, and the retries by their number.  Nothing       *)
(* obliges a worker to die or the parent to be killed.                      *)
Fairness ==
    /\ WF_vars(ParentStep)
    /\ WF_vars(PoolBreaks)
    /\ \A a \in Attempt : WF_vars(WorkerStep(a)) /\ WF_vars(KillWorker(a))

Spec == Init /\ [][Next]_vars /\ Fairness

-----------------------------------------------------------------------------
(* Types. *)
TypeOK ==
    /\ serialWithinTask \in BOOLEAN
    /\ parent \in {"dispatching", "collecting", "scoring", "draining",
                   "reporting", "finalizing", "exiting", "failing",
                   "exited", "killed"}
    /\ batch \in {1, 2}
    /\ awaited \in SUBSET Attempt
    /\ current \in Attempt \cup {NoAttempt}
    /\ abort \in {"no", "config", "rateLimit", "broken"}
    /\ phase \in [Attempt -> Phase]
    /\ future \in [Attempt -> FutureState]
    /\ outcome \in [Attempt -> Outcome]
    /\ permits \in [Group -> Nat]
    /\ holds \in SUBSET Attempt
    /\ broken \in BOOLEAN
    /\ disk \in [Attempt -> SUBSET {"attempt", "trajectory"}]
    /\ reports \in [Attempt -> Verdict \cup {"none"}]
    /\ inFlight \in SUBSET Attempt
    /\ done \in Nat
    /\ tmpRoot \in BOOLEAN
    /\ published \in SUBSET {"report", "run"}
    /\ code \in {"none", "0", "1", "2", "3"}
    /\ failures \in Nat

(* Every permit a group's semaphore is short of is held by an attempt that  *)
(* is inside invoke, or went down with a worker: however invoke ends, and   *)
(* wherever staging fails, no permit leaks and none is given back twice.    *)
PermitsAccounted ==
    /\ \A g \in Group :
          permits[g] + Cardinality({a \in holds : Grp(a) = g}) = Limit[g]
    /\ \A a \in holds :
          Grouped(a) /\ phase[a] \in {"invoking", "dead", "killed"}

(* No more attempts of a concurrency group are inside provider.invoke at a  *)
(* time than config.yaml allows it.                                         *)
GroupCapRespected ==
    \A g \in Group :
        Cardinality({a \in InPhase("invoking") : Grp(a) = g}) <= Limit[g]

(* The temporary root, with every attempt's cwd in it, is never removed     *)
(* under a worker: not after an abort, not after the pool broke.            *)
NoWorkerOutlivesTmpRoot == ~tmpRoot => Busy = {}

(* With the cache warm-up, attempt 2 and later of any task start only once  *)
(* attempt 1 of every task has been scored.                                 *)
WarmUpFirst ==
    serialWithinTask =>
        \A a \in Attempt : a[2] > 1 /\ phase[a] # "planned" =>
            \A t \in Task : <<t, 1>> \in Reported

(* A run.json that a rate limit did not cut short accounts for every        *)
(* attempt of the plan, and no error that escapes leaves a report behind.   *)
RunJsonComplete ==
    /\ "run" \in published => "report" \in published
    /\ "report" \in published =>
          /\ abort \in {"no", "rateLimit"}
          /\ abort = "no" => Reported = Attempt

(* An attempt graded on its assertions has both of the files from which     *)
(* rescore, show and diff read it back.                                     *)
GradedIsRescorable ==
    \A a \in Reported :
        reports[a] \in ScoredVerdict => disk[a] = {"attempt", "trajectory"}

(* Exit code 0 of a gating run: every attempt of the plan was graded, and   *)
(* none came out fail, timeout or error.                                    *)
ExitZeroIsGreen ==
    code = "0" /\ ~RealityCheck =>
        \A a \in Attempt : reports[a] \in NonGating

(* The heartbeat's two numbers: an attempt announced and not yet scored is  *)
(* in flight, and `done` counts the attempts with a report.                 *)
HeartbeatAccounts ==
    /\ done = Cardinality(Reported)
    /\ inFlight \cap Reported = {}
    /\ \A a \in Attempt :
          phase[a] # "planned" => a \in inFlight \cup Reported

LedgerStatus ==
    IF tmpRoot THEN "open"
    ELSE CASE abort = "no"        -> "complete"
           [] abort = "rateLimit" -> "partial"
           [] OTHER               -> "abandoned"

Ledger == INSTANCE RunLedger
    WITH Ungraded <- "none", ledger <- reports, status <- LedgerStatus

(* The parallel path keeps the ledger's promise: one verdict an attempt,    *)
(* none after the ledger closed, and publication in order and only of a     *)
(* complete ledger or of one a rate limit cut short.                        *)
ImplementsLedger == Ledger!LedgerSpec

(* Every attempt handed to the executor gets an answer, whatever happens to *)
(* its worker, to the others and to the run.                                *)
SubmittedIsAnswered ==
    \A a \in Attempt : phase[a] = "queued" ~> future[a] # "pending"

(* The run ends. *)
RunEnds == <>(parent \in {"exited", "killed"})

-----------------------------------------------------------------------------
(* The inductive invariant behind the properties above, by concern. *)

(* An attempt reaches invoke through its group's semaphore. *)
PermitInv ==
    /\ PermitsAccounted
    /\ \A a \in Attempt :
          /\ phase[a] = "waiting" => Grouped(a)
          /\ phase[a] = "invoking" /\ Grouped(a) => a \in holds

Ending == {"reporting", "finalizing", "exiting", "failing", "exited", "killed"}

(* The root is removed on the way out, and from then on the pool is still. *)
RootInv ==
    /\ ~tmpRoot <=> parent \in Ending
    /\ ~tmpRoot => Drained

(* What a worker knows of its attempt on the way from invoke to its future, *)
(* and what a future that holds an outcome says of the attempt's files.     *)
ArtifactInv ==
    \A a \in Attempt :
        /\ phase[a] = "recording" => outcome[a].result /\ "attempt" \in disk[a]
        /\ future[a] = "outcome" =>
              /\ phase[a] = "returned"
              /\ outcome[a].result => disk[a] = {"attempt", "trajectory"}
        /\ reports[a] \in ScoredVerdict => Gradable(a)

(* Where the attempts of the plan are while nothing aborts the run: those   *)
(* of earlier batches are reported, those of later ones are not submitted,  *)
(* and a submitted one is awaited, being scored, or reported.               *)
PlanInv ==
    /\ batch \in 1..LastBatch
    /\ parent \in {"dispatching", "collecting", "scoring"} => abort = "no"
    /\ current # NoAttempt <=> parent = "scoring"
    /\ parent \in {"collecting", "scoring"} => ToSubmit = {}
    /\ parent \in Ending \ {"failing", "exited"} => abort \in {"no", "rateLimit"}
    /\ parent = "failing" => abort \in {"config", "broken"}
    /\ \A a \in Attempt :
          /\ BatchOf(a) > batch => phase[a] = "planned"
          /\ BatchOf(a) < batch => a \in Reported
          /\ phase[a] = "planned" => a \notin awaited \cup Reported \cup {current}
          /\ a \in awaited => a \notin Reported \cup {current}
          /\ a = current => a \notin Reported
          /\ a \in inFlight => a \notin Reported
          /\ phase[a] # "planned" => a \in inFlight \cup Reported
          /\ abort = "no" /\ phase[a] # "planned" =>
                a \in awaited \cup Reported \cup {current}
    /\ abort = "no" /\ parent \in Ending \cup {"draining"} => Reported = Attempt

(* What is on disk for a reader, and the exit code. *)
EndInv ==
    /\ parent \notin Ending \/ parent = "reporting" => published = {}
    /\ parent = "finalizing" => published = {"report"}
    /\ parent = "exiting" => published = {"report", "run"}
    /\ published # {} => abort \in {"no", "rateLimit"}
    /\ "run" \in published => "report" \in published
    /\ published # {} => parent \in Ending
    /\ abort \in {"config", "broken"} => published = {}
    /\ parent \notin {"exited"} => code = "none"
    /\ code = "0" => abort = "no" /\ (RealityCheck \/ \A a \in Reported :
                                                reports[a] \in NonGating)
    /\ code = "0" => parent = "exited"

BeatInv == done = Cardinality(Reported)

IInv ==
    /\ TypeOK
    /\ PermitInv
    /\ RootInv
    /\ ArtifactInv
    /\ PlanInv
    /\ EndInv
    /\ BeatInv
=============================================================================
