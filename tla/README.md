# agent-exam: TLA+ models and proofs

`agent-exam` runs an evaluation suite against coding agents: it starts an agent
CLI once per *attempt*, in parallel, archives what the agent did, grades it and
publishes a report whose verdicts decide the exit code of a CI job. What makes it
hard is around the agents: worker processes that die, semaphores shared by them,
OAuth tokens minted under one lock, agents that hang, a reader thread racing the
clock, results that come back in any order, and files that outlive the process
that was writing them. This directory models that part of the program in TLA+,
checks it with TLC and proves the main results with TLAPS.

Source paths below are relative to `src/agent_exam/`.

## Modules

| module | what it is | proved in |
| --- | --- | --- |
| `RunLedger` | what a run promises: one verdict per attempt, publication that closes the ledger, the exit code | |
| `AttemptPool` | `runner.run` around `pool.run_plan`: the parent, the worker processes, the semaphores, the artifacts; implements `RunLedger` | `AttemptPoolProofs` |
| `TokenCache` | the access tokens of a run (`mcp._oauth_token`) and the file of stored logins (`oauth.refresh_login`), with the authorization server | `TokenCacheProofs` |
| `InvokeContract` | what `Provider.invoke` promises the worker: one agent process at a time, each under a deadline of its own, one end | |
| `ProviderInvoke` | one attempt inside `claude_code`: the agent, the reader thread, the wait, the retries, the grade of a trigger case; implements `InvokeContract` | `ProviderInvokeProofs` |
| `CliStreams` | the stream parsers of `codex_cli`, `opencode` and `copilot_cli`: one line into a `StreamState` | |
| `CliTranscripts` | the trajectories these three rebuild from session files, a database or the stream | `CliTranscriptsProofs` |
| `CliInvoke` | one attempt of these three, from the launch to the grade; implements `InvokeContract` | `CliInvokeProofs` |
| `RunTree` | the files of a run while its attempts work: directories, copies of skills, raw streams, the archive of each attempt | with `RunStore` |
| `RunStore` | what grades the archive: the run itself and later rescores, the judges and their cache, the reports, which report is read | `RunStoreProofs`, `RunReportsProofs` |
| `MCAttemptPool`, `MCTokenCache`, `MCProviderInvoke`, `MCRunStore` | the small instances TLC runs, and the statements of docs and tests that the code does not keep | |

Definitions ending in `_Mut` are plausible slips in the definition below them.
No specification uses one: they show that a property would notice.

`AttemptPool` abstracts `provider.invoke` to what it returns or raises;
`ProviderInvoke` is the inside of that call, and its outcomes (graded, timeout,
abort, exhausted) are the ways `AttemptPool`'s invoke ends; so it is with
`CliInvoke`, which extends `CliTranscripts` and that `CliStreams`. What both owe the
pool is `InvokeContract`. `TokenCache` is
the inside of `AttemptPool`'s staging step, for the attempts that use an OAuth
server. `RunStore` extends `RunTree`: its next-state relation composes the workers
that fill the archive with the passes that grade it. It takes from `AttemptPool`
that a worker ends, with a result or without, and leaves out permits and batches.

## Inventory

**Pool** (`pool.py`). State: two batches of attempts, a `ProcessPoolExecutor`, one
semaphore per concurrency group (a manager's proxy, shared by the workers), the
futures. Operations: stage the cwd and the MCP config, acquire, invoke, release,
archive the cwd, write `attempt.json` and `trajectory.json`, answer. Hard:
permits and dying workers, a broken pool, a run-wide error with attempts queued.
Correct when: permits balance, limits hold, every submitted attempt is answered.

**Run** (`runner.py`, `report.py`, `cli.py`). State: the reports list, the
heartbeat thread's counts, the temporary root, the report file and `run.json`.
Scores each outcome as the generator yields it. Hard: three ways out of the loop
and what is on disk after each. Correct when: one verdict per attempt, `run.json`
only behind a report, exit code 0 only if every attempt is non-gating.

**Tokens and logins** (`mcp.py`, `oauth.py`). State: one dictionary and one lock
shared by all processes of a run, a JSON file of refresh tokens that the
authorization server rotates. Hard: mint races, tokens expiring while an attempt
queues, truncating writes, lost answers. Correct when: a refresh token is never
used twice, saving one login never loses another, every call ends.

**Providers** (`providers/`). Four CLIs. Each starts a process in its own session,
a thread that parses its event stream into a `StreamState`, and a wait on process,
kill signal and deadline; then reads a transcript. `codex_cli` also looks into the
session file while it waits, and starts a watchdog for the death of the parent.
Hard: all races between them, and a record on disk that lags behind the stream.
Correct when: the grade follows from what fired, the clock alone never grants a
pass, no agent is left running, invoke ends.

**Grading** (`assertions/`, `judge/`). Pure functions on a trajectory, and LLM
judges called from a thread pool through a cache file. Hard: the cache file with
two writers, a writer that is killed, the completeness of its key. Correct when: a
verdict answers the question that is asked, and is not paid for twice.

**Run store** (`artifacts.py`, `ids.py`, `serde.py`, `commands/rescore.py`,
`commands/_loader.py`). Directories of runs, reports added by rescore, selection of
the latest. Hard: partial runs, name collisions, order of suffixed names. Correct
when: a report stays and is complete, and what is read is the newest.

**Run tree and staging** (`pool.py`, `providers/skill_staging.py`, codex rules).
Fixtureless triggers share one cwd among concurrent attempts, each of which copies
the skills into it. Hard: a copy that fails half way, a worker that dies in one,
retries in a used directory. Correct when: what is archived of an attempt is its own, and an
agent finds the skills it should, whole.

**Sequential parts**: configuration, task files, validation, doctor, display,
hooks. They hold no state that outlives a call.

Interactions: the runner pulls outcomes from the pool's generator, so closing the
generator (an exception while scoring) is what shuts the pool down. Workers share
semaphores, tokens and the lock through a manager process; everything else they
return through a future. A provider talks to its agent through pipes and signals,
and to the pool through a return value or an exception.

`PROJECT.json` lists the components with their status and the hazards with the
properties that cover them.

## AttemptPool and RunLedger

An attempt is a pair of a task and a number. `phase` is where it is on the
worker's side: `planned`, `queued`, `staging`, `waiting` (for its group's permit),
`invoking`, `archiving`, `recording`, and its ends. `future` is what the parent
finds; `parent` is where the parent is, from `dispatching` to `exited`. Actions
follow the code one to one: `Dispatch`, `CollectOutcome`, `ScoreGraded` and the
other ways to score, `BatchDone`, `Cleanup`, `WriteReport`, `WriteRun`, `Exit` for
the parent; `Take`, `Stage`, `Acquire`, the four ends of invoke, `Archive` and
`Record` for a worker; `WorkerDies`, `PoolBreaks`, `KillWorker` for the executor
of CPython. The executor's FIFO queue is the set of queued attempts with the
order of submission.

Safety: `PermitsAccounted`, `GroupCapRespected`, `NoWorkerOutlivesTmpRoot`,
`WarmUpFirst`, `RunJsonComplete`, `GradedIsRescorable`, `ExitZeroIsGreen`,
`HeartbeatAccounts`; refinement: `ImplementsLedger`; liveness:
`SubmittedIsAnswered` and `RunEnds`.

Assumed: limits of concurrency groups are at least 1. `config.yaml` accepts 0, and
then the attempts of the group wait for ever. Not modelled: an empty plan, a death
of the parent other than between its last writes, the executor's prefetch of
work items into the call queue, exceptions out of `session_checks`, and the serial
path (`-n 1`), which is a plain loop. The temporary root goes only when
`req.cleanup_tmp_root` says so; the model always removes it.

## TokenCache

Time is counted in units; a token is renewed after four fifths of its lifetime
(`mcp.py:162-168`). The parent first stages every server once (`Prime`), then each
worker's attempt asks for a token, waits for a permit and starts. `call` holds the
locals of a process inside `_oauth_token`. The authorization server is external:
it honours a refresh token once, and revokes the login when it sees a spent one,
which is what rotation is for.

`NoReplay`, `LoginKept`, `MintsOnlySpent` and `CallEnds` are explained at their
definitions. Time stands still inside a call and while a staged attempt could take
a free permit: the program is fast there, and the property about expiry is about
attempts that have to wait. One run at a time uses the file: two runs, or
`mcp login` beside a run, are not modelled and are listed as a hazard. An attempt
attaches one server.

## ProviderInvoke

`stream` is what the agent and its subagent did, as events that a mode tells apart:
a skill or MCP call, of the target or of a sibling, a read, another tool, a task
that starts the subagent, the end of a message, and the result. `read` is how far
the reader thread is; what a subagent does may or may not show on the stream.
`recorded` is up to where the transcript of each covers it, and `told` whether the
agent's says which subagent its task started: without that the subagent's is not
attached to the trajectory. `FirstOf` walks that trajectory as `first_skill` does,
into the subagent where its task stands, while `Settled` looks for a skill in the
agent's own turns, as `pool.py:97` does. `pc` is where the main thread is: between
the start of the process and the guarded wait (`spawned`), polling the process, the
signal and the clock, terminating, joining the reader, concluding. The agent may do anything, at any time, or nothing, also after a
SIGTERM; a helper is a process it started in its group. Two assumptions are made
of it: one that exits with 0 has saved its transcript, and nothing is written
after it died. `Join` waits until all is read, for which the code allows five
seconds.

A negative case is settled by work other than reading or by the end of a message;
a positive case by the first skill or MCP call. `TimeoutIsNoPass`,
`NegativePassEarned` and `SingleFireGraded` say what the grade means whatever the
race; `HarnessGone` that no agent stays; `InvokeEnds` that invoke returns;
`ImplementsContract` that it returns once and for the reason it gives. `StartFails`
and an interrupt in `spawned` leave the agent, as nothing guards these lines.

An attempt starts at most one subagent, and its task is taken as the last call of
its message. The stream of a retry is shorter by one event in the run. The parser's
own state between two lines (a tool name whose input is still to come) and the MCP
connection check after invoke are left out.

## InvokeContract

What `_execute_attempt` relies on when it calls `provider.invoke`, whichever CLI is
behind it. `with_retries` starts a process at most `MaxRetries + 1` times, never two
at once, and each start sets the deadline anew. invoke ends once: with a result
(`graded`), a `ProviderTimeout`, a `FrameworkError` (`abort`), `RateLimitExhausted`,
an error of what comes between the start and the wait (`raised`), or an interrupt.
But for the last two the process is gone by then; a timeout means
that the deadline of the last start has passed, and exhaustion that no retry was
left. `ImplementsContract` in `ProviderInvoke` and `CliInvoke` is the refinement: a
signalled agent still runs, a try counts from its launch, and a timeout that the
pool settles on its partial result is graded. `CliInvoke` fills in `MaxRetries` by 0,
as none of its three providers raises a `RateLimitError`. An agent that cannot be
started at all, and an interrupt between two tries, are not modelled.

## CliStreams, CliTranscripts, CliInvoke

The three modules follow one attempt of `codex_cli`, `opencode` or `copilot_cli`;
`provider` and `mode` are chosen at the start. `acts` is what the agent did: hello,
calls by itself or by a subagent, ends of calls, messages, the end of a turn.
`Dispatch` is what the parser of the provider makes of an act, and it reads one act
at a time (`read`, `ss`). `recorded` is how much of it the record on disk was seen
to have; the rest of the lag is chosen when the record is read. The `...Build`
operators turn a record into turns, put in what the reader detected and the record
misses, and `Passes` grades them by the four assertions that trigger cases use.

`pc` is where `_invoke_once` is: `spawned` between the start of the process and the
guarded wait, where `StartFails` and an interrupt leave the agent; then the wait of
a trigger case looks at the process, the signal, with `codex_cli` at the session, and at the clock; any other task waits
in one place. `Conclude` is the end of `_invoke_once` and what the pool makes of
it, settled timeouts included. The agent does anything, at any time, or nothing. An
agent that exits with 0 has ended its calls and saved its record. `ParentDies` is a
SIGKILL of the main process, which workers survive.

`DetectedIsGraded` joins the reader to the grade: what the stream detected is in
the graded trajectory, whatever was on disk. `NegativePassClean` says what a passing
negative case rules out, `TimeoutFails` what a timeout may be graded,
`HarnessGone` that no agent stays, `AttemptEnds` that time ends an attempt, and
`OrphanStops` what the watchdog is for; `ImplementsContract` is as above. Their exceptions are cases the code leaves
open; they are named in the properties and listed below under Disagreements.

Left out: command lines, environments, usage and cost, times, texts, codex's home
directory and rules. A plain read of a `SKILL.md` by a codex command counts as a
use of the skill, as in the code; which commands read a file is data.

## RunTree and RunStore

`at` is what the worker of an attempt holds: its stage (`queued`, `staging`, `ready`,
`running`, `ended`, `mirrored`, `recorded`, or `failed`, `exhausted`, `dead`), the
skills it has still to copy and the copy it has begun, whether an agent of its own is
at work, and whether its future was failed by a broken pool. A directory is the set
of those who wrote in it and the state of each skill's `SKILL.md`: `absent`, `cut` or
`whole`. A copy is an opening, which truncates what was there, and a write. An
attempt of a fixtureless trigger works in the directory it shares with all others.
The archive of an attempt is filled in steps: its files and raw stream (`Mirror`, or
part of them in `MirrorFails`), `attempt.json`, `trajectory.json`.

An attempt may come to nothing anywhere: `Raises` is an OSError in the middle of a
copy or any other exception that `_execute_attempt` does not catch, `Exhausted` the
end of the retries of a rate limit, `WorkerDies` the death of one worker. A dead or
failed worker leaves the copy it had begun cut, with nobody to finish it, and maybe
an agent at work, while the other workers go on. `PoolBreaks` is the executor that
notices and fails every future without an outcome; `KillWorker` ends the other
workers one by one, until when they go on and even begin what was queued.

A pass is a process that grades: pass 0 is the run, which takes outcomes as they
come, the others are rescores, which need `run.json` and take the directories in
order. An attempt or a judge that is out of retries ends the run's loop
(`LeavesLoop`, `rate_limit_hit`): nothing more is entered, the executor waits for
its workers (`draining`), whose attempts are still archived, and report and
`run.json` are written of what was entered. Each assertion of the attempt in hand is a slot that consults the cache,
asks, and flushes in three steps (`Answer` truncates the temporary file, `WriteTmp`
writes, `Replace` renames), under the lock that the threads of one pass share. A
descriptor follows its file through another process's rename. A pass ends in a
name, found free or not looked for, and a report written at once (a temporary file
and a rename). `PassDies` kills a rescore anywhere.

`EvidenceIsOwn`, `SkillsWhole`, `VerdictsEarned`, `PaidOnce`, `ReportsStay` and
`CurrentIsNewest` are explained at their definitions. `published`, `paid` and
`beside` are histories: the reports in order, the calls ever flushed, and whether
two passes have run at once. The code has no lock between processes, and the
properties say what is lost then and what is not: verdicts stay right, payment and
report names do not.

A verdict stands for the call it answers, so that `UNCLEAR` is a verdict and is
cached, as in the code. `Call` is all that the prompt is made of, the transcript
included unless the task opts out (`shown`); `Key` drops the transcript, as the code
does, so different calls share a key. `VerdictsEarned` says what a verdict answers
for all the same, `TranscriptJudged` what the documentation promises and the key does
not keep. All tasks of an instance have the same judging assertions. Two passes at once count as a mishap and share few tasks
(`MaxBeside`). A second passes only while some pass is about to name its report,
and files are edited only after the run: nothing else reads the clock, and the run
loads tasks and configuration once. Attempts are taken up in any order and number,
which covers every pool size and both ways of batching. Not modelled here: the ways
a run ends without a report (a `FrameworkError` of an attempt, `BrokenProcessPool`
out of `submit`), which are in `AttemptPool`; the death of the run's main process
(`CliInvoke` has its workers); rescores asked for other than by task; run ids.

## Runs

| run | question | bounds |
| --- | --- | --- |
| `pool_safety` | safety, inductive invariant and refinement of the parallel path | 2 tasks of 2 attempts, 2 workers, one group of limit 1, any one failure of ten kinds |
| `pool_liveness` | is every attempt answered, does the run end | 1 task of 3 attempts, all in one group of limit 1, two failures |
| `token_cache` | mint races, rotation, the file of logins | parent and 2 workers, 2 logins and a client secret, 3 attempts, tokens lapse once, one fault |
| `provider_invoke` | races of agent, reader, signal and clock; retries; the contract of invoke | the 5 kinds of task, 3 events, 1 retry |
| `cli_invoke` | the same races in the other three providers; records that lag; the watchdog; the contract of invoke | 3 providers, the 5 kinds of task, 4 acts |
| `run_store` | evidence, skills, verdicts, payment and reports of one run, whole or cut short by a rate limit, over rescores one after the other and at once | 2 tasks of 1 attempt, both sharing a directory or one with a fixture; 2 skills, one excluded; 2 last messages (symmetric); 3 judging assertions; 2 rescores, 1 retry, 1 mishap, 1 edit, 1 second |
| `pool_batch_per_index` | violation: is attempt 3 dispatched after attempt 2 ended | 1 task of 3 attempts |
| `pool_crash_reports` | violation: does a run with a dead worker publish | a worker dies during dispatch |
| `token_starts_spent` | violation: does every attempt start on a live token | 2 attempts, 1 permit |
| `first_skill_stands` | violation: does the first skill decide a case | 2 events |
| `tree_is_gone` | violation: is the process group gone after `terminate_tree` | 2 events |
| `judge_transcript` | violation: is a verdict given on the transcript of its attempt | 1 task of 2 attempts, nothing fails |

The six violations are disagreements between the code and its own docs, comments
or tests; `PROJECT.json` quotes both sides under `findings`.

Why the bounds are enough. A permit race needs two attempts of one group and a
bystander outside it; batches need two attempts of a task and two tasks; one
failure of each kind reaches every error path, and two let a failure meet the
consequences of another. Three processes are the least where two wait for the lock
a third holds; two logins are the least where saving one can lose the other. Three
events are enough for the target and a sibling with something before, between or
after them, or for a task, what its subagent fires and what the agent fires, and one retry is enough for state carried over. Four acts are a hello,
a call, its end and one more, of a sibling, a subagent or the target. In
`run_store` two attempts are the least that share a directory or a key, three
assertions the least where two are asked at once while a third waits, two rescores
the least that overlap, and an edit, a tick and a mishap each meet one another. One
mishap is a cut copy beside another worker that starts, or a rate limit that a second
one exhausts. A rescore is asked for both tasks or the first (`Scopes`), and
`MaxBeside` = 1 keeps overlapping rescores on one task. One edit cannot change a
criterion and back: that, and opencode's shared stream, only the proofs cover.

Fairness: the parent, the executor's manager thread and every worker take their
steps (weak fairness); nobody is obliged to fail. Invoke ends since a provider
bounds it by a deadline; `InvokeEnds` shows that of `claude_code`, from fairness of
the two threads and of the clock, and none of the agent. `CliInvoke` asks the same
of the main thread, the reader and the watchdog, and nothing of the agent or the
clock: `AttemptEnds` starts when the time has passed. `RunStore` states no fairness,
it has safety only. In `TokenCache` the lock
is not assumed fair: a call ends because a run has only so many attempts.

Deadlock is checked in the pool's runs, where a finished run stutters explicitly. In
the others the system may really stop: a run that has used up its attempts, an
invoke that returned, a store at rest.

## Proofs

Each theorem is `Spec => []P`, or `Spec => Abstract!Spec` for a refinement, for every
value of the constants allowed by the named assumptions of the module (any number
of tasks, attempts, workers, groups, processes, servers, events, acts, retries,
rescores, failures). The first three modules have one inductive invariant each,
`IInv` (that of `AttemptPool` is checked by its run as well), the others a few smaller
ones, each stated before the theorem that needs it.

* `AttemptPool`: `IInv` joins `PermitInv` (the permits missing from a semaphore
  are the ones held, and an attempt reaches invoke through `Acquire`), `RootInv`
  (the root is removed on the way out, when the pool is drained), `ArtifactInv`
  (what a worker wrote before its future says so), `PlanInv` (every submitted
  attempt is awaited, being scored or reported), `EndInv` and `BeatInv`. None of
  the properties is inductive alone: a permit count says nothing of the attempts
  that will release, a complete report needs to know that nothing is still awaited.
  Proved: types, the eight safety properties and, step by step, the refinement of
  `RunLedger`; and from that, as an action property, that no step takes back what was
  graded, decided, published or returned (`KeepsDecisions`).
* `TokenCache`: `Mutex`, `CallInv`, `OfferInv` (what a process is about to send is
  what the server accepts) and `SaveInv` (what it is about to write is the current
  file with one entry changed). Proved: types, `NoReplay`, `LoginKept`,
  `MintsOnlySpent`.
* `ProviderInvoke`: `Living` (where invoke is says whether the agent lives), `Seen`
  and `Detected` (the StreamState and the events read say the same, but for what a
  subagent did). Proved: types, `HarnessGone`, `TimeoutIsNoPass` (a settled timeout
  has no skill of the agent itself, so that `first_skill` can only find a subagent's),
  `NegativePassEarned`, `SingleFireGraded`. The last one needs that a non-empty set of positions has a least one, from the
  library's theorem on well-founded relations. The refinement of `InvokeContract`
  needs `Living` (an agent is started only where none lives, and a conclusion is
  reached only where it is dead), the bound on retries, and `TimelyEnd`: a timeout
  is recorded only while `late`, which only a launch takes back.
* `CliTranscripts` (no state): what each `...Build` operator returns, for sessions of
  any length. The trajectory of a record is a fold over its acts, written as a
  recursive function; `FoldExists` and `UpTo` show by induction over the library's
  well-founded order that it has a value at every position, and `KeptIs`,
  `TurnActsIs`, `RecordDetectedToolIs`, `CodexBuildIs`, `OpenCodeBuildIs`,
  `CopilotBuildIs` and `StreamSkillsIs` say which turns, calls and skills come out.
* `CliInvoke`: types, `HarnessGone` (from `Living`), that a wait ends early or late
  but never for both reasons (`OneReason`, from where `ss.kill` is read), and the
  three properties that join a race to a trajectory. They rest on `Noting`, which is
  `Shape` (what an agent may have done: a call comes before its end, subagents
  work for a task of the main agent, a use of a skill names it), `Noted` (what the
  readers of `copilot_cli` and `opencode` make of the lines they are past) and
  `Joined` (at the conclusion all is read). `DetectionsGraded` then follows provider by provider
  from what the builds return; `NegativesPassClean` from `Noted` and the same facts
  read backwards; `TimeoutsFail` since a settled result has no skill of the main
  agent, or no MCP call, so that the first one is a subagent's or none. The
  refinement of `InvokeContract` needs `Living`, `OneReason` and that no deadline
  passes before the launch.
* `RunStore`: types; `EvidenceIsOwn` (from `Own`: a directory that is nobody's is
  not archived, and a stream is its owner's); `SkillsWhole` (from `Staged`: a copy
  that is not whole is one that some worker of that directory has begun and not
  finished, which it keeps when it fails, dies or is killed); `VerdictsEarned` (from
  `Judging`: a pass takes only attempts whose worker is over, a rescore exists only
  after all are, so that nothing changes under a question, and equal keys mean calls
  that are equal but for the transcript; and from `Telling`: whatever the cache, a
  temporary file or a pass has a call of was asked of an attempt that is over, with
  its message and files); `PaidOnce` (from
  `Paying`: as long as no two passes ran at once, the one at work knows every
  flushed call, and the temporary file is its own and truncated before each
  rename); `ReportsStay` (from `Reporting`: what a pass has entered, holds and has
  left adds up to its scope, and the run's loop ends with something left only after
  `limitHit`; every report has a writer of its own that has ended,
  so by the pigeonhole principle a pass that looks for a name finds one free, and
  alone it stays free); `CurrentIsNewest` (from `Dated`: names are unique and
  their numbers bounded, and while no two passes ran at once the reports were
  written in the order of their seconds, and none of a later second than a report
  that is named and not yet written).
  `Newest` takes the report that no other comes after, as sorting by name and taking
  the first does; `Before` compares suffixes as numbers, which is how the names
  compare as text for up to nine reports of one second.

Only model-checked: the liveness properties (`RunEnds`, `SubmittedIsAnswered`,
`CallEnds`, `InvokeEnds`, `AttemptEnds`, `OrphanStops`), as fairness and ENABLED are
out of the prover's reach, and of course the violations. Every safety property and
every refinement that a passing run checks is stated by a theorem.

## Disagreements without a run

Beside the six violations, these came up while modelling. A property names each one
that would break it.

* An exhausted rate limit "aborts the run" (`errors.py:30`, `pool.py:685`), but the
  exit of the executor's `with` block cancels nothing (`pool.py:684-688`): attempts
  still queued are run to their end and never entered.

* `codex_cli` drops a skill that the stream detected when the session holds only
  the prompt yet (`LostByCodex`), and cuts a tool case on a skill that the user
  selected in the session.
* In `copilot_cli` the call of a subagent that cut a case is not in its trajectory
  (`copilot_cli/transcripts.py:111`, `stream_parser.py:179-194`); skills other than
  the target are filtered out; a timeout never has a partial result.
* `opencode` and `copilot_cli` do not record what skills a subagent used; in
  `opencode` a sibling read after the kill signal replaces the detected skill, and
  an error of its database reads as an empty session.
* A timed-out positive case of `claude_code` or `codex_cli` passes on the skill of a
  subagent (`pool.py:97` looks at the main agent only, `first_skill` at all of them). A rescore grades timed-out attempts
  anew, where `pool.py:406-407` says that the verdict stays.
* Between `Popen` and the guarded wait of each provider an exception or interrupt
  leaves the agent (`claude_code/provider.py:161`, `codex_cli/provider.py:159-187`,
  `opencode/provider.py:158-184`).
* A watchdog started by a worker that is already orphaned never fires
  (`codex_cli/provider.py:655-666`); an interrupt in the grace period of
  `wait_or_terminate` leaves the agent.
* An agent that exits nonzero between the kill signal and the next poll aborts the
  run, although its case was settled.
* `rescore.py:142-144` speaks of runs that failed before their report, but loading
  a run asks for `run.json`, which is written after the report. One attempt without
  `trajectory.json` stops the rescore of all.
* `cache.py:98-100` promises an atomic replace and entries that are never evicted;
  two rescores that overlap tear the file and lose entries (`PaidOnce`).
* Racing copies of a skill are called safe, as they end in identical files
  (`skill_staging.py:171-173`); but an agent that reads meanwhile may see a cut one,
  and a copy that fails or dies half way stays cut for all who share the directory,
  until another worker copies that skill (`SkillsWhole`).
* Among reports of one second the first written stays the latest
  (`CurrentIsNewest`). After a rescore of one task `show latest` and `runs` read
  that report alone, while `history` walks back to one that covers the task.
* `report_compare.py:179-180` takes the assertions of a task to be the same in all
  attempts, which those that timed out or failed do not have.

## Not modelled

Doctor, hooks and the dummy provider keep no state. Configuration, task files and
validation are parsed once, in sequence; the models take what they produce as
constants, with the assumption that limits are positive. Of the display and
comparison commands only the choice of the report is modelled. Texts, times, tokens
and costs are data that no property tells apart; so are the prompt and the parsing
of a judge's answer. The discovery of OAuth endpoints and the browser flow are
dialogues with servers outside the repository.

## Plan

Done: the core of the run (`AttemptPool`, `TokenCache`, `ProviderInvoke`), the other
three providers and the contract of invoke, the run tree, the store and its reports.
What is left, in this order:

1. `SerialRun`, the `-n 1` path, implementing `RunLedger`.
2. Two runs, or `mcp login` beside a run, on one file of logins.
3. Run ids of runs started in one second, and what `latest` and `prev` resolve to.
4. `report_compare` and exit codes as operators, against a reference definition.
5. `AttemptPool`'s ends of invoke as a refinement of `InvokeContract`, per attempt.
