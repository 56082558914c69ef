------------------------------ MODULE RunStore ------------------------------
(***************************************************************************)
(* evals/runs/<run-id>: the archive that RunTree fills, judge-cache.json,  *)
(* reports/ and run.json, and the passes that grade archived attempts into *)
(* a report.  Pass 0 is the run itself (runner.run), which grades attempts *)
(* while others still work; the others are `agent-exam rescore`.           *)
(***************************************************************************)
EXTENDS RunTree, Sequences

CONSTANTS Asserts,       \* the judging assertions of each task, in order
          Scopes,        \* the sets of tasks that a rescore may be asked for
          MaxRescores,   \* bounds: rescores, seconds, edits between passes
          MaxClock, MaxEdits,
          MaxBeside      \* bound on the tasks of a pass that another runs beside

ASSUME StoreAssumption ==
    /\ Asserts \in Seq({"judge", "judge_agent"})
    /\ Scopes \subseteq SUBSET Task
    /\ MaxRescores \in Nat /\ MaxClock \in Nat /\ MaxEdits \in Nat /\ MaxBeside \in Nat

Pass == 0..MaxRescores
Rescore == Pass \ {0}
Slot == 1..Len(Asserts)
NoAttempt == <<0, 0>>

VARIABLES
  runJson,   \* run.json is there
  cache,     \* judge-cache.json: the calls it answers for, or what is no JSON
  tmp,       \* judge-cache.json.tmp
  reports,   \* reports/: a file of each name
  version,   \* of the criteria in the task YAML
  shown,     \* include_trajectory, of the same
  limitHit,  \* rate_limit_hit
  model,     \* the judge model of the configuration
  clock,     \* the second that it is
  edits,
  pass,      \* the processes
  published, \* the reports in the order they were written (history)
  paid,      \* the calls whose verdict was ever flushed (history)
  beside     \* two passes have run at once (history)

settings == <<version, shown, model>>
storeVars == <<runJson, cache, tmp, reports, settings, limitHit, clock, edits, pass,
               published, paid, beside>>
vars == <<treeVars, storeVars>>

(* Contents of the cache files that are not the dump of a set of calls.      *)
Absent == [is |-> "absent", calls |-> {}]
Empty  == [is |-> "empty", calls |-> {}]
Torn   == [is |-> "torn", calls |-> {}]
Dump(calls) == [is |-> "dump", calls |-> calls]

NoPass == [pc |-> "idle", model |-> 0, version |-> 0, shown |-> TRUE, scope |-> {}, todo |-> {},
           cur |-> NoAttempt, slot |-> [i \in Slot |-> "waiting"], ev |-> [i \in Slot |-> {}],
           mem |-> {}, fd |-> "none", done |-> {}, ts |-> 0, n |-> 0]

Init ==
    /\ TreeInit
    /\ runJson = FALSE /\ cache = Absent /\ tmp = Absent /\ reports = {}
    /\ version = 0 /\ shown = TRUE /\ limitHit = FALSE /\ model = 0 /\ clock = 0 /\ edits = 0
    /\ pass = [p \in Pass |->
                  IF p = 0 THEN [NoPass EXCEPT !.pc = "grading", !.scope = Task] ELSE NoPass]
    /\ published = <<>> /\ paid = {} /\ beside = FALSE

Live(p) == pass[p].pc \in {"grading", "draining", "naming", "writing", "closing"}

----------------------------------------------------------------------------
(* The cache.  A call is what the judge was asked; what stands for its       *)
(* verdict is the call itself.  The agentic judge sees the archived files.   *)

(* What run_result_from_artifacts makes of attempt.json and trajectory.json. *)
Restored(a) == archive[a].text

(* What agent_output_hash and cwd_hash tell apart: the run hashes the result *)
(* that the worker returned, a rescore the restored one.                     *)
OutputHash(p, a) == IF p = 0 THEN at[a].text ELSE Restored(a)
CwdHash(a) == archive[a].files

(* What the prompt is made of: the criterion, the last message, the files    *)
(* that the agentic judge may look at and, unless the task opts out, the     *)
(* transcript, here the attempt whose it is.                                 *)
Call(p, i) ==
    LET a == pass[p].cur IN
    [kind |-> Asserts[i], crit |-> <<i, pass[p].version>>, out |-> OutputHash(p, a),
     seen |-> IF Asserts[i] = "judge_agent" THEN CwdHash(a) ELSE {},
     traj |-> IF pass[p].shown THEN a ELSE NoAttempt,
     model |-> pass[p].model]

(* The key of the agentic judge leaves out the archived files. *)
Key_Mut(c) == [c EXCEPT !.seen = {}, !.traj = NoAttempt]

(* The transcript, and whether it was shown, is in no key.                   *)
Key(c) == [c EXCEPT !.traj = NoAttempt]

Get(mem, c) == {d \in mem : Key(d) = Key(c)}

(* The file is rewritten with the new entry alone. *)
Put_Mut(mem, c) == {c}

Put(mem, c) == (mem \ Get(mem, c)) \cup {c}

(* What the file answers for when a pass reads it.                           *)
Loaded == cache.calls

(* A name moves to another file: where an open descriptor writes then.       *)
Moved(fd) == CASE fd = "tmp" -> "cache" [] fd = "cache" -> "gone" [] OTHER -> fd

(* A dump over the content of another writer may leave the end of that.      *)
Overwrites(file, mem) == {Dump(mem)} \cup (IF file.is = "empty" THEN {} ELSE {Torn})

----------------------------------------------------------------------------
(* Beginning a pass.                                                         *)

(* _find_targets: the directories of the archive. *)
Targets(scope) == {a \in Attempt : archive[a].there /\ a[1] \in scope}

MayBegin(p) ==
    /\ pass[p].pc = "idle" /\ (p > 1 => pass[p - 1].pc # "idle")
    /\ runJson
    /\ (\E q \in Pass : Live(q)) => mishaps < MaxMishaps

(* load_run insists on run.json; the cache is read once, and what cannot be  *)
(* parsed is no entry.                                                       *)
Begin(p) ==
    /\ MayBegin(p)
    /\ IF \E q \in Pass : Live(q)
       THEN Mishap /\ beside' = TRUE
       ELSE UNCHANGED <<mishaps, beside>>
    /\ \E scope \in Scopes :
          /\ \A q \in Pass : Live(q) => Cardinality(scope \cup pass[q].scope) <= MaxBeside
          /\ pass' = [pass EXCEPT ![p].pc = IF Targets(scope) = {} THEN "failed" ELSE "grading",
                                  ![p].scope = scope, ![p].todo = Targets(scope),
                                  ![p].model = model, ![p].mem = Loaded]
    /\ UNCHANGED <<kind, at, dir, stream, archive, runJson, cache, tmp, reports, settings,
                   limitHit, clock, edits, published, paid>>

(* The directories in order. *)
First(a, todo) == \A b \in todo : a[1] < b[1] \/ (a[1] = b[1] /\ a[2] <= b[2])

Outcomes == {a \in Attempt : Answered(a)} \ {e.attempt : e \in pass[0].done}

Entry(a, verdict) == [attempt |-> a, verdict |-> verdict]

Entering(a) == pass' = [pass EXCEPT ![0].done = @ \cup {Entry(a, ErrorVerdict(a))}]

(* RateLimitExhausted, of an attempt or of a judge of one, leaves the loop:  *)
(* nothing more is entered, and the executor waits for its workers.          *)
LeavesLoop ==
    /\ pass' = [pass EXCEPT ![0] = [@ EXCEPT !.pc = "draining", !.cur = NoAttempt,
                                             !.slot = NoPass.slot, !.ev = NoPass.ev]]
    /\ limitHit' = TRUE

Limited(a) == at[a].stage = "exhausted" /\ ~ at[a].broken

(* An outcome is entered without asking whether it has an error verdict. *)
TakeOutcome_Mut ==
    /\ pass[0].pc = "grading" /\ pass[0].cur = NoAttempt
    /\ \E a \in Outcomes : Entering(a)
    /\ UNCHANGED <<treeVars, runJson, cache, tmp, reports, settings, limitHit, clock, edits,
                   published, paid, beside>>

(* The run takes outcomes as they come, with the tasks it loaded at first;   *)
(* one with an error verdict is not graded.                                  *)
TakeOutcome ==
    /\ pass[0].pc = "grading" /\ pass[0].cur = NoAttempt
    /\ \E a \in Outcomes :
          \/ Limited(a) /\ LeavesLoop
          \/ /\ ~ Limited(a) /\ UNCHANGED limitHit
             /\ IF ErrorVerdict(a) = "none" THEN pass' = [pass EXCEPT ![0].cur = a]
                ELSE Entering(a)
    /\ UNCHANGED <<treeVars, runJson, cache, tmp, reports, settings, clock, edits, published,
                   paid, beside>>

Between(p) == p # 0 /\ pass[p].pc = "grading" /\ pass[p].cur = NoAttempt

(* A rescore reads the task as it is now, and both files of the attempt.     *)
TakeTarget(p) ==
    /\ Between(p)
    /\ \E a \in pass[p].todo :
          /\ First(a, pass[p].todo)
          /\ IF archive[a].json /\ archive[a].trajectory
             THEN pass' = [pass EXCEPT ![p].cur = a, ![p].todo = @ \ {a},
                                     ![p].version = version, ![p].shown = shown]
             ELSE pass' = [pass EXCEPT ![p] = [NoPass EXCEPT !.pc = "failed"]]
    /\ UNCHANGED <<treeVars, runJson, cache, tmp, reports, settings, limitHit, clock, edits,
                   published, paid, beside>>

----------------------------------------------------------------------------
(* score_attempt: with two plain judges or more the first goes alone and     *)
(* the rest at once, else all in order.                                      *)

Judges == {i \in Slot : Asserts[i] = "judge"}
IsFirst(i) == i \in Judges /\ \A j \in Judges : i <= j

MayStart(p, i) ==
    /\ pass[p].slot[i] = "waiting"
    /\ IF Cardinality(Judges) > 1
       THEN IsFirst(i) \/ \E j \in Slot : IsFirst(j) /\ pass[p].slot[j] = "done"
       ELSE \A j \in 1..(i - 1) : pass[p].slot[j] = "done"

Grading(p) == pass[p].pc = "grading" /\ pass[p].cur # NoAttempt

(* A hit answers; a miss asks the judge. *)
Consult(p, i) ==
    /\ Grading(p) /\ MayStart(p, i)
    /\ LET hit == Get(pass[p].mem, Call(p, i)) IN
       pass' = [pass EXCEPT ![p].ev[i] = hit,
                            ![p].slot[i] = IF hit = {} THEN "asking" ELSE "done"]
    /\ UNCHANGED <<treeVars, runJson, cache, tmp, reports, settings, limitHit, clock, edits,
                   published, paid, beside>>

(* put, under the lock: the entry, then the temporary file is truncated ...  *)
Answer(p, i) ==
    /\ Grading(p) /\ pass[p].slot[i] = "asking" /\ pass[p].fd = "none"
    /\ pass' = [pass EXCEPT ![p].slot[i] = "open", ![p].ev[i] = {Call(p, i)},
                            ![p].mem = Put(@, Call(p, i)), ![p].fd = "tmp"]
    /\ tmp' = Empty
    /\ UNCHANGED <<treeVars, runJson, cache, reports, settings, limitHit, clock, edits,
                   published, paid, beside>>

(* ... written, wherever the file is by now ...                              *)
WriteTmp(p, i) ==
    /\ pass[p].pc = "grading" /\ pass[p].slot[i] = "open"
    /\ IF pass[p].fd = "tmp" THEN tmp' \in Overwrites(tmp, pass[p].mem) ELSE UNCHANGED tmp
    /\ IF pass[p].fd = "cache" THEN cache' \in Overwrites(cache, pass[p].mem) ELSE UNCHANGED cache
    /\ pass' = [pass EXCEPT ![p].slot[i] = "written", ![p].fd = "closed"]
    /\ UNCHANGED <<treeVars, runJson, reports, settings, limitHit, clock, edits, published,
                   paid, beside>>

(* ... and renamed; FileNotFoundError if another process has done that.      *)
Replace(p, i) ==
    /\ pass[p].pc = "grading" /\ pass[p].slot[i] = "written"
    /\ IF tmp = Absent
       THEN /\ pass' = [pass EXCEPT ![p].slot[i] = "failed", ![p].fd = "none"]
            /\ UNCHANGED <<cache, tmp, paid>>
       ELSE /\ cache' = tmp /\ tmp' = Absent
            /\ pass' = [q \in Pass |->
                           IF q = p THEN [pass[p] EXCEPT !.slot[i] = "done", !.fd = "none"]
                           ELSE [pass[q] EXCEPT !.fd = Moved(@)]]
            /\ paid' = paid \cup tmp.calls
    /\ UNCHANGED <<treeVars, runJson, reports, settings, limitHit, clock, edits, published,
                   beside>>

(* The judge timed out or crashed, or its retries of a rate limit are used   *)
(* up; a rescore does not ask which.  One that gives no verdict said UNCLEAR. *)
JudgeFails(p, i) ==
    /\ Grading(p) /\ pass[p].slot[i] = "asking"
    /\ Mishap
    /\ \E how \in {"failed", "exhausted"} :
          (p # 0 => how = "failed") /\ pass' = [pass EXCEPT ![p].slot[i] = how]
    /\ UNCHANGED <<kind, at, dir, stream, archive, runJson, cache, tmp, reports, version, shown,
                   limitHit, model, clock, edits, published, paid, beside>>

Settled(p) == \A i \in Slot :
    \/ pass[p].slot[i] \in {"done", "failed", "exhausted"}
    \/ pass[p].slot[i] = "waiting" /\ ~ MayStart(p, i)

Some(p, state) == \E i \in Slot : pass[p].slot[i] = state

(* An exception of an assertion leaves the attempt of a run with verdict     *)
(* error, unless it is RateLimitExhausted, and ends a rescore.               *)
Score(p) ==
    /\ Grading(p) /\ Settled(p)
    /\ LET Scored(verdict) ==
               [pass[p] EXCEPT !.cur = NoAttempt, !.slot = NoPass.slot, !.ev = NoPass.ev,
                               !.done = @ \cup {Entry(pass[p].cur, verdict)}]
           whole == \A i \in Slot : pass[p].slot[i] = "done"
       IN  \/ /\ p = 0 /\ Some(p, "exhausted")
              /\ LeavesLoop
           \/ /\ p = 0 /\ Some(p, "failed")
              /\ pass' = [pass EXCEPT ![p] = Scored("error")] /\ UNCHANGED limitHit
           \/ /\ p # 0 /\ ~ whole
              /\ pass' = [pass EXCEPT ![p] = [NoPass EXCEPT !.pc = "failed"]]
              /\ UNCHANGED limitHit
           \/ /\ whole
              /\ pass' = [pass EXCEPT ![p] = Scored("graded")] /\ UNCHANGED limitHit
    /\ UNCHANGED <<treeVars, runJson, cache, tmp, reports, settings, clock, edits, published,
                   paid, beside>>

----------------------------------------------------------------------------
(* The report.                                                               *)

(* A second batch that a run left the loop before was never submitted.       *)
Unsubmitted(a) ==
    /\ at[a].stage = "queued" /\ a[2] > 1
    /\ \A t \in Task : kind[t] = "bare"

(* The pool is shut down and the temporary root removed before the report.   *)
RunCleans ==
    /\ \/ pass[0].pc = "grading" /\ pass[0].cur = NoAttempt /\ Outcomes = {}
          /\ \A a \in Attempt : Answered(a) /\ Over(a)
       \/ pass[0].pc = "draining" /\ \A a \in Attempt : Over(a) \/ Unsubmitted(a)
    /\ pass' = [pass EXCEPT ![0].pc = "naming"]
    /\ dir' = [d \in Dir |-> [files |-> {}, skills |-> [s \in Skill |-> "absent"]]]
    /\ stream' = [d \in Dir |-> {}]
    /\ at' = [a \in Attempt |-> [Queued EXCEPT !.stage = "dead"]]
    /\ UNCHANGED <<kind, archive, mishaps, runJson, cache, tmp, reports, settings, limitHit,
                   clock, edits, published, paid, beside>>

AllGraded(p) ==
    /\ Between(p) /\ pass[p].todo = {}
    /\ pass' = [pass EXCEPT ![p].pc = "naming"]
    /\ UNCHANGED <<treeVars, runJson, cache, tmp, reports, settings, limitHit, clock, edits,
                   published, paid, beside>>

Taken(ts, n) == \E r \in reports : r.ts = ts /\ r.n = n

(* The plain name is taken without a look. *)
FreeName_Mut(ts) == 1

(* _unique_report_path: <ts>.json, else <ts>-2.json, <ts>-3.json ...         *)
FreeName(ts) == 1 + Cardinality({n \in 1..(MaxRescores + 1) : \A m \in 1..n : Taken(ts, m)})

(* The run names its report without a look. *)
NameReport(p) ==
    /\ pass[p].pc = "naming"
    /\ pass' = [pass EXCEPT ![p].pc = "writing", ![p].ts = clock,
                            ![p].n = IF p = 0 THEN 1 ELSE FreeName(clock)]
    /\ UNCHANGED <<treeVars, runJson, cache, tmp, reports, settings, limitHit, clock, edits,
                   published, paid, beside>>

Report(p) == [by |-> p, ts |-> pass[p].ts, n |-> pass[p].n,
              scope |-> pass[p].scope, attempts |-> pass[p].done]

SameName(r, s) == r.ts = s.ts /\ r.n = s.n

WriteReport(p) ==
    /\ pass[p].pc = "writing"
    /\ reports' = {r \in reports : ~ SameName(r, Report(p))} \cup {Report(p)}
    /\ published' = Append(published, Report(p))
    /\ pass' = [pass EXCEPT ![p] = [NoPass EXCEPT !.pc = IF p = 0 THEN "closing" ELSE "over"]]
    /\ UNCHANGED <<treeVars, runJson, cache, tmp, settings, limitHit, clock, edits, paid,
                   beside>>

WriteRunJson ==
    /\ pass[0].pc = "closing"
    /\ pass' = [pass EXCEPT ![0].pc = "over"]
    /\ runJson' = TRUE
    /\ UNCHANGED <<treeVars, cache, tmp, reports, settings, limitHit, clock, edits, published,
                   paid, beside>>

----------------------------------------------------------------------------
(* The process of a pass is killed: it leaves its files as they are.  A run  *)
(* that dies takes its workers with it; AttemptPool and CliInvoke have them. *)
PassDies(p) ==
    /\ p # 0 /\ Live(p)
    /\ Mishap
    /\ pass' = [pass EXCEPT ![p] = [NoPass EXCEPT !.pc = "failed"]]
    /\ UNCHANGED <<kind, at, dir, stream, archive, runJson, cache, tmp, reports, settings,
                   limitHit, clock, edits, published, paid, beside>>

(* Someone edits the task YAML or the configuration.  The run has read both; *)
(* a rescore reads the task with each target and the configuration when it   *)
(* begins, and an edit is as good as made just before.                       *)
Edit ==
    /\ edits < MaxEdits /\ edits' = edits + 1
    /\ \/ /\ \E p \in Rescore : Between(p) /\ pass[p].todo # {}
          /\ \/ version' = 1 - version /\ UNCHANGED shown
             \/ shown' = ~ shown /\ UNCHANGED version
          /\ UNCHANGED model
       \/ /\ \E p \in Rescore : MayBegin(p)
          /\ model' = 1 - model /\ UNCHANGED <<version, shown>>
    /\ UNCHANGED <<treeVars, runJson, cache, tmp, reports, limitHit, clock, pass, published,
                   paid, beside>>

(* A second passes.  The clock is read for the names of reports only, and    *)
(* the first report's second is as good as any.                              *)
Tick ==
    /\ \E p \in Rescore : pass[p].pc = "naming"
    /\ clock < MaxClock /\ clock' = clock + 1
    /\ UNCHANGED <<treeVars, runJson, cache, tmp, reports, settings, limitHit, edits, pass,
                   published, paid, beside>>

Next ==
    \/ TreeNext /\ UNCHANGED storeVars
    \/ TakeOutcome \/ RunCleans \/ WriteRunJson \/ Edit \/ Tick
    \/ \E p \in Pass :
          \/ Begin(p) \/ TakeTarget(p) \/ AllGraded(p)
          \/ Score(p) \/ NameReport(p) \/ WriteReport(p) \/ PassDies(p)
          \/ \E i \in Slot :
                Consult(p, i) \/ Answer(p, i) \/ WriteTmp(p, i) \/ Replace(p, i) \/ JudgeFails(p, i)

Spec == Init /\ [][Next]_vars

----------------------------------------------------------------------------
(* Reading the store: RunData.                                               *)

(* _read_reports sorts file names, and "-" sorts before ".": <ts>-2.json,    *)
(* <ts>-3.json, ..., <ts>.json (of up to nine reports in a second).          *)
Before(r, s) ==
    \/ r.ts < s.ts
    \/ r.ts = s.ts /\ r.n # 1 /\ (s.n = 1 \/ r.n < s.n)

(* The last of the files in that order. *)
Newest(S) == CHOOSE r \in S : \A s \in S \ {r} : Before(s, r)

Covers(r, t) == \E e \in r.attempts : e.attempt[1] = t

Covering(t) == {r \in reports : Covers(r, t)}

(* The oldest report that covers the task. *)
LatestForTask_Mut(t) == CHOOSE r \in Covering(t) : \A s \in Covering(t) \ {r} : Before(r, s)

(* latest_for_task walks from the newest to the oldest. *)
LatestForTask(t) == Newest(Covering(t))

(* latest_report is what `runs`, `show` and `diff` read of a run. *)
LatestReport == Newest(reports)

----------------------------------------------------------------------------
(* Properties.                                                               *)

Inputs == [kind : {"judge", "judge_agent"}, crit : Slot \X {0, 1},
           out : Text \cup {None}, seen : SUBSET Author, traj : Attempt \cup {NoAttempt},
           model : {0, 1}]
Entries == [attempt : Attempt, verdict : {"graded", "error"}]

File == [is : {"absent", "empty", "torn", "dump"}, calls : SUBSET Inputs]
Process == [pc : {"idle", "grading", "draining", "naming", "writing", "closing", "over", "failed"},
            model : {0, 1}, version : {0, 1}, shown : BOOLEAN,
            scope : SUBSET Task, todo : SUBSET Attempt,
            cur : Attempt \cup {NoAttempt},
            slot : [Slot -> {"waiting", "asking", "open", "written", "done", "failed",
                             "exhausted"}],
            ev : [Slot -> SUBSET Inputs], mem : SUBSET Inputs,
            fd : {"none", "tmp", "cache", "gone", "closed"}, done : SUBSET Entries,
            ts : 0..MaxClock, n : Nat]
Published == [by : Pass, ts : 0..MaxClock, n : Nat, scope : SUBSET Task,
              attempts : SUBSET Entries]

(* Every file, process and history holds values of its kind. *)
TypeOK ==
    /\ TreeTypeOK
    /\ runJson \in BOOLEAN /\ beside \in BOOLEAN
    /\ cache \in File /\ tmp \in File
    /\ shown \in BOOLEAN /\ limitHit \in BOOLEAN
    /\ version \in {0, 1} /\ model \in {0, 1} /\ clock \in 0..MaxClock /\ edits \in 0..MaxEdits
    /\ pass \in [Pass -> Process]
    /\ paid \subseteq Inputs
    /\ published \in Seq(Published)
    /\ reports \subseteq {published[j] : j \in DOMAIN published}

(* What an attempt left for grading is its own: its archived directory has  *)
(* what it and its fixture put there, never a file of another attempt or a  *)
(* server's configuration; so has its raw stream, except that opencode      *)
(* names one stream for all attempts of fixtureless triggers                *)
(* (pool._execute_attempt, opencode/provider.py:181).                       *)
EvidenceIsOwn ==
    \A a \in Attempt :
        /\ archive[a].files \subseteq {a, Fixture}
        /\ archive[a].raw \subseteq {a} \/ (Provider = "opencode" /\ SharesCwd(a))

(* An agent about to start or at work finds each skill that was not         *)
(* excluded, whole, unless another worker that shares its directory has     *)
(* begun to copy that very skill and not finished: it is at it now, or it   *)
(* failed, died or was killed in the middle (skill_staging.stage_skills_into, *)
(* dirs_exist_ok).                                                          *)
SkillsWhole ==
    \A a \in Attempt, s \in Skill :
        at[a].stage \in {"ready", "running"} =>
            IF s \in Excluded THEN dir[Cwd(a)].skills[s] = "absent"
            ELSE \/ dir[Cwd(a)].skills[s] = "whole"
                 \/ \E b \in Attempt \ {a} : Cwd(b) = Cwd(a) /\ s \in at[b].open

(* What a judge was shown besides, if anything: the transcript of an attempt *)
(* that ended with the message, and in the files, that it was asked about.   *)
Alike(c) ==
    c.traj # NoAttempt =>
        /\ archive[c.traj].text = c.out
        /\ c.kind = "judge_agent" => archive[c.traj].files = c.seen

(* The verdict that an assertion is given answers for the criterion of its  *)
(* task as loaded, the last message in the archive, the judge model and, of *)
(* the agentic judge, the archived files, whichever pass paid for it and    *)
(* whatever became of the cache file since (cache.key_for,                  *)
(* key_for_judge_agent, JudgeCache).  Of the transcript it answers for no   *)
(* more than that: the one that was shown ended in the same message.        *)
VerdictsEarned ==
    \A p \in Pass, i \in Slot : pass[p].slot[i] = "done" =>
        \E c \in pass[p].ev[i] :
            /\ c.kind = Asserts[i] /\ c.model = pass[p].model
            /\ c.crit = <<i, pass[p].version>>
            /\ c.out = archive[pass[p].cur].text
            /\ c.kind = "judge_agent" => c.seen = archive[pass[p].cur].files
            /\ Alike(c)

(* "The transcript is included by default" (docs/design/judges.rst:18-21):  *)
(* a verdict on an attempt was given by a judge that had read the attempt's *)
(* transcript, where the task does not opt out of it.                       *)
TranscriptJudged ==
    \A p \in Pass, i \in Slot : pass[p].slot[i] = "done" /\ pass[p].shown =>
        \E c \in pass[p].ev[i] : c.traj = pass[p].cur

(* Unless two passes have run at once, a judge is never asked what a        *)
(* flushed verdict answers under the same key, over crashes of a pass       *)
(* between any two writes and changes of criteria and back (JudgeCache:     *)
(* "Entries never evicted").                                                *)
PaidOnce ==
    [][\A p \in Pass, i \in Slot :
          pass[p].slot[i] = "waiting" /\ pass'[p].slot[i] = "asking" =>
              beside \/ \A c \in paid : Key(c) # Key(Call(p, i))]_vars

(* A report that was written stays as it is, over all later passes, with    *)
(* one verdict for each attempt in it: that of the run has every attempt,   *)
(* unless a rate limit ended the run, which then has those entered until    *)
(* then; that of a rescore has each archived attempt of its scope.  Two     *)
(* passes at once may take one name in the same second                      *)
(* (rescore._unique_report_path).                                           *)
ReportsStay ==
    \A j \in DOMAIN published :
        LET r == published[j]
            entered == {e.attempt : e \in r.attempts}
        IN
        /\ r \in reports
            \/ (beside /\ \E k \in DOMAIN published : k # j /\ SameName(r, published[k]))
        /\ Cardinality(r.attempts) = Cardinality(entered)
        /\ IF r.by = 0 THEN entered = Attempt \/ limitHit
           ELSE entered = {a \in Attempt : a[1] \in r.scope /\ archive[a].there}

(* What `show` reads of a run is the report written last, and what          *)
(* `history` takes for the grade of a task the one written last that covers *)
(* it, except among reports of one second and passes that ran at once       *)
(* (_loader._read_reports, latest_report, latest_for_task).                 *)
CurrentIsNewest ==
    /\ published # <<>> =>
          beside \/ LatestReport.ts = published[Len(published)].ts
    /\ \A t \in Task :
          LET those == {j \in DOMAIN published : Covers(published[j], t)}
              last  == published[CHOOSE j \in those : \A k \in those : k <= j]
          IN those # {} => beside \/ LatestForTask(t).ts = last.ts
=============================================================================
