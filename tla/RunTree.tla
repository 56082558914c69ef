------------------------------- MODULE RunTree -------------------------------
(***************************************************************************)
(* The files of one run while its attempts work: the temporary root with   *)
(* the working directories (pool._execute_attempt), the copies of the      *)
(* skills that every worker stages (skill_staging), the rendered MCP       *)
(* configuration, the raw streams, and the archive that each attempt       *)
(* leaves for grading.  Staging may fail half way, a worker may die alone, *)
(* and a pool that broke ends the other workers one after another.         *)
(*                                                                         *)
(* A directory holds the set of those who wrote in it, and for each skill  *)
(* the state of its SKILL.md.  Permits, batches and the pool itself are in *)
(* AttemptPool, and what an agent does in CliInvoke and ProviderInvoke.    *)
(***************************************************************************)
EXTENDS Naturals, FiniteSets

CONSTANTS NTasks, K,      \* tasks of the plan, attempts per task
          Plans,          \* the kinds that its tasks may have, a bound
          Skill,          \* the skills found under skills_dirs
          Excluded,       \* skills_to_exclude
          Text,           \* last messages that the attempts may end with
          Provider,       \* the harness of the run
          MaxRetries,     \* bound on the retries of an attempt
          MaxMishaps      \* bound on what goes wrong in the run

Task == 1..NTasks
Attempt == Task \X (1..K)

(* A trigger without a fixture is "bare"; execute tasks and other triggers   *)
(* have a fixture or start from nothing.                                     *)
Kind == {"fixtured", "empty", "bare"}

ASSUME TreeAssumption ==
    /\ NTasks \in Nat /\ K \in Nat /\ MaxRetries \in Nat /\ MaxMishaps \in Nat
    /\ Plans \subseteq [Task -> Kind]
    /\ Excluded \subseteq Skill

(* Directories are named like the attempts that own them; these are nobody's. *)
Triggers == <<0, 0>>      \* run_tmp_root / "triggers"
Root     == <<0, 1>>      \* run_tmp_root itself
Dir == Attempt \cup {Triggers, Root}

(* Those who write files, the attempts apart. *)
Fixture == <<0, 2>>
Mcp     == <<0, 3>>
Author == Attempt \cup {Fixture, Mcp}

None == 0                 \* no message: no member of Text

VARIABLES
  kind,      \* task -> its Kind
  at,        \* attempt -> where its worker is
  dir,       \* directory -> its files and its copies of skills
  stream,    \* path of a raw stream -> whose lines it holds
  archive,   \* attempt -> what the run directory keeps of it
  mishaps

treeVars == <<kind, at, dir, stream, archive, mishaps>>

(* Of a worker: the skills it has to copy, the copy it has begun and not     *)
(* finished, whether an agent of its own is at work, its retries, how invoke *)
(* ended with which last message, and whether its future was failed by a     *)
(* broken pool.                                                              *)
(* The exclusion is not handed on to the staging. *)
Queued_Mut == [stage |-> "queued", left |-> Skill, open |-> {}, agent |-> FALSE, tries |-> 0,
               end |-> "none", text |-> None, broken |-> FALSE]

Queued == [stage |-> "queued", left |-> Skill \ Excluded, open |-> {}, agent |-> FALSE,
           tries |-> 0, end |-> "none", text |-> None, broken |-> FALSE]

TreeInit ==
    /\ kind \in Plans
    /\ at = [a \in Attempt |-> Queued]
    /\ dir = [d \in Dir |-> [files |-> {}, skills |-> [s \in Skill |-> "absent"]]]
    /\ stream = [d \in Dir |-> {}]
    /\ archive = [a \in Attempt |-> [there |-> FALSE, files |-> {}, raw |-> {},
                                     json |-> FALSE, trajectory |-> FALSE, text |-> None]]
    /\ mishaps = 0

SharesCwd(a) == kind[a[1]] = "bare"
(* All attempts work in one directory. *)
Cwd_Mut(a) == Triggers

Cwd(a) == IF SharesCwd(a) THEN Triggers ELSE a

(* opencode names the stream after the directory; the others add a uuid. *)
RawPath(a) == IF Provider = "opencode" THEN Cwd(a) ELSE a

Mishap == mishaps < MaxMishaps /\ mishaps' = mishaps + 1

----------------------------------------------------------------------------
(* Staging: the directory, then one file after another. *)

MakeCwd(a) ==
    /\ at[a].stage = "queued"
    /\ at' = [at EXCEPT ![a].stage = "staging"]
    /\ dir' = [dir EXCEPT ![Cwd(a)].files =
                  IF kind[a[1]] = "fixtured" THEN @ \cup {Fixture} ELSE @]
    /\ UNCHANGED <<kind, stream, archive, mishaps>>

(* copytree opens the destination for writing: whatever was there is gone. *)
OpenCopy(a, s) ==
    /\ at[a].stage = "staging" /\ at[a].open = {} /\ s \in at[a].left
    /\ at' = [at EXCEPT ![a].open = {s}, ![a].left = @ \ {s}]
    /\ dir' = [dir EXCEPT ![Cwd(a)].skills[s] = "cut"]
    /\ UNCHANGED <<kind, stream, archive, mishaps>>

WriteCopy(a) ==
    /\ at[a].stage = "staging" /\ at[a].open # {}
    /\ at' = [at EXCEPT ![a].open = {}]
    /\ dir' = [dir EXCEPT ![Cwd(a)].skills =
                  [s \in Skill |-> IF s \in at[a].open THEN "whole" ELSE @[s]]]
    /\ UNCHANGED <<kind, stream, archive, mishaps>>

(* What the harness reads of its servers lies beside the working directory. *)
StageMcp(a) ==
    /\ at[a].stage = "staging" /\ at[a].open = {} /\ at[a].left = {}
    /\ at' = [at EXCEPT ![a].stage = "ready"]
    /\ dir' = [dir EXCEPT ![Root].files = @ \cup {Mcp}]
    /\ UNCHANGED <<kind, stream, archive, mishaps>>

----------------------------------------------------------------------------
(* provider.invoke: the stream is opened anew and takes the agent's hello. *)
Start(a) ==
    /\ at[a].stage = "ready"
    /\ at' = [at EXCEPT ![a].stage = "running", ![a].agent = TRUE]
    /\ stream' = [stream EXCEPT ![RawPath(a)] = {a}]
    /\ UNCHANGED <<kind, dir, archive, mishaps>>

(* The agent writes files, and its worker what it says; an agent whose       *)
(* worker is no more goes on writing files.                                  *)
Work(a) ==
    /\ at[a].agent
    /\ dir' = [dir EXCEPT ![Cwd(a)].files = @ \cup {a}]
    /\ stream' = [stream EXCEPT ![RawPath(a)] =
                     IF at[a].stage = "running" THEN @ \cup {a} ELSE @]
    /\ UNCHANGED <<kind, at, archive, mishaps>>

(* with_retries: the next try starts in the directory the last one left.     *)
(* Only claude_code tells a rate limit.                                      *)
RateLimited(a) ==
    /\ Provider = "claude_code"
    /\ at[a].stage = "running" /\ at[a].tries < MaxRetries
    /\ Mishap
    /\ at' = [at EXCEPT ![a].stage = "ready", ![a].agent = FALSE, ![a].tries = @ + 1]
    /\ UNCHANGED <<kind, dir, stream, archive>>

(* What is left of a worker that is done with its attempt: the copy it had   *)
(* begun, and an agent that it left behind.                                  *)
Left(w, stage) ==
    [w EXCEPT !.stage = stage, !.left = {}, !.tries = 0, !.end = "none", !.text = None]

(* RateLimitExhausted after the last of them.                                *)
Exhausted(a) ==
    /\ Provider = "claude_code"
    /\ at[a].stage = "running" /\ at[a].tries = MaxRetries
    /\ at' = [at EXCEPT ![a] = [Left(at[a], "exhausted") EXCEPT !.agent = FALSE]]
    /\ UNCHANGED <<kind, dir, stream, archive, mishaps>>

Ends(a, e, o) ==
    /\ at[a].stage = "running"
    /\ at' = [at EXCEPT ![a].stage = "ended", ![a].agent = FALSE, ![a].tries = 0,
                        ![a].end = e, ![a].text = o]
    /\ UNCHANGED <<kind, dir, stream, archive>>

(* invoke returns, or its timeout came after the case had settled ("ok"); it *)
(* raises ProviderTimeout with a partial result, or a server of the attempt  *)
(* was never attached ("spoilt"); or the timeout leaves no result ("lost").  *)
Returns(a) ==
    /\ \E o \in Text : Ends(a, "ok", o)
    /\ UNCHANGED mishaps

Fails(a) ==
    /\ Mishap
    /\ \/ \E o \in Text : Ends(a, "spoilt", o)
       \/ Ends(a, "lost", None)

HasResult(a) == at[a].end \in {"ok", "spoilt"}

----------------------------------------------------------------------------
(* The archive.  _mirror_cwd leaves out the discovery directories of the    *)
(* skills; an OSError on the way keeps what was copied until then.          *)
Archived(a, files) ==
    /\ at' = [at EXCEPT ![a].stage = "mirrored"]
    /\ archive' = [archive EXCEPT ![a].there = TRUE, ![a].files = files,
                                  ![a].raw = IF HasResult(a) THEN stream[RawPath(a)] ELSE {}]
    /\ UNCHANGED <<kind, dir, stream>>

Mirror(a) ==
    /\ at[a].stage = "ended"
    /\ Archived(a, IF SharesCwd(a) THEN {} ELSE dir[Cwd(a)].files)
    /\ UNCHANGED mishaps

MirrorFails(a) ==
    /\ at[a].stage = "ended" /\ ~ SharesCwd(a)
    /\ Mishap
    /\ \E files \in SUBSET dir[Cwd(a)].files : Archived(a, files)

(* attempt.json, then trajectory.json; neither without a result. *)
Record(a) ==
    /\ at[a].stage = "mirrored"
    /\ IF HasResult(a) /\ ~ archive[a].json
       THEN /\ archive' = [archive EXCEPT ![a].json = TRUE]
            /\ UNCHANGED at
       ELSE /\ archive' = [archive EXCEPT ![a].trajectory = HasResult(a), ![a].text = at[a].text]
            /\ at' = [at EXCEPT ![a].stage = "recorded"]
    /\ UNCHANGED <<kind, dir, stream, mishaps>>

----------------------------------------------------------------------------
(* What ends a worker's attempt without an outcome of its own.               *)

(* The worker is done with the attempt, and the run can have its outcome.    *)
Over(a) == at[a].stage \in {"recorded", "failed", "exhausted", "dead"}
Answered(a) == at[a].stage \in {"recorded", "failed", "exhausted"} \/ at[a].broken
Begun(a) == at[a].stage # "queued" /\ ~ Over(a)

(* An OSError of copytree in the middle of a file, or an exception of        *)
(* anything else that _execute_attempt does not catch: before the wait of    *)
(* invoke it leaves the agent, after it what the archive has until then.     *)
Raises(a) ==
    /\ Begun(a)
    /\ Mishap
    /\ at' = [at EXCEPT ![a] = Left(@, "failed")]
    /\ UNCHANGED <<kind, dir, stream, archive>>

(* A worker process is killed, at whatever it does; its agent may go on.     *)
WorkerDies(a) ==
    /\ Begun(a)
    /\ Mishap
    /\ at' = [at EXCEPT ![a] = Left(@, "dead")]
    /\ UNCHANGED <<kind, dir, stream, archive>>

(* The executor notices: no attempt that has no outcome yet will have one of *)
(* its own.                                                                  *)
PoolBreaks ==
    /\ \E a \in Attempt : at[a].stage = "dead" /\ ~ at[a].broken
    /\ at' = [a \in Attempt |-> [at[a] EXCEPT !.broken = @ \/ ~ Answered(a)]]
    /\ UNCHANGED <<kind, dir, stream, archive, mishaps>>

(* It ends the other workers, one by one; until then they go on, and even    *)
(* begin what was queued.                                                    *)
KillWorker(a) ==
    /\ at[a].broken /\ ~ Over(a)
    /\ at' = [at EXCEPT ![a] = Left(@, "dead")]
    /\ UNCHANGED <<kind, dir, stream, archive, mishaps>>

(* Of an answered attempt; nothing here tells "timeout" and "error" apart.    *)
ErrorVerdict(a) == IF at[a].end = "ok" /\ ~ at[a].broken THEN "none" ELSE "error"

TreeNext ==
    \/ PoolBreaks
    \/ \E a \in Attempt :
          \/ MakeCwd(a) \/ \E s \in Skill : OpenCopy(a, s)
          \/ WriteCopy(a) \/ StageMcp(a)
          \/ Start(a) \/ Work(a) \/ RateLimited(a) \/ Exhausted(a) \/ Returns(a) \/ Fails(a)
          \/ Mirror(a) \/ MirrorFails(a) \/ Record(a)
          \/ Raises(a) \/ WorkerDies(a) \/ KillWorker(a)

----------------------------------------------------------------------------
Stages == {"queued", "staging", "ready", "running", "ended", "mirrored", "recorded", "failed",
           "exhausted", "dead"}
EndsWith == {"none", "ok", "spoilt", "lost"}

Worker == [stage : Stages, left : SUBSET Skill, open : SUBSET Skill, agent : BOOLEAN,
           tries : 0..MaxRetries, end : EndsWith, text : Text \cup {None}, broken : BOOLEAN]
Directory == [files : SUBSET Author, skills : [Skill -> {"absent", "cut", "whole"}]]
Kept == [there : BOOLEAN, files : SUBSET Author, raw : SUBSET Author,
         json : BOOLEAN, trajectory : BOOLEAN, text : Text \cup {None}]

TreeTypeOK ==
    /\ kind \in Plans /\ mishaps \in 0..MaxMishaps
    /\ at \in [Attempt -> Worker] /\ dir \in [Dir -> Directory]
    /\ stream \in [Dir -> SUBSET Author] /\ archive \in [Attempt -> Kept]
=============================================================================
