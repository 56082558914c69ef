----------------------------- MODULE ProviderInvoke -----------------------------
(***************************************************************************)
(* One attempt of the claude_code provider: ClaudeCodeProvider.invoke with *)
(* its retries, the agent process it runs in a process group of its own,   *)
(* the thread that reads the agent's event stream, the wait that cuts a    *)
(* trigger case short, and how pool and the case's assertion grade what is *)
(* left of it.                                                             *)
(*                                                                         *)
(* The agent is not part of the program: it may do anything, at any pace,  *)
(* or hang.  What it does is an event of its stream; the transcripts on    *)
(* disk, from which the trajectory is rebuilt, may lag behind it.  It may  *)
(* start one subagent, whose events have a transcript of their own and may *)
(* or may not be shown on the stream.                                      *)
(***************************************************************************)
EXTENDS Integers, Sequences, FiniteSets

CONSTANTS
    Modes,          \* the kinds of task this instance runs
    MaxEvents,      \* bounds the stream of a process, less one for each retry
    MaxRetries      \* ratelimit._MAX_RETRIES

Mode == {"execute", "skill+", "skill-", "tool+", "tool-"}

ASSUME InvokeAssumption ==
    /\ Modes \subseteq Mode
    /\ MaxEvents \in Nat
    /\ MaxRetries \in Nat

VARIABLES
    mode,       \* execute, or a positive or negative trigger on a skill or tool
    agent,      \* the agent process: "none", "running", "signalled" or "dead"
    rc,         \* its return code: "none", "zero" or "nonzero"
    helper,     \* a process of its group that the agent started is running
    stream,     \* what the agent and its subagent did
    recorded,   \* up to where each one's transcript on disk covers it
    told,       \* the agent's transcript says which subagent its task started
    read,       \* how many of them the reader thread is past
    skill,      \* StreamState.detected_skill
    tool,       \* StreamState.detected_tool
    kill,       \* StreamState.kill_signal
    limited,    \* StreamState.api_error_status is 429 or 529
    late,       \* the task's timeout has passed
    pc,         \* where invoke is
    waited,     \* it has reached the wait whose handler ends the agent
    cut,        \* killed_on_skill
    timedOut,   \* timed_out
    retries,    \* with_retries' attempt
    outcome     \* the attempt's grade, or how invoke failed

agentVars  == <<agent, rc, helper, stream, recorded, told>>
readerVars == <<read, skill, tool, kill, limited>>
mainVars   == <<pc, waited, cut, timedOut, retries, outcome>>
vars       == <<mode, agentVars, readerVars, late, mainVars>>

Trigger == mode # "execute"
Negative == mode \in {"skill-", "tool-"}
SkillTarget == mode \in {"skill+", "skill-"}
ToolTarget == mode \in {"tool+", "tool-"}
Alive == agent \in {"running", "signalled"}

Name == {"target", "sibling"}
Agents == {"main", "sub"}
Event(by, kind, name) == [by |-> by, kind |-> kind, name |-> name]
Plain(by, kinds) == {Event(by, k, "none") : k \in kinds}

(* What the agent may do, one event for all that a mode treats alike: a      *)
(* "skill" is a Skill call whose name has arrived, a "stop" ends a message.  *)
Fires(by) == {Event(by, IF ToolTarget THEN "mcp" ELSE "skill", n) : n \in Name}
Deeds ==
    Plain("main", {"native"} \cup IF mode = "skill-" THEN {"read", "stop"} ELSE {})
        \cup IF Trigger THEN Fires("main") ELSE {}

(* A "task" starts the subagent.  Its work beside what it fires is told from *)
(* the task only where it may settle the case.                               *)
Task == Event("main", "task", "none")
SubDeeds == Fires("sub") \cup IF mode = "skill-" THEN Plain("sub", {"native", "stop"}) ELSE {}

(* The last event says how the turn ended.                                   *)
Last == Plain("main", {"result", "limited"})
Events == Deeds \cup Last \cup IF Trigger THEN {Task} \cup SubDeeds ELSE {}

Init ==
    /\ mode \in Modes
    /\ agent = "none" /\ rc = "none" /\ helper = FALSE
    /\ stream = <<>> /\ recorded = [by \in Agents |-> 0] /\ told = FALSE /\ read = 0
    /\ skill = "none" /\ tool = "none" /\ kill = FALSE /\ limited = FALSE
    /\ late = FALSE
    /\ pc = "launching" /\ waited = FALSE
    /\ cut = FALSE /\ timedOut = FALSE
    /\ retries = 0
    /\ outcome = "none"

-----------------------------------------------------------------------------
(* The agent and the clock.                                                  *)

(* Nothing looks at what it does once invoke is over.                        *)
Working == Alive /\ pc # "done"

Spawns == {i \in DOMAIN stream : stream[i].kind = "task"}

AgentEmits(e) ==
    /\ Working
    /\ Len(stream) + retries < MaxEvents
    /\ \A i \in DOMAIN stream : stream[i] \notin Last
    /\ e.by = "sub" => Spawns # {}
    /\ e.kind = "task" => Spawns = {}
    /\ stream' = Append(stream, e)
    /\ UNCHANGED <<mode, agent, rc, helper, recorded, told, readerVars, late, mainVars>>

(* One of the two writes what it did next to its transcript.                 *)
AgentRecords ==
    /\ Working
    /\ \E i \in DOMAIN stream :
          /\ i > recorded[stream[i].by]
          /\ \A j \in DOMAIN stream :
                stream[j].by = stream[i].by /\ j < i => j <= recorded[stream[i].by]
          /\ recorded' = [recorded EXCEPT ![stream[i].by] = i]
    /\ UNCHANGED <<mode, agent, rc, helper, stream, told, readerVars, late, mainVars>>

(* The record of the task, or of its progress, names the subagent.           *)
AgentTells ==
    /\ Working /\ ~told
    /\ \E i \in DOMAIN stream : stream[i].by = "sub"
    /\ \E t \in Spawns : t <= recorded["main"]
    /\ told' = TRUE
    /\ UNCHANGED <<mode, agent, rc, helper, stream, recorded, readerVars, late, mainVars>>

(* What load_run_result finds: a subagent's transcript is attached to the    *)
(* call that the agent's own transcript names for it, or is left out.        *)
Transcribed(i) ==
    /\ i <= recorded[stream[i].by]
    /\ stream[i].by = "sub" => told

(* An agent that succeeds has saved its session.                             *)
AgentExits ==
    /\ Working
    /\ agent' = "dead"
    /\ \/ agent = "running" /\ (\A i \in DOMAIN stream : Transcribed(i)) /\ rc' = "zero"
       \/ rc' = "nonzero"
    /\ UNCHANGED <<mode, helper, stream, recorded, told, readerVars, late, mainVars>>

HelperStarts ==
    /\ Working /\ ~helper
    /\ helper' = TRUE
    /\ UNCHANGED <<mode, agent, rc, stream, recorded, told, readerVars, late, mainVars>>

HelperEnds ==
    /\ helper /\ pc # "done"
    /\ helper' = FALSE
    /\ UNCHANGED <<mode, agent, rc, stream, recorded, told, readerVars, late, mainVars>>

TimePasses ==
    /\ pc \in {"polling", "signal", "clock", "waiting"}
    /\ ~late
    /\ late' = TRUE
    /\ UNCHANGED <<mode, agentVars, readerVars, mainVars>>

-----------------------------------------------------------------------------
(* The reader thread.                                                        *)

(* Any tool but the skills' own is taken as decisive in a negative case.     *)
Decisive_Mut(e) ==
    /\ mode = "skill-"
    /\ \/ e.kind \in {"read", "native", "task"}
       \/ e.kind = "stop" /\ skill = "none"

(* What settles a negative case on a skill: work on something else, or the   *)
(* end of a message without a skill.  Reads are exempt.                      *)
Decisive(e) ==
    /\ mode = "skill-"
    /\ \/ e.kind \in {"native", "task"}
       \/ e.kind = "stop" /\ skill = "none"

(* settles_tool_trigger: a positive case is settled by any MCP tool.         *)
SettlesTool(e) ==
    /\ e.kind = "mcp"
    /\ e.name = "target" \/ ~Negative

(* A line goes into the StreamState.  A skill that fires replaces the one    *)
(* detected before it.                                                       *)
Sees(e) ==
    /\ skill' = IF SkillTarget /\ e.kind = "skill" THEN e.name ELSE skill
    /\ tool' = IF ToolTarget /\ SettlesTool(e) THEN e.name ELSE tool
    /\ kill' = \/ kill
               \/ SkillTarget /\ (e.kind = "skill" \/ Decisive(e))
               \/ ToolTarget /\ SettlesTool(e)
    /\ limited' = (limited \/ e.kind = "limited")

(* drain_stream reads one line more; what a subagent does need not be one.   *)
Dispatch ==
    /\ agent # "none" /\ pc # "done"
    /\ read < Len(stream)
    /\ read' = read + 1
    /\ LET e == stream[read + 1]
       IN  \/ Sees(e)
           \/ e.by = "sub" /\ UNCHANGED <<skill, tool, kill, limited>>
    /\ UNCHANGED <<mode, agentVars, late, mainVars>>

-----------------------------------------------------------------------------
(* invoke, on the worker's main thread.                                      *)

Goto(l) == pc' = l

(* The deadline is one for all tries: it is not set anew.                    *)
Launch_Mut ==
    /\ pc = "launching"
    /\ agent' = "running" /\ rc' = "none"
    /\ stream' = <<>> /\ recorded' = [by \in Agents |-> 0] /\ told' = FALSE /\ read' = 0
    /\ skill' = "none" /\ tool' = "none" /\ kill' = FALSE /\ limited' = FALSE
    /\ cut' = FALSE /\ timedOut' = FALSE /\ helper' = FALSE
    /\ Goto("spawned") /\ waited' = FALSE
    /\ UNCHANGED <<mode, late, retries, outcome>>

(* _invoke_once starts the agent in a group of its own, with a StreamState   *)
(* of its own.                                                               *)
Launch ==
    /\ pc = "launching"
    /\ agent' = "running" /\ rc' = "none"
    /\ stream' = <<>> /\ recorded' = [by \in Agents |-> 0] /\ told' = FALSE /\ read' = 0
    /\ skill' = "none" /\ tool' = "none" /\ kill' = FALSE /\ limited' = FALSE
    /\ late' = FALSE
    /\ cut' = FALSE /\ timedOut' = FALSE /\ helper' = FALSE
    /\ Goto("spawned") /\ waited' = FALSE
    /\ UNCHANGED <<mode, retries, outcome>>

(* The reader threads run and the wait begins, and with it its deadline.     *)
BeginWait ==
    /\ pc = "spawned"
    /\ waited' = TRUE
    /\ Goto(IF Trigger THEN "polling" ELSE "waiting")
    /\ UNCHANGED <<mode, agentVars, readerVars, late, cut, timedOut, retries, outcome>>

(* Before the wait nothing ends the agent: a thread that cannot be started   *)
(* leaves it behind.                                                         *)
StartFails ==
    /\ pc = "spawned"
    /\ outcome' = "raised"
    /\ Goto("done")
    /\ UNCHANGED <<mode, agentVars, readerVars, late, waited, cut, timedOut, retries>>

(* _wait_with_skill_kill looks at the process, then at the signal, then at   *)
(* the clock, and again.                                                     *)
Poll ==
    /\ pc = "polling"
    /\ Goto(IF Alive THEN "signal" ELSE "joining")
    /\ UNCHANGED <<mode, agentVars, readerVars, late, waited, cut, timedOut, retries, outcome>>

WaitSignal ==
    /\ pc = "signal"
    /\ cut' = kill
    /\ Goto(IF kill THEN "sigterm" ELSE "clock")
    /\ UNCHANGED <<mode, agentVars, readerVars, late, waited, timedOut, retries, outcome>>

(* The wait has no clock: only the agent ends it.                            *)
CheckClock_Mut ==
    /\ pc = "clock"
    /\ Goto("polling")
    /\ UNCHANGED <<mode, agentVars, readerVars, late, waited, cut, timedOut, retries, outcome>>

CheckClock ==
    /\ pc = "clock"
    /\ timedOut' = late
    /\ Goto(IF late THEN "sigterm" ELSE "polling")
    /\ UNCHANGED <<mode, agentVars, readerVars, late, waited, cut, retries, outcome>>

(* wait_or_terminate, for a task that is not a trigger.                      *)
Wait ==
    /\ pc = "waiting"
    /\ \/ ~Alive /\ Goto("joining") /\ UNCHANGED timedOut
       \/ late /\ timedOut' = TRUE /\ Goto("sigterm")
    /\ UNCHANGED <<mode, agentVars, readerVars, late, waited, cut, retries, outcome>>

(* terminate_tree: SIGTERM to the group, which a process may ignore or take  *)
(* its time over.                                                            *)
Terminate ==
    /\ pc = "sigterm"
    /\ agent' = IF agent = "running" THEN "signalled" ELSE agent
    /\ helper' \in {helper, FALSE}
    /\ Goto("grace")
    /\ UNCHANGED <<mode, rc, stream, recorded, told, readerVars, late, waited, cut,
                   timedOut, retries, outcome>>

(* No escalation: the agent is left to its own devices.                      *)
KillGroup_Mut ==
    UNCHANGED <<agent, rc, helper>>

(* SIGKILL to the group.                                                     *)
KillGroup ==
    /\ agent' = "dead"
    /\ rc' = IF Alive THEN "nonzero" ELSE rc
    /\ helper' = FALSE

(* The grace period: over once the agent itself is gone, or escalates.       *)
Grace ==
    /\ pc = "grace"
    /\ \/ ~Alive /\ UNCHANGED <<agent, rc, helper>>
       \/ Alive /\ KillGroup
    /\ Goto("joining")
    /\ UNCHANGED <<mode, stream, recorded, told, readerVars, late, waited, cut,
                   timedOut, retries, outcome>>

(* Where an exception ends the agent on its way: in either wait, and in the  *)
(* call of terminate_tree that _wait_with_skill_kill makes.  The one made by *)
(* wait_or_terminate is not guarded.                                         *)
Guarded ==
    \/ pc = "waiting"
    \/ Trigger /\ pc \in {"polling", "signal", "clock", "sigterm", "grace"}

(* Ctrl+C, at any point once the agent was started.                          *)
Interrupt ==
    /\ pc \notin {"launching", "done"}
    /\ IF Guarded THEN KillGroup ELSE UNCHANGED <<agent, rc, helper>>
    /\ outcome' = "interrupted"
    /\ Goto("done")
    /\ UNCHANGED <<mode, stream, recorded, told, readerVars, late, waited, cut, timedOut, retries>>

(* The reader is not waited for.                                             *)
Join_Mut ==
    /\ pc = "joining"
    /\ Goto("concluding")
    /\ UNCHANGED <<mode, agentVars, readerVars, late, waited, cut, timedOut, retries, outcome>>

(* The reader is waited for until its pipe is at the end, or for 5 seconds   *)
(* where a process of the group still holds it open: long enough to read     *)
(* what the agent wrote.                                                     *)
Join ==
    /\ pc = "joining"
    /\ read = Len(stream)
    /\ Goto("concluding")
    /\ UNCHANGED <<mode, agentVars, readerVars, late, waited, cut, timedOut, retries, outcome>>

(* The trajectory: what the transcripts cover, with the skill or the tool    *)
(* the reader detected if the transcript misses it.                          *)
Covered(kind) == {i \in DOMAIN stream : stream[i].kind = kind /\ Transcribed(i)}
Of(by, S) == {i \in S : stream[i].by = by}
Least(S) == CHOOSE i \in S : \A j \in S : i <= j

(* The agent's part of the trajectory ends with the turn of the task.        *)
TaskTurnLast ==
    \A i \in DOMAIN stream :
        stream[i].by = "main" /\ Transcribed(i) /\ stream[i] \notin Last
            => \A t \in Spawns : i <= t

(* A turn comes before those of the subagent it started, and these before    *)
(* the turns after it.  A detected skill is added to the last turn of the    *)
(* agent, a tool as the last call of that turn.                              *)
FirstOf(kind, detected) ==
    LET covered == Covered(kind)
        fore    == {i \in Of("main", covered) : \A t \in Spawns : i < t}
    IN  IF fore # {} THEN stream[Least(fore)].name
        ELSE IF kind = "skill" /\ detected # "none" /\ TaskTurnLast THEN detected
        ELSE IF Of("sub", covered) # {} THEN stream[Least(Of("sub", covered))].name
        ELSE IF covered # {} THEN stream[Least(covered)].name
        ELSE detected

TargetIn(kind, detected) ==
    detected = "target" \/ \E i \in Covered(kind) : stream[i].name = "target"

(* The assertion made for a trigger case: first_skill, skill_not_invoked,    *)
(* first_mcp_tool or mcp_tool_not_called.                                    *)
Passes ==
    CASE mode = "skill+" -> FirstOf("skill", skill) = "target"
      [] mode = "skill-" -> ~TargetIn("skill", skill)
      [] mode = "tool+"  -> FirstOf("mcp", tool) = "target"
      [] mode = "tool-"  -> ~TargetIn("mcp", tool)

Grade == IF Trigger THEN (IF Passes THEN "pass" ELSE "fail") ELSE "graded"

(* metrics.n_tool_calls > 0.  A Skill call is not counted.                   *)
Worked ==
    tool # "none" \/ \E k \in {"read", "native", "task", "mcp"} : Covered(k) # {}

(* A positive case that timed out is graded as long as the agent worked.     *)
Settled_Mut == Worked /\ mode \in {"skill+", "tool+"}

(* pool._settled_on_timeout, which looks for a skill in the turns of the     *)
(* agent only, and for an MCP call in those of its subagent as well.         *)
Settled ==
    /\ Worked
    /\ \/ mode = "skill+" /\ Of("main", Covered("skill")) = {} /\ skill = "none"
       \/ mode = "tool+" /\ Covered("mcp") = {} /\ tool = "none"

(* find_transcript_path needs the session that the stream names, and a file  *)
(* that the agent may not have created before its first record.              *)
TranscriptFound == read > 0
NoTranscript == read = 0 \/ recorded["main"] = 0

(* Also an attempt out of retries is retried.                                *)
Limited_Mut ==
    /\ retries' = retries + 1 /\ Goto("launching") /\ UNCHANGED outcome

(* with_retries on a RateLimitError.                                         *)
Limited ==
    \/ /\ retries < MaxRetries
       /\ retries' = retries + 1
       /\ Goto("launching")
       /\ UNCHANGED outcome
    \/ /\ retries >= MaxRetries
       /\ outcome' = "exhausted"
       /\ Goto("done")
       /\ UNCHANGED retries

End(o) == outcome' = o /\ Goto("done") /\ UNCHANGED retries

(* The end of _invoke_once, and what _execute_attempt makes of it.  After a  *)
(* timeout, whatever fails on the way to a partial result is swallowed.      *)
Conclude ==
    /\ pc = "concluding"
    /\ \/ timedOut /\ TranscriptFound /\ End(IF Settled THEN Grade ELSE "timeout")
       \/ timedOut /\ End("timeout")
       \/ ~timedOut /\ limited /\ Limited
       \/ ~timedOut /\ ~limited /\ rc = "nonzero" /\ ~cut /\ End("abort")
       \/ /\ ~timedOut /\ ~limited
          /\ rc = "zero" \/ cut
          /\ \/ TranscriptFound /\ End(Grade)
             \/ NoTranscript /\ End("abort")
    /\ UNCHANGED <<mode, agentVars, readerVars, late, waited, cut, timedOut>>

-----------------------------------------------------------------------------
Agent ==
    \/ \E e \in Events : AgentEmits(e)
    \/ AgentRecords \/ AgentTells \/ AgentExits
    \/ HelperStarts \/ HelperEnds

Main ==
    \/ Launch \/ BeginWait \/ Poll \/ WaitSignal \/ CheckClock \/ Wait
    \/ Terminate \/ Grace \/ Join \/ Conclude

Next == Agent \/ TimePasses \/ Dispatch \/ Main \/ StartFails \/ Interrupt

(* The threads are scheduled, a wait with a timeout returns and time passes. *)
(* The agent owes nothing: it may hang, before and after a SIGTERM.          *)
Fairness == WF_vars(Main) /\ WF_vars(Dispatch) /\ WF_vars(TimePasses)

Spec == Init /\ [][Next]_vars /\ Fairness

-----------------------------------------------------------------------------
Outcomes ==
    {"none", "pass", "fail", "graded", "timeout", "abort", "exhausted", "raised",
     "interrupted"}

TypeOK ==
    /\ mode \in Modes
    /\ agent \in {"none", "running", "signalled", "dead"}
    /\ rc \in {"none", "zero", "nonzero"}
    /\ helper \in BOOLEAN
    /\ stream \in Seq(Events) /\ Len(stream) <= MaxEvents
    /\ recorded \in [Agents -> 0 .. Len(stream)] /\ told \in BOOLEAN
    /\ read \in 0 .. Len(stream)
    /\ skill \in Name \cup {"none"}
    /\ tool \in Name \cup {"none"}
    /\ kill \in BOOLEAN /\ limited \in BOOLEAN /\ late \in BOOLEAN
    /\ cut \in BOOLEAN /\ timedOut \in BOOLEAN
    /\ waited \in BOOLEAN
    /\ pc \in {"launching", "spawned", "polling", "signal", "clock", "waiting", "sigterm",
              "grace", "joining", "concluding", "done"}
    /\ retries \in 0 .. MaxRetries
    /\ outcome \in Outcomes

Fired == {i \in DOMAIN stream : stream[i].kind \in {"skill", "mcp"}}
Graded == outcome \in {"pass", "fail"}

(* However invoke ends, the agent it started has ended: no attempt leaves a  *)
(* harness running beside the attempts that follow.  The exceptions are an   *)
(* exception before the wait, and an interrupt in the grace period of a task *)
(* that is not a trigger.                                                    *)
HarnessGone ==
    pc = "done" =>
        \/ agent = "dead"
        \/ outcome \in {"raised", "interrupted"} /\ ~waited
        \/ outcome = "interrupted" /\ mode = "execute" /\ timedOut

(* The clock grades a positive case only, and only one in which the agent    *)
(* itself fired nothing.  It grants no pass, but for a skill case in which a *)
(* subagent fired the target.                                                *)
TimeoutIsNoPass ==
    timedOut /\ pc = "done" /\ outcome \notin {"timeout", "interrupted"}
        => /\ outcome \in {"pass", "fail"} /\ mode \in {"skill+", "tool+"}
           /\ Of("main", Fired) = {}
           /\ outcome = "pass"
                 => mode = "skill+" /\ \E i \in Fired : stream[i].name = "target"

(* A negative case passes on evidence: the agent ended its turn or turned to *)
(* something other than reading, and the target never fired, unless a skill  *)
(* case was cut short before the target was on disk: a subagent fired it, or *)
(* another skill fired after it.                                             *)
NegativePassEarned ==
    outcome = "pass" /\ Negative
        => /\ ~cut \/ \E i \in DOMAIN stream : stream[i].kind # "read"
           /\ \A i \in Fired :
                 stream[i].name = "target"
                     => /\ cut /\ mode = "skill-" /\ ~Transcribed(i)
                        /\ \/ stream[i].by = "sub"
                           \/ \E j \in Fired : j > i /\ stream[j].name # "target"

(* A positive case in which all that fired is one skill, or one MCP tool, is *)
(* graded by it, however the transcripts, the reader, the signal and the     *)
(* clock raced; only what a subagent fired may be lost.  One in which        *)
(* nothing fired never passes.                                               *)
SingleFireGraded ==
    Graded /\ ~Negative /\ (\A i, j \in Fired : stream[i].name = stream[j].name)
        => /\ outcome = "pass" => \E i \in Fired : stream[i].name = "target"
           /\ (\E i \in Fired : stream[i].name = "target"
                                  /\ (stream[i].by = "main" \/ Transcribed(i)))
                 => outcome = "pass"

(* The parts of the inductive invariant: where invoke is says whether the    *)
(* agent lives, and what the reader has read is in the StreamState.          *)
Living ==
    /\ pc = "launching" => agent \in {"none", "dead"}
    /\ pc # "launching" => agent # "none"
    /\ pc = "spawned" => ~waited /\ ~timedOut
    /\ pc \notin {"launching", "spawned", "done"} => waited
    /\ pc \in {"polling", "signal", "clock"} => Trigger
    /\ pc \in {"sigterm", "grace"} => Trigger \/ timedOut
    /\ pc \in {"joining", "concluding"} => agent = "dead"
    /\ pc # "done" => outcome = "none"
    /\ rc = "zero" => agent = "dead" /\ \A i \in DOMAIN stream : Transcribed(i)

Seen ==
    /\ pc = "concluding" => read = Len(stream)
    /\ \A i \in 1 .. read :
          stream[i].by = "main" =>
              /\ SkillTarget /\ stream[i].kind = "skill" => skill # "none"
              /\ mode = "tool+" /\ stream[i].kind = "mcp" => tool # "none"

(* What the StreamState says was read; the last skill read is in it.         *)
Detected ==
    /\ skill # "none" =>
          /\ SkillTarget
          /\ \E j \in 1 .. read :
                /\ stream[j].kind = "skill" /\ stream[j].name = skill
                /\ \A i \in 1 .. read :
                      i > j /\ stream[i].by = "main" => stream[i].kind # "skill"
    /\ tool # "none" =>
          /\ ToolTarget
          /\ mode = "tool-" => tool = "target"
          /\ \E j \in 1 .. read : stream[j].kind = "mcp" /\ stream[j].name = tool
    /\ \A i \in 1 .. read :
          mode = "tool-" /\ stream[i] = Event("main", "mcp", "target") => tool # "none"
    /\ kill => \E i \in 1 .. read : stream[i].kind # "read"
    /\ kill /\ ToolTarget => tool # "none"
    /\ cut => kill

(* The inductive invariant the proofs rest on: while invoke reads, waits and *)
(* concludes, no event and no living agent escapes what grades the attempt.  *)
IInv ==
    /\ TypeOK
    /\ Living
    /\ Seen
    /\ Detected
    /\ HarnessGone
    /\ TimeoutIsNoPass
    /\ NegativePassEarned
    /\ SingleFireGraded

(* What invoke promises the worker: a graded attempt is a result, or a       *)
(* timeout that carries one.                                                 *)
Contract ==
    INSTANCE InvokeContract WITH
        agent <- IF Alive THEN "running" ELSE agent,
        tries <- IF pc = "launching" THEN retries ELSE retries + 1,
        ended <- IF Graded THEN "graded" ELSE outcome

(* Each try has a process and a deadline of its own and none overlaps the    *)
(* next; the attempt ends once, with its process, and for the reason given.  *)
ImplementsContract == Contract!ContractSpec

(* invoke returns or raises, whatever the agent does.                        *)
InvokeEnds == <>(pc = "done")

(* Stated by _dispatch_skill_detection: the first skill that fires already   *)
(* determines the answer of a positive case.                                 *)
FirstSkillStands ==
    Graded /\ mode = "skill+" /\ Fired # {} /\ Of("sub", Fired) = {}
        => LET first == CHOOSE i \in Fired : \A j \in Fired : i <= j
           IN  outcome = "pass" <=> stream[first].name = "target"

(* Stated by terminate_tree: once it returns, the agent's process group is   *)
(* gone.                                                                     *)
TreeIsGone == pc = "joining" /\ (cut \/ timedOut) => agent = "dead" /\ ~helper
=============================================================================
