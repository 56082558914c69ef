------------------------------ MODULE CliInvoke ------------------------------
(***************************************************************************)
(* One attempt of codex_cli, opencode or copilot_cli: _invoke_once, which  *)
(* the three write alike, around the agent process, the thread that reads  *)
(* its stdout (CliStreams), the wait that cuts a trigger case short and    *)
(* the trajectory built of what is left (CliTranscripts), graded as pool   *)
(* and the case's assertion do.  With it, what codex_cli alone does: it    *)
(* looks for skills in the session file while it waits, and a watchdog     *)
(* stops the agent of a worker whose parent died.                          *)
(*                                                                         *)
(* The record that a CLI keeps on disk (codex: a session file per thread;  *)
(* opencode: a database) lags behind what the agent does: how far is       *)
(* chosen when the record is looked at.                                    *)
(***************************************************************************)
EXTENDS CliTranscripts, FiniteSets

CONSTANTS
    Providers,      \* the providers, and
    Modes,          \* the kinds of task this instance runs
    MaxActs         \* bounds what the agent does

ASSUME CliAssumption ==
    /\ Providers \subseteq Provider
    /\ Modes \subseteq Mode
    /\ MaxActs \in Nat

VARIABLES
    provider, mode,
    agent,      \* the agent process: "none", "running", "signalled" or "dead"
    rc,         \* its return code: "none", "zero" or "nonzero"
    acts,       \* what the agent did
    recorded,   \* how many of its acts the record was seen to have
    read,       \* how many acts the reader thread is past
    ss,         \* the StreamState
    late,       \* the task's timeout has passed
    orphaned,   \* the parent of the worker has died
    watched,    \* the watchdog was started under the parent
    pc,         \* where _invoke_once is
    waited,     \* it has reached the wait whose handler ends the agent
    cut,        \* killed_on_skill
    timedOut,   \* timed_out
    result,     \* the RunResult: ok, and the turns of its trajectory
    outcome     \* the attempt's grade, or how invoke failed

task == <<provider, mode>>
process == <<agent, rc>>
record == <<acts, recorded>>
reader == <<read, ss>>
parent == <<orphaned, watched>>
flags == <<cut, timedOut>>
ending == <<result, outcome>>
main == <<pc, waited>>
vars == <<task, process, record, reader, late, parent, main, flags, ending>>

Trigger == mode # "execute"
Alive == agent \in {"running", "signalled"}
Over == pc = "done"
NoResult == [ok |-> FALSE, turns |-> <<>>]

Init ==
    /\ provider \in Providers /\ mode \in Modes
    /\ agent = "none" /\ rc = "none" /\ acts = <<>> /\ recorded = 0
    /\ read = 0 /\ ss = FreshState
    /\ late = FALSE /\ orphaned = FALSE /\ watched = FALSE
    /\ pc = "launching" /\ waited = FALSE /\ cut = FALSE /\ timedOut = FALSE
    /\ result = NoResult /\ outcome = "none"

-----------------------------------------------------------------------------
(* The agent, its record and the clock.                                      *)

CallsMade == {i \in DOMAIN acts : acts[i].do = "call"}
OpenCalls == {i \in CallsMade : MainAgent(acts[i]) /\ ~Ended(acts, acts[i].id)}
TaskStarted == \E i \in CallsMade : acts[i].tool = "task"
SaidBye == \E i \in DOMAIN acts : acts[i].do = "bye"

(* What a mode tells apart, and no more.                                     *)
Callable ==
    {<<"native", "none">>}
        \cup (IF Trigger THEN {<<"task", "none">>} ELSE {})
        \cup (IF SkillTarget(mode) THEN {<<"skill", n>> : n \in Name} ELSE {})
        \cup (IF provider = "codex_cli" /\ mode = "skill-" THEN {<<"read", "none">>} ELSE {})
        \cup (IF ToolTarget(mode) THEN {<<"mcp", n>> : n \in Name} ELSE {})

Plain(do) == MakeAct(do, "none", "none", "main", 0)

(* What the agent may do next.  Only copilot says goodbye, and codex's user  *)
(* selects a skill in the prompt.                                            *)
NextActs ==
    IF acts = <<>> THEN {Plain("hello")}
    ELSE {Plain("say")}
        \cup (IF OpenCalls = {} THEN {Plain("stop")} ELSE {})
        \cup {MakeAct("call", c[1], c[2], "main", Cardinality(CallsMade) + 1) : c \in Callable}
        \cup {MakeAct("call", c[1], c[2], "sub", Cardinality(CallsMade) + 1) :
                c \in {d \in Callable : TaskStarted /\ d[1] # "task"}}
        \cup {[acts[i] EXCEPT !.do = "done"] : i \in OpenCalls}
        \cup (IF provider = "copilot_cli" THEN {Plain("bye")} ELSE {})
        \cup (IF provider = "codex_cli" /\ Len(acts) = 1
              THEN {MakeAct("inject", "none", n, "main", 0) : n \in Name} ELSE {})

(* Nothing looks at what it does once invoke is over.                        *)
Working == Alive /\ ~Over

(* What it did before the wait is as good as done in it.                     *)
AgentActs ==
    /\ Working /\ waited
    /\ Len(acts) < MaxActs /\ ~SaidBye
    /\ \E act \in NextActs : acts' = Append(acts, act)
    /\ UNCHANGED <<task, process, recorded, reader, late, parent, main, flags, ending>>

(* An agent that succeeds has said hello and ended its calls.                *)
AgentExits ==
    /\ Working
    /\ agent' = "dead"
    /\ \/ /\ agent = "running" /\ acts # <<>> /\ OpenCalls = {}
          /\ provider = "copilot_cli" => SaidBye
          /\ rc' = "zero"
       \/ rc' = "nonzero"
    /\ UNCHANGED <<task, record, reader, late, parent, main, flags, ending>>

(* When it passes elsewhere it is not noticed before it is looked at.        *)
TimePasses ==
    /\ pc \in {"clock", "waiting"}
    /\ ~late
    /\ late' = TRUE
    /\ UNCHANGED <<task, process, record, reader, parent, main, flags, ending>>

(* drain_stream dispatches one more line; its thread is the last thing       *)
(* started before the wait.                                                  *)
Reads ==
    /\ waited /\ ~Over
    /\ read < Len(acts)
    /\ read' = read + 1
    /\ ss' = Dispatch(provider, mode, ss, acts[read + 1])
    /\ UNCHANGED <<task, process, record, late, parent, main, flags, ending>>

-----------------------------------------------------------------------------
(* The parent of the worker, and codex's watchdog.                           *)

(* SIGKILL of the main process: the pool's workers survive it.  Only         *)
(* codex_cli looks at it, while its agent runs.                              *)
ParentDies ==
    /\ provider = "codex_cli"
    /\ ~orphaned /\ agent # "dead" /\ ~Over
    /\ orphaned' = TRUE
    /\ UNCHANGED <<task, process, record, reader, late, watched, main, flags, ending>>

KillGroup ==
    /\ agent' = "dead"
    /\ rc' = IF Alive THEN "nonzero" ELSE rc

(* The watchdog looks at the agent, never at the parent.                     *)
Watchdog_Mut == FALSE /\ UNCHANGED vars

(* _start_orphan_watchdog: until it is told to stop, it looks whether the    *)
(* parent changed, and then terminates the tree.                             *)
Watchdog ==
    /\ watched /\ orphaned /\ Alive
    /\ pc \notin {"joining", "concluding", "done"}
    /\ KillGroup
    /\ UNCHANGED <<task, record, reader, late, parent, main, flags, ending>>

-----------------------------------------------------------------------------
(* _invoke_once.                                                             *)

(* Popen, and codex's watchdog, which knows the parent that the worker has   *)
(* by then.                                                                  *)
Launch ==
    /\ pc = "launching"
    /\ agent' = "running"
    /\ watched' = (provider = "codex_cli" /\ ~orphaned)
    /\ pc' = "spawned"
    /\ UNCHANGED <<task, rc, record, reader, late, orphaned, waited, flags, ending>>

(* The two threads are started, and the wait begins.                         *)
BeginWait ==
    /\ pc = "spawned"
    /\ pc' = IF Trigger THEN "polling" ELSE "waiting"
    /\ waited' = TRUE
    /\ UNCHANGED <<task, process, record, reader, late, parent, flags, ending>>

(* Before the wait nothing ends the agent: a thread that cannot be started   *)
(* leaves it behind, and so does opencode's stream file that cannot be made. *)
StartFails ==
    /\ pc = "spawned"
    /\ outcome' = "raised"
    /\ pc' = "done"
    /\ UNCHANGED <<task, process, record, reader, late, parent, waited, flags, result>>

Stay == UNCHANGED <<task, process, acts, read, late, parent, waited, ending>>

(* _wait_with_skill_kill looks at the process, the signal, with codex at the *)
(* session file, and at the clock.                                           *)
Poll ==
    /\ pc = "polling"
    /\ pc' = IF Alive THEN "signal" ELSE "joining"
    /\ Stay /\ UNCHANGED <<recorded, ss, flags>>

WaitSignal ==
    /\ pc = "signal"
    /\ cut' = ss.kill
    /\ pc' = IF ss.kill THEN "sigterm"
             ELSE IF provider = "codex_cli" THEN "session" ELSE "clock"
    /\ Stay /\ UNCHANGED <<recorded, ss, timedOut>>

Injected == {i \in DOMAIN acts : acts[i].do = "inject"}

(* The line after it, off by one.                                            *)
SeenLine_Mut == First(Injected) + 1

(* The first line of the session that selects a skill.                       *)
SeenLine == First(Injected)

(* find_session_explicit_skill_invocation, at most every quarter second, and *)
(* whether the task is about a skill or a tool.                              *)
PollSession ==
    /\ pc = "session"
    /\ \/ /\ ss.session /\ ss.skill = "none" /\ Injected # {}
          /\ recorded' = SeenLine
          /\ ss' = [ss EXCEPT !.skill = acts[First(Injected)].name, !.kill = TRUE]
          /\ cut' = TRUE
          /\ pc' = "sigterm"
       \/ pc' = "clock" /\ UNCHANGED <<recorded, ss, cut>>
    /\ Stay /\ UNCHANGED timedOut

(* The deadline is compared the wrong way round.                             *)
CheckClock_Mut ==
    /\ pc = "clock"
    /\ timedOut' = ~late
    /\ pc' = IF late THEN "polling" ELSE "sigterm"
    /\ Stay /\ UNCHANGED <<recorded, ss, cut>>

CheckClock ==
    /\ pc = "clock"
    /\ timedOut' = late
    /\ pc' = IF late THEN "sigterm" ELSE "polling"
    /\ Stay /\ UNCHANGED <<recorded, ss, cut>>

(* The deadline is forgotten.                                                *)
Wait_Mut ==
    /\ pc = "waiting" /\ ~Alive
    /\ pc' = "joining"
    /\ Stay /\ UNCHANGED <<recorded, ss, flags>>

(* wait_or_terminate, for a task that is not a trigger.                      *)
Wait ==
    /\ pc = "waiting"
    /\ \/ ~Alive /\ pc' = "joining" /\ UNCHANGED timedOut
       \/ Alive /\ late /\ timedOut' = TRUE /\ pc' = "sigterm"
    /\ Stay /\ UNCHANGED <<recorded, ss, cut>>

(* terminate_tree: SIGTERM, a grace period, SIGKILL.                         *)
Terminate ==
    /\ pc = "sigterm"
    /\ agent' = IF agent = "running" THEN "signalled" ELSE agent
    /\ pc' = "grace"
    /\ UNCHANGED <<task, rc, record, reader, late, parent, waited, flags, ending>>

(* No SIGKILL for an agent that outlives the grace period.                   *)
Grace_Mut ==
    /\ pc = "grace"
    /\ pc' = "joining"
    /\ Stay /\ UNCHANGED <<recorded, ss, flags>>

Grace ==
    /\ pc = "grace"
    /\ IF Alive THEN KillGroup ELSE UNCHANGED process
    /\ pc' = "joining"
    /\ UNCHANGED <<task, record, reader, late, parent, waited, flags, ending>>

(* The handler around the wait kills the tree without a grace period;        *)
(* wait_or_terminate does not guard its own call of terminate_tree.          *)
Guarded ==
    IF Trigger THEN pc \in {"polling", "signal", "session", "clock", "sigterm", "grace"}
    ELSE pc = "waiting"

(* Ctrl+C.                                                                   *)
Interrupt ==
    /\ pc \notin {"launching", "done"}
    /\ IF Guarded THEN KillGroup ELSE UNCHANGED process
    /\ outcome' = "interrupted"
    /\ pc' = "done"
    /\ UNCHANGED <<task, record, reader, late, parent, waited, flags, result>>

(* The reader has come to the end of the pipe.                               *)
Join ==
    /\ pc = "joining"
    /\ read = Len(acts)
    /\ pc' = "concluding"
    /\ Stay /\ UNCHANGED <<recorded, ss, flags>>

-----------------------------------------------------------------------------
(* What is made of the attempt.                                              *)

(* The acts that the record may have: all of those of an agent that exited   *)
(* in good order.                                                            *)
Records ==
    {SubSeq(acts, 1, n) : n \in IF rc = "zero" THEN {Len(acts)} ELSE recorded..Len(acts)}

(* build_run_result.  codex's subagent may not have written its session      *)
(* file; an error of opencode's database reads as no record.                 *)
Results(skill, tool) ==
    CASE provider = "codex_cli" ->
            {CodexBuild(ss.session, file, saved, acts, skill, tool, cut) :
                file \in Records, saved \in {TRUE, rc = "zero"}}
      [] provider = "opencode" ->
            {OpenCodeBuild(parts, skill, tool) : parts \in Records \cup {<<>>}}
      [] provider = "copilot_cli" -> {CopilotBuild(acts, skill)}

Invoked(turns) == {inv.skill : inv \in Skills(turns)}

(* first_skill_invocation: a turn comes before the turns of its subagents.   *)
FirstSkill(turns) ==
    LET having == {i \in DOMAIN turns : TurnSkills(turns[i]) # {}}
        turn   == turns[First(having)]
        subs   == {j \in DOMAIN turn.blocks : turn.blocks[j].sub.skills # <<>>}
    IN  IF having = {} THEN "none"
        ELSE IF turn.skills # <<>> THEN turn.skills[1].skill
        ELSE turn.blocks[First(subs)].sub.skills[1].skill

McpCalls(turns) == {c \in Calls(turns) : IsMcp(c)}
McpNames(turns) == {c.name : c \in McpCalls(turns)}

(* The first MCP call: a call comes before those of the subagent it started. *)
FirstMcp(turns) ==
    LET OfBlock(b) == {c \in BlockCalls(b) : IsMcp(c)}
        OfTurn(t)  == {j \in DOMAIN t.blocks : OfBlock(t.blocks[j]) # {}}
        having     == {i \in DOMAIN turns : OfTurn(turns[i]) # {}}
        turn       == turns[First(having)]
        block      == turn.blocks[First(OfTurn(turn))]
        inner      == {j \in DOMAIN block.sub.blocks : IsMcp(block.sub.blocks[j])}
    IN  IF having = {} THEN "none"
        ELSE IF IsMcp(block) THEN block.name
        ELSE block.sub.blocks[First(inner)].name

(* first_skill, skill_not_invoked, first_mcp_tool, mcp_tool_not_called.      *)
Passes(turns) ==
    CASE mode = "skill+" -> FirstSkill(turns) = "target"
      [] mode = "skill-" -> "target" \notin Invoked(turns)
      [] mode = "tool+"  -> FirstMcp(turns) = "target"
      [] mode = "tool-"  -> "target" \notin McpNames(turns)
      [] mode = "execute" -> TRUE

Grade(turns) ==
    IF mode = "execute" THEN "graded" ELSE IF Passes(turns) THEN "pass" ELSE "fail"

(* A negative case is settled by a timeout as well.                          *)
Settled_Mut(res) == res.ok /\ ToolCalls(provider, res.turns) # {} /\ mode # "execute"

(* pool._settled_on_timeout, which sees the skills of the main agent.        *)
Settled(res) ==
    /\ res.ok
    /\ ToolCalls(provider, res.turns) # {}
    /\ \/ mode = "tool+" /\ McpCalls(res.turns) = {}
       \/ mode = "skill+" /\ \A i \in DOMAIN res.turns : res.turns[i].skills = <<>>

(* A partial result is looked for only in a session that has a name, which   *)
(* codex asks for when it opens the session file.                            *)
Partials ==
    IF ss.session THEN Results("none", "none") ELSE {NoResult}

TimedOut(res) ==
    /\ result' = res
    /\ outcome' = IF Settled(res) THEN Grade(res.turns) ELSE "timeout"

Aborts == result' = NoResult /\ outcome' = "abort"

Returns(res) ==
    IF res.ok THEN result' = res /\ outcome' = Grade(res.turns) ELSE Aborts

(* The end of _invoke_once and what _execute_attempt makes of it.            *)
Conclude ==
    /\ pc = "concluding"
    /\ \/ timedOut /\ \E res \in Partials : TimedOut(res)
       \/ ~timedOut /\ rc = "nonzero" /\ ~cut /\ Aborts
       \/ /\ ~timedOut /\ (rc = "zero" \/ cut)
          /\ IF provider = "opencode" /\ ~ss.session THEN Aborts
             ELSE \E res \in Results(ss.skill, ss.tool) : Returns(res)
    /\ pc' = "done"
    /\ UNCHANGED <<task, process, record, reader, late, parent, waited, flags>>

-----------------------------------------------------------------------------
Agent == AgentActs \/ AgentExits
(* The steps of the main thread up to the end of the agent.                  *)
Waits ==
    \/ Launch \/ BeginWait \/ Poll \/ WaitSignal \/ PollSession \/ CheckClock \/ Wait
    \/ Terminate \/ Grace \/ Join

Next ==
    \/ Agent \/ TimePasses \/ Reads
    \/ ParentDies \/ Watchdog
    \/ Waits \/ StartFails \/ Interrupt \/ Conclude

(* The threads of a worker are scheduled; the agent need never do anything,  *)
(* and the timeout may be as far off as one likes.                           *)
Fairness == WF_vars(Waits) /\ WF_vars(Reads) /\ WF_vars(Watchdog)

Spec == Init /\ [][Next]_vars /\ Fairness

-----------------------------------------------------------------------------
(* The types of the variables.                                               *)
TypeOK ==
    /\ provider \in Providers /\ mode \in Modes
    /\ agent \in {"none", "running", "signalled", "dead"}
    /\ rc \in {"none", "zero", "nonzero"}
    /\ acts \in Seq(Act) /\ Len(acts) <= MaxActs
    /\ recorded \in 0..Len(acts) /\ read \in 0..Len(acts)
    /\ late \in BOOLEAN /\ orphaned \in BOOLEAN /\ watched \in BOOLEAN
    /\ ss \in StreamState
    /\ pc \in {"launching", "spawned", "polling", "signal", "session", "clock", "waiting",
              "sigterm", "grace", "joining", "concluding", "done"}
    /\ waited \in BOOLEAN /\ cut \in BOOLEAN /\ timedOut \in BOOLEAN
    /\ result.ok \in BOOLEAN
    /\ outcome \in {"none", "raised", "interrupted", "timeout", "abort", "graded", "pass", "fail"}

(* When invoke is over its agent is dead: no attempt leaves a harness        *)
(* running beside the attempts that follow.  The exceptions are an exception *)
(* before the wait, and an execute task that was interrupted in the grace    *)
(* period: wait_or_terminate leaves it.                                      *)
HarnessGone ==
    pc = "done" =>
        \/ ~Alive
        \/ outcome \in {"raised", "interrupted"} /\ ~waited
        \/ outcome = "interrupted" /\ mode = "execute" /\ timedOut

(* codex loses a skill of the stream when the session has the prompt only.   *)
LostByCodex == provider = "codex_cli" /\ Assistants(result.turns) = {}

(* What the reader detected is in the trajectory that is graded, whatever    *)
(* was on disk by then and whichever thread or poll detected it.             *)
DetectedIsGraded ==
    outcome \in {"pass", "fail"} /\ ~timedOut =>
        /\ ss.skill # "none" => ss.skill \in Invoked(result.turns) \/ LostByCodex
        /\ ss.tool # "none" => ss.tool \in McpNames(result.turns)

(* A negative skill case passes only if no use of the skill by the main      *)
(* agent was on the stream, up to the last line that was read; of opencode   *)
(* a sibling may have taken its place in the StreamState.                    *)
NegativePassClean ==
    mode = "skill-" /\ outcome = "pass" =>
        \/ LostByCodex
        \/ provider = "opencode" /\ ss.skill = "sibling"
        \/ \A i \in 1..read : acts[i].do = "done" /\ MainAgent(acts[i]) =>
                               ~(acts[i].tool = "skill" /\ acts[i].name = "target")

(* An attempt that timed out is graded only if its case is positive, and     *)
(* then fails it, but for codex's subagents: the skills of those are graded  *)
(* and do not keep a timeout from being settled.                             *)
TimeoutFails ==
    timedOut /\ outcome \in {"pass", "fail"} =>
        /\ mode \in {"skill+", "tool+"}
        /\ outcome = "pass" => provider = "codex_cli" /\ \E i \in 1..read : Subagent(acts[i])

(* What invoke promises the worker: a graded attempt is a result, or a       *)
(* timeout that carries one.  None of these providers tells a rate limit, so *)
(* with_retries calls _invoke_once once.                                     *)
Contract ==
    INSTANCE InvokeContract WITH
        MaxRetries <- 0,
        agent <- IF Alive THEN "running" ELSE agent,
        tries <- IF pc = "launching" THEN 0 ELSE 1,
        ended <- IF outcome \in {"pass", "fail"} THEN "graded" ELSE outcome

(* The attempt runs one process under one deadline and ends once, with that  *)
(* process, and as a timeout only if the deadline has passed.                *)
ImplementsContract == Contract!ContractSpec

(* Once its time has passed an attempt comes to its end, whatever its agent  *)
(* does.                                                                     *)
AttemptEnds == late ~> pc \in {"concluding", "done"}

(* codex's agent is stopped if the parent of its worker dies while it runs.  *)
OrphanStops == orphaned /\ watched ~> ~Alive \/ Over
=============================================================================
