--------------------------- MODULE CliInvokeProofs ---------------------------
(***************************************************************************)
(* Proofs about CliInvoke, for each of its providers and kinds of task and *)
(* an agent that does as much as it likes.                                 *)
(***************************************************************************)
EXTENDS CliInvoke, CliTranscriptsProofs, FiniteSetTheorems

USE DEF task, process, record, reader, parent, main, flags, ending

(* Where invoke is says whether the agent lives, and what led there.         *)
Living ==
    /\ pc \in {"launching", "spawned", "polling", "signal", "session", "clock", "waiting",
              "sigterm", "grace", "joining", "concluding", "done"}
    /\ agent \in {"none", "running", "signalled", "dead"}
    /\ agent = "none" <=> pc = "launching"
    /\ pc \in {"joining", "concluding"} => ~Alive
    /\ pc \in {"polling", "signal", "session", "clock"} => Trigger
    /\ pc = "waiting" => ~Trigger
    /\ pc \in {"launching", "spawned"} => ~waited /\ ~timedOut
    /\ pc \in {"sigterm", "grace"} => Trigger \/ timedOut
    /\ outcome # "none" => pc = "done"

(* A wait ends early because a trigger case is settled, or late because its  *)
(* time is up, and never for both reasons.                                   *)
OneReason ==
    /\ cut => Trigger /\ ss.kill /\ ~timedOut
    /\ timedOut => late
    /\ pc \in {"launching", "spawned", "polling", "signal", "session", "clock", "waiting"} =>
          ~cut /\ ~timedOut

(* What a timeout may be graded: a positive case, and of those about a tool  *)
(* only as a failure.                                                        *)
TimeoutKeepsNegatives ==
    timedOut /\ outcome \in {"pass", "fail"} =>
        mode \in {"skill+", "tool+"} /\ (mode = "tool+" => outcome = "fail")

-----------------------------------------------------------------------------
(* Next, one action after another. *)

LEMMA InitLiving == Init => Living /\ HarnessGone
BY DEF Init, Living, HarnessGone, Alive

(* The agent and the world around it move no step of _invoke_once.           *)
LEMMA AroundLiving ==
    ASSUME Living, HarnessGone,
           AgentActs \/ AgentExits \/ TimePasses \/ Reads \/ ParentDies \/ Watchdog
                \/ UNCHANGED vars
    PROVE  Living' /\ HarnessGone'
<1> USE DEF Living, HarnessGone, Alive, Trigger, Over
<1>1. CASE AgentActs
  BY <1>1 DEF AgentActs, Working
<1>2. CASE AgentExits
  BY <1>2 DEF AgentExits, Working
<1>3. CASE TimePasses
  BY <1>3 DEF TimePasses
<1>4. CASE Reads
  BY <1>4 DEF Reads
<1>5. CASE ParentDies
  BY <1>5 DEF ParentDies
<1>6. CASE Watchdog
  BY <1>6 DEF Watchdog, KillGroup
<1>7. CASE UNCHANGED vars
  BY <1>7 DEF vars
<1> QED
  BY <1>1, <1>2, <1>3, <1>4, <1>5, <1>6, <1>7

LEMMA WaitsLiving ==
    ASSUME Living, HarnessGone, Waits
    PROVE  Living' /\ HarnessGone'
<1> USE DEF Living, HarnessGone, Alive, Trigger, Over, Stay
<1>1. CASE Launch
  BY <1>1 DEF Launch
<1>2. CASE Poll
  BY <1>2 DEF Poll
<1>3. CASE WaitSignal
  BY <1>3 DEF WaitSignal
<1>4. CASE PollSession
  BY <1>4 DEF PollSession
<1>5. CASE CheckClock
  BY <1>5 DEF CheckClock
<1>6. CASE Wait
  BY <1>6 DEF Wait
<1>7. CASE Terminate
  BY <1>7 DEF Terminate
<1>8. CASE Grace
  BY <1>8 DEF Grace, KillGroup
<1>9. CASE Join
  BY <1>9 DEF Join
<1>10. CASE BeginWait
  BY <1>10 DEF BeginWait
<1> QED
  BY <1>10, <1>1, <1>2, <1>3, <1>4, <1>5, <1>6, <1>7, <1>8, <1>9 DEF Waits

(* The end of invoke: only what comes before the wait, or an interrupt, may  *)
(* leave an agent.                                                           *)
LEMMA EndLiving ==
    ASSUME Living, HarnessGone, StartFails \/ Interrupt \/ Conclude
    PROVE  Living' /\ HarnessGone'
<1> USE DEF Living, HarnessGone, Alive, Trigger, Over
<1>3. CASE StartFails
  BY <1>3 DEF StartFails
<1>1. CASE Interrupt
  <2>1. CASE Guarded
    BY <1>1, <2>1 DEF Interrupt, Guarded, KillGroup
  <2>2. CASE ~Guarded
    BY <1>1, <2>2 DEF Interrupt, Guarded
  <2> QED
    BY <2>1, <2>2
<1>2. CASE Conclude
  <2>1. pc = "concluding" /\ pc' = "done" /\ UNCHANGED <<agent, mode>>
    BY <1>2 DEF Conclude
  <2> QED
    BY <2>1
<1> QED
  BY <1>1, <1>2, <1>3

LEMMA LivingInductive == Spec => [](Living /\ HarnessGone)
<1>1. Living /\ HarnessGone /\ [Next]_vars => (Living /\ HarnessGone)'
  BY AroundLiving, WaitsLiving, EndLiving DEF Next, Agent
<1> QED
  BY InitLiving, <1>1, PTL DEF Spec

(* When invoke is over its agent is dead, but for an exception before the    *)
(* wait and an execute task that was interrupted in the grace period after   *)
(* its timeout.                                                              *)
THEOREM NoAgentLeft == Spec => []HarnessGone
BY LivingInductive, PTL

-----------------------------------------------------------------------------
(* Types. *)

(* What the agent may do next is an act.                                     *)
LEMMA NextActsType ==
    ASSUME acts \in Seq(Act), NEW act \in NextActs
    PROVE  act \in Act
<1>1. Cardinality(CallsMade) + 1 \in Nat
  <2>1. IsFiniteSet(DOMAIN acts)
    BY FS_Interval
  <2>2. IsFiniteSet(CallsMade)
    BY <2>1, FS_Subset DEF CallsMade
  <2> QED
    BY <2>2, FS_CardinalityType
<1> DEFINE n == Cardinality(CallsMade) + 1
<1> HIDE DEF n
<1>2. \A do \in {"hello", "say", "stop", "bye"} : Plain(do) \in Act
  BY DEF Plain, MakeAct, Act, By
<1>3. \A c \in Callable, by \in By : MakeAct("call", c[1], c[2], by, n) \in Act
  <2>1. \A c \in Callable : c[1] \in Tool \cup {"none"} /\ c[2] \in Name \cup {"none"}
    BY DEF Callable, Tool
  <2> QED
    BY <1>1, <2>1 DEF MakeAct, Act, n
<1>4. \A i \in OpenCalls : [acts[i] EXCEPT !.do = "done"] \in Act
  <2>1. \A i \in OpenCalls : acts[i] \in Act
    BY DEF OpenCalls, CallsMade
  <2> QED
    BY <2>1 DEF Act
<1>5. \A name \in Name : MakeAct("inject", "none", name, "main", 0) \in Act
  BY DEF MakeAct, Act, By
<1> QED
  BY <1>2, <1>3, <1>4, <1>5 DEF NextActs, n, By

(* Every line leaves a StreamState, and none takes the kill signal back.     *)
LEMMA DispatchType ==
    ASSUME provider \in Provider, ss \in StreamState, NEW act \in Act
    PROVE  /\ Dispatch(provider, mode, ss, act) \in StreamState
           /\ ss.kill => Dispatch(provider, mode, ss, act).kill
<1> USE DEF StreamState, Act
<1>1. CASE ~Streamed(provider, act)
  BY <1>1 DEF Dispatch
<1>2. CASE Streamed(provider, act) /\ provider = "codex_cli"
  <2>1. Dispatch(provider, mode, ss, act) = CodexDispatch(mode, ss, act)
    BY <1>2 DEF Dispatch
  <2> QED
    BY <2>1 DEF CodexDispatch
<1>3. CASE Streamed(provider, act) /\ provider = "opencode"
  <2>1. Dispatch(provider, mode, ss, act) = OpenCodeDispatch(mode, ss, act)
    BY <1>3 DEF Dispatch
  <2> QED
    BY <2>1 DEF OpenCodeDispatch
<1>4. CASE Streamed(provider, act) /\ provider = "copilot_cli"
  <2>1. Dispatch(provider, mode, ss, act) = CopilotDispatch(mode, ss, act)
    BY <1>4 DEF Dispatch
  <2> QED
    BY <2>1 DEF CopilotDispatch
<1> QED
  BY <1>1, <1>2, <1>3, <1>4 DEF Provider

LEMMA InitType == Init => TypeOK
<1> SUFFICES ASSUME Init PROVE TypeOK
  OBVIOUS
<1>1. acts \in Seq(Act) /\ Len(acts) = 0
  BY DEF Init
<1>2. ss \in StreamState
  BY DEF Init, FreshState, StreamState
<1>3. result.ok \in BOOLEAN
  BY DEF Init, NoResult
<1>4. recorded = 0 /\ read = 0 /\ 0 \in 0..Len(acts) /\ Len(acts) <= MaxActs
  BY <1>1, CliAssumption DEF Init
<1> QED
  BY <1>1, <1>2, <1>3, <1>4 DEF Init, TypeOK

LEMMA AgentType ==
    ASSUME TypeOK, AgentActs \/ AgentExits \/ TimePasses \/ ParentDies \/ Watchdog
    PROVE  TypeOK'
<1> USE DEF TypeOK
<1>1. CASE AgentActs
  <2>1. PICK act \in NextActs : acts' = Append(acts, act)
    BY <1>1 DEF AgentActs
  <2>2. act \in Act
    BY NextActsType
  <2>3. acts' \in Seq(Act) /\ Len(acts') = Len(acts) + 1 /\ Len(acts) \in Nat
    BY <2>1, <2>2
  <2>4. Len(acts') <= MaxActs /\ recorded' \in 0..Len(acts') /\ read' \in 0..Len(acts')
    BY <1>1, <2>3, CliAssumption DEF AgentActs
  <2> QED
    BY <1>1, <2>3, <2>4 DEF AgentActs
<1>2. CASE AgentExits
  BY <1>2 DEF AgentExits
<1>3. CASE TimePasses
  BY <1>3 DEF TimePasses
<1>4. CASE ParentDies
  BY <1>4 DEF ParentDies
<1>5. CASE Watchdog
  BY <1>5 DEF Watchdog, KillGroup
<1> QED
  BY <1>1, <1>2, <1>3, <1>4, <1>5

LEMMA ReadsType ==
    ASSUME TypeOK, Reads
    PROVE  TypeOK'
<1> USE DEF TypeOK
<1>1. read + 1 \in 1..Len(acts)
  BY DEF Reads
<1>2. acts[read + 1] \in Act
  BY <1>1
<1>3. ss' \in StreamState
  BY <1>2, DispatchType, CliAssumption DEF Reads
<1> QED
  BY <1>1, <1>3 DEF Reads

LEMMA WaitsType ==
    ASSUME TypeOK, Waits
    PROVE  TypeOK'
<1> USE DEF TypeOK, Stay
<1>1. CASE Launch
  <2>1. watched' \in BOOLEAN
    BY <1>1 DEF Launch
  <2> QED
    BY <1>1, <2>1 DEF Launch
<1>2. CASE Poll
  BY <1>2 DEF Poll
<1>3. CASE WaitSignal
  <2>1. ss.kill \in BOOLEAN
    BY DEF StreamState
  <2> QED
    BY <1>3, <2>1 DEF WaitSignal
<1>4. CASE PollSession
  <2>1. CASE pc' = "clock" /\ UNCHANGED <<recorded, ss, cut>>
    BY <1>4, <2>1 DEF PollSession
  <2>2. CASE /\ Injected # {} /\ recorded' = SeenLine /\ cut' = TRUE /\ pc' = "sigterm"
             /\ ss' = [ss EXCEPT !.skill = acts[First(Injected)].name, !.kill = TRUE]
    <3>1. First(Injected) \in Injected
      <4>1. Injected \subseteq Nat
        BY DEF Injected
      <4> QED
        BY <2>2, <4>1, FirstIn
    <3>2. First(Injected) \in 1..Len(acts)
      BY <3>1 DEF Injected
    <3>3. acts[First(Injected)] \in Act
      BY <3>2
    <3>4. ss' \in StreamState
      BY <2>2, <3>3 DEF StreamState, Act
    <3>5. recorded' \in 0..Len(acts)
      BY <2>2, <3>2 DEF SeenLine
    <3> QED
      BY <1>4, <2>2, <3>4, <3>5 DEF PollSession
  <2> QED
    BY <1>4, <2>1, <2>2 DEF PollSession
<1>5. CASE CheckClock
  BY <1>5 DEF CheckClock
<1>6. CASE Wait
  <2>1. timedOut' \in BOOLEAN /\ pc' \in {"joining", "sigterm"}
    BY <1>6 DEF Wait
  <2> QED
    BY <1>6, <2>1 DEF Wait
<1>7. CASE Terminate
  BY <1>7 DEF Terminate
<1>8. CASE Grace
  BY <1>8 DEF Grace, KillGroup
<1>9. CASE Join
  BY <1>9 DEF Join
<1>10. CASE BeginWait
  BY <1>10 DEF BeginWait
<1> QED
  BY <1>10, <1>1, <1>2, <1>3, <1>4, <1>5, <1>6, <1>7, <1>8, <1>9 DEF Waits

(* Whatever build_run_result is given, it says whether there is a result.    *)
LEMMA ResultsType ==
    ASSUME TypeOK, NEW skill, NEW tool, NEW res \in Results(skill, tool)
    PROVE  res.ok \in BOOLEAN
<1>1. CASE provider = "codex_cli"
  <2> DEFINE Saved == {TRUE, rc = "zero"}
             Build(file, saved) == CodexBuild(ss.session, file, saved, acts, skill, tool, cut)
  <2>0. Results(skill, tool) = {Build(file, saved) : file \in Records, saved \in Saved}
    BY <1>1 DEF Results
  <2> HIDE DEF Saved, Build
  <2>1. PICK file \in Records, saved \in Saved : res = Build(file, saved)
    BY <2>0, SMT
  <2>2. Build(file, saved).ok \in {TRUE, cut}
    BY DEF CodexBuild, Build
  <2> QED
    BY <2>1, <2>2 DEF TypeOK
<1>2. CASE provider = "opencode"
  <2>1. PICK parts \in Records \cup {<<>>} : res = OpenCodeBuild(parts, skill, tool)
    BY <1>2 DEF Results
  <2> QED
    BY <2>1 DEF OpenCodeBuild
<1>3. CASE provider = "copilot_cli"
  <2>1. res = CopilotBuild(acts, skill)
    BY <1>3 DEF Results
  <2> QED
    BY <2>1 DEF CopilotBuild
<1> QED
  BY <1>1, <1>2, <1>3, CliAssumption DEF TypeOK, Provider

LEMMA GradeType ==
    ASSUME NEW turns
    PROVE  Grade(turns) \in {"graded", "pass", "fail"}
BY DEF Grade

LEMMA EndType ==
    ASSUME TypeOK, StartFails \/ Interrupt \/ Conclude
    PROVE  TypeOK'
<1> USE DEF TypeOK
<1>1. CASE Interrupt
  BY <1>1 DEF Interrupt, KillGroup
<1>3. CASE StartFails
  BY <1>3 DEF StartFails
<1>2. CASE Conclude
  <2>1. NoResult.ok \in BOOLEAN
    BY DEF NoResult
  <2>2. result'.ok \in BOOLEAN /\ outcome' \in {"timeout", "abort", "graded", "pass", "fail"}
    <3>1. CASE \E res \in Partials : TimedOut(res)
      <4>1. PICK res \in Partials : TimedOut(res)
        BY <3>1
      <4>2. res.ok \in BOOLEAN
        BY <2>1, ResultsType DEF Partials
      <4> QED
        BY <4>1, <4>2, GradeType DEF TimedOut
    <3>2. CASE Aborts
      BY <2>1, <3>2 DEF Aborts
    <3>3. CASE \E res \in Results(ss.skill, ss.tool) : Returns(res)
      <4>1. PICK res \in Results(ss.skill, ss.tool) : Returns(res)
        BY <3>3
      <4> QED
        BY <2>1, <4>1, ResultsType, GradeType DEF Returns, Aborts
    <3> QED
      BY <1>2, <3>1, <3>2, <3>3 DEF Conclude
  <2> QED
    BY <1>2, <2>2 DEF Conclude
<1> QED
  BY <1>1, <1>2, <1>3

(* The variables keep their types, for an agent that does as much as it      *)
(* likes: what it writes is dispatched into a StreamState, line by line.     *)
THEOREM TypeCorrect == Spec => []TypeOK
<1>1. TypeOK /\ UNCHANGED vars => TypeOK'
  BY DEF TypeOK, vars
<1>2. TypeOK /\ [Next]_vars => TypeOK'
  BY <1>1, AgentType, ReadsType, WaitsType, EndType DEF Next, Agent
<1> QED
  BY InitType, <1>2, PTL DEF Spec

-----------------------------------------------------------------------------
(* How a wait ends. *)

LEMMA AroundReason ==
    ASSUME TypeOK, OneReason,
           AgentActs \/ AgentExits \/ TimePasses \/ Reads \/ ParentDies \/ Watchdog
                \/ UNCHANGED vars
    PROVE  OneReason'
<1> USE DEF OneReason, Trigger
<1>1. CASE Reads
  <2>1. acts[read + 1] \in Act
    BY <1>1 DEF Reads, TypeOK
  <2>2. ss.kill => ss'.kill
    BY <1>1, <2>1, DispatchType, CliAssumption DEF Reads, TypeOK
  <2> QED
    BY <1>1, <2>2 DEF Reads
<1>2. CASE UNCHANGED vars
  BY <1>2 DEF vars
<1>3. CASE TimePasses
  BY <1>3 DEF TimePasses
<1>4. CASE AgentActs \/ AgentExits \/ ParentDies \/ Watchdog
  BY <1>4 DEF AgentActs, AgentExits, ParentDies, Watchdog
<1> QED
  BY <1>1, <1>2, <1>3, <1>4

LEMMA WaitsReason ==
    ASSUME TypeOK, Living, OneReason, Waits
    PROVE  OneReason'
<1> USE DEF OneReason, Trigger, Stay
<1>1. CASE Launch \/ BeginWait \/ Poll \/ Terminate \/ Grace \/ Join
  BY <1>1 DEF Launch, BeginWait, Poll, Terminate, Grace, Join
<1>2. CASE WaitSignal
  BY <1>2 DEF WaitSignal, Living
<1>3. CASE PollSession
  <2>1. CASE pc' = "clock" /\ UNCHANGED <<recorded, ss, cut>>
    BY <1>3, <2>1 DEF PollSession
  <2>2. CASE ss' = [ss EXCEPT !.skill = acts[First(Injected)].name, !.kill = TRUE]
               /\ cut' = TRUE /\ pc' = "sigterm"
    <3>1. ss'.kill
      BY <2>2 DEF TypeOK, StreamState
    <3> QED
      BY <1>3, <2>2, <3>1 DEF PollSession, Living
  <2> QED
    BY <1>3, <2>1, <2>2 DEF PollSession
<1>4. CASE CheckClock
  BY <1>4 DEF CheckClock
<1>5. CASE Wait
  BY <1>5 DEF Wait
<1> QED
  BY <1>1, <1>2, <1>3, <1>4, <1>5 DEF Waits

(* A wait ends early because its trigger case was settled, by a line or by   *)
(* the session file, or late because its time was up, never for both: the    *)
(* signal is looked at before the clock, and nothing takes it back.          *)
THEOREM CutOrTimedOut == Spec => []OneReason
<1>1. Init => OneReason
  BY DEF Init, OneReason
<1>2. OneReason /\ (StartFails \/ Interrupt \/ Conclude) => OneReason'
  BY DEF OneReason, StartFails, Interrupt, Conclude, Trigger
<1>3. TypeOK /\ Living /\ OneReason /\ [Next]_vars => OneReason'
  BY <1>2, AroundReason, WaitsReason DEF Next, Agent
<1> QED
  BY <1>1, <1>3, TypeCorrect, LivingInductive, PTL DEF Spec

(* The first MCP call of none.                                               *)
LEMMA NoMcpCall ==
    ASSUME NEW turns, McpCalls(turns) = {}
    PROVE  FirstMcp(turns) = "none"
<1> DEFINE OfBlock(b) == {c \in BlockCalls(b) : IsMcp(c)}
           OfTurn(t)  == {j \in DOMAIN t.blocks : OfBlock(t.blocks[j]) # {}}
           having     == {i \in DOMAIN turns : OfTurn(turns[i]) # {}}
<1>1. having = {}
  BY DEF McpCalls, Calls, TurnCalls
<1> QED
  BY <1>1 DEF FirstMcp

(* No timeout is graded for a negative case, and none about a tool passes:   *)
(* its partial trajectory has no MCP call, or the timeout stands.            *)
THEOREM TimeoutsKeepNegatives == Spec => []TimeoutKeepsNegatives
<1>1. Init => TimeoutKeepsNegatives
  BY DEF Init, TimeoutKeepsNegatives
<1>2. ASSUME Living, TimeoutKeepsNegatives, Conclude
      PROVE  TimeoutKeepsNegatives'
  <2>1. UNCHANGED <<mode, timedOut>>
    BY <1>2 DEF Conclude
  <2>2. CASE ~timedOut
    BY <2>1, <2>2 DEF TimeoutKeepsNegatives
  <2>3. CASE timedOut
    <3>1. PICK res \in Partials : TimedOut(res)
      BY <1>2, <2>3 DEF Conclude
    <3>2. CASE ~Settled(res)
      BY <3>1, <3>2 DEF TimedOut, TimeoutKeepsNegatives
    <3>3. CASE Settled(res)
      <4>1. mode \in {"skill+", "tool+"}
        BY <3>3 DEF Settled
      <4>2. ASSUME mode = "tool+" PROVE Grade(res.turns) = "fail"
        <5>1. McpCalls(res.turns) = {}
          BY <3>3, <4>2 DEF Settled
        <5>2. FirstMcp(res.turns) = "none"
          BY <5>1, NoMcpCall
        <5>3. ~Passes(res.turns)
          BY <4>2, <5>2 DEF Passes
        <5> QED
          BY <4>2, <5>3 DEF Grade
      <4> QED
        BY <2>1, <3>1, <3>3, <4>1, <4>2 DEF TimedOut, TimeoutKeepsNegatives
    <3> QED
      BY <3>2, <3>3
  <2> QED
    BY <2>2, <2>3
<1>3. ASSUME Living, TimeoutKeepsNegatives, [Next]_vars, ~Conclude
      PROVE  TimeoutKeepsNegatives'
  <2>1. UNCHANGED mode
    BY <1>3 DEF Next, Agent, Waits, vars, AgentActs, AgentExits, TimePasses, Reads, ParentDies,
       Watchdog, Launch, BeginWait, Poll, WaitSignal, PollSession, CheckClock, Wait, Terminate, Grace, Join,
       Stay, StartFails, Interrupt
  <2>2. CASE StartFails \/ Interrupt
    BY <2>2 DEF StartFails, Interrupt, TimeoutKeepsNegatives
  <2>3. CASE UNCHANGED <<flags, outcome>>
    BY <1>3, <2>1, <2>3 DEF TimeoutKeepsNegatives
  <2>4. CASE Waits
    <3>1. outcome' = outcome /\ pc # "done"
      BY <2>4 DEF Waits, Stay, Launch, BeginWait, Poll, WaitSignal, PollSession, CheckClock, Wait,
         Terminate, Grace, Join
    <3> QED
      BY <1>3, <3>1 DEF Living, TimeoutKeepsNegatives
  <2> QED
    BY <1>3, <2>2, <2>3, <2>4 DEF Next, Agent, vars, AgentActs, AgentExits, TimePasses, Reads,
       ParentDies, Watchdog
<1>4. Living /\ TimeoutKeepsNegatives /\ [Next]_vars => TimeoutKeepsNegatives'
  BY <1>2, <1>3
<1> QED
  BY <1>1, <1>4, LivingInductive, PTL DEF Spec

-----------------------------------------------------------------------------
(* What the agent did, and what was noted of it. *)

(* A use of a skill names it, subagents work for a task of the main agent,   *)
(* and a call that is over was made by it.                                   *)
Shape ==
    /\ \A i \in DOMAIN acts : acts[i].tool = "skill" => acts[i].name # "none"
    /\ \A i \in DOMAIN acts : acts[i].tool = "task" => MainAgent(acts[i])
    /\ \A i \in DOMAIN acts : Subagent(acts[i]) =>
          \E j \in DOMAIN acts : MainAgent(acts[j]) /\ acts[j].do = "call"
    /\ \A i \in DOMAIN acts : acts[i].do = "done" =>
          \E j \in 1..i : acts[j] = [acts[i] EXCEPT !.do = "call"] /\ MainAgent(acts[j])

UsesTarget(act) == act.do = "call" /\ act.tool = "skill" /\ act.name = "target"
UsedTarget(act) ==
    MainAgent(act) /\ act.do = "done" /\ act.tool = "skill" /\ act.name = "target"

(* What the reader makes of the lines it is past: copilot's notes the target *)
(* skill alone, and never a tool; opencode's the last skill.                 *)
Noted ==
    /\ provider = "copilot_cli" =>
          /\ ss.tool = "none"
          /\ ss.skill # "none" =>
                ss.skill = "target" /\ \E i \in 1..read : UsesTarget(acts[i])
          /\ SkillTarget(mode) /\ (\E i \in 1..read : UsesTarget(acts[i])) => ss.skill = "target"
    /\ provider = "opencode" /\ SkillTarget(mode) /\ (\E i \in 1..read : UsedTarget(acts[i]))
          => ss.skill # "none"

(* The reader is at the end of the pipe when the attempt is concluded, and   *)
(* only codex looks at a session file.                                       *)
Joined ==
    /\ pc = "concluding" => read = Len(acts)
    /\ pc = "session" => provider = "codex_cli"

Noting == Shape /\ Noted /\ Joined

LEMMA InitNoting == Init => Noting
BY DEF Init, Noting, Shape, Noted, Joined, FreshState

LEMMA NextActsShape ==
    ASSUME acts \in Seq(Act), Shape, NEW act \in NextActs
    PROVE  /\ act.tool = "skill" => act.name # "none"
           /\ act.tool = "task" => MainAgent(act)
           /\ Subagent(act) => \E j \in DOMAIN acts : MainAgent(acts[j]) /\ acts[j].do = "call"
           /\ act.do = "done" =>
                 \E j \in DOMAIN acts : acts[j] = [act EXCEPT !.do = "call"] /\ MainAgent(acts[j])
<1> DEFINE n == Cardinality(CallsMade) + 1
           MainCall == \E j \in DOMAIN acts : MainAgent(acts[j]) /\ acts[j].do = "call"
<1> HIDE DEF n
<1>1. CASE \E do \in {"hello", "say", "stop", "bye"} : act = Plain(do)
  BY <1>1 DEF Plain, MakeAct, Subagent
<1>2. \A c \in Callable : c[1] = "skill" => c[2] # "none"
  BY DEF Callable, Name
<1>3. CASE \E c \in Callable : act = MakeAct("call", c[1], c[2], "main", n)
  BY <1>2, <1>3 DEF MakeAct, MainAgent, Subagent
<1>4. CASE \E c \in {d \in Callable : TaskStarted /\ d[1] # "task"} :
              act = MakeAct("call", c[1], c[2], "sub", n)
  <2>1. TaskStarted
    BY <1>4
  <2>2. MainCall
    BY <2>1 DEF TaskStarted, CallsMade, Shape
  <2> QED
    BY <1>2, <1>4, <2>2 DEF MakeAct, MainAgent, Subagent
<1>5. CASE \E i \in OpenCalls : act = [acts[i] EXCEPT !.do = "done"]
  <2>1. PICK i \in OpenCalls : act = [acts[i] EXCEPT !.do = "done"]
    BY <1>5
  <2>2. i \in DOMAIN acts /\ acts[i] \in Act /\ MainAgent(acts[i]) /\ acts[i].do = "call"
    BY DEF OpenCalls, CallsMade
  <2>3. acts[i] = [act EXCEPT !.do = "call"]
    BY <2>1, <2>2 DEF Act
  <2>4. act.tool = acts[i].tool /\ act.name = acts[i].name /\ act.by = acts[i].by
    BY <2>1, <2>2 DEF Act
  <2> QED
    BY <2>2, <2>3, <2>4 DEF Shape, MainAgent, Subagent
<1>6. CASE \E name \in Name : act = MakeAct("inject", "none", name, "main", 0)
  BY <1>6 DEF MakeAct, Subagent
<1> QED
  BY <1>1, <1>3, <1>4, <1>5, <1>6 DEF NextActs, n

LEMMA AgentActsNoting ==
    ASSUME TypeOK, Living, Noting, AgentActs
    PROVE  Noting'
<1>1. PICK act \in NextActs : acts' = Append(acts, act)
  BY DEF AgentActs
<1>2. acts \in Seq(Act) /\ act \in Act /\ read \in 0..Len(acts) /\ Len(acts) \in Nat
  BY NextActsType DEF TypeOK
<1> DEFINE n == Len(acts)
<1>3. /\ DOMAIN acts = 1..n /\ DOMAIN acts' = 1..(n + 1)
      /\ acts'[n + 1] = act /\ \A i \in 1..n : acts'[i] = acts[i]
  BY <1>1, <1>2
<1>4. UNCHANGED <<provider, mode, ss, read, pc>> /\ Alive
  BY DEF AgentActs, Working
<1>5. \A i \in 1..(n + 1) : i = n + 1 \/ i \in 1..n
  BY <1>2
<1>6. \A i \in 1..read : i \in 1..n
  BY <1>2
<1>7. \A i \in 1..n : i \in 1..(n + 1) /\ 1..i \subseteq 1..n
  BY <1>2
<1>8. n + 1 \in 1..(n + 1) /\ \A j \in 1..n : j \in 1..(n + 1)
  BY <1>2
<1> DEFINE now == acts'
<1> HIDE DEF n, now
<1>9. /\ act.tool = "skill" => act.name # "none"
      /\ act.tool = "task" => MainAgent(act)
      /\ Subagent(act) => \E j \in 1..n : MainAgent(acts[j]) /\ acts[j].do = "call"
      /\ act.do = "done" =>
            \E j \in 1..n : acts[j] = [act EXCEPT !.do = "call"] /\ MainAgent(acts[j])
  BY <1>2, <1>3, NextActsShape DEF Noting
<1>10. /\ \A i \in 1..n : acts[i].tool = "skill" => acts[i].name # "none"
       /\ \A i \in 1..n : acts[i].tool = "task" => MainAgent(acts[i])
       /\ \A i \in 1..n : Subagent(acts[i]) =>
             \E j \in 1..n : MainAgent(acts[j]) /\ acts[j].do = "call"
       /\ \A i \in 1..n : acts[i].do = "done" =>
             \E j \in 1..i : acts[j] = [acts[i] EXCEPT !.do = "call"] /\ MainAgent(acts[j])
  BY <1>3 DEF Noting, Shape
<1>11. /\ DOMAIN now = 1..(n + 1) /\ now[n + 1] = act /\ \A i \in 1..n : now[i] = acts[i]
  BY <1>3 DEF now
<1>12. /\ \A i \in 1..(n + 1) : now[i].tool = "skill" => now[i].name # "none"
       /\ \A i \in 1..(n + 1) : now[i].tool = "task" => MainAgent(now[i])
  BY <1>5, <1>9, <1>10, <1>11
<1>13. \A i \in 1..(n + 1) : Subagent(now[i]) =>
          \E j \in 1..(n + 1) : MainAgent(now[j]) /\ now[j].do = "call"
  BY <1>5, <1>8, <1>9, <1>10, <1>11
<1>14. ASSUME NEW i \in 1..(n + 1), now[i].do = "done"
       PROVE  \E j \in 1..i : now[j] = [now[i] EXCEPT !.do = "call"] /\ MainAgent(now[j])
  <2>1. CASE i = n + 1
    BY <1>8, <1>9, <1>11, <1>14, <2>1
  <2>2. CASE i \in 1..n
    <3>1. now[i] = acts[i]
      BY <1>11, <2>2
    <3>2. PICK j \in 1..i : acts[j] = [acts[i] EXCEPT !.do = "call"] /\ MainAgent(acts[j])
      BY <1>10, <1>14, <2>2, <3>1
    <3>3. now[j] = acts[j]
      BY <1>7, <1>11, <2>2
    <3> QED
      BY <3>1, <3>2, <3>3
  <2> QED
    BY <1>5, <2>1, <2>2
<1>15. Shape'
  BY <1>11, <1>12, <1>13, <1>14 DEF Shape, now, MainAgent, Subagent
<1>16. Noted'
  <2>1. \A i \in 1..read : now[i] = acts[i]
    BY <1>6, <1>11
  <2> QED
    BY <1>4, <2>1 DEF Noting, Noted, now
<1>17. Joined'
  BY <1>4 DEF Noting, Joined, Living
<1> QED
  BY <1>15, <1>16, <1>17 DEF Noting

LEMMA ReadsNoting ==
    ASSUME TypeOK, Living, Noting, Reads
    PROVE  Noting'
<1> DEFINE act == acts[read + 1]
<1>1. /\ read \in 0..Len(acts) /\ read < Len(acts) /\ read' = read + 1 /\ Len(acts) \in Nat
      /\ acts \in Seq(Act)
  BY DEF Reads, TypeOK
<1>2. read + 1 \in 1..Len(acts) /\ \A i \in 1..(read + 1) : i = read + 1 \/ i \in 1..read
  BY <1>1
<1>3. \A i \in 1..read : i \in 1..(read + 1)
  BY <1>1
<1>4. act \in Act /\ read + 1 \in 1..(read + 1)
  BY <1>1, <1>2
<1>5. UNCHANGED <<provider, mode, acts, pc>> /\ ss' = Dispatch(provider, mode, ss, act)
  BY DEF Reads
<1>6. act.tool = "skill" => act.name # "none"
  BY <1>1, <1>2 DEF Noting, Shape
<1> HIDE DEF act
<1>7. pc # "concluding" \/ read = Len(acts)
  BY DEF Noting, Joined
<1>8. Joined' /\ Shape'
  BY <1>1, <1>5, <1>7 DEF Noting, Joined, Shape
<1>9. CASE provider = "copilot_cli"
  <2>1. ss' = CopilotDispatch(mode, ss, act)
    BY <1>5, <1>9 DEF Dispatch, Streamed
  <2>2. /\ ss'.tool = "none"
        /\ ss'.skill = IF SkillTarget(mode) /\ UsesTarget(act) THEN "target" ELSE ss.skill
    BY <2>1 DEF CopilotDispatch, UsesTarget
  <2>3. (\E i \in 1..(read + 1) : UsesTarget(acts[i]))
           <=> UsesTarget(act) \/ \E i \in 1..read : UsesTarget(acts[i])
    BY <1>2, <1>3, <1>4 DEF act
  <2> HIDE DEF UsesTarget
  <2> DEFINE before == \E i \in 1..read : UsesTarget(acts[i])
             after == \E i \in 1..(read + 1) : UsesTarget(acts[i])
  <2>4. /\ ss.skill # "none" => ss.skill = "target" /\ before
        /\ SkillTarget(mode) /\ before => ss.skill = "target"
    BY <1>9 DEF Noting, Noted
  <2>5. after <=> UsesTarget(act) \/ before
    BY <2>3
  <2> HIDE DEF before, after
  <2>6. /\ ss'.skill # "none" => ss'.skill = "target" /\ after
        /\ SkillTarget(mode) /\ after => ss'.skill = "target"
    BY <2>2, <2>4, <2>5
  <2> QED
    BY <1>1, <1>5, <1>8, <1>9, <2>2, <2>6 DEF Noting, Noted, after
<1>10. CASE provider = "opencode"
  <2>1. SkillTarget(mode) /\ (UsedTarget(act) \/ ss.skill # "none") => ss'.skill # "none"
    <3>1. CASE ~Streamed(provider, act)
      <4>1. ~UsedTarget(act)
        BY <1>4, <1>10, <3>1 DEF Streamed, UsedTarget, MainAgent
      <4> QED
        BY <1>5, <3>1, <4>1 DEF Dispatch
    <3>2. CASE Streamed(provider, act)
      <4>1. ss' = OpenCodeDispatch(mode, ss, act)
        BY <1>5, <1>10, <3>2 DEF Dispatch
      <4> QED
        BY <1>6, <4>1 DEF OpenCodeDispatch, UsedTarget
    <3> QED
      BY <3>1, <3>2
  <2>2. (\E i \in 1..(read + 1) : UsedTarget(acts[i]))
           => UsedTarget(act) \/ \E i \in 1..read : UsedTarget(acts[i])
    BY <1>2 DEF act
  <2> HIDE DEF UsedTarget
  <2>3. SkillTarget(mode) /\ (\E i \in 1..read : UsedTarget(acts[i])) => ss.skill # "none"
    BY <1>10 DEF Noting, Noted
  <2>4. SkillTarget(mode) /\ (\E i \in 1..(read + 1) : UsedTarget(acts[i])) => ss'.skill # "none"
    BY <2>1, <2>2, <2>3
  <2> QED
    BY <1>1, <1>5, <1>8, <1>10, <2>4 DEF Noting, Noted
<1>11. CASE provider \notin {"copilot_cli", "opencode"}
  BY <1>5, <1>8, <1>11 DEF Noting, Noted
<1> QED
  BY <1>9, <1>10, <1>11

LEMMA WaitsNoting ==
    ASSUME TypeOK, Noting, Waits
    PROVE  Noting'
<1>1. UNCHANGED <<provider, mode, acts, read>>
  BY DEF Waits, Stay, Launch, BeginWait, Poll, WaitSignal, PollSession, CheckClock, Wait, Terminate, Grace, Join
<1>2. Shape'
  BY <1>1 DEF Noting, Shape
<1>3. Joined'
  BY <1>1 DEF Noting, Joined, Waits, Launch, BeginWait, Poll, WaitSignal, PollSession, CheckClock, Wait,
     Terminate, Grace, Join
<1>4. Noted'
  <2>1. CASE UNCHANGED ss
    BY <1>1, <2>1 DEF Noting, Noted
  <2>2. CASE PollSession
    <3>1. provider = "codex_cli"
      BY <2>2 DEF PollSession, Noting, Joined
    <3> QED
      BY <1>1, <3>1 DEF Noted
  <2> QED
    BY <2>1, <2>2 DEF Waits, Stay, Launch, BeginWait, Poll, WaitSignal, CheckClock, Wait, Terminate, Grace, Join
<1> QED
  BY <1>2, <1>3, <1>4 DEF Noting

LEMMA OthersNoting ==
    ASSUME Noting,
           AgentExits \/ TimePasses \/ ParentDies \/ Watchdog \/ StartFails \/ Interrupt
                \/ Conclude \/ UNCHANGED vars
    PROVE  Noting'
<1>1. UNCHANGED <<provider, mode, acts, read, ss>> /\ (pc' = pc \/ pc' = "done")
  BY DEF AgentExits, TimePasses, ParentDies, Watchdog, StartFails, Interrupt, Conclude, vars
<1> QED
  BY <1>1 DEF Noting, Shape, Noted, Joined

LEMMA NotingInductive == Spec => []Noting
<1>1. TypeOK /\ Living /\ Noting /\ [Next]_vars => Noting'
  BY AgentActsNoting, ReadsNoting, WaitsNoting, OthersNoting DEF Next, Agent
<1> QED
  BY InitNoting, <1>1, TypeCorrect, LivingInductive, PTL DEF Spec

-----------------------------------------------------------------------------
(* What is graded. *)

(* A grade is given by Conclude, and nothing moves after it.                 *)
LEMMA GradedAtTheEnd ==
    ASSUME Living, [Next]_vars, outcome' \in {"pass", "fail"}
    PROVE  Conclude \/ UNCHANGED vars
<1>1. CASE pc = "done"
  <2>1. ~(Agent \/ TimePasses \/ Reads \/ ParentDies \/ Watchdog \/ StartFails
          \/ Interrupt)
    BY <1>1 DEF Agent, AgentActs, AgentExits, Working, Over, TimePasses, Reads, ParentDies,
       Watchdog, StartFails, Interrupt
  <2>2. ~Waits
    BY <1>1 DEF Waits, Launch, BeginWait, Poll, WaitSignal, PollSession, CheckClock, Wait, Terminate, Grace,
       Join
  <2> QED
    BY <2>1, <2>2 DEF Next
<1>2. CASE pc # "done"
  <2>1. outcome \notin {"pass", "fail"}
    BY <1>2 DEF Living
  <2>2. Agent \/ TimePasses \/ Reads \/ ParentDies \/ Watchdog => outcome' = outcome
    BY DEF Agent, AgentActs, AgentExits, TimePasses, Reads, ParentDies, Watchdog
  <2>3. Waits => outcome' = outcome
    BY DEF Waits, Stay, Launch, BeginWait, Poll, WaitSignal, PollSession, CheckClock, Wait, Terminate, Grace,
       Join
  <2>4. StartFails \/ Interrupt => outcome' \in {"raised", "interrupted"}
    BY DEF StartFails, Interrupt
  <2> QED
    BY <2>1, <2>2, <2>3, <2>4 DEF Next
<1> QED
  BY <1>1, <1>2

LEMMA PassOrFail ==
    ASSUME NEW turns, Grade(turns) \in {"pass", "fail"}
    PROVE  mode # "execute" /\ (Grade(turns) = "pass" <=> Passes(turns))
BY DEF Grade

(* Of a wait that was not too long, the result is built with what was        *)
(* detected; of one that was, without.                                       *)
LEMMA ConcludeIs ==
    ASSUME Conclude, outcome' \in {"pass", "fail"}
    PROVE  /\ UNCHANGED <<provider, mode, acts, read, ss, timedOut>>
           /\ mode # "execute" /\ (outcome' = "pass" <=> Passes(result'.turns))
           /\ ~timedOut => result' \in Results(ss.skill, ss.tool)
           /\ timedOut => result' \in Results("none", "none") /\ Settled(result')
<1>1. UNCHANGED <<provider, mode, acts, read, ss, timedOut>>
  BY DEF Conclude
<1>2. ~Aborts
  BY DEF Aborts
<1>3. CASE timedOut
  <2>1. PICK res \in Partials : TimedOut(res)
    BY <1>3 DEF Conclude
  <2>2. result' = res /\ Settled(res) /\ outcome' = Grade(res.turns)
    BY <2>1 DEF TimedOut
  <2>3. ~NoResult.ok
    BY DEF NoResult
  <2>4. res \in Results("none", "none")
    BY <2>2, <2>3 DEF Partials, Settled
  <2>5. mode # "execute" /\ (outcome' = "pass" <=> Passes(res.turns))
    BY <2>2, PassOrFail
  <2> HIDE DEF Passes, Settled, Results
  <2> QED
    BY <1>1, <1>3, <2>2, <2>4, <2>5
<1>4. CASE ~timedOut
  <2>1. PICK res \in Results(ss.skill, ss.tool) : Returns(res)
    BY <1>2, <1>4 DEF Conclude
  <2>2. result' = res /\ outcome' = Grade(res.turns)
    BY <1>2, <2>1 DEF Returns
  <2>3. mode # "execute" /\ (outcome' = "pass" <=> Passes(res.turns))
    BY <2>2, PassOrFail
  <2> QED
    BY <1>1, <1>4, <2>1, <2>2, <2>3
<1> QED
  BY <1>3, <1>4

LEMMA DetectedNames ==
    ASSUME TypeOK
    PROVE  ss.skill \in Names /\ ss.tool \in Names
BY DEF TypeOK, StreamState, Names

(* The record is of acts that the agent did.                                 *)
LEMMA RecordsAre ==
    ASSUME TypeOK, NEW file \in Records
    PROVE  /\ file \in Seq(Act)
           /\ \A i \in DOMAIN file : \E j \in DOMAIN acts : file[i] = acts[j]
<1>1. acts \in Seq(Act) /\ Len(acts) \in Nat /\ recorded \in 0..Len(acts)
  BY DEF TypeOK
<1>2. PICK n \in 0..Len(acts) : file = SubSeq(acts, 1, n)
  <2> DEFINE N == IF rc = "zero" THEN {Len(acts)} ELSE recorded..Len(acts)
  <2>1. N \subseteq 0..Len(acts)
    BY <1>1
  <2>2. Records = {SubSeq(acts, 1, n) : n \in N}
    BY DEF Records
  <2> HIDE DEF N
  <2> QED
    BY <2>1, <2>2
<1>3. \A i \in 1..n : i \in 1..Len(acts)
  BY <1>1
<1>4. file \in Seq(Act) /\ DOMAIN file = 1..n /\ \A i \in 1..n : file[i] = acts[i]
  BY <1>1, <1>2, <1>3
<1> QED
  BY <1>1, <1>3, <1>4

(* Who built a result, and of what.                                          *)
LEMMA CodexResult ==
    ASSUME provider = "codex_cli", NEW skill, NEW tool, NEW res \in Results(skill, tool)
    PROVE  \E file \in Records, saved \in BOOLEAN :
              res = CodexBuild(ss.session, file, saved, acts, skill, tool, cut)
<1> DEFINE Saved == {TRUE, rc = "zero"}
           Build(file, saved) == CodexBuild(ss.session, file, saved, acts, skill, tool, cut)
<1>1. Results(skill, tool) = {Build(file, saved) : file \in Records, saved \in Saved}
  BY DEF Results
<1>2. \A saved \in Saved : saved \in BOOLEAN
  OBVIOUS
<1> HIDE DEF Saved, Build
<1>3. PICK file \in Records, saved \in Saved : res = Build(file, saved)
  BY <1>1, SMT
<1> QED
  BY <1>2, <1>3 DEF Build

LEMMA OpenCodeResult ==
    ASSUME TypeOK, provider = "opencode", NEW skill, NEW tool, NEW res \in Results(skill, tool)
    PROVE  \E parts \in Seq(Act) : res = OpenCodeBuild(parts, skill, tool)
<1>1. PICK parts \in Records \cup {<<>>} : res = OpenCodeBuild(parts, skill, tool)
  BY DEF Results
<1>2. <<>> \in Seq(Act)
  OBVIOUS
<1> QED
  BY <1>1, <1>2, RecordsAre

LEMMA CopilotResult ==
    ASSUME provider = "copilot_cli", NEW skill, NEW tool, NEW res \in Results(skill, tool)
    PROVE  res = CopilotBuild(acts, skill)
BY DEF Results

LEMMA SameWalk ==
    ASSUME NEW turns
    PROVE  Invoked(turns) = SkillsOf(turns) /\ McpNames(turns) = McpNamesOf(turns)
BY DEF Invoked, SkillsOf, McpNames, McpCalls, McpNamesOf

(* A result that was built with what was detected has it.                    *)
LEMMA ResultsHaveDetected ==
    ASSUME TypeOK, Noting, pc = "concluding", NEW res \in Results(ss.skill, ss.tool)
    PROVE  /\ ss.skill # "none" =>
                 \/ ss.skill \in SkillsOf(res.turns)
                 \/ provider = "codex_cli" /\ Assistants(res.turns) = {}
           /\ ss.tool # "none" => ss.tool \in McpNamesOf(res.turns)
<1> DEFINE skill == ss.skill
           tool == ss.tool
<1>1. skill \in Names /\ tool \in Names /\ acts \in Seq(Act)
  BY DetectedNames DEF TypeOK
<1> HIDE DEF skill, tool
<1>2. res \in Results(skill, tool)
  BY DEF skill, tool
<1>3. CASE provider = "codex_cli"
  <2>1. PICK file \in Records, saved \in BOOLEAN :
           res = CodexBuild(ss.session, file, saved, acts, skill, tool, cut)
    BY <1>2, <1>3, CodexResult
  <2>2. file \in Seq(Act)
    BY RecordsAre
  <2>3. /\ tool # "none" => tool \in McpNamesOf(res.turns)
        /\ Assistants(res.turns) # {} =>
              \A inv \in ToSet(StreamSkills(acts, skill)) : inv.skill \in SkillsOf(res.turns)
    BY <1>1, <2>1, <2>2, CodexBuildIs
  <2>4. skill # "none" => \E inv \in ToSet(StreamSkills(acts, skill)) : inv.skill = skill
    BY <1>1, StreamSkillsIs
  <2> QED
    BY <1>3, <2>3, <2>4 DEF skill, tool
<1>4. CASE provider = "opencode"
  <2>1. PICK parts \in Seq(Act) : res = OpenCodeBuild(parts, skill, tool)
    BY <1>2, <1>4, OpenCodeResult
  <2> QED
    BY <1>1, <2>1, OpenCodeBuildIs DEF skill, tool
<1>5. CASE provider = "copilot_cli"
  <2>1. res = CopilotBuild(acts, skill)
    BY <1>2, <1>5, CopilotResult
  <2>2. tool = "none"
    BY <1>5 DEF Noting, Noted, tool
  <2>3. ASSUME skill # "none"
        PROVE  /\ skill = "target"
               /\ \E i \in DOMAIN acts : UsesTarget(acts[i])
               /\ \E i \in DOMAIN acts : MainAgent(acts[i]) /\ acts[i].do = "call"
    <3>1. skill = "target" /\ \E i \in 1..read : UsesTarget(acts[i])
      BY <1>5, <2>3 DEF Noting, Noted, skill
    <3>2. \A i \in 1..read : i \in DOMAIN acts
      BY <1>1 DEF TypeOK
    <3>3. PICK i \in DOMAIN acts : UsesTarget(acts[i])
      BY <3>1, <3>2
    <3>4. CASE MainAgent(acts[i])
      BY <3>1, <3>3, <3>4 DEF UsesTarget
    <3>5. CASE ~MainAgent(acts[i])
      <4>1. acts[i] \in Act
        BY <1>1
      <4>2. Subagent(acts[i])
        BY <3>5, <4>1 DEF Act, By, MainAgent, Subagent
      <4>3. \E j \in DOMAIN acts : MainAgent(acts[j]) /\ acts[j].do = "call"
        BY <4>2 DEF Noting, Shape
      <4> QED
        BY <3>1, <3>3, <4>3
    <3> QED
      BY <3>4, <3>5
  <2>4. skill # "none" => skill \in SkillsOf(res.turns)
    BY <1>1, <2>1, <2>3, CopilotBuildIs DEF UsesTarget
  <2> QED
    BY <2>2, <2>4 DEF skill, tool
<1> QED
  BY <1>3, <1>4, <1>5, CliAssumption DEF TypeOK, Provider

(* What the reader or the poll detected is in the trajectory that is graded, *)
(* whatever of the record was on disk when it was built, but for a skill of  *)
(* a codex session that has the prompt only.                                 *)
THEOREM DetectionsGraded == Spec => []DetectedIsGraded
<1>1. Init => DetectedIsGraded
  BY DEF Init, DetectedIsGraded
<1>2. ASSUME TypeOK, Living, Noting, DetectedIsGraded, [Next]_vars
      PROVE  DetectedIsGraded'
  <2>1. CASE outcome' \notin {"pass", "fail"}
    BY <2>1 DEF DetectedIsGraded
  <2>2. CASE UNCHANGED vars
    BY <1>2, <2>2 DEF DetectedIsGraded, LostByCodex, vars
  <2>3. CASE Conclude /\ outcome' \in {"pass", "fail"}
    <3>1. CASE timedOut
      BY <2>3, <3>1, ConcludeIs DEF DetectedIsGraded
    <3>2. CASE ~timedOut
      <4>1. UNCHANGED <<provider, ss>> /\ result' \in Results(ss.skill, ss.tool)
        BY <2>3, <3>2, ConcludeIs
      <4>2. pc = "concluding"
        BY <2>3 DEF Conclude
      <4> DEFINE turns == result'.turns
      <4>3. /\ ss.skill # "none" =>
                  \/ ss.skill \in SkillsOf(turns)
                  \/ provider = "codex_cli" /\ Assistants(turns) = {}
            /\ ss.tool # "none" => ss.tool \in McpNamesOf(turns)
        BY <1>2, <4>1, <4>2, ResultsHaveDetected
      <4>4. Invoked(turns) = SkillsOf(turns) /\ McpNames(turns) = McpNamesOf(turns)
        BY SameWalk
      <4> QED
        BY <4>1, <4>3, <4>4 DEF DetectedIsGraded, LostByCodex
    <3> QED
      BY <3>1, <3>2
  <2> QED
    BY <1>2, <2>1, <2>2, <2>3, GradedAtTheEnd
<1>3. TypeOK /\ Living /\ Noting /\ DetectedIsGraded /\ [Next]_vars => DetectedIsGraded'
  BY <1>2
<1> QED
  BY <1>1, <1>3, TypeCorrect, LivingInductive, NotingInductive, PTL DEF Spec

(* A negative skill case that passes had no use of the skill by the main     *)
(* agent on the stream up to the last line that was read, but for what a     *)
(* prompt-only session of codex loses and a sibling skill of opencode hides. *)
THEOREM NegativesPassClean == Spec => []NegativePassClean
<1>1. Init => NegativePassClean
  BY DEF Init, NegativePassClean
<1>2. ASSUME TypeOK, Noting, Conclude, outcome' = "pass", mode = "skill-", ~LostByCodex',
             ~(provider = "opencode" /\ ss.skill = "sibling"),
             NEW i \in 1..read, UsedTarget(acts[i])
      PROVE  FALSE
  <2> DEFINE turns == result'.turns
  <2>1. /\ UNCHANGED <<provider, mode, acts, read, ss, timedOut>>
        /\ Passes(turns)
        /\ ~timedOut => result' \in Results(ss.skill, ss.tool)
        /\ timedOut => Settled(result')
    BY <1>2, ConcludeIs
  <2>2. ~timedOut
    BY <1>2, <2>1 DEF Settled
  <2>3. result' \in Results(ss.skill, ss.tool) /\ pc = "concluding"
    BY <1>2, <2>1, <2>2 DEF Conclude
  <2>4. "target" \notin SkillsOf(turns)
    BY <1>2, <2>1, SameWalk DEF Passes
  <2>5. provider = "codex_cli" => Assistants(turns) # {}
    BY <1>2, <2>1 DEF LostByCodex
  <2>6. ss.skill # "none" =>
           \/ ss.skill \in SkillsOf(turns)
           \/ provider = "codex_cli" /\ Assistants(turns) = {}
    BY <1>2, <2>3, ResultsHaveDetected
  <2>7. i \in DOMAIN acts /\ acts \in Seq(Act) /\ read \in Nat
    BY <1>2 DEF TypeOK
  <2>8. SkillTarget(mode)
    BY <1>2 DEF SkillTarget
  <2>9. CASE provider = "codex_cli"
    <3> DEFINE skill == ss.skill
               tool == ss.tool
    <3>1. skill \in Names /\ tool \in Names
      BY <1>2, DetectedNames
    <3> HIDE DEF skill, tool
    <3>2. PICK file \in Records, saved \in BOOLEAN :
             result' = CodexBuild(ss.session, file, saved, acts, skill, tool, cut)
      BY <2>3, <2>9, CodexResult DEF skill, tool
    <3>3. file \in Seq(Act)
      BY <1>2, RecordsAre
    <3>4. \A inv \in ToSet(StreamSkills(acts, skill)) : inv.skill \in SkillsOf(turns)
      BY <2>5, <2>7, <2>9, <3>1, <3>2, <3>3, CodexBuildIs
    <3>5. \E inv \in ToSet(StreamSkills(acts, skill)) : inv.skill = acts[i].name
      BY <1>2, <2>7, <3>1, StreamSkillsIs DEF UsedTarget
    <3> QED
      BY <1>2, <2>4, <3>4, <3>5 DEF UsedTarget
  <2>10. CASE provider = "opencode"
    <3>1. ss.skill # "none"
      BY <1>2, <2>8, <2>10 DEF Noting, Noted
    <3>2. ss.skill \in {"target", "sibling"}
      BY <1>2, <3>1 DEF TypeOK, StreamState, Name
    <3> QED
      BY <1>2, <2>4, <2>6, <2>10, <3>1, <3>2
  <2>11. CASE provider = "copilot_cli"
    <3>1. PICK j \in 1..i : acts[j] = [acts[i] EXCEPT !.do = "call"]
      BY <1>2, <2>7 DEF Noting, Shape, UsedTarget
    <3>2. acts[i] \in Act
      BY <2>7
    <3>3. UsesTarget(acts[j]) /\ j \in 1..read
      BY <1>2, <2>7, <3>1, <3>2 DEF UsedTarget, UsesTarget, Act
    <3>4. ss.skill = "target"
      BY <1>2, <2>8, <2>11, <3>3 DEF Noting, Noted
    <3> QED
      BY <2>4, <2>6, <2>11, <3>4
  <2> QED
    BY <1>2, <2>9, <2>10, <2>11, CliAssumption DEF TypeOK, Provider
<1>3. ASSUME TypeOK, Living, Noting, NegativePassClean, [Next]_vars
      PROVE  NegativePassClean'
  <2>1. CASE outcome' # "pass"
    BY <2>1 DEF NegativePassClean
  <2>2. CASE UNCHANGED vars
    BY <1>3, <2>2 DEF NegativePassClean, LostByCodex, vars
  <2>3. CASE Conclude /\ outcome' = "pass"
    <3>1. UNCHANGED <<provider, mode, acts, read, ss>>
      BY <2>3, ConcludeIs
    <3> QED
      BY <1>2, <1>3, <2>3, <3>1 DEF NegativePassClean, UsedTarget
  <2> QED
    BY <1>3, <2>1, <2>2, <2>3, GradedAtTheEnd
<1>4. TypeOK /\ Living /\ Noting /\ NegativePassClean /\ [Next]_vars => NegativePassClean'
  BY <1>3
<1> QED
  BY <1>1, <1>4, TypeCorrect, LivingInductive, NotingInductive, PTL DEF Spec

(* Turns without invocations, whose subagents have none.                     *)
LEMMA NoSkill ==
    ASSUME NEW S, \A sub \in S : sub.skills = <<>>, NEW turns \in Seq(TurnOf(S)),
           \A i \in DOMAIN turns : turns[i].skills = <<>>
    PROVE  FirstSkill(turns) = "none"
<1> DEFINE having == {i \in DOMAIN turns : TurnSkills(turns[i]) # {}}
<1>1. ToSet(<<>>) = {}
  BY DEF ToSet
<1>2. ASSUME NEW i \in DOMAIN turns PROVE TurnSkills(turns[i]) = {}
  <2>1. turns[i] \in TurnOf(S)
    OBVIOUS
  <2>2. turns[i].blocks \in Seq(BlockOf(S))
    BY <2>1 DEF TurnOf
  <2>3. \A j \in DOMAIN turns[i].blocks : turns[i].blocks[j] \in BlockOf(S)
    BY <2>2
  <2>4. \A j \in DOMAIN turns[i].blocks : turns[i].blocks[j].sub \in S
    BY <2>3 DEF BlockOf
  <2>5. \A j \in DOMAIN turns[i].blocks : ToSet(turns[i].blocks[j].sub.skills) = {}
    BY <1>1, <2>4
  <2> QED
    BY <1>1, <2>5 DEF TurnSkills
<1>3. having = {}
  BY <1>2
<1> QED
  BY <1>3 DEF FirstSkill

(* A partial trajectory without skills of the main agent passes no case, but *)
(* for one of codex with acts of a subagent.                                 *)
LEMMA PartialPasses ==
    ASSUME TypeOK, NEW res \in Results("none", "none"),
           \A i \in DOMAIN res.turns : res.turns[i].skills = <<>>,
           FirstSkill(res.turns) # "none"
    PROVE  provider = "codex_cli" /\ \E i \in DOMAIN acts : Subagent(acts[i])
<1> DEFINE none == "none"
<1>1. none \in Names /\ acts \in Seq(Act) /\ NoTurn.skills = <<>>
  BY DEF Names, TypeOK, NoTurn
<1>2. res \in Results(none, none)
  OBVIOUS
<1> HIDE DEF none
<1>3. CASE provider = "codex_cli"
  <2>1. PICK file \in Records, saved \in BOOLEAN :
           res = CodexBuild(ss.session, file, saved, acts, none, none, cut)
    BY <1>2, <1>3, CodexResult
  <2>2. file \in Seq(Act) /\ \A i \in DOMAIN file : \E j \in DOMAIN acts : file[i] = acts[j]
    BY RecordsAre
  <2>3. PICK child \in TurnOf({NoTurn}) :
           /\ res.turns \in Seq(TurnOf({NoTurn, child}))
           /\ (\A i \in DOMAIN file : ~Subagent(file[i])) => child.skills = <<>>
    <3>1. OfSession(res.turns, file)
      BY <1>1, <2>1, <2>2, CodexBuildIs
    <3> QED
      BY <3>1 DEF OfSession
  <2>4. child.skills # <<>>
    BY <1>1, <2>3, NoSkill
  <2> QED
    BY <1>3, <2>2, <2>3, <2>4
<1>4. CASE provider = "opencode"
  <2>1. PICK parts \in Seq(Act) : res = OpenCodeBuild(parts, none, none)
    BY <1>2, <1>4, OpenCodeResult
  <2>2. res.turns \in Seq(TurnOf({NoTurn, OpenCodeChild(parts)}))
    BY <1>1, <2>1, OpenCodeBuildIs
  <2>3. OpenCodeChild(parts).skills = <<>>
    BY OpenCodeChildIs
  <2> QED
    BY <1>1, <2>2, <2>3, NoSkill
<1>5. CASE provider = "copilot_cli"
  <2>1. res = CopilotBuild(acts, none)
    BY <1>2, <1>5, CopilotResult
  <2>2. res.turns \in Seq(TurnOf({NoTurn}))
    BY <1>1, <2>1, CopilotBuildIs DEF none
  <2> QED
    BY <1>1, <2>2, NoSkill
<1> QED
  BY <1>3, <1>4, <1>5, CliAssumption DEF TypeOK, Provider

(* An attempt that timed out is graded only if its case is positive, and it  *)
(* passes only with codex, by a skill of a subagent.                         *)
THEOREM TimeoutsFail == Spec => []TimeoutFails
<1>1. Init => TimeoutFails
  BY DEF Init, TimeoutFails
<1>2. ASSUME TypeOK, Noting, Conclude, timedOut, outcome' \in {"pass", "fail"}
      PROVE  /\ mode \in {"skill+", "tool+"}
             /\ outcome' = "pass" => provider = "codex_cli" /\ \E i \in 1..read : Subagent(acts[i])
  <2> DEFINE turns == result'.turns
  <2>1. /\ UNCHANGED <<provider, mode>>
        /\ outcome' = "pass" => Passes(turns)
        /\ result' \in Results("none", "none") /\ Settled(result')
    BY <1>2, ConcludeIs
  <2>2. /\ mode \in {"skill+", "tool+"}
        /\ mode = "tool+" => McpCalls(turns) = {}
        /\ mode = "skill+" => \A i \in DOMAIN turns : turns[i].skills = <<>>
    BY <2>1 DEF Settled
  <2>3. mode = "tool+" => FirstMcp(turns) = "none"
    BY <2>2, NoMcpCall
  <2>4. ASSUME outcome' = "pass"
        PROVE  provider = "codex_cli" /\ \E i \in 1..read : Subagent(acts[i])
    <3>1. mode = "skill+" /\ FirstSkill(turns) = "target"
      BY <2>1, <2>2, <2>3, <2>4 DEF Passes
    <3>2. provider = "codex_cli" /\ \E i \in DOMAIN acts : Subagent(acts[i])
      BY <1>2, <2>1, <2>2, <3>1, PartialPasses
    <3>3. DOMAIN acts = 1..read
      BY <1>2 DEF Conclude, Noting, Joined, TypeOK
    <3> QED
      BY <3>2, <3>3
  <2> QED
    BY <2>2, <2>4
<1>3. ASSUME TypeOK, Living, Noting, TimeoutFails, [Next]_vars
      PROVE  TimeoutFails'
  <2>1. CASE outcome' \notin {"pass", "fail"}
    BY <2>1 DEF TimeoutFails
  <2>2. CASE UNCHANGED vars
    BY <1>3, <2>2 DEF TimeoutFails, vars
  <2>3. CASE Conclude /\ outcome' \in {"pass", "fail"}
    <3>1. UNCHANGED <<provider, mode, acts, read, timedOut>>
      BY <2>3, ConcludeIs
    <3> QED
      BY <1>2, <1>3, <2>3, <3>1 DEF TimeoutFails
  <2> QED
    BY <1>3, <2>1, <2>2, <2>3, GradedAtTheEnd
<1>4. TypeOK /\ Living /\ Noting /\ TimeoutFails /\ [Next]_vars => TimeoutFails'
  BY <1>3
<1> QED
  BY <1>1, <1>4, TypeCorrect, LivingInductive, NotingInductive, PTL DEF Spec

-----------------------------------------------------------------------------
(* invoke implements its contract. *)

(* The deadline is not looked at before the agent is started.                *)
Unhurried == late => pc # "launching"

LEMMA UnhurriedInductive == Spec => []Unhurried
<1>1. Init => Unhurried
  BY DEF Init, Unhurried
<1>2. Unhurried /\ [Next]_vars => Unhurried'
  <2> SUFFICES ASSUME Unhurried, [Next]_vars PROVE Unhurried'
    OBVIOUS
  <2> USE DEF Unhurried
  <2>1. CASE AgentActs \/ AgentExits \/ Reads \/ ParentDies \/ Watchdog \/ UNCHANGED vars
    BY <2>1 DEF AgentActs, AgentExits, Reads, ParentDies, Watchdog, vars
  <2>2. CASE TimePasses \/ StartFails \/ Interrupt \/ Conclude
    BY <2>2 DEF TimePasses, StartFails, Interrupt, Conclude
  <2>3. CASE Waits
    BY <2>3 DEF Waits, Launch, BeginWait, Poll, WaitSignal, PollSession, CheckClock, Wait,
       Terminate, Grace, Join
  <2> QED
    BY <2>1, <2>2, <2>3 DEF Next, Agent
<1> QED
  BY <1>1, <1>2, PTL DEF Spec

(* The contract's view of the agent, its one try and the end.                *)
Process == IF Alive THEN "running" ELSE agent
Tries == IF pc = "launching" THEN 0 ELSE 1
Way == IF outcome \in {"pass", "fail"} THEN "graded" ELSE outcome
contractState == <<Process, Tries, late, Way>>

LEMMA ContractViews ==
    /\ Contract!ContractInit <=>
          Process = "none" /\ Tries = 0 /\ late = FALSE /\ Way = "none"
    /\ Contract!Start <=>
          /\ Way = "none"
          /\ Process # "running" /\ Tries <= 0
          /\ Process' = "running" /\ Tries' = Tries + 1 /\ late' = FALSE
          /\ Way' = Way
    /\ Contract!Dies <=>
          Process = "running" /\ Process' = "dead" /\ UNCHANGED <<Tries, late, Way>>
    /\ Contract!DeadlinePasses <=>
          /\ Way = "none" /\ Process # "none" /\ ~late /\ late' = TRUE
          /\ UNCHANGED <<Process, Tries, Way>>
    /\ \A way : Contract!End(way) <=>
          /\ Way = "none" /\ Tries > 0
          /\ way = "timeout" => late
          /\ way = "exhausted" => Tries = 0 + 1
          /\ IF way \in {"raised", "interrupted"} THEN Process' \in {Process, "dead"}
                                    ELSE Process = "dead" /\ UNCHANGED Process
          /\ Way' = way
          /\ UNCHANGED <<Tries, late>>
BY DEF Contract!ContractInit, Contract!Start, Contract!Dies, Contract!DeadlinePasses,
   Contract!End, Process, Tries, Way

LEMMA AroundRefines ==
    ASSUME Living,
           AgentActs \/ AgentExits \/ TimePasses \/ Reads \/ ParentDies \/ Watchdog
                \/ UNCHANGED vars
    PROVE  Contract!ContractNext \/ UNCHANGED contractState
<1> USE DEF contractState, Process, Tries, Way, Alive
<1>1. CASE AgentExits
  <2>1. Contract!Dies
    BY <1>1, ContractViews DEF AgentExits, Working
  <2> QED
    BY <2>1 DEF Contract!ContractNext
<1>2. CASE Watchdog
  <2>1. Contract!Dies
    BY <1>2, ContractViews DEF Watchdog, KillGroup
  <2> QED
    BY <2>1 DEF Contract!ContractNext
<1>3. CASE TimePasses
  <2>1. Way = "none" /\ Process # "none"
    BY <1>3 DEF TimePasses, Living
  <2>2. Contract!DeadlinePasses
    BY <1>3, <2>1, ContractViews DEF TimePasses
  <2> QED
    BY <2>2 DEF Contract!ContractNext
<1>4. CASE AgentActs \/ Reads \/ ParentDies \/ UNCHANGED vars
  BY <1>4 DEF AgentActs, Reads, ParentDies, vars
<1> QED
  BY <1>1, <1>2, <1>3, <1>4

LEMMA WaitsRefine ==
    ASSUME Living, Unhurried, late \in BOOLEAN, Waits
    PROVE  Contract!ContractNext \/ UNCHANGED contractState
<1> USE DEF contractState, Process, Tries, Way, Alive, Stay
<1>1. CASE Launch
  <2>1. /\ agent = "none" /\ outcome = "none" /\ late = FALSE
        /\ pc = "launching" /\ pc' = "spawned"
        /\ agent' = "running" /\ UNCHANGED <<late, outcome>>
    BY <1>1 DEF Launch, Living, Unhurried
  <2>2. Contract!Start
    BY <2>1, ContractViews
  <2> QED
    BY <2>2 DEF Contract!ContractNext
<1>2. CASE BeginWait \/ Poll \/ WaitSignal \/ PollSession \/ CheckClock \/ Wait \/ Join \/ Terminate
  BY <1>2 DEF BeginWait, Poll, WaitSignal, PollSession, CheckClock, Wait, Join, Terminate
<1>3. CASE Grace
  <2>1. CASE Alive
    <3>1. Contract!Dies
      BY <1>3, <2>1, ContractViews DEF Grace, KillGroup
    <3> QED
      BY <3>1 DEF Contract!ContractNext
  <2>2. CASE ~Alive
    BY <1>3, <2>2 DEF Grace
  <2> QED
    BY <2>1, <2>2
<1> QED
  BY <1>1, <1>2, <1>3 DEF Waits

LEMMA EndRefines ==
    ASSUME Living, OneReason, StartFails \/ Interrupt \/ Conclude
    PROVE  Contract!ContractNext
<1> USE DEF Process, Tries, Way, Alive
<1>1. CASE Interrupt
  <2>1. /\ pc # "launching" /\ pc' = "done" /\ outcome = "none"
        /\ outcome' = "interrupted" /\ agent' \in {agent, "dead"} /\ late' = late
    BY <1>1 DEF Interrupt, KillGroup, Living
  <2>2. Contract!End("interrupted")
    BY <2>1, ContractViews
  <2> QED
    BY <2>2 DEF Contract!ContractNext, Contract!Way
<1>3. CASE StartFails
  <2>1. /\ pc = "spawned" /\ pc' = "done" /\ outcome = "none"
        /\ outcome' = "raised" /\ agent' = agent /\ late' = late
    BY <1>3 DEF StartFails, Living
  <2>2. Contract!End("raised")
    BY <2>1, ContractViews
  <2> QED
    BY <2>2 DEF Contract!ContractNext, Contract!Way
<1>2. CASE Conclude
  <2>1. /\ pc = "concluding" /\ pc' = "done" /\ outcome = "none"
        /\ agent = "dead" /\ UNCHANGED <<agent, late>>
    BY <1>2 DEF Conclude, Living
  <2>2. \A turns : Grade(turns) \in {"pass", "fail", "graded"}
    BY DEF Grade
  <2>3. timedOut => outcome' \in {"pass", "fail", "graded", "timeout"} /\ late
    BY <1>2, <2>2 DEF Conclude, TimedOut, OneReason
  <2>4. \A res : Returns(res) => outcome' \in {"pass", "fail", "graded", "abort"}
    BY <2>2 DEF Returns, Aborts
  <2>5. ~timedOut => outcome' \in {"pass", "fail", "graded", "abort"}
    BY <1>2, <2>4 DEF Conclude, Aborts
  <2>6. Way' \in {"graded", "timeout", "abort"} /\ (Way' = "timeout" => late)
    BY <2>3, <2>5
  <2>7. Contract!End(Way')
    BY <2>1, <2>6, ContractViews
  <2> QED
    BY <2>6, <2>7 DEF Contract!ContractNext, Contract!Way
<1> QED
  BY <1>1, <1>2, <1>3

(* An attempt of codex_cli, opencode or copilot_cli, for an agent that does  *)
(* as much as it likes and with the watchdog at work beside it, runs one     *)
(* process under one deadline and ends once: with that process, and as a     *)
(* timeout only if the deadline has passed.                                  *)
THEOREM InvokeImplementsContract == Spec => ImplementsContract
<1>1. Init => Contract!ContractInit
  BY ContractViews DEF Init, Process, Tries, Way, Alive
<1>2. TypeOK /\ Living /\ OneReason /\ Unhurried /\ [Next]_vars
      => [Contract!ContractNext]_(Contract!contractVars)
  <2>1. ASSUME TypeOK, Living, OneReason, Unhurried, [Next]_vars
        PROVE  Contract!ContractNext \/ UNCHANGED contractState
    <3>1. late \in BOOLEAN
      BY <2>1 DEF TypeOK
    <3> QED
      BY <2>1, <3>1, AroundRefines, WaitsRefine, EndRefines DEF Next, Agent
  <2> QED
    BY <2>1 DEF Contract!contractVars, contractState, Process, Tries, Way
<1> QED
  BY <1>1, <1>2, TypeCorrect, LivingInductive, CutOrTimedOut, UnhurriedInductive, PTL
  DEF Spec, ImplementsContract, Contract!ContractSpec
=============================================================================
