----------------------------- MODULE CliStreams -----------------------------
(***************************************************************************)
(* What codex_cli, opencode and copilot_cli make of the lines their agents *)
(* write to stdout: the dispatch of one line into a StreamState.           *)
(*                                                                         *)
(* An act is something the agent does: it says hello, calls a tool, a call *)
(* ends, it says something, it ends its turn or says goodbye, or (codex)   *)
(* its user selects a skill by name.  Each CLI reports acts in its own     *)
(* way, and each parser takes other acts as decisive.                      *)
(***************************************************************************)
EXTENDS Naturals, Sequences

Mode == {"execute", "skill+", "skill-", "tool+", "tool-"}
Negative(mode) == mode \in {"skill-", "tool-"}
SkillTarget(mode) == mode \in {"skill+", "skill-"}
ToolTarget(mode) == mode \in {"tool+", "tool-"}

Provider == {"codex_cli", "opencode", "copilot_cli"}

(* A "skill" call is a use of the skill tool; of codex, which has none, a    *)
(* command that reads the SKILL.md of a skill.  "read" is a command or tool  *)
(* that reads another file, "task" starts a subagent.                        *)
Tool == {"skill", "mcp", "read", "native", "task"}
Name == {"target", "sibling"}
By == {"main", "sub"}
Act == [do   : {"hello", "call", "done", "say", "stop", "bye", "inject"},
        tool : Tool \cup {"none"},
        name : Name \cup {"none"},
        by   : By,
        id   : Nat]

MakeAct(do, tool, name, by, id) ==
    [do |-> do, tool |-> tool, name |-> name, by |-> by, id |-> id]

(* The fields of a StreamState that decide anything.                         *)
StreamState ==
    [session : BOOLEAN,                 \* thread_id, session_id
     skill   : Name \cup {"none"},      \* detected_skill
     tool    : Name \cup {"none"},      \* detected_tool
     kill    : BOOLEAN]                 \* kill_signal

FreshState == [session |-> FALSE, skill |-> "none", tool |-> "none", kill |-> FALSE]

(* settles_tool_trigger: a positive case is settled by any MCP tool.         *)
SettlesTool(mode, act) ==
    act.tool = "mcp" /\ (act.name = "target" \/ ~Negative(mode))

-----------------------------------------------------------------------------
(* Work that settles a negative skill case of codex: any command but one     *)
(* that reads a file, a search, a change of files or an MCP call.            *)
CodexDecisive(act) == act.tool \in {"native", "mcp"}

(* codex: an item of a call is dispatched when it starts and when it ends.   *)
CodexDispatch(mode, s, act) ==
    LET item  == act.do \in {"call", "done"}
        fires == SkillTarget(mode) /\ item /\ act.tool = "skill"
        calls == ToolTarget(mode) /\ item /\ SettlesTool(mode, act)
    IN  [session |-> TRUE,
         skill   |-> IF fires THEN act.name ELSE s.skill,
         tool    |-> IF calls THEN act.name ELSE s.tool,
         kill    |-> \/ s.kill \/ fires \/ calls
                     \/ mode = "skill-" /\ item /\ CodexDecisive(act)
                     \/ mode = "skill-" /\ act.do = "stop" /\ s.skill = "none"]

(* opencode: a tool is reported once its call is over, and any tool but the  *)
(* skill tool settles a negative case.                                       *)
OpenCodeDispatch(mode, s, act) ==
    LET over  == act.do = "done"
        fires == SkillTarget(mode) /\ over /\ act.tool = "skill"
        calls == ToolTarget(mode) /\ over /\ SettlesTool(mode, act)
    IN  [session |-> TRUE,
         skill   |-> IF fires THEN act.name ELSE s.skill,
         tool    |-> IF calls THEN act.name ELSE s.tool,
         kill    |-> \/ s.kill \/ fires \/ calls
                     \/ mode = "skill-" /\ over
                     \/ mode = "skill-" /\ act.do = "stop" /\ s.skill = "none"]

(* copilot: calls are announced in messages, of subagents too; only the      *)
(* target skill counts, and any message settles a negative case.  A call     *)
(* that settles a tool case is not noted, and the session is named at last.  *)
CopilotDispatch(mode, s, act) ==
    LET message == act.do \in {"call", "say"}
        fires == /\ SkillTarget(mode) /\ act.do = "call" /\ act.tool = "skill"
                 /\ act.name = "target"
    IN  [session |-> s.session \/ act.do = "bye",
         skill   |-> IF fires THEN act.name ELSE s.skill,
         tool    |-> "none",
         kill    |-> \/ s.kill \/ fires
                     \/ ToolTarget(mode) /\ act.do = "call" /\ SettlesTool(mode, act)
                     \/ mode = "skill-" /\ (message \/ act.do = "stop")]

(* Neither a skill selected by name nor, but for copilot, what a subagent    *)
(* does is on the stream.                                                    *)
Streamed(provider, act) ==
    provider = "copilot_cli" \/ (act.by = "main" /\ act.do # "inject")

Dispatch(provider, mode, s, act) ==
    IF ~Streamed(provider, act) THEN s
    ELSE CASE provider = "codex_cli"   -> CodexDispatch(mode, s, act)
           [] provider = "opencode"    -> OpenCodeDispatch(mode, s, act)
           [] provider = "copilot_cli" -> CopilotDispatch(mode, s, act)
=============================================================================
