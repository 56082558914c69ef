--------------------------- MODULE CliTranscripts ---------------------------
(***************************************************************************)
(* The trajectory that codex_cli, opencode and copilot_cli rebuild of an   *)
(* attempt: codex from the session file of the thread and those of its     *)
(* subagents, opencode from its database, copilot from the stream itself;  *)
(* then the skill or tool that the stream reader detected is put in where  *)
(* the record misses it.                                                   *)
(*                                                                         *)
(* A turn has blocks (texts and tool calls) and skill invocations; a call  *)
(* that started a subagent holds the subagent's turn.  Times, tokens and   *)
(* texts are left out.                                                     *)
(***************************************************************************)
EXTENDS CliStreams, SequencesExt

NoTurn == [role |-> "none", blocks |-> <<>>, skills |-> <<>>]

Block(tool, name, id, status) ==
    [tool |-> tool, name |-> name, id |-> id, status |-> status, sub |-> NoTurn]
Text == Block("text", "none", 0, "ok")
IsCall(b) == b.tool # "text"

(* A SkillInvocation: its skill, its trigger_kind and what triggered it.     *)
Invocation(skill, kind, id) == [skill |-> skill, kind |-> kind, id |-> id]

Turn(role, blocks, skills) == [role |-> role, blocks |-> blocks, skills |-> skills]
UserTurn == Turn("user", <<Text>>, <<>>)
Assistants(turns) == {i \in DOMAIN turns : turns[i].role = "assistant"}
First(S) == CHOOSE i \in S : \A j \in S : i <= j
Last_(S) == CHOOSE i \in S : \A j \in S : i >= j

(* The elements of a sequence at some of its indices, in their order.        *)
Kept(s, I) ==
    LET kept[n \in 0..Len(s)] ==
            IF n = 0 THEN <<>>
            ELSE IF n \in I THEN Append(kept[n - 1], s[n])
            ELSE kept[n - 1]
    IN  kept[Len(s)]

-----------------------------------------------------------------------------
(* trajectory_walk.                                                          *)

(* walk_turns: the skill invocations of a turn and of its subagents.         *)
TurnSkills(t) ==
    ToSet(t.skills) \cup UNION {ToSet(t.blocks[j].sub.skills) : j \in DOMAIN t.blocks}
Skills(turns) == UNION {TurnSkills(turns[i]) : i \in DOMAIN turns}

(* iter_tool_calls: a call and those of the subagent that it started.        *)
BlockCalls(b) == IF IsCall(b) THEN {b} \cup {c \in ToSet(b.sub.blocks) : IsCall(c)} ELSE {}
TurnCalls(t) == UNION {BlockCalls(t.blocks[j]) : j \in DOMAIN t.blocks}
Calls(turns) == UNION {TurnCalls(turns[i]) : i \in DOMAIN turns}
IsMcp(b) == b.tool = "mcp"

(* The call is appended where the transcript already has it.                 *)
RecordDetectedTool_Mut(turns, name) == turns

(* record_detected_tool: the call that the attempt was cut on.               *)
RecordDetectedTool(turns, name) ==
    LET call   == Block("mcp", name, 0, "aborted")
        called == \E c \in Calls(turns) : IsMcp(c) /\ c.name = name
    IN  IF name = "none" \/ called THEN turns
        ELSE IF Assistants(turns) = {} THEN Append(turns, Turn("assistant", <<call>>, <<>>))
        ELSE [turns EXCEPT ![Last_(Assistants(turns))].blocks = Append(@, call)]

-----------------------------------------------------------------------------
(* codex_cli.                                                                *)

(* _has_invocation: a skill counts once for each thing that triggered it.    *)
AddInvocation(invs, inv) ==
    IF \E i \in DOMAIN invs : invs[i].skill = inv.skill /\ invs[i].id = inv.id
    THEN invs
    ELSE Append(invs, inv)

AddInvocations(invs, more) ==
    LET with[n \in 0..Len(more)] ==
            IF n = 0 THEN invs ELSE AddInvocation(with[n - 1], more[n])
    IN  with[Len(more)]

(* complete_session_tool_call: an output without its call stands alone.      *)
CompleteCall(blocks, act) ==
    LET pending == {i \in DOMAIN blocks : IsCall(blocks[i]) /\ blocks[i].id = act.id}
    IN  IF pending = {} THEN Append(blocks, Block("result", "none", act.id, "ok"))
        ELSE [blocks EXCEPT ![First(pending)].status = "ok"]

(* _session_trajectory: one line of a session file into the assistant's      *)
(* turn.  A line "user" is the prompt.                                       *)
CodexLine(turn, act) ==
    CASE act.do = "inject" ->
            [turn EXCEPT !.skills =
                AddInvocation(@, Invocation(act.name, "explicit_skill", <<"none", 0>>))]
      [] act.do = "say"  -> [turn EXCEPT !.blocks = Append(@, Text)]
      [] act.do = "call" ->
            [turn EXCEPT !.blocks = Append(@, Block(act.tool, act.name, act.id, "aborted"))]
      [] act.do = "done" -> [turn EXCEPT !.blocks = CompleteCall(@, act)]
      [] OTHER -> turn

EmptyTurn == Turn("assistant", <<>>, <<>>)

(* The turn of the main agent, or of its subagents, line by line.            *)
CodexTurn(acts, who) ==
    LET turn[n \in 0..Len(acts)] ==
            IF n = 0 THEN EmptyTurn
            ELSE IF acts[n].by = who THEN CodexLine(turn[n - 1], acts[n])
            ELSE turn[n - 1]
    IN  turn[Len(acts)]

IsEmpty(turn) == turn.blocks = <<>> /\ turn.skills = <<>>

(* _skill_invocation_from_tool_call on every command of a session.           *)
SessionSkills(turn) ==
    LET Used(b) == Invocation(b.name, "skill_md_read", <<"call", b.id>>)
        uses == Kept(turn.blocks, {j \in DOMAIN turn.blocks : turn.blocks[j].tool = "skill"})
    IN  AddInvocations(turn.skills, [j \in DOMAIN uses |-> Used(uses[j])])

WithSessionSkills(turn) == [turn EXCEPT !.skills = SessionSkills(turn)]

Subagent(act) == act.by = "sub"
MainAgent(act) == act.by = "main"

(* _load_session_snapshot: the prompt, the turn, and the turns of subagents  *)
(* behind the calls that have told their threads.  The session file of a     *)
(* subagent that is missing fails it.                                        *)
CodexSession(acts, saved) ==
    LET turn  == CodexTurn(acts, "main")
        child == WithSessionSkills(CodexTurn(acts, "sub"))
        Attach(b) == IF b.tool = "task" /\ b.status = "ok" THEN [b EXCEPT !.sub = child] ELSE b
        full  == WithSessionSkills([turn EXCEPT !.blocks = [i \in DOMAIN @ |-> Attach(@[i])]])
    IN  [ok    |-> saved \/ \A i \in DOMAIN turn.blocks :
                               turn.blocks[i].tool = "task" => turn.blocks[i].status # "ok",
         turns |-> IF IsEmpty(full) THEN <<UserTurn>> ELSE <<UserTurn, full>>]

(* _extract_stream_skill_invocations: the skills on the stream, then the     *)
(* one that cut the attempt.                                                 *)
StreamSkills(seen, skill) ==
    LET OnStream(act) ==
            act.tool = "skill" /\ act.do \in {"call", "done"} /\ MainAgent(act)
        Used(act) == Invocation(act.name, "skill_md_read", <<"item", act.id>>)
        uses == Kept(seen, {i \in DOMAIN seen : OnStream(seen[i])})
        invs == AddInvocations(<<>>, [i \in DOMAIN uses |-> Used(uses[i])])
        last == {i \in DOMAIN invs : invs[i].skill = skill}
    IN  IF skill = "none" \/ last # {} THEN invs
        ELSE Append(invs, Invocation(skill, "explicit_skill", <<"none", 0>>))

(* _attach_skill_invocations: those the session misses go to the first       *)
(* assistant turn; without one they are lost.                                *)
CodexAttach(turns, invs) ==
    LET Missing(inv) == \A known \in Skills(turns) :
                            known.skill # inv.skill \/ known.kind # inv.kind
        missing == Kept(invs, {i \in DOMAIN invs : Missing(invs[i])})
    IN  IF Assistants(turns) = {} THEN turns
        ELSE [turns EXCEPT ![First(Assistants(turns))].skills = @ \o missing]

(* build_run_result, of what the session file has; an attempt that was cut   *)
(* may do with the prompt and what the stream detected.                      *)
CodexBuild(named, file, saved, seen, skill, tool, cut) ==
    LET session == CodexSession(file, saved)
        invs    == StreamSkills(seen, skill)
    IN  IF named /\ file # <<>> /\ session.ok
        THEN [ok |-> TRUE, turns |-> CodexAttach(RecordDetectedTool(session.turns, tool), invs)]
        ELSE [ok |-> cut,
              turns |-> RecordDetectedTool(<<UserTurn, Turn("assistant", <<>>, invs)>>, tool)]

-----------------------------------------------------------------------------
(* opencode and copilot_cli group what the main agent did into turns.        *)

(* Acts up to each end of a turn, the empty groups left out.                 *)
TurnActs(acts) ==
    LET Stops(i) == MainAgent(acts[i]) /\ acts[i].do = "stop"
        Since(i, end) == MainAgent(acts[i]) /\ \A j \in i..(end - 1) : ~Stops(j)
        groups == [end \in 1..(Len(acts) + 1) |->
                      IF end > Len(acts) \/ Stops(end)
                      THEN Kept(acts, {i \in 1..(end - 1) : Since(i, end)})
                      ELSE <<>>]
    IN  Kept(groups, {i \in DOMAIN groups : groups[i] # <<>>})

Ended(acts, id) == \E i \in DOMAIN acts : acts[i].do = "done" /\ acts[i].id = id

SkillBlocks(turns) ==
    LET Uses(t) == {j \in DOMAIN t.blocks : t.role = "assistant" /\ t.blocks[j].tool = "skill"}
        Inv(b) == Invocation(b.name, "skill_tool", <<"call", b.id>>)
        blocks == FlattenSeq([i \in DOMAIN turns |-> Kept(turns[i].blocks, Uses(turns[i]))])
    IN  [i \in DOMAIN blocks |-> Inv(blocks[i])]

Holding(turns, inv) ==
    {i \in Assistants(turns) : \E j \in DOMAIN turns[i].blocks :
        IsCall(turns[i].blocks[j]) /\ <<"call", turns[i].blocks[j].id>> = inv.id}

AddSkill(turns, i, inv) == [turns EXCEPT ![i].skills = Append(@, inv)]

(* opencode: _tool_call_from_event on the parts of one message, a part being *)
(* updated in place when its call ends; _AssistantTurnBuilder.               *)
OpenCodeTurn(acts, child, who) ==
    LET Status(act) == IF Ended(acts, act.id) THEN "ok" ELSE "aborted"
        Sub(act) == IF act.tool = "task" /\ ~IsEmpty(child) THEN child ELSE NoTurn
        Made(act) == IF act.do = "say" THEN Text
                     ELSE [Block(act.tool, act.name, act.id, Status(act)) EXCEPT !.sub = Sub(act)]
        parts == Kept(acts, {i \in DOMAIN acts : acts[i].by = who /\ acts[i].do \in {"say", "call"}})
    IN  Turn("assistant", [i \in DOMAIN parts |-> Made(parts[i])], <<>>)

(* Calls of subagents are in the trajectory, their skills are not noted.     *)
OpenCodeChild(acts) == OpenCodeTurn(acts, EmptyTurn, "sub")

OpenCodeTrajectory(acts) ==
    LET groups == TurnActs(acts)
        turns == [i \in DOMAIN groups |-> OpenCodeTurn(groups[i], OpenCodeChild(acts), "main")]
    IN  <<UserTurn>> \o Kept(turns, {i \in DOMAIN turns : ~IsEmpty(turns[i])})

(* _attach_skill_invocations: an invocation goes to the turn of its call, or *)
(* to the last turn of the assistant, made for it where there is none.       *)
OpenCodeAttach(turns, inv) ==
    CASE Holding(turns, inv) # {}  -> AddSkill(turns, First(Holding(turns, inv)), inv)
      [] Holding(turns, inv) = {} /\ Assistants(turns) # {} ->
            AddSkill(turns, Last_(Assistants(turns)), inv)
      [] OTHER -> Append(turns, Turn("assistant", <<>>, <<inv>>))

OpenCodeAttachAll(turns, invs) ==
    LET with[n \in 0..Len(invs)] ==
            IF n = 0 THEN turns ELSE OpenCodeAttach(with[n - 1], invs[n])
    IN  with[Len(invs)]

(* The skill that cut the attempt is left out.                               *)
OpenCodeBuild_Mut(acts, skill, tool) ==
    LET turns == OpenCodeTrajectory(acts)
    IN  [ok |-> TRUE, turns |-> OpenCodeAttachAll(turns, SkillBlocks(turns))]

(* build_run_result, of the parts of the session that are in the database.   *)
OpenCodeBuild(acts, skill, tool) ==
    LET turns == RecordDetectedTool(OpenCodeTrajectory(acts), tool)
        known == SkillBlocks(turns)
        invs  == IF skill = "none" \/ \E i \in DOMAIN known : known[i].skill = skill
                 THEN known
                 ELSE Append(known, Invocation(skill, "skill_tool", <<"none", 0>>))
    IN  [ok |-> TRUE, turns |-> OpenCodeAttachAll(turns, invs)]

(* copilot: texts, then the calls that ended, then those that are pending.   *)
CopilotTurn(acts) ==
    LET said == {i \in DOMAIN acts : acts[i].do = "say"}
        over == {i \in DOMAIN acts : acts[i].do = "done" /\ \E j \in DOMAIN acts :
                                        acts[j].do = "call" /\ acts[j].id = acts[i].id}
        open == {i \in DOMAIN acts : acts[i].do = "call" /\ ~Ended(acts, acts[i].id)}
        Call(act) == Block(act.tool, act.name, act.id, "ok")
        calls     == Kept(acts, over) \o Kept(acts, open)
    IN  Turn("assistant",
             (IF said = {} THEN <<>> ELSE <<Text>>) \o [i \in DOMAIN calls |-> Call(calls[i])],
             <<>>)

(* What subagents announce is skipped.                                       *)
CopilotTrajectory(seen) ==
    LET groups == TurnActs(seen)
        turns == [i \in DOMAIN groups |-> CopilotTurn(groups[i])]
    IN  <<UserTurn>> \o Kept(turns, {i \in DOMAIN turns : ~IsEmpty(turns[i])})

CopilotAttach(turns, inv) ==
    CASE Holding(turns, inv) # {} -> AddSkill(turns, First(Holding(turns, inv)), inv)
      [] Holding(turns, inv) = {} /\ Assistants(turns) # {} ->
            AddSkill(turns, First(Assistants(turns)), inv)
      [] OTHER -> turns

CopilotAttachAll(turns, invs) ==
    LET with[n \in 0..Len(invs)] ==
            IF n = 0 THEN turns ELSE CopilotAttach(with[n - 1], invs[n])
    IN  with[Len(invs)]

(* build_run_result, of the stream: a skill detected there is the only one.  *)
CopilotBuild(seen, skill) ==
    LET turns == CopilotTrajectory(seen)
        Calls_(i) == seen[i].do = "call" /\ seen[i].tool = "skill" /\ seen[i].name = skill
        by    == {i \in DOMAIN seen : Calls_(i)}
        invs  == IF skill = "none" THEN SkillBlocks(turns)
                 ELSE <<Invocation(skill, "skill_tool", <<"call", seen[Last_(by)].id>>)>>
    IN  [ok |-> TRUE, turns |-> CopilotAttachAll(turns, invs)]

-----------------------------------------------------------------------------
(* The calls that metrics.n_tool_calls counts, of which it is asked whether  *)
(* there are any: copilot and opencode leave the skill tool out, and         *)
(* copilot's trajectory has no subagents.                                    *)
CodexToolCalls(turns) == Calls(turns)
OpenCodeToolCalls(turns) == {c \in Calls(turns) : c.tool # "skill"}
CopilotToolCalls(turns) == {c \in Calls(turns) : c.tool # "skill"}

ToolCalls(provider, turns) ==
    CASE provider = "codex_cli"   -> CodexToolCalls(turns)
      [] provider = "opencode"    -> OpenCodeToolCalls(turns)
      [] provider = "copilot_cli" -> CopilotToolCalls(turns)
=============================================================================
